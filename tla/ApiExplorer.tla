----------------------------- MODULE ApiExplorer -----------------------------
(***************************************************************************)
(* The metadata of the Windows API explorer (Win32ApiExplorer/MainFrm.cpp, *)
(* Win32MetaCore/MetadataPackages.cpp): chosen, looked for on nuget.org    *)
(* and installed in a folder of its version, on threads, while the window  *)
(* goes on; read once, as the application starts; and kept, with the other *)
(* settings, in the registry, by each process as it ends or starts another.*)
(*                                                                         *)
(* A process maps the metadata it read until it ends, and a file that is   *)
(* mapped cannot be written.  The boxes of a window are nested: the newest *)
(* is answered first, and their loops dispatch what the threads post.      *)
(***************************************************************************)
EXTENDS Naturals, Sequences, SequencesExt

CONSTANTS
  Explorers,          \* the processes
  Versions,           \* of the metadata on nuget.org: each has its folder
  Default, Other,     \* the folder of the application, and one of the user's
  MaxChecks           \* bound: how often nuget.org is asked

ASSUME MaxChecksIsNat == MaxChecks \in Nat
ASSUME FoldersDiffer == Default \notin Versions /\ Other \notin Versions

VARIABLES
  file,               \* Windows.Win32.winmd in the folder of each version
  doubtful,           \* (the versions of which a whole file was opened to be written again, that two
                      \* threads wrote at once, or whose file was closed with an error nobody saw)
  saved,              \* the settings in the registry
  settings,           \* those of each process
  runs,               \* how far each process is
  uses,               \* the folder whose metadata it maps, if any
  m_MetadataBusy,
  thread,             \* what the thread of each process does
  message,            \* what it posted
  boxes,              \* the message boxes, the newest last
  checks

explorerVars == <<file, doubtful, saved, settings, runs, uses, m_MetadataBusy, thread, message, boxes, checks>>

Found == [version : Versions, wdk : BOOLEAN]
Settings == [folder : Versions \cup {Default, Other}, known : SUBSET Found]
NoThread == [does |-> "nothing"]
NoMessage == [is |-> "none"]

ExplorerInit ==
  /\ file = [v \in Versions |-> "none"]
  /\ doubtful = {}
  /\ saved = [folder |-> Default, known |-> {}]
  /\ settings = [p \in Explorers |-> saved]
  /\ runs = [p \in Explorers |-> "not"]
  /\ uses = [p \in Explorers |-> {}]
  /\ m_MetadataBusy = [p \in Explorers |-> FALSE]
  /\ thread = [p \in Explorers |-> NoThread]
  /\ message = [p \in Explorers |-> NoMessage]
  /\ boxes = [p \in Explorers |-> <<>>]
  /\ checks = 0

metadataVars == <<m_MetadataBusy, thread, message, boxes, checks>>

-----------------------------------------------------------------------------
(* The application *)

\* LoadFromKey, SetMetadataFolder: the folder chosen, if the file is there, else the default
StartExplorer(p) ==
  /\ runs[p] = "not"
  /\ runs' = [runs EXCEPT ![p] = "loads"]
  /\ settings' = [settings EXCEPT ![p] = saved]
  /\ UNCHANGED <<file, doubtful, saved, uses, metadataVars>>

FolderRead(p) ==
  LET folder == settings[p].folder
  IN IF folder \in Versions /\ file[folder] = "none" THEN Default ELSE folder

\* The loader, OnLoaded: a file that is cut, or being written, is not read; the window closes
OnLoaded(p) ==
  /\ runs[p] = "loads"
  /\ LET folder == FolderRead(p)
     IN IF folder \in Versions /\ file[folder] = "cut"
        THEN runs' = [runs EXCEPT ![p] = "closes"] /\ UNCHANGED uses
        ELSE runs' = [runs EXCEPT ![p] = "shows"] /\ uses' = [uses EXCEPT ![p] = {folder}]
  /\ UNCHANGED <<file, doubtful, saved, settings, metadataVars>>

ProcessEnds(p) ==
  /\ runs' = [runs EXCEPT ![p] = "not"]
  /\ uses' = [uses EXCEPT ![p] = {}]
  /\ m_MetadataBusy' = [m_MetadataBusy EXCEPT ![p] = FALSE]
  /\ thread' = [thread EXCEPT ![p] = NoThread]
  /\ message' = [message EXCEPT ![p] = NoMessage]
  /\ boxes' = [boxes EXCEPT ![p] = <<>>]
  /\ UNCHANGED <<file, doubtful, settings, checks>>

\* The user closes the window (while the metadata is loaded, too), or WM_CLOSE was posted:
\* settings.Save()
CloseExplorer(p) ==
  /\ runs[p] \in {"loads", "closes"} \/ (runs[p] = "shows" /\ boxes[p] = <<>>)
  /\ saved' = settings[p]
  /\ ProcessEnds(p)

\* The process is ended, or the computer stops
CrashExplorer(p) ==
  /\ runs[p] # "not"
  /\ ProcessEnds(p)
  /\ UNCHANGED saved

-----------------------------------------------------------------------------
(* The commands: while no box is shown *)

MayCommand(p) == runs[p] = "shows" /\ boxes[p] = <<>>
Opens(p, box) == boxes' = [boxes EXCEPT ![p] = Append(@, box)]
Chosen(p, folder, known) == settings' = [settings EXCEPT ![p] = [folder |-> folder, known |-> known]]

\* OnMetadataFolder: the dialog, and its answer
OnMetadataFolder(p) ==
  /\ MayCommand(p)
  /\ Opens(p, [asks |-> "folder"])
  /\ UNCHANGED <<file, doubtful, saved, settings, runs, uses, m_MetadataBusy, thread, message, checks>>

OnDefaultMetadata(p) ==
  /\ MayCommand(p) /\ settings[p].folder # Default
  /\ Chosen(p, Default, {})
  /\ Opens(p, [asks |-> "restart"])
  /\ UNCHANGED <<file, doubtful, saved, runs, uses, m_MetadataBusy, thread, message, checks>>

OnCheckMetadata(p) ==
  /\ MayCommand(p) /\ ~m_MetadataBusy[p]
  /\ checks < MaxChecks
  /\ checks' = checks + 1
  /\ m_MetadataBusy' = [m_MetadataBusy EXCEPT ![p] = TRUE]
  /\ thread' = [thread EXCEPT ![p] = [does |-> "checks"]]
  /\ UNCHANGED <<file, doubtful, saved, settings, runs, uses, message, boxes>>

-----------------------------------------------------------------------------
(* The threads *)

Ends(p, m) ==
  /\ thread' = [thread EXCEPT ![p] = NoThread]
  /\ message' = [message EXCEPT ![p] = m]
Installed(p, ok) == Ends(p, [is |-> "installed", ok |-> ok, what |-> thread[p].what])

\* Versions: the newest of each package, or nothing
CheckEnds(p) ==
  /\ thread[p].does = "checks"
  /\ \E found \in {{}} \cup {{f} : f \in Found} : Ends(p, [is |-> "checked", found |-> found])
  /\ UNCHANGED <<file, doubtful, saved, settings, runs, uses, m_MetadataBusy, boxes, checks>>

Writes(p, v) == thread[p].does = "writes" /\ thread[p].what.version = v

\* Install: the package is downloaded; Extract opens the file, which cuts it, if no process maps it
ExtractOpens(p) ==
  /\ thread[p].does = "downloads"
  /\ LET v == thread[p].what.version
         alone == \A q \in Explorers : ~Writes(q, v)
     IN \/ Installed(p, FALSE) /\ UNCHANGED <<file, doubtful>>
        \/ /\ \A q \in Explorers : v \notin uses[q]
           /\ file' = [file EXCEPT ![v] = "cut"]
           /\ doubtful' = IF alone /\ file[v] # "whole" THEN doubtful ELSE doubtful \cup {v}
           /\ thread' = [q \in Explorers |->
                           IF q = p THEN [does |-> "writes", what |-> thread[p].what, alone |-> alone]
                           ELSE IF Writes(q, v) THEN [thread[q] EXCEPT !.alone = FALSE] ELSE thread[q]]
           /\ UNCHANGED message
  /\ UNCHANGED <<saved, settings, runs, uses, m_MetadataBusy, boxes, checks>>

\* It is written (two that write it at once may leave a part of it), then the WDK's is installed
\* in the same way; or one of them fails
WrittenOut(p) ==
  /\ \E f \in {"cut", "whole"} :
       /\ thread[p].alone => f = "whole"
       /\ file' = [file EXCEPT ![thread[p].what.version] = f]
  /\ UNCHANGED doubtful

\* The last part is written as the stream is closed: that it cannot be is not seen
CutAtClose(p) == doubtful' = doubtful \cup {thread[p].what.version} /\ UNCHANGED file

ExtractEnds(p) ==
  /\ thread[p].does = "writes"
  /\ \/ /\ WrittenOut(p) \/ CutAtClose(p)
        /\ \E ok \in BOOLEAN : (ok \/ thread[p].what.wdk) /\ Installed(p, ok)
     \/ Installed(p, FALSE) /\ UNCHANGED <<file, doubtful>>
  /\ UNCHANGED <<saved, settings, runs, uses, m_MetadataBusy, boxes, checks>>

-----------------------------------------------------------------------------
(* The messages: also in the loop of a box *)

Taken(p, is) ==
  /\ runs[p] \in {"shows", "closes"}
  /\ message[p].is = is
  /\ message' = [message EXCEPT ![p] = NoMessage]
  /\ m_MetadataBusy' = [m_MetadataBusy EXCEPT ![p] = FALSE]
  /\ UNCHANGED <<file, doubtful, saved, runs, uses, thread, checks>>

\* OnMetadataChecked: it offers what was found, unless it is what is used
OnMetadataChecked(p) ==
  /\ Taken(p, "checked")
  /\ IF message[p].found \in {{}, settings[p].known} THEN UNCHANGED boxes
     ELSE Opens(p, [asks |-> "install", found |-> message[p].found])
  /\ UNCHANGED settings

IsInstalled_Any(m) == TRUE                                     \* (mutant)
IsInstalled(m) == m.ok
OnMetadataInstalled(p) ==
  /\ Taken(p, "installed")
  /\ IF IsInstalled(message[p])
     THEN /\ Chosen(p, message[p].what.version, {message[p].what})
          /\ Opens(p, [asks |-> "restart"])
     ELSE UNCHANGED <<settings, boxes>>

-----------------------------------------------------------------------------
(* The answers *)

Answer(p, asks) == boxes[p] # <<>> /\ Last(boxes[p]).asks = asks
BoxClosed(p) == boxes' = [boxes EXCEPT ![p] = Front(@)]

No(p) ==
  /\ boxes[p] # <<>>
  /\ BoxClosed(p)
  /\ UNCHANGED <<file, doubtful, saved, settings, runs, uses, m_MetadataBusy, thread, message, checks>>

\* A folder that has the file (none of the versions'): then AskRestart
FolderChosen(p) ==
  /\ Answer(p, "folder")
  /\ Chosen(p, Other, {})
  /\ boxes' = [boxes EXCEPT ![p] = Append(Front(@), [asks |-> "restart"])]
  /\ UNCHANGED <<file, doubtful, saved, runs, uses, m_MetadataBusy, thread, message, checks>>

Install(p) ==
  /\ Answer(p, "install")
  /\ BoxClosed(p)
  /\ m_MetadataBusy' = [m_MetadataBusy EXCEPT ![p] = TRUE]
  /\ \E found \in Last(boxes[p]).found : thread' = [thread EXCEPT ![p] = [does |-> "downloads", what |-> found]]
  /\ UNCHANGED <<file, doubtful, saved, settings, runs, uses, message, checks>>

\* AskRestart: the settings are saved, another process is started (StartExplorer), WM_CLOSE is posted
Restart(p) ==
  /\ Answer(p, "restart")
  /\ BoxClosed(p)
  /\ saved' = settings[p]
  /\ \/ runs' = [runs EXCEPT ![p] = "closes"]
     \/ UNCHANGED runs
  /\ UNCHANGED <<file, doubtful, settings, uses, m_MetadataBusy, thread, message, checks>>

ExplorerNext ==
  \E p \in Explorers :
    \/ StartExplorer(p) \/ OnLoaded(p) \/ CloseExplorer(p) \/ CrashExplorer(p)
    \/ OnMetadataFolder(p) \/ OnDefaultMetadata(p) \/ OnCheckMetadata(p)
    \/ CheckEnds(p) \/ ExtractOpens(p) \/ ExtractEnds(p)
    \/ OnMetadataChecked(p) \/ OnMetadataInstalled(p)
    \/ No(p) \/ FolderChosen(p) \/ Install(p) \/ Restart(p)

ExplorerSpec == ExplorerInit /\ [][ExplorerNext]_explorerVars

-----------------------------------------------------------------------------
(* Properties *)

ExplorerTypeOK ==
  /\ file \in [Versions -> {"none", "cut", "whole"}]
  /\ doubtful \subseteq Versions
  /\ saved \in Settings
  /\ settings \in [Explorers -> Settings]
  /\ runs \in [Explorers -> {"not", "loads", "shows", "closes"}]
  /\ uses \in [Explorers -> SUBSET (Versions \cup {Default, Other})]
  /\ m_MetadataBusy \in [Explorers -> BOOLEAN]
  /\ checks \in 0..MaxChecks

\* The metadata of the settings is read when the application starts, which closes if it cannot be
\* read: it is that of a version only when all of it was installed, and stays so, whichever process
\* ends, and whenever, unless that version is written again over its files, by two at once, or
\* with an error nobody saw.
ChosenIsWhole ==
  \A s \in {saved} \cup {settings[p] : p \in Explorers} :
    s.folder \in Versions => file[s.folder] = "whole" \/ s.folder \in doubtful
=============================================================================
