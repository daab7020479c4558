----------------------------- MODULE RecentFiles -----------------------------
(***************************************************************************)
(* The files opened last (TotalPE/RecentFilesManager.cpp): a list in the   *)
(* registry that the windows of all the processes change, each by reading  *)
(* it, changing what it read and writing it whole, with nothing that keeps *)
(* another process from writing in between.  As a process ends it writes   *)
(* all its settings, and the list is one of them.                          *)
(*                                                                         *)
(* The windows of a process share a thread, which reads and writes in one  *)
(* handler: only a message box comes before, in which other windows go on. *)
(* Paths that are the same in another case are one path.                   *)
(***************************************************************************)
EXTENDS Naturals, Sequences, SequencesExt, Sublists

CONSTANTS
  Processes,
  Paths,
  MaxFiles

ASSUME MaxFilesIsPositive == MaxFiles \in Nat \ {0}

VARIABLES
  value,        \* RecentFiles in the registry
  setting,      \* the setting of each process
  doing,        \* what each process does
  missing,        \* the paths a message box of the process says are no longer there
  forgets,      \* the path RemoveFile is called with
  overtaken     \* the processes that read value before another one wrote it

recentVars == <<value, setting, doing, missing, forgets, overtaken>>

Lists == {files \in BoundedSeq(Paths, MaxFiles) : IsInjective(files)}

RecentTypeOK ==
  /\ value \in Lists
  /\ setting \in [Processes -> Lists]
  /\ doing \in [Processes -> {"ended", "runs", "stores", "saves"}]
  /\ missing \in [Processes -> SUBSET Paths]
  /\ forgets \in [Processes -> SUBSET Paths]
  /\ overtaken \subseteq Processes

RecentInit ==
  /\ value = <<>>
  /\ setting = [p \in Processes |-> <<>>]
  /\ doing = [p \in Processes |-> "ended"]
  /\ missing = [p \in Processes |-> {}]
  /\ forgets = [p \in Processes |-> {}]
  /\ overtaken = {}

\* LoadFromKey
StartProcess(p) ==
  /\ doing[p] = "ended"
  /\ doing' = [doing EXCEPT ![p] = "runs"]
  /\ setting' = [setting EXCEPT ![p] = value]
  /\ UNCHANGED <<value, missing, forgets, overtaken>>

\* Files() was read, and the setting is what was made of it; it is written after
Reads(p, files, then) ==
  /\ doing[p] = "runs"
  /\ doing' = [doing EXCEPT ![p] = then]
  /\ setting' = [setting EXCEPT ![p] = files]
  /\ overtaken' = overtaken \ {p}
  /\ UNCHANGED value

Without(files, path) == Sublist(files, Paths \ {path})
First(files) == SubSeq(files, 1, IF Len(files) < MaxFiles THEN Len(files) ELSE MaxFiles)

\* OpenPE: path comes first, and the last ones go
AddFile(p, path) ==
  /\ Reads(p, First(<<path>> \o Without(value, path)), "stores")
  /\ UNCHANGED <<missing, forgets>>

\* OnRecentFile, of a path the menu showed that is not there any more
SaysItIsGone(p, path) ==
  /\ doing[p] = "runs"
  /\ missing' = [missing EXCEPT ![p] = @ \cup {path}]
  /\ UNCHANGED <<value, setting, doing, forgets, overtaken>>

\* The box is closed; another process may have removed it
RemoveFile(p, path) ==
  /\ path \in missing[p]
  /\ missing' = [missing EXCEPT ![p] = @ \ {path}]
  /\ \/ /\ path \in ToSet(value)
        /\ Reads(p, Without(value, path), "stores")
        /\ forgets' = [forgets EXCEPT ![p] = {path}]
     \/ /\ path \notin ToSet(value)
        /\ doing[p] = "runs"
        /\ UNCHANGED <<value, setting, doing, forgets, overtaken>>

\* wWinMain, after the message loop: settings.RecentFiles(RecentFilesManager::Files())
AsTheyAreNow_Not(p) == setting[p]                              \* (mutant)
AsTheyAreNow(p) == value
EndProcess(p) ==
  /\ missing[p] = {}
  /\ Reads(p, AsTheyAreNow(p), "saves")
  /\ UNCHANGED <<missing, forgets>>

\* SetMultiStringValue, of Store or of settings.Save()
Store(p) ==
  /\ doing[p] \in {"stores", "saves"}
  /\ value' = setting[p]
  /\ doing' = [doing EXCEPT ![p] = IF @ = "stores" THEN "runs" ELSE "ended"]
  /\ forgets' = [forgets EXCEPT ![p] = {}]
  /\ overtaken' = (overtaken \ {p}) \cup {q \in Processes \ {p} : doing[q] \in {"stores", "saves"}}
  /\ UNCHANGED <<setting, missing>>

RecentNext ==
  \E p \in Processes :
    \/ StartProcess(p) \/ EndProcess(p) \/ Store(p)
    \/ \E path \in Paths : AddFile(p, path) \/ SaysItIsGone(p, path) \/ RemoveFile(p, path)

RecentSpec == RecentInit /\ [][RecentNext]_recentVars

\* "Each window and each process adds to the same list": a path leaves it only because it was the
\* last of a full list, because a window found its file gone, or because the process that wrote had
\* read the list before another process wrote it.
OnlyStaleForgets ==
  [][\A path \in ToSet(value) \ ToSet(value') :
       \E p \in Processes :
         /\ doing[p] \in {"stores", "saves"} /\ doing'[p] # doing[p]
         /\ \/ p \in overtaken
            \/ path \in forgets[p]
            \/ Len(value) = MaxFiles /\ path = Last(value)]_recentVars
=============================================================================
