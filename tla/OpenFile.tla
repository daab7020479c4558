------------------------------- MODULE OpenFile -------------------------------
(***************************************************************************)
(* The frame's open file and the threads that find things in it            *)
(* (TotalPE/MainFrm.cpp).  The thread of the cross-references reads m_PE    *)
(* itself: it is cancelled and joined before the file goes.  The threads   *)
(* of the symbols and of the catalog signature have copies and are         *)
(* detached: what they post carries a generation, and an old one is        *)
(* dropped.  The decompiler, which reads m_PE too, is DecompilerSession.   *)
(*                                                                         *)
(* A handler of the frame runs to its end, but for the join it may wait    *)
(* in and the message box that LoadAnnotations shows when the names of the *)
(* file cannot be read, whose loop dispatches what was posted: the place   *)
(* `frame' is.  A thread of each kind posts once, so the messages are a    *)
(* set; those of different threads come in any order.                      *)
(***************************************************************************)
EXTENDS Naturals, FiniteSets

CONSTANT MaxOpens     \* bound: how many files are opened

ASSUME MaxOpensIsNat == MaxOpens \in Nat

VARIABLES
  window,             \* the frame's window exists
  frame,              \* "loop", or the handler that waits in CancelXrefs, or where in OpenPE it is
  file,               \* m_PE: the number of the file opened, or 0 (closed)
  opened,             \* the files opened
  boxed,              \* the box was shown as the open file was opened
  thread,             \* m_XrefThread, with its cancel flag, generation and file
  m_XrefGeneration,
  m_Xrefs,            \* the file the map is of, or 0 (empty)
  m_XrefsReady,
  m_AfterXrefs,       \* the files the actions that wait were asked for
  generation,         \* m_SymbolGeneration, m_CatalogGeneration
  result,             \* m_Symbols, m_Catalog: the file they are of, or 0 (none)
  loading,            \* the detached threads
  inbox               \* the messages posted to the frame

xrefVars == <<m_XrefGeneration, m_Xrefs, m_XrefsReady, m_AfterXrefs>>
loadVars == <<generation, result>>
vars == <<window, frame, file, opened, boxed, thread, xrefVars, loadVars, loading, inbox>>

Loads == {"symbols", "catalog"}
Kinds == Loads \cup {"xrefs"}
Places == {"none", "build", "check", "post", "ended"}    \* of the thread; "none": not joinable
Handlers == {"open", "close", "destroy"}
Opening == {"box", "start"}                               \* in OpenPE: in the box; at StartXrefs

NoThread == [at |-> "none", of |-> 0, gen |-> 0, cancel |-> FALSE, built |-> FALSE]

TypeOK ==
  /\ window \in BOOLEAN
  /\ frame \in {"loop"} \cup Handlers \cup Opening
  /\ file \in 0..MaxOpens
  /\ opened \in 0..MaxOpens
  /\ boxed \in BOOLEAN
  /\ thread \in [at : Places, of : 0..MaxOpens, gen : Nat, cancel : BOOLEAN, built : BOOLEAN]
  /\ m_XrefGeneration \in Nat
  /\ m_Xrefs \in 0..MaxOpens
  /\ m_XrefsReady \in BOOLEAN
  /\ m_AfterXrefs \in SUBSET (1..MaxOpens)
  /\ generation \in [Loads -> Nat]
  /\ result \in [Loads -> 0..MaxOpens]
  /\ loading \in SUBSET [kind : Loads, gen : Nat, of : 1..MaxOpens]
  /\ inbox \in SUBSET [kind : Kinds, gen : Nat, of : 0..MaxOpens]

Init ==
  /\ window = TRUE
  /\ frame = "loop"
  /\ file = 0
  /\ opened = 0
  /\ boxed = FALSE
  /\ thread = NoThread
  /\ m_XrefGeneration = 0
  /\ m_Xrefs = 0
  /\ m_XrefsReady = FALSE
  /\ m_AfterXrefs = {}
  /\ generation = [k \in Loads |-> 0]
  /\ result = [k \in Loads |-> 0]
  /\ loading = {}
  /\ inbox = {}

Idle == window /\ frame = "loop"

\* A loop dispatches what is posted: the frame's, or the box's (the window is disabled)
Dispatches == window /\ frame \in {"loop", "box"}

-----------------------------------------------------------------------------
(* CancelXrefs: the flag, the join, and what follows it *)

Joinable == thread.at # "none"

Joined == thread.at \in {"none", "ended"}

\* There is something to close (bound: closing nothing again only counts generations)
SomethingOpen == file # 0 \/ \E k \in Loads : result[k] # 0

\* the file is closed after the join
FileUntilJoined_Closed == file' = 0                           \* (mutant: before)
FileUntilJoined == UNCHANGED file

\* the handlers that close the file: up to the join
CancelBegin(handler) ==
  /\ Idle
  /\ handler = "open" => opened < MaxOpens \/ file # 0
  /\ handler = "close" => SomethingOpen
  /\ frame' = handler
  /\ thread' = [thread EXCEPT !.cancel = Joinable]
  /\ FileUntilJoined
  /\ UNCHANGED <<window, opened, boxed, xrefVars, loadVars, loading, inbox>>

NextGeneration(g) == g + 1

ClearAfter_Kept == UNCHANGED m_AfterXrefs                     \* (mutant: what was asked of the file before is left)
ClearAfter == m_AfterXrefs' = {}

\* after the join
Cleared ==
  /\ m_Xrefs' = 0
  /\ m_XrefsReady' = FALSE
  /\ ClearAfter

\* StartXrefs(f), which calls CancelXrefs, with g generations before it
StartThread(f, g) ==
  /\ m_XrefGeneration' = NextGeneration(g) + 1
  /\ thread' = [at |-> "build", of |-> f, gen |-> NextGeneration(g) + 1, cancel |-> FALSE, built |-> FALSE]

-----------------------------------------------------------------------------
(* Opening and closing *)

\* StartSymbolLoad, StartCatalogLookup: a thread of its own for the next generation
NewLoad(k) == [kind |-> k, gen |-> generation[k] + 1, of |-> file]

\* OpenPE, when the file can be opened: up to LoadAnnotations, with its box or without
OpenReads ==
  /\ frame = "open"
  /\ opened < MaxOpens
  /\ Joined
  /\ frame' \in Opening
  /\ boxed' = (frame' = "box")
  /\ opened' = opened + 1
  /\ file' = opened + 1
  /\ Cleared
  /\ m_XrefGeneration' = NextGeneration(m_XrefGeneration)
  /\ thread' = NoThread
  /\ result' = [result EXCEPT !["symbols"] = 0]                \* m_Symbols.Close()
  /\ UNCHANGED <<window, generation, loading, inbox>>

\* The box is closed; StartXrefs cancels what a view asked for meanwhile
BoxCloses ==
  /\ frame = "box"
  /\ frame' = "start"
  /\ thread' = [thread EXCEPT !.cancel = Joinable]
  /\ UNCHANGED <<window, file, opened, boxed, xrefVars, loadVars, loading, inbox>>

\* The rest of OpenPE.  The catalogs are not asked of a file with a signature.
OpenEnds ==
  /\ frame = "start"
  /\ Joined
  /\ frame' = "loop"
  /\ Cleared
  /\ StartThread(file, m_XrefGeneration)
  /\ generation' = [k \in Loads |-> generation[k] + 1]
  /\ result' = [result EXCEPT !["catalog"] = 0]                \* m_Catalog.reset()
  /\ \E started \in {Loads, {"symbols"}} : loading' = loading \cup {NewLoad(k) : k \in started}
  /\ UNCHANGED <<window, file, opened, boxed, inbox>>

\* OpenPE, when it cannot: the file before is closed, and what was found in it is left (with a
\* message box, whose loop dispatches what was posted)
OpenFails ==
  /\ frame = "open"
  /\ file # 0              \* (bound: failing over no file only counts generations)
  /\ Joined
  /\ frame' = "loop"
  /\ file' = 0
  /\ boxed' = FALSE
  /\ Cleared
  /\ m_XrefGeneration' = NextGeneration(m_XrefGeneration)
  /\ thread' = NoThread
  /\ UNCHANGED <<window, opened, loadVars, loading, inbox>>

\* OnFileClose; ResetFileState, before a library, an object file or an ELF file is shown
CloseEnds ==
  /\ frame = "close"
  /\ Joined
  /\ frame' = "loop"
  /\ file' = 0
  /\ boxed' = FALSE
  /\ Cleared
  /\ m_XrefGeneration' = NextGeneration(m_XrefGeneration)
  /\ thread' = NoThread
  /\ generation' = [k \in Loads |-> generation[k] + 1]
  /\ result' = [k \in Loads |-> 0]
  /\ UNCHANGED <<window, opened, loading, inbox>>

\* OnDestroy: what is posted to the window is gone with it
DestroyEnds ==
  /\ frame = "destroy"
  /\ Joined
  /\ frame' = "loop"
  /\ window' = FALSE
  /\ Cleared
  /\ m_XrefGeneration' = NextGeneration(m_XrefGeneration)
  /\ thread' = NoThread
  /\ inbox' = {}
  /\ UNCHANGED <<file, opened, boxed, loadVars, loading>>

-----------------------------------------------------------------------------
(* The cross-references *)

\* GetXrefs: they are started if they are not under way
MustStart == ~m_XrefsReady /\ ~Joinable

\* ShowXrefs, ShowCallGraph, ShowFlowGraph: if (!m_PE) return false
MayAsk_Always == TRUE                                         \* (mutant)
MayAsk == file # 0

\* WithXrefs: at once when they are there; else the action waits for them
WithXrefs ==
  /\ Idle
  /\ MayAsk
  /\ ~m_XrefsReady
  /\ IF MustStart
     THEN StartThread(file, m_XrefGeneration) /\ m_AfterXrefs' = {file}
     ELSE m_AfterXrefs' = m_AfterXrefs \cup {file} /\ UNCHANGED <<thread, m_XrefGeneration>>
  /\ UNCHANGED <<window, frame, file, opened, boxed, m_Xrefs, m_XrefsReady, loadVars, loading, inbox>>

\* XrefMap::Build ends (early when it is cancelled), with a map or without
BuildEnds ==
  /\ thread.at = "build"
  /\ \E built \in BOOLEAN :
       /\ built => ~thread.cancel
       /\ thread' = [thread EXCEPT !.at = "check", !.built = built]
  /\ UNCHANGED <<window, frame, file, opened, boxed, xrefVars, loadVars, loading, inbox>>

\* if (*cancel) return
CheckCancel ==
  /\ thread.at = "check"
  /\ thread' = [thread EXCEPT !.at = IF thread.cancel THEN "ended" ELSE "post"]
  /\ UNCHANGED <<window, frame, file, opened, boxed, xrefVars, loadVars, loading, inbox>>

\* PostMessage does not wait for the frame
Posts_Sent == Idle                                            \* (mutant: SendMessage)
Posts == TRUE

\* WM_XREFS_BUILT: cancelled or not, by now
PostXrefs ==
  /\ thread.at = "post"
  /\ Posts
  /\ inbox' = inbox \cup {[kind |-> "xrefs", gen |-> thread.gen, of |-> IF thread.built THEN thread.of ELSE 0]}
  /\ thread' = [thread EXCEPT !.at = "ended"]
  /\ UNCHANGED <<window, frame, file, opened, boxed, xrefVars, loadVars, loading>>

\* The handler takes a result of this generation
XrefsTaken_WithMap(m) == m.gen = m_XrefGeneration /\ m.of # 0  \* (mutant: without a map they are not ready)
XrefsTaken(m) == m.gen = m_XrefGeneration

RunActions_Not == UNCHANGED m_AfterXrefs                      \* (mutant: what waited is forgotten)
RunActions == m_AfterXrefs' = {}

OnXrefsBuilt(m) ==
  /\ Dispatches
  /\ m \in inbox /\ m.kind = "xrefs"
  /\ inbox' = inbox \ {m}
  /\ IF XrefsTaken(m)
     THEN /\ Joined                         \* (join: the thread has posted, and ends)
          /\ thread' = NoThread
          /\ m_Xrefs' = m.of
          /\ m_XrefsReady' = TRUE
          /\ RunActions
     ELSE UNCHANGED <<thread, m_Xrefs, m_XrefsReady, m_AfterXrefs>>
  /\ UNCHANGED <<window, frame, file, opened, boxed, m_XrefGeneration, loadVars, loading>>

-----------------------------------------------------------------------------
(* The symbols and the catalog signature *)

\* A detached thread ends: with a result, posted if the window is there, or without (it posts
\* one too, that changes nothing)
LoadEnds(l) ==
  /\ l \in loading
  /\ loading' = loading \ {l}
  /\ inbox' \in {inbox, IF window THEN inbox \cup {l} ELSE inbox}
  /\ UNCHANGED <<window, frame, file, opened, boxed, thread, xrefVars, loadVars>>

LoadTaken_Open(m) == file # 0                                 \* (mutant: of any file)
LoadTaken(m) == m.gen = generation[m.kind] /\ file # 0

\* GetXrefs, of a view that is created again when the symbols are there (if they were not cancelled, they are started)
ViewsAsk ==
  \/ MustStart /\ StartThread(file, m_XrefGeneration)
  \/ UNCHANGED <<thread, m_XrefGeneration>>

\* OnSymbolsLoaded (and RefreshViews), OnCatalogFound
OnLoaded(m) ==
  /\ Dispatches
  /\ m \in inbox /\ m.kind \in Loads
  /\ inbox' = inbox \ {m}
  /\ IF LoadTaken(m)
     THEN /\ result' = [result EXCEPT ![m.kind] = m.of]
          /\ IF m.kind = "symbols" THEN ViewsAsk ELSE UNCHANGED <<thread, m_XrefGeneration>>
     ELSE UNCHANGED <<result, thread, m_XrefGeneration>>
  /\ UNCHANGED <<window, frame, file, opened, boxed, m_Xrefs, m_XrefsReady, m_AfterXrefs, generation, loading>>

-----------------------------------------------------------------------------
\* The frame waits for the user
Waits == frame = "loop" /\ UNCHANGED vars

ThreadStep == BuildEnds \/ CheckCancel \/ PostXrefs
HandlerEnds == OpenReads \/ OpenEnds \/ OpenFails \/ CloseEnds \/ DestroyEnds
Dispatch == \E m \in inbox : OnXrefsBuilt(m) \/ OnLoaded(m)

Next ==
  \/ \E handler \in Handlers : CancelBegin(handler)
  \/ HandlerEnds \/ BoxCloses \/ WithXrefs \/ Dispatch
  \/ ThreadStep
  \/ \E l \in loading : LoadEnds(l)
  \/ Waits

Spec == Init /\ [][Next]_vars
\* The thread runs, a handler goes on after the join, and the loop dispatches what is posted.
Fairness == WF_vars(ThreadStep) /\ WF_vars(HandlerEnds) /\ WF_vars(Dispatch)
FairSpec == Spec /\ Fairness

-----------------------------------------------------------------------------
(* Properties *)

\* The thread of the cross-references reads m_PE without a lock: while it does, m_PE is the file
\* it was started for, and the frame is there.
ThreadReadsOpenFile == thread.at = "build" => window /\ file # 0 /\ file = thread.of

\* The cross-references, the symbols and the catalog signature are the open file's.  (After an
\* OpenPE that fails the symbols and the signature of the file before are left, over no file.
\* In the box the generations are those of the file before: see SymbolsAreOfOpenFile.)
ResultsAreOfOpenFile ==
  /\ m_Xrefs \in {0, file}
  /\ file # 0 /\ ~boxed => result["symbols"] \in {0, file}
  /\ file # 0 /\ frame \notin Opening => result["catalog"] \in {0, file}

\* What OnSymbolsLoaded says of symbols whose "file was closed or another one opened in the
\* meantime": they are dropped.  (m_SymbolGeneration changes after the box.)
SymbolsAreOfOpenFile == file # 0 => result["symbols"] \in {0, file}

\* What waits for the cross-references was asked of the file that is open.
AsksAreOfOpenFile == m_AfterXrefs \subseteq {file} \ {0}

\* What was found and what was asked for are of the file that is open, not of one before.
AllOfOpenFile == ResultsAreOfOpenFile /\ AsksAreOfOpenFile

\* While the file has no cross-references yet, they are on their way: a thread that is not
\* cancelled, or its message; and there is one, so that they are taken (and the actions run) once.
OnTheirWay == IF thread.at \in {"build", "check", "post"} /\ ~thread.cancel /\ thread.gen = m_XrefGeneration THEN 1 ELSE 0
PostedNow == {m \in inbox : m.kind = "xrefs" /\ m.gen = m_XrefGeneration}
XrefsComeOnce ==
  Idle => OnTheirWay + Cardinality(PostedNow) = IF file # 0 /\ ~m_XrefsReady THEN 1 ELSE 0

\* What is found belongs to the file shown, stays until it is closed, and goes with it.  (A file
\* is shown when OpenPE is over.)
Shown == IF window /\ frame \notin Opening THEN file ELSE 0
Found == {k \in Kinds : Shown # 0 /\ Shown = IF k = "xrefs" THEN m_Xrefs ELSE result[k]}
Results == INSTANCE FileResults WITH file <- Shown, found <- Found
ImplementsFileResults == Results!ResultsSpec

\* An action that waits for the cross-references is run, or its file is closed; so it does not wait for ever.
AsksAreAnswered == m_AfterXrefs # {} ~> m_AfterXrefs = {}

\* A handler that closes the file does not wait in the join for ever.
HandlersReturn == frame \notin {"loop", "box"} ~> frame \in {"loop", "box"}

\* Neither what the user asked for nor the window waits for a thread for ever.
NothingWaitsForEver == AsksAreAnswered /\ HandlersReturn
=============================================================================
