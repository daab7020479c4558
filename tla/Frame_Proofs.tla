---------------------------- MODULE Frame_Proofs ----------------------------
(***************************************************************************)
(* Proofs about two parts of the main window (MCFrame has them all;         *)
(* OpenFile_Proofs is about the third one).                                *)
(*                                                                         *)
(* DecompilerThread: its inductive invariant, for every set of work and any *)
(* number of posts, and that it implements SerialExecutor.                 *)
(*                                                                         *)
(* SearchDialogs, for any number of files, of changes by the user and of    *)
(* builds of the index: a valid index is of what is known, and the rows of  *)
(* the Search All list are of the index.  What makes both go through is     *)
(* that the index is only changed in two ways: it is built, of what the     *)
(* handler leaves, or it is dropped with the results.                      *)
(***************************************************************************)
EXTENDS DecompilerThread, SearchDialogs, TLAPS

-----------------------------------------------------------------------------
(* DecompilerThread *)
\* What ties the worker's place, the frame's place and the flags together.
Control ==
  /\ work # NoWork => worker = "run"
  /\ worker = "none" => m_Queue = <<>> /\ caller \in {"free", "joined"}
  /\ m_Done => worker = "exited"
  /\ worker = "exited" => m_Done
  /\ worker \in {"end", "exited"} => m_Stop /\ m_Queue = <<>>
  /\ m_Stop => caller \notin {"free", "notify"} /\ worker # "none"
  /\ worker # "none" /\ caller \notin {"free", "notify"} => m_Stop
  /\ caller \in {"woken", "joining"} => worker = "exited"
  /\ caller = "waiting" => worker # "exited"
  /\ caller = "joined" => worker \in {"none", "exited"}
  /\ NoLostWakeup

Inv == ThreadTypeOK /\ Control

\* The types hold in the initial state.
LEMMA InitTypeOK == ThreadInit => ThreadTypeOK
<1> SUFFICES ASSUME ThreadInit
             PROVE  ThreadTypeOK
  OBVIOUS
<1>1. m_Queue \in Seq(Work)
  BY DEF ThreadInit
<1>2. posts \in 0..MaxPosts
  BY MaxPostsIsNat DEF ThreadInit
<1>3. QED
  BY <1>1, <1>2 DEF ThreadInit, ThreadTypeOK, WorkerPlaces, FramePlaces

\* Each step keeps the types.
LEMMA NextTypeOK == ThreadTypeOK /\ [ThreadNext]_threadVars => ThreadTypeOK'
<1> SUFFICES ASSUME ThreadTypeOK, [ThreadNext]_threadVars
             PROVE  ThreadTypeOK'
  OBVIOUS
<1> USE DEF ThreadTypeOK, WorkerPlaces, FramePlaces
<1>1. ASSUME NEW w \in Work, Post(w)
      PROVE  ThreadTypeOK'
  <2>1. Append(m_Queue, w) \in Seq(Work)
    OBVIOUS
  <2>2. posts' \in 0..MaxPosts
    BY <1>1, MaxPostsIsNat DEF Post, Enqueue
  <2>3. QED
    BY <1>1, <2>1, <2>2 DEF Post, Enqueue
<1>2. CASE Notify
  BY <1>2 DEF Notify, WakeWorker
<1>3. CASE ShutdownStart
  BY <1>3 DEF ShutdownStart, WakeWorker
<1>4. CASE ShutdownWoken \/ ShutdownTimeout \/ ShutdownJoin
  BY <1>4 DEF ShutdownWoken, ShutdownTimeout, TimedOut, ShutdownJoin
<1>5. CASE Check
  <2>1. m_Queue # <<>> => Head(m_Queue) \in Work /\ Tail(m_Queue) \in Seq(Work)
    OBVIOUS
  <2>2. <<>> \in Seq(Work)
    OBVIOUS
  <2>3. QED
    BY <1>5, <2>1, <2>2 DEF Check, SeesStop, TakeFront
<1>6. CASE SpuriousWake \/ RunDone \/ MarkDone
  BY <1>6 DEF SpuriousWake, RunDone, MarkDone
<1>7. CASE Over \/ UNCHANGED threadVars
  BY <1>7 DEF Over, threadVars
<1>8. QED
  BY <1>1, <1>2, <1>3, <1>4, <1>5, <1>6, <1>7 DEF ThreadNext

\* Every variable keeps its type.
THEOREM ThreadTypeCorrect == ThreadSpec => []ThreadTypeOK
<1>1. QED
  BY InitTypeOK, NextTypeOK, PTL DEF ThreadSpec

-----------------------------------------------------------------------------
\* Each step keeps the control: the only state in which work is queued behind a sleeping
\* worker is the one between Post's unlock and its notification, and the worker that sees
\* the stop never sleeps again.
LEMMA NextControl == Inv /\ [ThreadNext]_threadVars => Control'
<1> SUFFICES ASSUME ThreadTypeOK, Control, [ThreadNext]_threadVars
             PROVE  Control'
  BY DEF Inv
<1> USE DEF Control, NoLostWakeup
<1>1. ASSUME NEW w \in Work, Post(w)
      PROVE  Control'
  <2>1. worker' # "none" /\ ~m_Stop
    BY <1>1 DEF Post, Enqueue
  <2>2. work' = work /\ m_Done' = m_Done /\ m_Stop' = m_Stop /\ caller' = "notify"
    BY <1>1 DEF Post, Enqueue
  <2>3. worker' = worker \/ (worker = "none" /\ worker' = "check")
    BY <1>1 DEF Post, Enqueue
  <2>4. QED
    BY <2>1, <2>2, <2>3
<1>2. CASE Notify
  BY <1>2 DEF Notify, WakeWorker
<1>3. CASE ShutdownStart
  BY <1>3 DEF ShutdownStart, WakeWorker
<1>4. CASE ShutdownWoken \/ ShutdownTimeout \/ ShutdownJoin
  BY <1>4 DEF ShutdownWoken, ShutdownTimeout, TimedOut, ShutdownJoin
<1>5. CASE Check
  <2>1. CASE m_Stop
    BY <1>5, <2>1 DEF Check, SeesStop, TakeFront
  <2>2. CASE ~m_Stop /\ m_Queue # <<>>
    BY <1>5, <2>2 DEF Check, SeesStop, TakeFront
  <2>3. CASE ~m_Stop /\ m_Queue = <<>>
    BY <1>5, <2>3 DEF Check, SeesStop, TakeFront
  <2>4. QED
    BY <2>1, <2>2, <2>3
<1>6. CASE SpuriousWake
  BY <1>6 DEF SpuriousWake
<1>7. CASE RunDone
  BY <1>7 DEF RunDone
<1>8. CASE MarkDone
  BY <1>8 DEF MarkDone
<1>9. CASE Over \/ UNCHANGED threadVars
  BY <1>9 DEF Over, threadVars
<1>10. QED
  BY <1>1, <1>2, <1>3, <1>4, <1>5, <1>6, <1>7, <1>8, <1>9 DEF ThreadNext

\* The inductive invariant holds in every state.
THEOREM Invariance == ThreadSpec => []Inv
<1>1. ThreadInit => Inv
  BY InitTypeOK DEF ThreadInit, Inv, Control, NoLostWakeup
<1>2. Inv /\ [ThreadNext]_threadVars => Inv'
  BY NextTypeOK, NextControl DEF Inv
<1>3. QED
  BY <1>1, <1>2, PTL DEF ThreadSpec

\* Posted work is never forgotten by a sleeping worker, nor is the request to stop: for any
\* number of posts, whatever the order of pushes, notifications and spurious wakeups.
THEOREM NeverLosesWakeup == ThreadSpec => []NoLostWakeup
<1>1. Inv => NoLostWakeup
  BY DEF Inv, Control
<1>2. QED
  BY <1>1, Invariance, PTL

\* When Shutdown says that the thread ended, nothing runs and nothing is left queued.
THEOREM JoinedIsDone == ThreadSpec => []JoinedMeansDone
<1>1. Inv => JoinedMeansDone
  BY DEF Inv, Control, JoinedMeansDone
<1>2. QED
  BY <1>1, Invariance, PTL

\* No piece of work is started once Shutdown has set m_Stop.
THEOREM NothingStartsAfterStop == ThreadSpec => NoStartAfterStop
<1>1. [ThreadNext]_threadVars => [m_Stop => (work' = work \/ work' = NoWork)]_threadVars
  BY DEF ThreadNext, threadVars, Post, Enqueue, Notify, ShutdownStart, ShutdownWoken, ShutdownTimeout, TimedOut,
         ShutdownJoin, Check, SeesStop, TakeFront, SpuriousWake, RunDone, MarkDone, Over
<1>2. QED
  BY <1>1, PTL DEF ThreadSpec, NoStartAfterStop

-----------------------------------------------------------------------------
\* Every step of the thread is a step of the serial executor, or none of it.
LEMMA NextRefines == Inv /\ [ThreadNext]_threadVars => [SE!ExecutorNext]_SE!executorVars
<1> SUFFICES ASSUME ThreadTypeOK, Control, [ThreadNext]_threadVars
             PROVE  [SE!ExecutorNext]_SE!executorVars
  BY DEF Inv
<1> USE DEF SE!ExecutorNext, SE!executorVars
<1>1. ASSUME NEW w \in Work, Post(w)
      PROVE  SE!Submit(w)
  <2>1. m_Queue' = m_Queue \o <<w>>
    BY <1>1 DEF Post, Enqueue, ThreadTypeOK
  <2>2. worker \notin {"end", "exited"} /\ worker' \notin {"end", "exited"}
    BY <1>1 DEF Post, Enqueue, Control
  <2>3. QED
    BY <1>1, <2>1, <2>2 DEF Post, Enqueue, SE!Submit, SE!SubmitAll
<1>2. CASE Check
  <2>1. CASE m_Stop
    BY <1>2, <2>1 DEF Check, SeesStop, TakeFront, Control, SE!End
  <2>2. CASE ~m_Stop /\ m_Queue # <<>>
    BY <1>2, <2>2 DEF Check, SeesStop, TakeFront, Control, SE!Start
  <2>3. CASE ~m_Stop /\ m_Queue = <<>>
    BY <1>2, <2>3 DEF Check, SeesStop, TakeFront
  <2>4. QED
    BY <2>1, <2>2, <2>3
<1>3. CASE RunDone
  <2>1. CASE work = NoWork
    BY <1>3, <2>1 DEF RunDone
  <2>2. CASE work # NoWork
    BY <1>3, <2>2 DEF RunDone, SE!Finish
  <2>3. QED
    BY <2>1, <2>2
<1>4. CASE Notify \/ SpuriousWake \/ MarkDone \/ ShutdownStart
  BY <1>4 DEF Notify, SpuriousWake, MarkDone, ShutdownStart, WakeWorker
<1>5. CASE ShutdownWoken \/ ShutdownTimeout \/ ShutdownJoin \/ Over \/ UNCHANGED threadVars
  BY <1>5 DEF ShutdownWoken, ShutdownTimeout, TimedOut, ShutdownJoin, Over, threadVars
<1>6. QED
  BY <1>1, <1>2, <1>3, <1>4, <1>5 DEF ThreadNext

\* The thread implements the serial executor (its safety part: one piece at a time, in the
\* order of the posts, and nothing after the end).
THEOREM RefinesSerialExecutor == ThreadSpec => SE!ExecutorInit /\ [][SE!ExecutorNext]_SE!executorVars
<1>1. ThreadInit => SE!ExecutorInit
  BY DEF ThreadInit, SE!ExecutorInit
<1>2. QED
  BY <1>1, NextRefines, Invariance, PTL DEF ThreadSpec

-----------------------------------------------------------------------------
(* SearchDialogs *)
\* The box is of a PE file; any other file has no results, and none will be taken as its.
OnlyOfPE ==
  /\ warning => pe
  /\ target # 0 /\ ~pe => told = Nothing /\ due = {}

\* The inductive invariant: the two properties are inductive over the types, but for a file that
\* PEFile::Open refuses while an archive or an object is open, which stays as it was.
IndexInv == DialogsTypeOK /\ OnlyOfPE /\ IndexIsCurrent /\ ResultsAreOfTheIndex

\* the types of the file and of what there is of it
FileTypes ==
  /\ files \in 0..MaxFiles /\ target \in 0..files
  /\ pe \in BOOLEAN
  /\ told \in [NamingResults -> Told] /\ due \subseteq NamingResults
  /\ warning \in BOOLEAN
  /\ tree \in 0..files /\ late \in BOOLEAN
  /\ edits \in 0..MaxEdits

\* What is known about the file, before a step and after it, can be what the items are made of.
LEMMA KnownIsSource == FileTypes => Known \in Sources
  BY BoundsAreNat DEF FileTypes, Known, Sources

LEMMA KnownNextIsSource == FileTypes' => Known' \in Sources
  BY BoundsAreNat DEF FileTypes, Known, Sources

\* Whatever is cleared, what is left of the results is well typed.
LEMMA BeforeIsTold == \A cleared : Before(cleared) \in [NamingResults -> Told]
  BY DEF Before, Told

LEMMA NothingIsTold == Nothing \in [NamingResults -> Told]
  BY DEF Nothing, Told

\* Where there is nothing, nothing is left.
LEMMA NothingIsLeft == told = Nothing => Before({}) = Nothing
  BY DEF Before, Nothing

LEMMA InitIndexInv == DialogsInit => IndexInv
<1> SUFFICES ASSUME DialogsInit
             PROVE  IndexInv
  OBVIOUS
<1>1. index \in [build : Nat, of : Sources]
  BY NothingIsTold DEF DialogsInit, Empty, Sources
<1>2. picker \in [kind : {"none", "anywhere", "function"}, typed : BOOLEAN, timer : BOOLEAN, rows : Nat]
  BY DEF DialogsInit, NoPicker
<1>3. FileTypes
  <2>1. told \in [NamingResults -> Told]
    BY NothingIsTold, Zenon DEF DialogsInit
  <2>2. files \in 0..MaxFiles /\ target \in 0..files /\ tree \in 0..files /\ edits \in 0..MaxEdits
    BY BoundsAreNat DEF DialogsInit
  <2>3. pe \in BOOLEAN /\ warning \in BOOLEAN /\ late \in BOOLEAN /\ due \subseteq NamingResults
    BY DEF DialogsInit
  <2>4. QED
    BY <2>1, <2>2, <2>3, Zenon DEF FileTypes
<1>4. DialogsTypeOK
  BY <1>1, <1>2, <1>3 DEF DialogsInit, DialogsTypeOK, FileTypes
<1>5. QED
  BY <1>4 DEF DialogsInit, IndexInv, OnlyOfPE, IndexIsCurrent, ResultsAreOfTheIndex

-----------------------------------------------------------------------------
(* The index and the results, by themselves: what each of the three ways to ask for the
   index leaves, if the file and what is known of it are well typed after the step. *)

IndexTypes ==
  /\ index \in [build : Nat, of : Sources]
  /\ valid \in BOOLEAN
  /\ text \in {"none", "typed", "searched"}
  /\ m_Index \in BOOLEAN /\ results \in Nat

\* There is a number for a build that is not that of any rows.
LEMMA NewBuildIsBuild == NewBuild \in 1..4
<1>1. \E n \in 1..4 : n \notin {index.build, results, picker.rows}
  OBVIOUS
<1>2. QED
  BY <1>1 DEF NewBuild

\* An index of all that is known, its late nodes too, is current.
LEMMA OfKnownIsCurrent ==
  ASSUME Known' \in Sources, index'.of = Known'
  PROVE  IndexIsCurrent'
<1>1. [index'.of EXCEPT !.late = late'] = Known'
  BY DEF Known, Sources
<1>2. QED
  BY <1>1 DEF IndexIsCurrent

\* What is current stays so as long as the file, its results and the tree are the same.
LEMMA UntouchedIsCurrent ==
  ASSUME IndexTypes, IndexIsCurrent,
         UNCHANGED <<target, told, tree, edits, index, valid, warning>>
  PROVE  IndexIsCurrent'
<1>1. index.of \in Sources
  BY DEF IndexTypes
<1>2. ASSUME valid, target # 0, ~warning
      PROVE  [index.of EXCEPT !.late = late'] = Known'
  <2>1. [index.of EXCEPT !.late = late] = Known
    BY <1>2 DEF IndexIsCurrent
  <2>2. /\ index.of.target = target /\ index.of.told = told /\ index.of.tree = tree
        /\ index.of.edits = edits
    BY <1>1, <2>1 DEF Known, Sources
  <2>3. QED
    BY <1>1, <2>2 DEF Known, Sources
<1>3. QED
  BY <1>2 DEF IndexIsCurrent

\* A build is of all that is known when it is made.
LEMMA BuildIsCurrent ==
  ASSUME IndexTypes, Build, Known' \in Sources
  PROVE  /\ index' \in [build : Nat, of : Sources] /\ valid' \in BOOLEAN
         /\ valid' /\ index'.of = Known' /\ IndexIsCurrent'
  BY NewBuildIsBuild, OfKnownIsCurrent DEF IndexTypes, Build

\* A handler that changes what is known leaves an index of it, or none.
LEMMA ChangeIsTold ==
  ASSUME IndexTypes, SearchTargetChanged, Known' \in Sources
  PROVE  IndexTypes' /\ IndexIsCurrent' /\ ResultsAreOfTheIndex'
<1>1. CASE SearchAtOnce
  <2>1. Build /\ text' = "searched" /\ m_Index' = TRUE /\ results' = index'.build
    BY <1>1 DEF SearchTargetChanged
  <2>2. QED
    BY <2>1, BuildIsCurrent DEF IndexTypes, ResultsAreOfTheIndex
<1>2. CASE ~SearchAtOnce
  <2>1. /\ index' = Empty /\ valid' = FALSE /\ m_Index' = FALSE /\ results' = 0
        /\ UNCHANGED text
    BY <1>2 DEF SearchTargetChanged, DropResults
  <2>2. Empty \in [build : Nat, of : Sources]
    BY NothingIsTold DEF Empty, Sources
  <2>3. QED
    BY <2>1, <2>2 DEF IndexTypes, IndexIsCurrent, ResultsAreOfTheIndex
<1>3. QED
  BY <1>1, <1>2

\* Asking for the index changes it only when there is none, and no rows are of none.
LEMMA GetIsCurrent ==
  ASSUME IndexTypes, IndexIsCurrent, ResultsAreOfTheIndex, GetSearchIndex, Known' \in Sources,
         UNCHANGED fileVars
  PROVE  /\ index' \in [build : Nat, of : Sources] /\ valid' \in BOOLEAN
         /\ valid' /\ IndexIsCurrent'
         /\ results # 0 => m_Index /\ results = index'.build
<1>1. CASE valid
  BY <1>1, UntouchedIsCurrent DEF GetSearchIndex, indexVars, fileVars, IndexTypes, ResultsAreOfTheIndex
<1>2. CASE ~valid
  <2>1. Build
    BY <1>2 DEF GetSearchIndex
  <2>2. results = 0
    BY <1>2 DEF ResultsAreOfTheIndex
  <2>3. QED
    BY <2>1, <2>2, BuildIsCurrent
<1>3. QED
  BY <1>1, <1>2

\* A search leaves rows of the index it took.
LEMMA SearchIsCurrent ==
  ASSUME IndexTypes, IndexIsCurrent, ResultsAreOfTheIndex, Search, Known' \in Sources,
         UNCHANGED fileVars
  PROVE  IndexTypes' /\ IndexIsCurrent' /\ ResultsAreOfTheIndex'
<1>1. CASE text # "none"
  <2>1. GetSearchIndex /\ text' = "searched" /\ m_Index' = TRUE /\ results' = index'.build
    BY <1>1 DEF Search
  <2>2. QED
    BY <2>1, GetIsCurrent DEF IndexTypes, ResultsAreOfTheIndex
<1>2. CASE text = "none"
  <2>1. results' = 0 /\ UNCHANGED <<indexVars, text, m_Index>>
    BY <1>2 DEF Search
  <2>2. QED
    BY <2>1, UntouchedIsCurrent DEF indexVars, fileVars, IndexTypes, ResultsAreOfTheIndex
<1>3. QED
  BY <1>1, <1>2

-----------------------------------------------------------------------------
(* The steps *)

LEMMA NextIndexInv == IndexInv /\ [DialogsNext]_searchVars => IndexInv'
<1> SUFFICES ASSUME IndexInv, [DialogsNext]_searchVars
             PROVE  IndexInv'
  OBVIOUS
<1>t. /\ DialogsTypeOK /\ OnlyOfPE /\ IndexIsCurrent /\ ResultsAreOfTheIndex
      /\ FileTypes /\ IndexTypes /\ Known \in Sources
  BY KnownIsSource DEF IndexInv, DialogsTypeOK, FileTypes, IndexTypes
\* a handler that changes what is known of the file, and tells
<1>c. ASSUME SearchTargetChanged, FileTypes', OnlyOfPE', UNCHANGED <<dlg, again, picker>>
      PROVE  IndexInv'
  <2>1. IndexTypes' /\ IndexIsCurrent' /\ ResultsAreOfTheIndex'
    BY <1>t, <1>c, KnownNextIsSource, ChangeIsTold
  <2>2. QED
    BY <1>t, <1>c, <2>1 DEF IndexInv, DialogsTypeOK, FileTypes, IndexTypes
<1> USE DEF IndexInv
<1>1. ASSUME NEW isPE \in BOOLEAN, Open(isPE)
      PROVE  IndexInv'
  <2>1. FileTypes'
    <3>1. told' \in [NamingResults -> Told]
      BY <1>1, NothingIsTold, Zenon DEF Open
    <3>2. files' \in 0..MaxFiles /\ target' \in 0..files' /\ tree' \in 0..files' /\ edits' \in 0..MaxEdits
      BY <1>1, <1>t, BoundsAreNat DEF Open, NewFile, NewTree, FileTypes
    <3>3. pe' \in BOOLEAN /\ warning' \in BOOLEAN /\ late' \in BOOLEAN /\ due' \subseteq NamingResults
      BY <1>1, <1>t DEF Open, NewFile, NewTree, FileTypes
    <3>4. QED
      BY <3>1, <3>2, <3>3, Zenon DEF FileTypes
  <2>2. OnlyOfPE'
    BY <1>1 DEF Open, Enabled, OnlyOfPE
  <2>3. QED
    BY <1>1, <1>c, <2>1, <2>2 DEF Open
<1>2. CASE OpenWarns
  <2>1. FileTypes'
    BY <1>2, <1>t, BoundsAreNat, BeforeIsTold DEF OpenWarns, NewFile, treeVars, FileTypes, NamingResults
  <2>2. warning' = TRUE /\ UNCHANGED <<index, valid, dlg, text, m_Index, results, again, picker>>
    BY <1>2 DEF OpenWarns, indexVars, dialogVars
  <2>3. OnlyOfPE' /\ IndexIsCurrent' /\ ResultsAreOfTheIndex'
    BY <1>2, <1>t, <2>2 DEF OpenWarns, OnlyOfPE, IndexIsCurrent, ResultsAreOfTheIndex
  <2>4. QED
    BY <1>t, <2>1, <2>2, <2>3 DEF DialogsTypeOK, FileTypes
<1>3. CASE OpenGoesOn
  <2>1. FileTypes'
    BY <1>3, <1>t, BoundsAreNat DEF OpenGoesOn, NewTree, FileTypes, Nothing, Told
  <2>2. pe' /\ OnlyOfPE'
    BY <1>3, <1>t DEF OpenGoesOn, OnlyOfPE
  <2>3. QED
    BY <1>3, <1>c, <2>1, <2>2 DEF OpenGoesOn
<1>4. CASE OpenIsRefused
  <2>1. /\ target' \in {0, target} /\ pe' = FALSE /\ told' = Before({}) /\ due' = due \ {"xrefs"}
        /\ target' # 0 => ~pe /\ target' = target
        /\ warning = FALSE
        /\ UNCHANGED <<files, warning, tree, late, edits, index, valid, dlg, text, m_Index, results, again, picker>>
    BY <1>4, <1>t DEF OpenIsRefused, Enabled, FileTypes, treeVars, indexVars, dialogVars
  <2>2. FileTypes'
    <3>1. told' \in [NamingResults -> Told]
      BY <2>1, BeforeIsTold, Zenon
    <3>2. files' \in 0..MaxFiles /\ target' \in 0..files' /\ tree' \in 0..files' /\ edits' \in 0..MaxEdits
      BY <1>t, <2>1, BoundsAreNat DEF FileTypes
    <3>3. pe' \in BOOLEAN /\ warning' \in BOOLEAN /\ late' \in BOOLEAN /\ due' \subseteq NamingResults
      BY <1>t, <2>1 DEF FileTypes
    <3>4. QED
      BY <3>1, <3>2, <3>3, Zenon DEF FileTypes
  <2>3. target' # 0 => told' = told /\ told = Nothing /\ due' = {}
    BY <1>t, <2>1, NothingIsLeft DEF OnlyOfPE
  <2>4. OnlyOfPE' /\ IndexIsCurrent' /\ ResultsAreOfTheIndex'
    <3>1. CASE target' = 0
      BY <1>t, <2>1, <3>1 DEF OnlyOfPE, IndexIsCurrent, ResultsAreOfTheIndex
    <3>2. CASE target' # 0
      BY <1>t, <2>1, <2>3, <3>2, UntouchedIsCurrent DEF OnlyOfPE, ResultsAreOfTheIndex
    <3>3. QED
      BY <3>1, <3>2
  <2>5. QED
    BY <1>t, <2>1, <2>2, <2>4 DEF DialogsTypeOK, FileTypes
<1>5. CASE OnFileClose
  <2>1. target' = 0 /\ pe' = FALSE /\ told' = Before({"symbols"}) /\ due' = due \cap {"driver"}
        /\ tree' = 0 /\ late' = FALSE /\ ~warning /\ UNCHANGED <<files, warning, edits, dlg, again, picker>>
    BY <1>5 DEF OnFileClose, Enabled, NewTree
  <2>2. FileTypes' /\ OnlyOfPE'
    <3>1. told' \in [NamingResults -> Told]
      BY <2>1, BeforeIsTold, Zenon
    <3>2. files' \in 0..MaxFiles /\ target' \in 0..files' /\ tree' \in 0..files' /\ edits' \in 0..MaxEdits
      BY <1>t, <2>1, BoundsAreNat DEF FileTypes
    <3>3. pe' \in BOOLEAN /\ warning' \in BOOLEAN /\ late' \in BOOLEAN /\ due' \subseteq NamingResults
      BY <1>t, <2>1 DEF FileTypes
    <3>4. FileTypes'
      BY <3>1, <3>2, <3>3, Zenon DEF FileTypes
    <3>5. QED
      BY <2>1, <3>4 DEF OnlyOfPE
  <2>3. QED
    BY <1>5, <1>c, <2>1, <2>2 DEF OnFileClose
<1>6. CASE Edit
  <2>1. FileTypes' /\ OnlyOfPE'
    BY <1>6, <1>t, BoundsAreNat DEF Edit, resultVars, treeVars, FileTypes, OnlyOfPE
  <2>2. QED
    BY <1>6, <1>c, <2>1 DEF Edit
<1>7. ASSUME NEW r \in NamingResults, ResultArrives(r)
      PROVE  IndexInv'
  <2>1. Of(r) \in Told
    BY DEF Of, Told
  <2>2. FileTypes' /\ OnlyOfPE'
    BY <1>7, <1>t, <2>1, BoundsAreNat DEF ResultArrives, Learn, treeVars, FileTypes, OnlyOfPE
  <2>3. QED
    BY <1>7, <1>c, <2>2 DEF ResultArrives, Learn
<1>8. CASE TreeChanges
  <2>1. UNCHANGED <<target, files, pe, told, due, warning, tree, edits, index, valid, dlg, text, m_Index, results,
                    again, picker>>
    BY <1>8 DEF TreeChanges, resultVars, indexVars, dialogVars
  <2>2. FileTypes' /\ OnlyOfPE'
    BY <1>8, <1>t, <2>1 DEF TreeChanges, FileTypes, OnlyOfPE
  <2>3. IndexIsCurrent' /\ ResultsAreOfTheIndex'
    BY <1>t, <2>1, UntouchedIsCurrent DEF ResultsAreOfTheIndex
  <2>4. QED
    BY <1>t, <2>1, <2>2, <2>3 DEF DialogsTypeOK, FileTypes
<1>9. CASE Show \/ Hide \/ Type
  <2>1. UNCHANGED <<target, files, pe, told, due, warning, tree, late, edits, index, valid, m_Index, results, picker>>
    BY <1>9 DEF Show, Hide, Type, fileVars, indexVars
  <2>2. /\ dlg' \in {"none", "hidden", "shown"} /\ text' \in {"none", "typed", "searched"}
        /\ again' \in BOOLEAN
    <3>1. CASE Show
      BY <3>1, <1>t DEF Show, AsksAgain, DialogsTypeOK
    <3>2. CASE Hide
      BY <3>2, <1>t DEF Hide, DialogsTypeOK
    <3>3. CASE Type
      BY <3>3, <1>t DEF Type, DialogsTypeOK
    <3>4. QED
      BY <1>9, <3>1, <3>2, <3>3
  <2>3. DialogsTypeOK'
    BY <1>t, <2>1, <2>2 DEF DialogsTypeOK
  <2>4. QED
    BY <1>t, <2>1, <2>3, UntouchedIsCurrent DEF OnlyOfPE, ResultsAreOfTheIndex
<1>10. CASE SearchNow \/ OnSearchAgain
  <2>1. Search /\ UNCHANGED fileVars /\ UNCHANGED <<dlg, picker>> /\ again' \in BOOLEAN
    BY <1>10, <1>t DEF SearchNow, OnSearchAgain, fileVars, DialogsTypeOK
  <2>2. Known' \in Sources
    BY <2>1, <1>t DEF Known, fileVars
  <2>3. IndexTypes' /\ IndexIsCurrent' /\ ResultsAreOfTheIndex'
    BY <1>t, <2>1, <2>2, SearchIsCurrent
  <2>4. QED
    BY <1>t, <2>1, <2>3 DEF fileVars, DialogsTypeOK, IndexTypes, OnlyOfPE
<1>11. ASSUME NEW kind \in {"anywhere", "function"}, NEW typed \in BOOLEAN, OpenPicker(kind, typed)
      PROVE  IndexInv'
  <2>1. GetSearchIndex /\ UNCHANGED fileVars /\ UNCHANGED dialogVars
        /\ picker' = [kind |-> kind, typed |-> typed, timer |-> FALSE, rows |-> Rows(kind, typed)]
    BY <1>11 DEF OpenPicker
  <2>2. Known' \in Sources
    BY <2>1, <1>t DEF Known, fileVars
  <2>3. /\ index' \in [build : Nat, of : Sources] /\ valid' \in BOOLEAN
        /\ valid' /\ IndexIsCurrent'
        /\ results # 0 => m_Index /\ results = index'.build
    BY <1>t, <2>1, <2>2, GetIsCurrent DEF fileVars
  <2>4. Rows(kind, typed) \in Nat
    BY <2>3 DEF Rows
  <2>5. picker' \in [kind : {"none", "anywhere", "function"}, typed : BOOLEAN, timer : BOOLEAN, rows : Nat]
    BY <2>1, <2>4
  <2>6. QED
    BY <1>t, <2>1, <2>3, <2>5 DEF fileVars, dialogVars, DialogsTypeOK, OnlyOfPE, ResultsAreOfTheIndex
<1>12. ASSUME NEW typed \in BOOLEAN, TypeInPicker(typed)
      PROVE  IndexInv'
  <2>1. picker' \in [kind : {"none", "anywhere", "function"}, typed : BOOLEAN, timer : BOOLEAN, rows : Nat]
    BY <1>12, <1>t DEF TypeInPicker, DialogsTypeOK
  <2>2. UNCHANGED fileVars /\ UNCHANGED indexVars /\ UNCHANGED dialogVars
    BY <1>12 DEF TypeInPicker
  <2>3. IndexIsCurrent' /\ ResultsAreOfTheIndex'
    BY <1>t, <2>2, UntouchedIsCurrent DEF fileVars, indexVars, dialogVars, ResultsAreOfTheIndex
  <2>4. QED
    BY <1>t, <2>1, <2>2, <2>3 DEF fileVars, indexVars, dialogVars, DialogsTypeOK, OnlyOfPE
<1>13. CASE UpdatePicker \/ \E ok \in BOOLEAN : ClosePicker(ok)
  <2>1. UNCHANGED fileVars /\ UNCHANGED dialogVars /\ (GetSearchIndex \/ UNCHANGED indexVars)
    BY <1>13 DEF UpdatePicker, ClosePicker
  <2>2. Known' \in Sources
    BY <2>1, <1>t DEF Known, fileVars
  <2>3. /\ index' \in [build : Nat, of : Sources] /\ valid' \in BOOLEAN
        /\ IndexIsCurrent'
        /\ results # 0 => m_Index /\ valid' /\ results = index'.build
    <3>1. CASE GetSearchIndex
      BY <1>t, <2>1, <2>2, <3>1, GetIsCurrent DEF fileVars
    <3>2. CASE UNCHANGED indexVars
      BY <1>t, <2>1, <3>2, UntouchedIsCurrent DEF fileVars, indexVars, IndexTypes, ResultsAreOfTheIndex
    <3>3. QED
      BY <2>1, <3>1, <3>2
  <2>4. Rows(picker.kind, picker.typed) \in Nat
    BY <2>3 DEF Rows
  <2>5. picker' \in [kind : {"none", "anywhere", "function"}, typed : BOOLEAN, timer : BOOLEAN, rows : Nat]
    <3>1. CASE UpdatePicker
      BY <3>1, <2>4, <1>t DEF UpdatePicker, DialogsTypeOK
    <3>2. CASE \E ok \in BOOLEAN : ClosePicker(ok)
      BY <3>2 DEF ClosePicker, NoPicker
    <3>3. QED
      BY <1>13, <3>1, <3>2
  <2>6. QED
    BY <1>t, <2>1, <2>3, <2>5 DEF fileVars, dialogVars, DialogsTypeOK, OnlyOfPE, ResultsAreOfTheIndex
<1>14. CASE UNCHANGED searchVars
  <2>1. IndexIsCurrent'
    BY <1>14, <1>t, UntouchedIsCurrent DEF searchVars
  <2>2. QED
    BY <1>14, <1>t, <2>1 DEF searchVars, DialogsTypeOK, OnlyOfPE, ResultsAreOfTheIndex
<1>15. QED
  BY <1>1, <1>2, <1>3, <1>4, <1>5, <1>6, <1>7, <1>8, <1>9, <1>10, <1>11, <1>12, <1>13, <1>14 DEF DialogsNext

-----------------------------------------------------------------------------
(* The theorems *)

\* Every variable of the index and the dialogs keeps its type (DialogsTypeOK).
THEOREM DialogsTypeCorrect == DialogsSpec => []DialogsTypeOK
<1>1. DialogsInit => IndexInv
  BY InitIndexInv
<1>2. IndexInv /\ [DialogsNext]_searchVars => IndexInv'
  BY NextIndexInv
<1>3. IndexInv => DialogsTypeOK
  BY DEF IndexInv
<1>4. QED
  BY <1>1, <1>2, <1>3, PTL DEF DialogsSpec

\* Whenever results arrive, the user changes names and files are opened or closed, with a box in
\* the middle of OpenPE or without, a valid index is made of the open file and of all that is
\* known about it, its tree's late nodes apart, unless OpenPE waits in that box
\* (GetSearchIndex, SearchTargetChanged).
THEOREM IndexStaysCurrent == DialogsSpec => []IndexIsCurrent
<1>1. DialogsInit => IndexInv
  BY InitIndexInv
<1>2. IndexInv /\ [DialogsNext]_searchVars => IndexInv'
  BY NextIndexInv
<1>3. IndexInv => IndexIsCurrent
  BY DEF IndexInv
<1>4. QED
  BY <1>1, <1>2, <1>3, PTL DEF DialogsSpec

\* The rows of the Search All list are numbers of items of the index there is, whoever had it
\* built or dropped (CSearchDlg::Invalidate).
THEOREM RowsAreOfTheIndex == DialogsSpec => []ResultsAreOfTheIndex
<1>1. DialogsInit => IndexInv
  BY InitIndexInv
<1>2. IndexInv /\ [DialogsNext]_searchVars => IndexInv'
  BY NextIndexInv
<1>3. IndexInv => ResultsAreOfTheIndex
  BY DEF IndexInv
<1>4. QED
  BY <1>1, <1>2, <1>3, PTL DEF DialogsSpec
=============================================================================
