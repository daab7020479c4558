---------------------- MODULE DecompilerSession_Proofs ----------------------
(***************************************************************************)
(* Proofs about DecompilerSession, for any number of files, sessions,       *)
(* requests and renames: what the decompiler's thread reads and asks is of   *)
(* the open file, and no answer is older than the rename before its         *)
(* question; each view shows the latest answer; and the last reference to   *)
(* a session goes on that thread.                                          *)
(***************************************************************************)
EXTENDS DecompilerSession, TLAPS

-----------------------------------------------------------------------------
(* The first invariant: the sessions, who has them, and the thread's work. *)

SessionRecords == [file : Nat, state : SessionStates, Closed : BOOLEAN, Stale : BOOLEAN, names : Nat]

Mail == [kind : {"decompiled", "driver"}, arg : Nat, names : Nat, ok : BOOLEAN, file : Nat]

SessionTypes ==
  /\ todo \in Seq(WorkItems)
  /\ now \in WorkItems \cup {NoWork}
  /\ phase \in {"idle", "begin", "open", "use", "post"}
  /\ io \in {"none", "reading", "asking", "names"}
  /\ sess \in [Sessions -> SessionRecords]
  /\ made \in 0..MaxSessions
  /\ m_Decompiler \in 0..made
  /\ file \in Nat /\ files \in Nat /\ names \in Nat
  /\ window \in BOOLEAN
  /\ reqs \in Seq([view : Views, file : Nat, names : Nat])
  /\ driver \in [state : DriverStates, generation : Nat, of : Nat]
  /\ inbox \in Seq(Mail)

\* the place of the thread in its work
ThreadControl ==
  /\ phase = "idle" <=> now = NoWork
  /\ io # "none" => phase \in {"open", "use"}
  /\ phase \in {"open", "use", "post"} => Running

\* the work is of sessions that were made
OnlyMade ==
  /\ now # NoWork => now.s \in 1..made
  /\ \A i \in 1..Len(todo) : todo[i].s \in 1..made

\* A session that was neither replaced nor told that its file is closed is the frame's, and of
\* the open file ...
LiveIsCurrent ==
  \A s \in 1..made : ~sess[s].Stale /\ ~sess[s].Closed => s = m_Decompiler /\ sess[s].file = file

\* ... and one whose image is read was not told: the frame would wait for the lock.
ReadingIsOpen == io = "reading" => ~sess[now.s].Closed

WorkInv == SessionTypes /\ ThreadControl /\ OnlyMade /\ LiveIsCurrent /\ ReadingIsOpen

LEMMA InitWorkInv == Init => WorkInv
<1> SUFFICES ASSUME Init
             PROVE  WorkInv
  OBVIOUS
<1>1. NoSession \in SessionRecords
  BY DEF NoSession, SessionRecords, SessionStates
<1>2. sess \in [Sessions -> SessionRecords]
  BY <1>1 DEF Init
<1>3. SessionTypes
  BY <1>2, BoundsAreNat DEF Init, SE!ExecutorInit, SessionTypes, DriverStates
<1>4. QED
  BY <1>3 DEF Init, SE!ExecutorInit, WorkInv, ThreadControl, OnlyMade, LiveIsCurrent, ReadingIsOpen,
              Running, NoWork

-----------------------------------------------------------------------------
(* What the pieces of the frame's handlers do *)

\* Work that is posted is the last of the queue.
LEMMA Submitted ==
  ASSUME SessionTypes, NEW w \in WorkItems, SE!Submit(w)
  PROVE  /\ todo' \in Seq(WorkItems) /\ Len(todo') = Len(todo) + 1
         /\ \A i \in 1..Len(todo) : todo'[i] = todo[i]
         /\ todo'[Len(todo) + 1] = w
         /\ UNCHANGED now
<1>1. todo' = todo \o <<w>> /\ UNCHANGED now
  BY DEF SE!Submit, SE!SubmitAll
<1>2. todo \in Seq(WorkItems) /\ <<w>> \in Seq(WorkItems) /\ Len(<<w>>) = 1 /\ <<w>>[1] = w
  BY DEF SessionTypes
<1>3. QED
  BY <1>1, <1>2

\* A queue of work of sessions that were made, and one more.
LEMMA QueueOfMade ==
  ASSUME WorkInv, NEW w, w.s \in 1..made', made <= made', made' \in Nat,
         Len(todo') = Len(todo) + 1, \A i \in 1..Len(todo) : todo'[i] = todo[i],
         todo'[Len(todo) + 1] = w
  PROVE  \A i \in 1..Len(todo') : todo'[i].s \in 1..made'
<1> USE DEF WorkInv, SessionTypes
<1> SUFFICES ASSUME NEW i \in 1..Len(todo')
             PROVE  todo'[i].s \in 1..made'
  OBVIOUS
<1>1. i \in 1..Len(todo) \/ i = Len(todo) + 1
  OBVIOUS
<1>2. CASE i \in 1..Len(todo)
  <2>1. todo'[i] = todo[i] /\ todo[i].s \in 1..made
    BY <1>2 DEF OnlyMade
  <2>2. QED
    BY <2>1, BoundsAreNat
<1>3. CASE i = Len(todo) + 1
  BY <1>3
<1>4. QED
  BY <1>1, <1>2, <1>3

\* The session that is asked for is of the open file, and is the only one that is used.
LEMMA Asks ==
  ASSUME WorkInv, NEW s \in Sessions, Decompiler(m_Decompiler, s), UNCHANGED file
  PROVE  /\ made' \in 0..MaxSessions /\ made <= made' /\ made' <= made + 1
         /\ m_Decompiler' = s /\ s \in 1..made'
         /\ sess' \in [Sessions -> SessionRecords]
         /\ \A r \in 1..made : sess'[r] = sess[r]
         /\ s > made => sess'[s].state = "new"
         /\ s <= made => s = m_Decompiler
         /\ LiveIsCurrent'
<1> USE BoundsAreNat DEF WorkInv, SessionTypes, Sessions
<1>1. CASE m_Decompiler # 0
  BY <1>1 DEF Decompiler, LiveIsCurrent
<1>2. CASE m_Decompiler = 0
  <2>1. made < MaxSessions /\ s = made + 1 /\ made' = s /\ m_Decompiler' = s
        /\ sess' = [sess EXCEPT ![s] = [NoSession EXCEPT !.file = file]]
    BY <1>2 DEF Decompiler
  <2>2. [NoSession EXCEPT !.file = file] \in SessionRecords
    BY DEF NoSession, SessionRecords, SessionStates
  <2>3. sess' \in [Sessions -> SessionRecords] /\ sess'[s] = [NoSession EXCEPT !.file = file]
        /\ \A r \in 1..made : sess'[r] = sess[r]
    BY <2>1, <2>2
  <2>4. sess'[s].state = "new" /\ sess'[s].file = file
    BY <2>3 DEF NoSession
  <2>5. ASSUME NEW r \in 1..made', ~sess'[r].Stale, ~sess'[r].Closed
        PROVE  r = m_Decompiler' /\ sess'[r].file = file
    <3>1. r \in 1..made \/ r = s
      BY <2>1
    <3>2. r \in 1..made => r = m_Decompiler
      BY <2>3, <2>5 DEF LiveIsCurrent
    <3>3. r \notin 1..made
      BY <1>2, <3>2
    <3>4. QED
      BY <3>1, <3>3, <2>1, <2>4
  <2>6. QED
    BY <1>2, <2>1, <2>3, <2>4, <2>5 DEF LiveIsCurrent
<1>3. QED
  BY <1>1, <1>2

\* A session that is replaced is stale, and its reference is on the way to the thread.
LEMMA Replaced ==
  ASSUME WorkInv, MakeAgain, UNCHANGED <<made, file>>
  PROVE  /\ m_Decompiler' = 0
         /\ sess' \in [Sessions -> SessionRecords]
         /\ \A r \in Sessions : /\ sess'[r].Closed = sess[r].Closed /\ sess'[r].state = sess[r].state
                                /\ sess'[r].names = sess[r].names
         /\ LiveIsCurrent'
         /\ UNCHANGED now
         /\ \/ UNCHANGED todo
            \/ /\ m_Decompiler # 0
               /\ SE!Submit([kind |-> "drop", s |-> m_Decompiler, arg |-> 0])
<1> USE BoundsAreNat DEF WorkInv, SessionTypes, Sessions
<1>1. CASE m_Decompiler = 0
  BY <1>1 DEF MakeAgain, LiveIsCurrent
<1>2. CASE m_Decompiler # 0
  <2>1. /\ sess' = [sess EXCEPT ![m_Decompiler].Stale = TRUE]
        /\ SE!Submit([kind |-> "drop", s |-> m_Decompiler, arg |-> 0])
        /\ m_Decompiler' = 0 /\ UNCHANGED now
    BY <1>2 DEF MakeAgain, LetGo, SE!Submit, SE!SubmitAll
  <2>2. m_Decompiler \in Sessions
    BY <1>2
  <2>3. sess' \in [Sessions -> SessionRecords]
    BY <2>1, <2>2 DEF SessionRecords
  <2>4. \A r \in Sessions : /\ sess'[r].Closed = sess[r].Closed /\ sess'[r].state = sess[r].state
                            /\ sess'[r].names = sess[r].names /\ sess'[r].file = sess[r].file
                            /\ sess'[r].Stale = (r = m_Decompiler \/ sess[r].Stale)
    BY <2>1, <2>2 DEF SessionRecords
  <2>5. LiveIsCurrent'
    BY <2>1, <2>4 DEF LiveIsCurrent
  <2>6. QED
    BY <1>2, <2>1, <2>3, <2>4, <2>5
<1>3. QED
  BY <1>1, <1>2

\* what only the frame changes
FrameTypes ==
  /\ file \in Nat /\ files \in Nat /\ names \in Nat
  /\ window \in BOOLEAN
  /\ reqs \in Seq([view : Views, file : Nat, names : Nat])
  /\ driver \in [state : DriverStates, generation : Nat, of : Nat]
  /\ inbox \in Seq(Mail)

\* What is left to show of a step of the frame, which leaves the thread where it is.
LEMMA FrameKeepsWork ==
  ASSUME WorkInv, UNCHANGED <<now, phase, io>>,
         made' \in 0..MaxSessions, made <= made',
         m_Decompiler' \in 0..made', FrameTypes',
         sess' \in [Sessions -> SessionRecords],
         todo' \in Seq(WorkItems), \A i \in 1..Len(todo') : todo'[i].s \in 1..made',
         io = "reading" => ~sess'[now.s].Closed,
         LiveIsCurrent'
  PROVE  WorkInv'
<1>1. SessionTypes'
  BY BoundsAreNat DEF WorkInv, SessionTypes, FrameTypes
<1>2. ThreadControl'
  BY DEF WorkInv, ThreadControl, Running
<1>3. OnlyMade'
  <2>1. now' # NoWork => now'.s \in 1..made'
    BY BoundsAreNat DEF WorkInv, SessionTypes, OnlyMade
  <2>2. QED
    BY <2>1 DEF OnlyMade
<1>4. ReadingIsOpen'
  BY DEF ReadingIsOpen
<1>5. QED
  BY <1>1, <1>2, <1>3, <1>4 DEF WorkInv

\* The steps of the frame that do not touch the thread's work.
LEMMA QuietKeepsWork ==
  ASSUME WorkInv, UNCHANGED <<todo, now, phase, io, sess, made, m_Decompiler, file>>, FrameTypes'
  PROVE  WorkInv'
  BY DEF WorkInv, SessionTypes, FrameTypes, ThreadControl, OnlyMade, ReadingIsOpen, Running, LiveIsCurrent

\* What was made is a session.
LEMMA MadeAreSessions ==
  ASSUME WorkInv
  PROVE  sess \in [Sessions -> SessionRecords] /\ \A s \in 1..made : s \in Sessions
<1>1. sess \in [Sessions -> SessionRecords] /\ made \in 0..MaxSessions
  BY DEF WorkInv, SessionTypes
<1>2. \A s \in 1..made : s \in Sessions
  BY <1>1, BoundsAreNat DEF Sessions
<1>3. QED
  BY <1>1, <1>2

\* A read is of a session that was made.
LEMMA ReadingIsMade == WorkInv /\ io # "none" => now # NoWork /\ now.s \in 1..made /\ now.s \in Sessions
  BY BoundsAreNat DEF WorkInv, SessionTypes, ThreadControl, OnlyMade, Sessions

-----------------------------------------------------------------------------
(* The frame's steps *)

\* DecompileAsync: the session that is asked is the frame's, and the work is posted.
LEMMA DecompileAsyncKeepsWork ==
  ASSUME WorkInv, NEW v \in Views, DecompileAsync(v),
         UNCHANGED <<phase, io, file, files, names, window, driver, inbox>>
  PROVE  WorkInv'
<1> USE BoundsAreNat
<1>1. PICK s \in Sessions : /\ Decompiler(m_Decompiler, s)
                            /\ SE!Submit([kind |-> "decompile", s |-> s, arg |-> Len(reqs) + 1])
  BY DEF DecompileAsync
<1> DEFINE w == [kind |-> "decompile", s |-> s, arg |-> Len(reqs) + 1]
<1>2. w \in WorkItems
  BY <1>1 DEF WorkInv, SessionTypes, WorkItems, Kinds
<1>3. /\ todo' \in Seq(WorkItems) /\ Len(todo') = Len(todo) + 1 /\ UNCHANGED now
      /\ \A i \in 1..Len(todo) : todo'[i] = todo[i]
      /\ todo'[Len(todo) + 1] = w
  BY <1>1, <1>2, Submitted DEF WorkInv
<1>4. /\ made' \in 0..MaxSessions /\ made <= made' /\ m_Decompiler' = s /\ s \in 1..made'
      /\ sess' \in [Sessions -> SessionRecords] /\ \A r \in 1..made : sess'[r] = sess[r]
      /\ LiveIsCurrent'
  BY <1>1, Asks
<1>5. \A i \in 1..Len(todo') : todo'[i].s \in 1..made'
  BY <1>3, <1>4, QueueOfMade
<1>6. io = "reading" => ~sess'[now.s].Closed
  BY <1>4, ReadingIsMade DEF WorkInv, ReadingIsOpen
<1>7. FrameTypes'
  <2>1. reqs' = Append(reqs, [view |-> v, file |-> file, names |-> names])
    BY DEF DecompileAsync, NewRequest
  <2>2. QED
    BY <2>1 DEF WorkInv, SessionTypes, FrameTypes
<1>8. m_Decompiler' \in 0..made'
  BY <1>4 DEF WorkInv, SessionTypes
<1>9. QED
  BY <1>3, <1>4, <1>5, <1>6, <1>7, <1>8, FrameKeepsWork

\* CloseDecompiler(false)
LEMMA MakeAgainKeepsWork ==
  ASSUME WorkInv, MakeAgain, UNCHANGED <<made, file, phase, io>>, FrameTypes'
  PROVE  WorkInv'
<1> USE BoundsAreNat
<1>1. /\ m_Decompiler' = 0
      /\ sess' \in [Sessions -> SessionRecords]
      /\ \A r \in Sessions : sess'[r].Closed = sess[r].Closed
      /\ LiveIsCurrent'
      /\ UNCHANGED now
      /\ \/ UNCHANGED todo
         \/ /\ m_Decompiler # 0
            /\ SE!Submit([kind |-> "drop", s |-> m_Decompiler, arg |-> 0])
  BY Replaced
<1>2. todo' \in Seq(WorkItems) /\ \A i \in 1..Len(todo') : todo'[i].s \in 1..made'
  <2>1. CASE UNCHANGED todo
    BY <2>1 DEF WorkInv, SessionTypes, OnlyMade
  <2>2. CASE m_Decompiler # 0 /\ SE!Submit([kind |-> "drop", s |-> m_Decompiler, arg |-> 0])
    <3> DEFINE w == [kind |-> "drop", s |-> m_Decompiler, arg |-> 0]
    <3>1. w \in WorkItems /\ w.s \in 1..made
      BY <2>2 DEF WorkInv, SessionTypes, WorkItems, Kinds, Sessions
    <3>2. /\ todo' \in Seq(WorkItems) /\ Len(todo') = Len(todo) + 1
          /\ \A i \in 1..Len(todo) : todo'[i] = todo[i]
          /\ todo'[Len(todo) + 1] = w
      BY <2>2, <3>1, Submitted DEF WorkInv
    <3>3. made' \in Nat /\ made <= made' /\ w.s \in 1..made'
      BY <3>1 DEF WorkInv, SessionTypes
    <3>4. QED
      BY <3>2, <3>3, QueueOfMade
  <2>3. QED
    BY <1>1, <2>1, <2>2
<1>3. io = "reading" => ~sess'[now.s].Closed
  BY <1>1, ReadingIsMade DEF WorkInv, ReadingIsOpen
<1>4. made' \in 0..MaxSessions /\ made <= made' /\ m_Decompiler' \in 0..made'
  BY <1>1 DEF WorkInv, SessionTypes
<1>5. QED
  BY <1>1, <1>2, <1>3, <1>4, FrameKeepsWork

\* The name is told to the session there is.
LEMMA RenameKeepsWork ==
  ASSUME WorkInv, RenameFunction
  PROVE  WorkInv'
<1> USE BoundsAreNat
<1>1. UNCHANGED <<phase, io, sess, made, file, files, window, m_Decompiler, reqs, driver, inbox>>
      /\ names' = names + 1 /\ TellDecompiler
  BY DEF RenameFunction, fileVars, requestVars
<1>2. FrameTypes'
  BY <1>1 DEF WorkInv, SessionTypes, FrameTypes
<1>3. CASE m_Decompiler = 0
  <2>1. UNCHANGED <<todo, now>>
    BY <1>1, <1>3 DEF TellDecompiler
  <2>2. QED
    BY <1>1, <1>2, <2>1, QuietKeepsWork
<1>4. CASE m_Decompiler # 0
  <2> DEFINE w == [kind |-> "rename", s |-> m_Decompiler, arg |-> names']
  <2>1. w \in WorkItems /\ w.s \in 1..made
    BY <1>1, <1>4 DEF WorkInv, SessionTypes, WorkItems, Kinds, Sessions
  <2>2. SE!Submit(w)
    BY <1>1, <1>4 DEF TellDecompiler
  <2>3. /\ todo' \in Seq(WorkItems) /\ Len(todo') = Len(todo) + 1 /\ UNCHANGED now
        /\ \A i \in 1..Len(todo) : todo'[i] = todo[i]
        /\ todo'[Len(todo) + 1] = w
    BY <2>1, <2>2, Submitted DEF WorkInv
  <2>4. \A i \in 1..Len(todo') : todo'[i].s \in 1..made'
    <3>1. w.s \in 1..made' /\ made <= made' /\ made' \in Nat
      BY <1>1, <2>1 DEF WorkInv, SessionTypes
    <3>2. QED
      BY <2>3, <3>1, QueueOfMade
  <2>5. LiveIsCurrent' /\ (io = "reading" => ~sess'[now.s].Closed)
    BY <1>1 DEF WorkInv, LiveIsCurrent, ReadingIsOpen
  <2>6. /\ made' \in 0..MaxSessions /\ made <= made' /\ m_Decompiler' \in 0..made'
        /\ sess' \in [Sessions -> SessionRecords]
    BY <1>1 DEF WorkInv, SessionTypes
  <2>7. QED
    BY <1>1, <1>2, <2>3, <2>4, <2>5, <2>6, FrameKeepsWork
<1>5. QED
  BY <1>3, <1>4

\* OnXrefsBuilt: the names found may have the session made again, and a driver is analyzed by
\* the one there is then: two pieces of work may be posted.
XrefsNames == MakeAgain /\ UNCHANGED <<made, driver>>
Driver(again, s) ==
  LET drop == again /\ m_Decompiler # 0
  IN /\ IF drop
        THEN /\ made < MaxSessions
             /\ s = made + 1
             /\ made' = s
             /\ sess' = [sess EXCEPT ![m_Decompiler].Stale = TRUE,
                                     ![s] = [NoSession EXCEPT !.file = file]]
             /\ m_Decompiler' = s
        ELSE Decompiler(m_Decompiler, s)
     /\ SE!SubmitAll((IF drop THEN <<[kind |-> "drop", s |-> m_Decompiler, arg |-> 0]>> ELSE <<>>)
                     \o <<[kind |-> "driver", s |-> s, arg |-> driver.generation]>>)

LEMMA XrefsSteps ==
  ASSUME OnXrefsBuilt
  PROVE  /\ UNCHANGED <<phase, io, window, file, files, closing, refresh, requestVars, viewVars, names, inbox>>
         /\ XrefsNames \/ (/\ \E again \in BOOLEAN, s \in Sessions : Driver(again, s)
                           /\ driver' = [driver EXCEPT !.state = "analyzing"])
  BY DEF OnXrefsBuilt, XrefsNames, Driver

\* The session that replaces another
LEMMA ReplacedAtOnce ==
  ASSUME WorkInv, NEW s \in Sessions, m_Decompiler # 0, Driver(TRUE, s), UNCHANGED file
  PROVE  /\ s = made + 1 /\ made' = s /\ m_Decompiler' = s /\ made' \in 0..MaxSessions
         /\ sess' \in [Sessions -> SessionRecords]
         /\ \A r \in 1..made : /\ sess'[r].Closed = sess[r].Closed /\ sess'[r].state = sess[r].state
                               /\ sess'[r].names = sess[r].names
         /\ sess'[s].state = "new"
         /\ LiveIsCurrent'
<1> USE BoundsAreNat DEF WorkInv, SessionTypes, Sessions
<1>0. made \in Nat /\ file \in Nat
  OBVIOUS
<1>1. /\ made < MaxSessions /\ s = made + 1 /\ made' = s /\ m_Decompiler' = s
      /\ sess' = [sess EXCEPT ![m_Decompiler].Stale = TRUE, ![s] = [NoSession EXCEPT !.file = file]]
  BY DEF Driver
<1> DEFINE new == [NoSession EXCEPT !.file = file]
           old == [sess[m_Decompiler] EXCEPT !.Stale = TRUE]
<1>2. new \in SessionRecords /\ new.state = "new" /\ new.file = file
  BY DEF NoSession, SessionRecords, SessionStates
<1>3. /\ m_Decompiler \in 1..made /\ m_Decompiler # s
      /\ sess[m_Decompiler] \in SessionRecords /\ \A r \in 1..made : r \in Sessions
  BY <1>1
<1>4. /\ old \in SessionRecords /\ old.Stale /\ old.Closed = sess[m_Decompiler].Closed
      /\ old.state = sess[m_Decompiler].state /\ old.names = sess[m_Decompiler].names
  BY <1>3 DEF SessionRecords
<1> HIDE DEF new, old
<1>5. sess' = [r \in Sessions |-> IF r = s THEN new ELSE IF r = m_Decompiler THEN old ELSE sess[r]]
  BY <1>1, <1>3 DEF new, old
<1>6. sess' \in [Sessions -> SessionRecords]
  <2>1. \A r \in Sessions : sess[r] \in SessionRecords
    OBVIOUS
  <2>2. QED
    BY <1>2, <1>4, <1>5, <2>1
<1>7. sess'[s] = new /\ \A r \in 1..made : sess'[r] = IF r = m_Decompiler THEN old ELSE sess[r]
  <2>1. \A r \in 1..made : r # s
    BY <1>1
  <2>2. QED
    BY <1>3, <1>5, <2>1
<1>8. \A r \in 1..made : /\ sess'[r].Closed = sess[r].Closed /\ sess'[r].state = sess[r].state
                         /\ sess'[r].names = sess[r].names
  BY <1>4, <1>7
<1>9. LiveIsCurrent'
  <2> SUFFICES ASSUME NEW r \in 1..made', ~sess'[r].Stale, ~sess'[r].Closed
               PROVE  r = s /\ sess'[r].file = file'
    BY <1>1 DEF LiveIsCurrent
  <2>1. r \in 1..made \/ r = s
    BY <1>1
  <2>2. ASSUME r \in 1..made
        PROVE  FALSE
    <3>1. r # m_Decompiler
      BY <1>4, <1>7, <2>2
    <3>2. sess'[r] = sess[r]
      BY <1>7, <2>2, <3>1
    <3>3. QED
      BY <2>2, <3>1, <3>2 DEF LiveIsCurrent
  <2>3. QED
    BY <2>1, <2>2, <1>2, <1>7
<1>10. made' \in 0..MaxSessions
  BY <1>0, <1>1
<1>11. QED
  BY <1>1, <1>2, <1>6, <1>7, <1>8, <1>9, <1>10

LEMMA DriverKeepsWork ==
  ASSUME WorkInv, NEW again \in BOOLEAN, NEW s \in Sessions, Driver(again, s),
         UNCHANGED <<phase, io, file>>, FrameTypes'
  PROVE  WorkInv'
<1> USE BoundsAreNat
<1> DEFINE d == [kind |-> "drop", s |-> m_Decompiler, arg |-> 0]
           w == [kind |-> "driver", s |-> s, arg |-> driver.generation]
<1>1. w \in WorkItems
  BY DEF WorkInv, SessionTypes, WorkItems, Kinds
<1>2. CASE again /\ m_Decompiler # 0
  <2>1. /\ s = made + 1 /\ made' = s /\ m_Decompiler' = s /\ made' \in 0..MaxSessions
        /\ sess' \in [Sessions -> SessionRecords]
        /\ \A r \in 1..made : sess'[r].Closed = sess[r].Closed
        /\ LiveIsCurrent'
    BY <1>2, ReplacedAtOnce
  <2>2. d \in WorkItems /\ d.s \in 1..made /\ w.s = s
    BY <1>2 DEF WorkInv, SessionTypes, WorkItems, Kinds, Sessions
  <2>3. todo' = todo \o (<<d>> \o <<w>>) /\ UNCHANGED now
    BY <1>2 DEF Driver, SE!SubmitAll
  <2> HIDE DEF d, w
  <2>4. todo' \in Seq(WorkItems)
    BY <1>1, <2>2, <2>3 DEF WorkInv, SessionTypes
  <2>5. \A i \in 1..Len(todo') : \/ i \in 1..Len(todo) /\ todo'[i] = todo[i]
                                 \/ todo'[i] = d \/ todo'[i] = w
    BY <1>1, <2>2, <2>3 DEF WorkInv, SessionTypes
  <2>6. \A i \in 1..Len(todo') : todo'[i].s \in 1..made'
    <3> SUFFICES ASSUME NEW i \in 1..Len(todo')
                 PROVE  todo'[i].s \in 1..made'
      OBVIOUS
    <3>1. CASE i \in 1..Len(todo) /\ todo'[i] = todo[i]
      <4>1. todo'[i].s \in 1..made
        BY <3>1 DEF WorkInv, OnlyMade
      <4>2. QED
        BY <2>1, <4>1 DEF WorkInv, SessionTypes
    <3>2. CASE todo'[i] = d \/ todo'[i] = w
      BY <3>2, <2>1, <2>2 DEF WorkInv, SessionTypes
    <3>3. QED
      BY <2>5, <3>1, <3>2
  <2>7. io = "reading" => ~sess'[now.s].Closed
    BY <2>1, ReadingIsMade DEF WorkInv, ReadingIsOpen
  <2>8. made <= made' /\ m_Decompiler' \in 0..made'
    BY <2>1 DEF WorkInv, SessionTypes
  <2>9. QED
    BY <2>1, <2>3, <2>4, <2>6, <2>7, <2>8, FrameKeepsWork
<1>3. CASE ~(again /\ m_Decompiler # 0)
  <2>1. Decompiler(m_Decompiler, s) /\ SE!SubmitAll(<<>> \o <<w>>)
    BY <1>3 DEF Driver
  <2> HIDE DEF w
  <2>2. SE!Submit(w)
    <3>1. <<>> \o <<w>> = <<w>>
      OBVIOUS
    <3>2. QED
      BY <2>1, <3>1 DEF SE!Submit
  <2>3. /\ todo' \in Seq(WorkItems) /\ Len(todo') = Len(todo) + 1 /\ UNCHANGED now
        /\ \A i \in 1..Len(todo) : todo'[i] = todo[i]
        /\ todo'[Len(todo) + 1] = w
    BY <1>1, <2>2, Submitted DEF WorkInv
  <2>4. /\ made' \in 0..MaxSessions /\ made <= made' /\ m_Decompiler' = s /\ s \in 1..made'
        /\ sess' \in [Sessions -> SessionRecords] /\ \A r \in 1..made : sess'[r] = sess[r]
        /\ LiveIsCurrent'
    BY <2>1, Asks
  <2>5. \A i \in 1..Len(todo') : todo'[i].s \in 1..made'
    <3>1. w.s \in 1..made' /\ made' \in Nat
      BY <2>4 DEF w
    <3>2. QED
      BY <2>3, <2>4, <3>1, QueueOfMade
  <2>6. io = "reading" => ~sess'[now.s].Closed
    BY <2>4, ReadingIsMade DEF WorkInv, ReadingIsOpen
  <2>7. m_Decompiler' \in 0..made'
    BY <2>4
  <2>8. QED
    BY <2>3, <2>4, <2>5, <2>6, <2>7, FrameKeepsWork
<1>4. QED
  BY <1>2, <1>3

\* CloseDecompiler(true), from the lock on: the session is told, unless it is being read.
LEMMA CloseKeepsWork ==
  ASSUME WorkInv, CloseDecompilerEnd
  PROVE  WorkInv'
<1> USE BoundsAreNat
<1>1. /\ UNCHANGED <<phase, io, made, reqs, names, inbox>>
      /\ files' \in Nat /\ file' \in Nat /\ window' \in BOOLEAN
      /\ driver' \in [state : DriverStates, generation : Nat, of : Nat]
  BY DEF CloseDecompilerEnd, requestVars, WorkInv, SessionTypes, DriverStates
<1>2. FrameTypes'
  BY <1>1 DEF WorkInv, SessionTypes, FrameTypes
<1>3. CASE m_Decompiler = 0
  <2>1. UNCHANGED <<todo, now, sess, m_Decompiler>>
    BY <1>3 DEF CloseDecompilerEnd
  <2>2. LiveIsCurrent' /\ (io = "reading" => ~sess'[now.s].Closed)
    <3>1. \A r \in 1..made : r # m_Decompiler
      BY <1>3
    <3>2. \A r \in 1..made : sess[r].Stale \/ sess[r].Closed
      BY <3>1 DEF WorkInv, LiveIsCurrent
    <3>3. QED
      BY <1>1, <2>1, <3>2 DEF WorkInv, LiveIsCurrent, ReadingIsOpen
  <2>3. QED
    BY <1>1, <1>2, <2>1, <2>2, FrameKeepsWork DEF WorkInv, SessionTypes, OnlyMade
<1>4. CASE m_Decompiler # 0
  <2> DEFINE d == [kind |-> "drop", s |-> m_Decompiler, arg |-> 0]
  <2>1. /\ ImageFree(m_Decompiler) /\ sess' = [sess EXCEPT ![m_Decompiler].Closed = TRUE]
        /\ SE!Submit(d) /\ m_Decompiler' = 0
    BY <1>4 DEF CloseDecompilerEnd, LetGo
  <2>2. d \in WorkItems /\ m_Decompiler \in 1..made /\ d.s \in 1..made
    BY <1>4 DEF WorkInv, SessionTypes, WorkItems, Kinds, Sessions
  <2>3. /\ todo' \in Seq(WorkItems) /\ Len(todo') = Len(todo) + 1 /\ UNCHANGED now
        /\ \A i \in 1..Len(todo) : todo'[i] = todo[i]
        /\ todo'[Len(todo) + 1] = d
    BY <2>1, <2>2, Submitted DEF WorkInv
  <2>4. \A i \in 1..Len(todo') : todo'[i].s \in 1..made'
    <3>1. made <= made' /\ made' \in Nat /\ d.s \in 1..made'
      BY <1>1, <2>2 DEF WorkInv, SessionTypes
    <3>2. QED
      BY <2>3, <3>1, QueueOfMade
  <2>5. /\ sess' \in [Sessions -> SessionRecords]
        /\ \A r \in Sessions : sess'[r].Stale = sess[r].Stale
                              /\ sess'[r].Closed = (r = m_Decompiler \/ sess[r].Closed)
    BY <2>1, <2>2 DEF WorkInv, SessionTypes, SessionRecords, Sessions
  <2>6. LiveIsCurrent'
    <3>1. \A r \in 1..made : r \in Sessions
      BY DEF WorkInv, SessionTypes, Sessions
    <3>2. QED
      BY <1>1, <2>5, <3>1 DEF WorkInv, LiveIsCurrent
  <2>7. io = "reading" => ~sess'[now.s].Closed
    BY <2>1, <2>5, ReadingIsMade DEF ImageFree, WorkInv, ReadingIsOpen
  <2>8. made' \in 0..MaxSessions /\ made <= made' /\ m_Decompiler' \in 0..made'
    BY <1>1, <2>1 DEF WorkInv, SessionTypes
  <2>9. QED
    BY <1>1, <1>2, <2>3, <2>4, <2>5, <2>6, <2>7, <2>8, FrameKeepsWork
<1>5. QED
  BY <1>3, <1>4

-----------------------------------------------------------------------------
(* The thread's steps *)

\* No step of the thread closes, replaces or makes a session.
SessionsStay ==
  /\ sess' \in [Sessions -> SessionRecords]
  /\ \A r \in Sessions : /\ sess'[r].Closed = sess[r].Closed /\ sess'[r].Stale = sess[r].Stale
                        /\ sess'[r].file = sess[r].file
  /\ UNCHANGED <<made, m_Decompiler, file>>

LEMMA SessionsStayLive == WorkInv /\ SessionsStay => LiveIsCurrent'
<1> SUFFICES ASSUME WorkInv, SessionsStay
             PROVE  LiveIsCurrent'
  OBVIOUS
<1>1. \A r \in 1..made : r \in Sessions
  BY BoundsAreNat DEF WorkInv, SessionTypes, Sessions
<1>2. QED
  BY <1>1 DEF SessionsStay, WorkInv, LiveIsCurrent

\* The answer to the last question of Open, or the end of Open
LEMMA SessionsMade ==
  ASSUME WorkInv, NEW s \in Sessions, NEW state \in SessionStates, NEW n \in Nat,
         UNCHANGED <<made, m_Decompiler, file>>,
         \/ sess' = [sess EXCEPT ![s].state = state, ![s].names = n]
         \/ sess' = [sess EXCEPT ![s].state = state]
         \/ sess' = [sess EXCEPT ![s].names = n]
         \/ sess' = sess
  PROVE  SessionsStay
<1>1. sess \in [Sessions -> SessionRecords]
  BY DEF WorkInv, SessionTypes
<1>2. CASE sess' = [sess EXCEPT ![s].state = state, ![s].names = n]
  <2> DEFINE r == [[sess[s] EXCEPT !.state = state] EXCEPT !.names = n]
  <2>1. /\ r \in SessionRecords /\ r.Closed = sess[s].Closed /\ r.Stale = sess[s].Stale
        /\ r.file = sess[s].file
    BY <1>1 DEF SessionRecords
  <2>2. sess' = [sess EXCEPT ![s] = r]
    BY <1>1, <1>2
  <2> HIDE DEF r
  <2>3. QED
    BY <1>1, <2>1, <2>2 DEF SessionsStay
<1>3. CASE sess' = [sess EXCEPT ![s].state = state]
  BY <1>1, <1>3 DEF SessionsStay, SessionRecords
<1>4. CASE sess' = [sess EXCEPT ![s].names = n]
  BY <1>1, <1>4 DEF SessionsStay, SessionRecords
<1>5. CASE sess' = sess
  BY <1>1, <1>5 DEF SessionsStay
<1>6. QED
  BY <1>2, <1>3, <1>4, <1>5

\* What the thread works on was made.
LEMMA NowIsMade == WorkInv /\ phase # "idle" => /\ now \in WorkItems /\ now # NoWork
                                               /\ now.s \in 1..made /\ now.s \in Sessions
<1> SUFFICES ASSUME WorkInv, phase # "idle"
             PROVE  /\ now \in WorkItems /\ now # NoWork
                    /\ now.s \in 1..made /\ now.s \in Sessions
  OBVIOUS
<1>1. now \in WorkItems /\ now # NoWork
  BY DEF WorkInv, SessionTypes, ThreadControl
<1>2. QED
  BY <1>1, BoundsAreNat DEF WorkInv, SessionTypes, OnlyMade, WorkItems

\* In the middle of a piece of work
LEMMA WorkGoesOn ==
  ASSUME WorkInv, phase # "idle", SessionsStay, FrameTypes', UNCHANGED <<todo, now>>,
         phase' \in {"begin", "open", "use", "post"}, io' \in {"none", "reading", "asking", "names"},
         io' # "none" => phase' \in {"open", "use"}, phase' # "begin" => Running,
         io' = "reading" => ~sess[now.s].Closed
  PROVE  WorkInv'
<1>1. now \in WorkItems /\ now # NoWork /\ now.s \in 1..made /\ now.s \in Sessions
  BY NowIsMade
<1>2. LiveIsCurrent'
  BY SessionsStayLive
<1>3. ReadingIsOpen'
  BY <1>1 DEF SessionsStay, ReadingIsOpen
<1>4. SessionTypes'
  BY DEF WorkInv, SessionTypes, SessionsStay, FrameTypes
<1>5. ThreadControl'
  BY <1>1 DEF ThreadControl, Running
<1>6. OnlyMade'
  BY DEF WorkInv, OnlyMade, SessionsStay
<1>7. QED
  BY <1>2, <1>3, <1>4, <1>5, <1>6 DEF WorkInv

\* A piece of work ends.
LEMMA WorkEnds ==
  ASSUME WorkInv, SessionsStay, FrameTypes', EndOfWork, UNCHANGED io, io = "none"
  PROVE  WorkInv'
<1>1. now' = NoWork /\ phase' = "idle" /\ UNCHANGED todo
  BY DEF EndOfWork, SE!Finish
<1>2. LiveIsCurrent'
  BY SessionsStayLive
<1>3. SessionTypes'
  BY <1>1 DEF WorkInv, SessionTypes, SessionsStay, FrameTypes
<1>4. ThreadControl' /\ OnlyMade' /\ ReadingIsOpen'
  BY <1>1 DEF WorkInv, ThreadControl, OnlyMade, ReadingIsOpen, SessionsStay
<1>5. QED
  BY <1>2, <1>3, <1>4 DEF WorkInv

\* The steps of the thread leave what only the frame changes, and add a message at most.
LEMMA ThreadLeavesFrame ==
  ASSUME WorkInv, UNCHANGED frameVars, inbox' \in Seq(Mail)
  PROVE  FrameTypes' /\ UNCHANGED <<made, m_Decompiler, file, files, window, names, reqs, driver>>
  BY DEF frameVars, fileVars, requestVars, WorkInv, SessionTypes, FrameTypes

LEMMA ThreadStepKeepsWork ==
  ASSUME WorkInv, ThreadStep
  PROVE  WorkInv'
<1>f. UNCHANGED inbox => inbox' \in Seq(Mail)
  BY DEF WorkInv, SessionTypes
<1>s. ASSUME UNCHANGED sess, UNCHANGED frameVars
      PROVE  SessionsStay
  BY <1>s DEF SessionsStay, frameVars, fileVars, WorkInv, SessionTypes
<1>i. phase # "idle" => now \in WorkItems /\ now # NoWork /\ now.s \in 1..made /\ now.s \in Sessions
  BY NowIsMade
<1>p. /\ io # "none" => phase \in {"open", "use"}
      /\ phase \in {"open", "use", "post"} => Running
  BY DEF WorkInv, ThreadControl
<1>1. CASE Take
  <2>1. /\ now = NoWork /\ todo # <<>> /\ now' = Head(todo) /\ todo' = Tail(todo) /\ phase' = "begin"
        /\ UNCHANGED <<io, sess, inbox>> /\ UNCHANGED frameVars
    BY <1>1 DEF Take, SE!Start
  <2>2. SessionsStay /\ FrameTypes'
    BY <1>f, <1>s, <2>1, ThreadLeavesFrame
  <2>3. todo \in Seq(WorkItems) /\ Len(todo) \in Nat /\ \A i \in 1..Len(todo) : todo[i].s \in 1..made
    BY DEF WorkInv, SessionTypes, OnlyMade
  <2>4. now' = todo[1] /\ 1 \in 1..Len(todo) /\ now' \in WorkItems /\ todo' \in Seq(WorkItems)
    BY <2>1, <2>3
  <2>5. Len(todo') = Len(todo) - 1 /\ \A i \in 1..Len(todo') : i + 1 \in 1..Len(todo) /\ todo'[i] = todo[i + 1]
    BY <2>1, <2>3
  <2>6. now'.s \in 1..made /\ \A i \in 1..Len(todo') : todo'[i].s \in 1..made
    BY <2>3, <2>4, <2>5
  <2>7. OnlyMade'
    BY <2>2, <2>6 DEF OnlyMade, SessionsStay
  <2>8. now' # NoWork
    BY <2>4, BoundsAreNat DEF NoWork, WorkItems, Kinds
  <2>9. io' = "none"
    BY <2>1, <1>p DEF WorkInv, ThreadControl
  <2>10. ThreadControl' /\ ReadingIsOpen'
    BY <2>1, <2>8, <2>9 DEF ThreadControl, ReadingIsOpen
  <2>11. SessionTypes'
    BY <2>1, <2>2, <2>4 DEF WorkInv, SessionTypes, SessionsStay, FrameTypes
  <2>12. QED
    BY <2>2, <2>7, <2>10, <2>11, SessionsStayLive DEF WorkInv
<1>2. CASE SkipCancelled \/ DropSession
  <2>1. EndOfWork /\ UNCHANGED <<io, sess, inbox>> /\ UNCHANGED frameVars /\ io = "none"
    BY <1>2, <1>p DEF SkipCancelled, DropSession
  <2>2. QED
    BY <1>f, <1>s, <2>1, ThreadLeavesFrame, WorkEnds
<1>3. CASE Open
  <2>1. /\ phase = "begin" /\ Running /\ phase' \in {"use", "post", "open"} /\ io = "none"
        /\ UNCHANGED <<todo, now, io, sess, inbox>> /\ UNCHANGED frameVars
    <3>1. sess[now.s].state \in {"new", "made", "failed"}
      BY <1>3, <1>i DEF Open, WorkInv, SessionTypes, SessionRecords, SessionStates
    <3>2. QED
      BY <1>3, <1>p, <3>1 DEF Open
  <2>2. QED
    BY <1>f, <1>s, <2>1, ThreadLeavesFrame, WorkGoesOn
<1>4. CASE OpenFails
  <2>1. /\ phase = "open" /\ io = "none" /\ phase' = "post" /\ Running
        /\ sess' = [sess EXCEPT ![now.s].state = "failed"]
        /\ UNCHANGED <<todo, now, io, inbox>> /\ UNCHANGED frameVars
    BY <1>4, <1>p DEF OpenFails
  <2>2. FrameTypes' /\ UNCHANGED <<made, m_Decompiler, file>>
    BY <1>f, <2>1, ThreadLeavesFrame
  <2>3. SessionsStay
    BY <1>i, <2>1, <2>2, SessionsMade DEF SessionStates
  <2>4. QED
    BY <2>1, <2>2, <2>3, WorkGoesOn
<1>5. CASE OpenAsksNames
  <2>1. /\ phase = "open" /\ io = "none" /\ Running
        /\ UNCHANGED <<todo, now, inbox>> /\ UNCHANGED frameVars
        /\ \/ sess' = [sess EXCEPT ![now.s].state = "made"] /\ phase' = "use" /\ io' = io
           \/ io' = "names" /\ sess' = sess /\ phase' = phase
    BY <1>5, <1>p DEF OpenAsksNames
  <2>2. FrameTypes' /\ UNCHANGED <<made, m_Decompiler, file>>
    BY <1>f, <2>1, ThreadLeavesFrame
  <2>3. SessionsStay
    BY <1>i, <2>1, <2>2, SessionsMade DEF SessionStates
  <2>4. QED
    BY <2>1, <2>2, <2>3, WorkGoesOn
<1>6. CASE ReadBegin \/ ReadEnd \/ Ask \/ Decompile
  <2>1. /\ phase \in {"open", "use"} /\ Running /\ phase' \in {phase, "post"}
        /\ io' \in {"none", "reading", "asking"} /\ (phase' = "post" => io' = "none")
        /\ io' = "reading" => ~sess[now.s].Closed
        /\ UNCHANGED <<todo, now, sess, inbox>> /\ UNCHANGED frameVars
    <3>1. CASE ReadBegin
      BY <1>p, <3>1 DEF ReadBegin
    <3>2. CASE ReadEnd
      BY <1>p, <3>2 DEF ReadEnd, ReadEnds
    <3>3. CASE Ask
      BY <1>p, <3>3 DEF Ask
    <3>4. CASE Decompile
      BY <1>p, <3>4 DEF Decompile
    <3>5. QED
      BY <1>6, <3>1, <3>2, <3>3, <3>4
  <2>2. QED
    BY <1>f, <1>s, <2>1, ThreadLeavesFrame, WorkGoesOn
<1>7. CASE PostResult
  <2> DEFINE m == [kind |-> IF now.kind = "driver" THEN "driver" ELSE "decompiled",
                   arg |-> now.arg, names |-> sess[now.s].names,
                   ok |-> sess[now.s].state = "made", file |-> sess[now.s].file]
  <2>1. /\ phase = "post" /\ EndOfWork /\ io = "none" /\ UNCHANGED <<io, sess>> /\ UNCHANGED frameVars
        /\ inbox' = inbox \/ inbox' = Append(inbox, m)
    BY <1>7, <1>p DEF PostResult
  <2>2. now.arg \in Nat /\ sess[now.s] \in SessionRecords
    BY <1>i, <2>1 DEF WorkItems, WorkInv, SessionTypes
  <2>3. m \in Mail
    BY <2>2 DEF Mail, SessionRecords
  <2> HIDE DEF m
  <2>4. inbox' \in Seq(Mail)
    <3>1. inbox \in Seq(Mail)
      BY DEF WorkInv, SessionTypes
    <3>2. Append(inbox, m) \in Seq(Mail)
      BY <2>3, <3>1
    <3>3. QED
      BY <2>1, <3>1, <3>2
  <2>5. QED
    BY <1>s, <2>1, <2>4, ThreadLeavesFrame, WorkEnds
<1>8. CASE ApplyRename
  <2>1. /\ phase = "begin" /\ EndOfWork /\ io = "none" /\ UNCHANGED <<io, inbox>> /\ UNCHANGED frameVars
        /\ sess' = sess \/ sess' = [sess EXCEPT ![now.s].names = now.arg]
    BY <1>8, <1>p DEF ApplyRename
  <2>2. FrameTypes' /\ UNCHANGED <<made, m_Decompiler, file>>
    BY <1>f, <2>1, ThreadLeavesFrame
  <2>3. now.arg \in Nat /\ now.s \in Sessions /\ "made" \in SessionStates
    BY <1>i, <2>1 DEF WorkItems, SessionStates
  <2>4. SessionsStay
    BY <2>1, <2>2, <2>3, SessionsMade
  <2>5. QED
    BY <2>1, <2>2, <2>4, WorkEnds
<1>9. QED
  BY <1>1, <1>2, <1>3, <1>4, <1>5, <1>6, <1>7, <1>8 DEF ThreadStep

\* The frame answers what the thread asks, or is not there to answer.
LEMMA AnswerKeepsWork ==
  ASSUME WorkInv, OnDecompilerAsk \/ AskWindowGone
  PROVE  WorkInv'
<1>1. /\ io # "none" /\ io' = "none" /\ phase' \in {phase, "use"}
      /\ UNCHANGED <<todo, now, made, file, files, window, m_Decompiler, reqs, names, driver, inbox>>
      /\ \/ sess' = sess
         \/ sess' = [sess EXCEPT ![now.s].state = "made"]
         \/ sess' = [sess EXCEPT ![now.s].state = "made", ![now.s].names = names]
         \/ sess' = [sess EXCEPT ![now.s].state = "made", ![now.s].names = sess[now.s].names]
  BY DEF OnDecompilerAsk, AskWindowGone, AskArrives, AskRuns, Asked, fileVars, requestVars
<1>2. now.s \in Sessions /\ phase \in {"open", "use"} /\ Running
  BY <1>1, ReadingIsMade DEF WorkInv, ThreadControl
<1>3. sess[now.s].names \in Nat /\ names \in Nat /\ "made" \in SessionStates
  BY <1>2 DEF WorkInv, SessionTypes, SessionRecords, SessionStates
<1>4. SessionsStay
  BY <1>1, <1>2, <1>3, SessionsMade
<1>5. FrameTypes'
  BY <1>1 DEF WorkInv, SessionTypes, FrameTypes
<1>6. QED
  BY <1>1, <1>2, <1>4, <1>5, WorkGoesOn

\* The end of the thread
LEMMA ShutdownKeepsWork ==
  ASSUME WorkInv, Shutdown
  PROVE  WorkInv'
<1>1. todo' = <<>> /\ UNCHANGED <<now, phase, io, sess, inbox>> /\ UNCHANGED frameVars
  BY DEF Shutdown, SE!End
<1>2. FrameTypes' /\ UNCHANGED <<made, m_Decompiler, file, files>>
  BY <1>1, ThreadLeavesFrame DEF WorkInv, SessionTypes
<1>3. LiveIsCurrent' /\ ReadingIsOpen' /\ ThreadControl'
  BY <1>1, <1>2 DEF WorkInv, LiveIsCurrent, ReadingIsOpen, ThreadControl, Running
<1>4. SessionTypes' /\ OnlyMade'
  BY <1>1, <1>2 DEF WorkInv, SessionTypes, FrameTypes, OnlyMade
<1>5. QED
  BY <1>3, <1>4 DEF WorkInv

-----------------------------------------------------------------------------
(* What is read and asked is of the open file *)

LEMMA NextWorkInv == WorkInv /\ [Next]_vars => WorkInv'
<1> SUFFICES ASSUME WorkInv, [Next]_vars
             PROVE  WorkInv'
  OBVIOUS
<1>f. FrameTypes /\ todo \in Seq(WorkItems)
  BY DEF WorkInv, SessionTypes, FrameTypes
<1>1. ASSUME NEW v \in Views, DecompileFunction(v)
      PROVE  WorkInv'
  BY <1>1, DecompileAsyncKeepsWork DEF DecompileFunction, fileVars
<1>2. ASSUME NEW v \in Views, Redecompile(v)
      PROVE  WorkInv'
  <2>1. CASE DecompileAsync(v)
    BY <1>2, <2>1, DecompileAsyncKeepsWork DEF Redecompile, fileVars
  <2>2. CASE UNCHANGED <<todo, now, ended, sess, made, m_Decompiler, requestVars>>
    <3>1. UNCHANGED <<todo, now, phase, io, sess, made, m_Decompiler, file, files, window, names, reqs,
                      driver, inbox>>
      BY <1>2, <2>2 DEF Redecompile, fileVars, requestVars
    <3>2. QED
      BY <1>f, <3>1, QuietKeepsWork DEF FrameTypes
  <2>3. QED
    BY <1>2, <2>1, <2>2 DEF Redecompile
<1>3. ASSUME \/ \E v \in Views : CloseTab(v)
             \/ OnWindowCloseAll
             \/ \E why \in CloseReasons : CloseDecompilerBegin(why)
             \/ OnDecompiled
      PROVE  WorkInv'
  <2>1. UNCHANGED <<todo, now, phase, io, sess, made, m_Decompiler, file, files, window, names, reqs, driver>>
        /\ (inbox' = inbox \/ (inbox # <<>> /\ inbox' = Tail(inbox)))
    <3> USE DEF threadVars, fileVars, requestVars, Cancel
    <3>1. ASSUME NEW v \in Views, CloseTab(v)
          PROVE  UNCHANGED <<todo, now, phase, io, sess, made, m_Decompiler, file, files, window, names, reqs,
                             driver, inbox>>
      BY <3>1 DEF CloseTab
    <3>2. ASSUME NEW why \in CloseReasons, CloseDecompilerBegin(why)
          PROVE  UNCHANGED <<todo, now, phase, io, sess, made, m_Decompiler, file, files, window, names, reqs,
                             driver, inbox>>
      BY <3>2 DEF CloseDecompilerBegin
    <3>3. CASE OnWindowCloseAll
      BY <3>3 DEF OnWindowCloseAll
    <3>4. CASE OnDecompiled
      BY <3>4 DEF OnDecompiled
    <3>5. QED
      BY <1>3, <3>1, <3>2, <3>3, <3>4
  <2>2. inbox' \in Seq(Mail)
    <3>1. inbox \in Seq(Mail)
      BY <1>f DEF FrameTypes
    <3>2. inbox # <<>> => Tail(inbox) \in Seq(Mail)
      BY <3>1
    <3>3. QED
      BY <2>1, <3>1, <3>2
  <2>3. QED
    BY <1>f, <2>1, <2>2, QuietKeepsWork DEF FrameTypes
<1>4. CASE RenameFunction
  BY <1>4, RenameKeepsWork
<1>5. CASE PreferConstantName \/ OnSymbolsLoaded
  <2>1. MakeAgain /\ UNCHANGED <<made, file, phase, io, files, window, names, reqs, driver, inbox>>
    BY <1>5 DEF PreferConstantName, OnSymbolsLoaded, fileVars, requestVars
  <2>2. QED
    BY <1>f, <2>1, MakeAgainKeepsWork DEF FrameTypes
<1>6. CASE OnXrefsBuilt
  <2>1. /\ UNCHANGED <<phase, io, window, file, files, reqs, names, inbox>>
        /\ XrefsNames \/ (/\ \E again \in BOOLEAN, s \in Sessions : Driver(again, s)
                           /\ driver' = [driver EXCEPT !.state = "analyzing"])
    BY <1>6, XrefsSteps DEF requestVars
  <2>2. CASE XrefsNames
    BY <1>f, <2>1, <2>2, MakeAgainKeepsWork DEF XrefsNames, FrameTypes
  <2>3. CASE (\E again \in BOOLEAN, s \in Sessions : Driver(again, s))
             /\ driver' = [driver EXCEPT !.state = "analyzing"]
    <3>1. FrameTypes'
      BY <1>f, <2>1, <2>3 DEF FrameTypes, DriverStates
    <3>2. QED
      BY <2>1, <2>3, <3>1, DriverKeepsWork
  <2>4. QED
    BY <2>1, <2>2, <2>3
<1>7. CASE CloseDecompilerEnd
  BY <1>7, CloseKeepsWork
<1>8. CASE OnDecompilerAsk \/ AskWindowGone
  BY <1>8, AnswerKeepsWork
<1>9. CASE OnDriverAnalyzed
  <2>1. /\ UNCHANGED <<phase, io, made, file, files, window, reqs, names>>
        /\ inbox # <<>> /\ inbox' = Tail(inbox)
        /\ MakeAgain \/ UNCHANGED <<todo, now, sess, m_Decompiler>>
        /\ driver' = driver \/ driver' = [driver EXCEPT !.state = "done", !.of = Head(inbox).file]
    BY <1>9 DEF OnDriverAnalyzed, fileVars, requestVars
  <2>2. inbox' \in Seq(Mail) /\ Head(inbox).file \in Nat
    <3>1. inbox \in Seq(Mail) /\ Len(inbox) \in Nat \ {0}
      BY <1>f, <2>1 DEF FrameTypes
    <3>2. Head(inbox) \in Mail /\ inbox' \in Seq(Mail)
      BY <2>1, <3>1
    <3>3. QED
      BY <3>2 DEF Mail
  <2>3. driver' \in [state : DriverStates, generation : Nat, of : Nat]
    BY <1>f, <2>1, <2>2 DEF FrameTypes, DriverStates
  <2>4. FrameTypes'
    BY <1>f, <2>1, <2>2, <2>3 DEF FrameTypes
  <2>5. QED
    BY <2>1, <2>4, MakeAgainKeepsWork, QuietKeepsWork
<1>10. CASE ThreadStep
  BY <1>10, ThreadStepKeepsWork
<1>11. CASE Shutdown
  BY <1>11, ShutdownKeepsWork
<1>12. CASE Over \/ UNCHANGED vars
  <2>1. UNCHANGED <<todo, now, phase, io, sess, made, m_Decompiler, file, files, window, names, reqs,
                    driver, inbox>>
    BY <1>12 DEF Over, vars
  <2>2. QED
    BY <1>f, <2>1, QuietKeepsWork DEF FrameTypes
<1>13. QED
  BY <1>1, <1>2, <1>3, <1>4, <1>5, <1>6, <1>7, <1>8, <1>9, <1>10, <1>11, <1>12 DEF Next, FrameStep

LEMMA WorkInvImplies == WorkInv => WorkIsOfOpenFile
<1> SUFFICES ASSUME WorkInv
             PROVE  WorkIsOfOpenFile
  OBVIOUS
<1>1. ImageReadOfOpenFile
  BY ReadingIsMade DEF WorkInv, LiveIsCurrent, ReadingIsOpen, ImageReadOfOpenFile
<1>2. AskOfOpenFile
  BY ReadingIsMade DEF WorkInv, LiveIsCurrent, AskRuns, AskArrives, Asked, AskOfOpenFile
<1>3. QED
  BY <1>1, <1>2 DEF WorkIsOfOpenFile

\* What the decompiler's thread reads and asks is of the open file, of a session that was not
\* replaced before (CloseDecompiler, DecompilerSession::Ask), for any number of files.
THEOREM WorkOfOpenFile == Spec => []WorkIsOfOpenFile
<1>1. Init => WorkInv
  BY InitWorkInv
<1>2. WorkInv /\ [Next]_vars => WorkInv'
  BY NextWorkInv
<1>3. WorkInv => WorkIsOfOpenFile
  BY WorkInvImplies
<1>4. QED
  BY <1>1, <1>2, <1>3, PTL DEF Spec

-----------------------------------------------------------------------------
(* The second invariant: the names.  A session's decompiler has a version of the user's
   names; a rename that is on its way sets it again, to an older version than the decompiler
   may have by then.  So what counts for a piece of work is the last rename before it in
   the queue, or else the one in progress, or else what the decompiler has. *)

RenamesOf(s, w) == w.kind = "rename" /\ w.s = s
KnowsNames(s, n) == sess[s].state # "made" \/ sess[s].names >= n    \* (it asks for them when it is made)
AfterNow(s, n) == IF RenamesOf(s, now) THEN now.arg >= n ELSE KnowsNames(s, n)
RenamedSince(s, n, j, i) == \A k \in j..(i - 1) : RenamesOf(s, todo[k]) => todo[k].arg >= n

\* nothing is answered for a closed file, or to no window
Silent(s) == sess[s].Closed \/ ~window

\* The session s will have the names n when the work at place i of the queue is next.
WillKnow(s, n, i) ==
  \/ Silent(s)
  \/ AfterNow(s, n) /\ RenamedSince(s, n, 1, i)
  \/ \E j \in 1..(i - 1) : RenamesOf(s, todo[j]) /\ RenamedSince(s, n, j, i)

PlaceAsks(i) == todo[i].kind = "decompile" => todo[i].arg \in 1..Len(reqs)
AsksMade ==
  /\ \A r \in 1..Len(reqs) : reqs[r].names <= names
  /\ now.kind = "decompile" => now.arg \in 1..Len(reqs)
  /\ \A i \in 1..Len(todo) : PlaceAsks(i)
  /\ \A i \in 1..Len(inbox) : inbox[i].kind = "decompiled" => inbox[i].arg \in 1..Len(reqs)

CurrentWillKnow == m_Decompiler # 0 => WillKnow(m_Decompiler, names, Len(todo) + 1)
PlaceWillKnow(i) == todo[i].kind = "decompile" => WillKnow(todo[i].s, reqs[todo[i].arg].names, i)
QueueWillKnow == \A i \in 1..Len(todo) : PlaceWillKnow(i)
NowKnows == now.kind = "decompile" => Silent(now.s) \/ KnowsNames(now.s, reqs[now.arg].names)

NamesInv == WorkInv /\ AsksMade /\ CurrentWillKnow /\ QueueWillKnow /\ NowKnows /\ RenameIsSeen

LEMMA InitNamesInv == Init => NamesInv
  BY InitWorkInv DEF Init, SE!ExecutorInit, NamesInv, AsksMade, CurrentWillKnow, QueueWillKnow, NowKnows,
                     RenameIsSeen, NoWork

-----------------------------------------------------------------------------
(* How a promise is kept *)

\* A queue that grows by work that renames nothing for s, while s loses nothing it knew.
LEMMA PromiseStays ==
  ASSUME NEW s, NEW n, NEW i \in Nat, NEW k \in Nat, i >= 1, i <= k, WillKnow(s, n, i),
         Silent(s) => Silent(s)',
         AfterNow(s, n) => AfterNow(s, n)' \/ Silent(s)',
         \A j \in 1..(i - 1) : todo'[j] = todo[j],
         \A j \in i..(k - 1) : ~RenamesOf(s, todo'[j])
  PROVE  WillKnow(s, n, k)'
<1>1. ASSUME NEW j \in 1..i, RenamedSince(s, n, j, i)
      PROVE  RenamedSince(s, n, j, k)'
  <2> SUFFICES ASSUME NEW x \in j..(k - 1), RenamesOf(s, todo'[x])
               PROVE  todo'[x].arg >= n
    BY DEF RenamedSince, RenamesOf
  <2>1. x \in j..(i - 1)
    OBVIOUS
  <2>2. todo'[x] = todo[x]
    BY <2>1
  <2>3. QED
    BY <1>1, <2>1, <2>2 DEF RenamedSince
<1>2. CASE Silent(s)
  BY <1>2 DEF WillKnow
<1>3. CASE AfterNow(s, n) /\ RenamedSince(s, n, 1, i)
  <2>1. RenamedSince(s, n, 1, k)'
    BY <1>1, <1>3
  <2>2. QED
    BY <1>3, <2>1 DEF WillKnow
<1>4. ASSUME NEW j \in 1..(i - 1), RenamesOf(s, todo[j]), RenamedSince(s, n, j, i)
      PROVE  WillKnow(s, n, k)'
  <2>1. RenamedSince(s, n, j, k)'
    BY <1>1, <1>4
  <2>2. RenamesOf(s, todo[j])' /\ j \in 1..(k - 1)
    BY <1>4 DEF RenamesOf
  <2>3. QED
    BY <2>1, <2>2 DEF WillKnow
<1>5. QED
  BY <1>2, <1>3, <1>4 DEF WillKnow

\* The first of the queue is taken.
LEMMA PromiseTaken ==
  ASSUME NEW s, NEW n, NEW i \in Nat, i >= 1, WillKnow(s, n, i + 1), now = NoWork, now' = todo[1],
         \A j \in 1..(i - 1) : todo'[j] = todo[j + 1],
         UNCHANGED <<sess, window>>
  PROVE  WillKnow(s, n, i)'
<1>1. ASSUME NEW j \in 1..i, RenamedSince(s, n, j + 1, i + 1)
      PROVE  RenamedSince(s, n, j, i)'
  <2> SUFFICES ASSUME NEW x \in j..(i - 1), RenamesOf(s, todo'[x])
               PROVE  todo'[x].arg >= n
    BY DEF RenamedSince, RenamesOf
  <2>1. x + 1 \in (j + 1)..i /\ todo'[x] = todo[x + 1]
    OBVIOUS
  <2>2. QED
    BY <1>1, <2>1 DEF RenamedSince
<1>2. CASE Silent(s)
  BY <1>2 DEF WillKnow, Silent
<1>3. CASE AfterNow(s, n) /\ RenamedSince(s, n, 1, i + 1)
  <2>1. RenamedSince(s, n, 2, i + 1)
    BY <1>3 DEF RenamedSince
  <2>2. RenamedSince(s, n, 1, i)'
    BY <1>1, <2>1
  <2>3. ~RenamesOf(s, now) /\ KnowsNames(s, n)
    BY <1>3 DEF AfterNow, RenamesOf, NoWork
  <2>4. RenamesOf(s, todo[1]) => todo[1].arg >= n
    BY <1>3 DEF RenamedSince
  <2>5. AfterNow(s, n)'
    BY <2>3, <2>4 DEF AfterNow, KnowsNames, RenamesOf
  <2>6. QED
    BY <2>2, <2>5 DEF WillKnow
<1>4. ASSUME NEW j \in 1..i, RenamesOf(s, todo[j]), RenamedSince(s, n, j, i + 1)
      PROVE  WillKnow(s, n, i)'
  <2>1. CASE j = 1
    <3>1. AfterNow(s, n)'
      BY <1>4, <2>1 DEF RenamedSince, AfterNow, RenamesOf
    <3>2. RenamedSince(s, n, 2, i + 1)
      BY <1>4, <2>1 DEF RenamedSince
    <3>3. RenamedSince(s, n, 1, i)'
      BY <1>1, <3>2
    <3>4. QED
      BY <3>1, <3>3 DEF WillKnow
  <2>2. CASE j # 1
    <3> DEFINE p == j - 1
    <3>1. p \in 1..(i - 1) /\ p + 1 = j
      BY <2>2
    <3>2. RenamesOf(s, todo[p])'
      BY <1>4, <3>1 DEF RenamesOf
    <3>3. RenamedSince(s, n, p, i)'
      BY <1>1, <1>4, <3>1
    <3>4. QED
      BY <3>1, <3>2, <3>3 DEF WillKnow
  <2>3. QED
    BY <2>1, <2>2
<1>5. QED
  BY <1>2, <1>3, <1>4 DEF WillKnow

-----------------------------------------------------------------------------
(* The frame's steps *)

\* Sessions that were made go on knowing what they knew: the frame tells them nothing itself.
SessionsKnow ==
  /\ \A r \in 1..made : /\ sess'[r].state = sess[r].state /\ sess'[r].names = sess[r].names
                        /\ sess[r].Closed => sess'[r].Closed
  /\ ~window => ~window'
  /\ now' = now

\* A session made by this step will ask for the names.
FreshKnows(s) == s > made /\ sess'[s].state = "new"

\* the queue grows
Grows ==
  /\ todo' \in Seq(WorkItems) /\ Len(todo) <= Len(todo')
  /\ \A i \in 1..Len(todo) : todo'[i] = todo[i]

\* by work other than renames
GrowsPlainly == Grows /\ \A i \in (Len(todo) + 1)..Len(todo') : todo'[i].kind # "rename"

LEMMA KnownGoesOn ==
  ASSUME WorkInv, SessionsKnow, NEW s \in 1..made, NEW n
  PROVE  /\ Silent(s) => Silent(s)'
         /\ AfterNow(s, n) => AfterNow(s, n)'
         /\ KnowsNames(s, n) => KnowsNames(s, n)'
  BY DEF SessionsKnow, Silent, AfterNow, KnowsNames, RenamesOf

\* What was promised for the work there is, is still.
LEMMA QueueGoesOn ==
  ASSUME WorkInv, SessionsKnow, Grows, NEW i \in 1..(Len(todo) + 1), NEW s \in 1..made, NEW n, WillKnow(s, n, i)
  PROVE  WillKnow(s, n, i)'
<1>1. i \in Nat /\ i >= 1 /\ \A j \in 1..(i - 1) : todo'[j] = todo[j]
  BY DEF Grows, WorkInv, SessionTypes
<1>2. /\ Silent(s) => Silent(s)'
      /\ AfterNow(s, n) => AfterNow(s, n)'
  BY KnownGoesOn
<1>3. \A j \in i..(i - 1) : FALSE
  BY <1>1
<1>4. QED
  BY <1>1, <1>2, <1>3, PromiseStays

\* and at the end of the queue, if nothing was renamed
LEMMA EndGoesOn ==
  ASSUME WorkInv, SessionsKnow, GrowsPlainly, NEW s \in 1..made, NEW n, WillKnow(s, n, Len(todo) + 1),
         NEW k \in (Len(todo) + 1)..(Len(todo') + 1)
  PROVE  WillKnow(s, n, k)'
<1>1. /\ Len(todo) + 1 \in Nat /\ k \in Nat /\ Len(todo) + 1 >= 1 /\ Len(todo) + 1 <= k
      /\ \A j \in 1..((Len(todo) + 1) - 1) : todo'[j] = todo[j]
  BY DEF GrowsPlainly, Grows, WorkInv, SessionTypes
<1>2. /\ Silent(s) => Silent(s)'
      /\ AfterNow(s, n) => AfterNow(s, n)'
  BY KnownGoesOn
<1>3. \A j \in (Len(todo) + 1)..(k - 1) : ~RenamesOf(s, todo'[j])
  <2>1. Len(todo) \in Nat /\ Len(todo') \in Nat
    BY DEF GrowsPlainly, Grows, WorkInv, SessionTypes
  <2>2. \A j \in (Len(todo) + 1)..(k - 1) : j \in (Len(todo) + 1)..Len(todo')
    BY <2>1
  <2>3. QED
    BY <2>2 DEF GrowsPlainly, RenamesOf
<1>4. QED
  BY <1>1, <1>2, <1>3, PromiseStays

\* A session that was just made has no renames before it.
LEMMA FreshWillKnow ==
  ASSUME WorkInv, SessionsKnow, GrowsPlainly, NEW s, FreshKnows(s), NEW n, NEW k \in 1..(Len(todo') + 1)
  PROVE  WillKnow(s, n, k)'
<1>1. ~RenamesOf(s, now)
  <2>1. now # NoWork => now.s # s
    BY BoundsAreNat DEF FreshKnows, WorkInv, SessionTypes, OnlyMade
  <2>2. QED
    BY <2>1 DEF RenamesOf, NoWork
<1>2. AfterNow(s, n)'
  BY <1>1 DEF SessionsKnow, FreshKnows, AfterNow, KnowsNames, RenamesOf
<1>3. \A x \in 1..Len(todo) : ~RenamesOf(s, todo[x])
  BY BoundsAreNat DEF FreshKnows, WorkInv, SessionTypes, OnlyMade, RenamesOf
<1>4. Len(todo) \in Nat /\ Len(todo') \in Nat
  BY DEF GrowsPlainly, Grows, WorkInv, SessionTypes
<1>5. ASSUME NEW x \in 1..(k - 1)
      PROVE  ~RenamesOf(s, todo'[x])
  <2>1. x \in 1..Len(todo) \/ x \in (Len(todo) + 1)..Len(todo')
    BY <1>4
  <2>2. QED
    BY <1>3, <2>1 DEF GrowsPlainly, Grows, RenamesOf
<1>6. RenamedSince(s, n, 1, k)'
  BY <1>5 DEF RenamedSince, RenamesOf
<1>7. QED
  BY <1>2, <1>6 DEF WillKnow

\* The requests and answers there are, while the frame goes on
RequestsStay ==
  /\ Len(reqs) <= Len(reqs') /\ Len(reqs') \in Nat
  /\ \A r \in 1..Len(reqs) : reqs'[r] = reqs[r]

LEMMA PlaceGoesOn ==
  ASSUME NamesInv, SessionsKnow, Grows, RequestsStay, NEW i \in 1..Len(todo)
  PROVE  PlaceAsks(i)' /\ PlaceWillKnow(i)'
<1>1. todo'[i] = todo[i]
  BY DEF Grows
<1>2. CASE todo[i].kind # "decompile"
  BY <1>1, <1>2 DEF PlaceAsks, PlaceWillKnow
<1>3. CASE todo[i].kind = "decompile"
  <2>1. todo[i].arg \in 1..Len(reqs) /\ todo[i].s \in 1..made
        /\ WillKnow(todo[i].s, reqs[todo[i].arg].names, i)
    BY <1>3 DEF NamesInv, AsksMade, PlaceAsks, QueueWillKnow, PlaceWillKnow, WorkInv, OnlyMade
  <2>2. PICK s \in 1..made, n \in {reqs[todo[i].arg].names} : s = todo[i].s /\ n = reqs[todo[i].arg].names
    BY <2>1
  <2>3. WillKnow(s, n, i) /\ WorkInv /\ i \in 1..(Len(todo) + 1)
    BY <2>1, <2>2 DEF NamesInv, WorkInv, SessionTypes
  <2>4. WillKnow(s, n, i)'
    BY <2>3, QueueGoesOn
  <2>5. todo'[i].arg = todo[i].arg /\ s = todo'[i].s /\ n = reqs'[todo'[i].arg].names
    BY <1>1, <2>1, <2>2 DEF RequestsStay
  <2>6. PlaceWillKnow(i)'
    BY <2>4, <2>5 DEF PlaceWillKnow, WillKnow, Silent, AfterNow, KnowsNames, RenamesOf, RenamedSince
  <2>7. PlaceAsks(i)'
    BY <2>1, <2>5 DEF PlaceAsks, RequestsStay, NamesInv, WorkInv, SessionTypes
  <2>8. QED
    BY <2>6, <2>7
<1>4. QED
  BY <1>2, <1>3

LEMMA NowGoesOn ==
  ASSUME NamesInv, SessionsKnow, RequestsStay
  PROVE  NowKnows' /\ (now'.kind = "decompile" => now'.arg \in 1..Len(reqs'))
<1>1. now' = now
  BY DEF SessionsKnow
<1>2. CASE now.kind # "decompile"
  BY <1>1, <1>2 DEF NowKnows
<1>3. CASE now.kind = "decompile"
  <2>1. now.arg \in 1..Len(reqs) /\ now.s \in 1..made /\ reqs'[now.arg] = reqs[now.arg]
    BY <1>3 DEF NamesInv, AsksMade, WorkInv, OnlyMade, NoWork, RequestsStay
  <2>2. PICK s \in 1..made, n \in {reqs[now.arg].names} : s = now.s /\ n = reqs[now.arg].names
    BY <2>1
  <2>3. (Silent(s) \/ KnowsNames(s, n)) /\ WorkInv
    BY <1>3, <2>2 DEF NamesInv, NowKnows
  <2>4. Silent(s)' \/ KnowsNames(s, n)'
    BY <2>3, KnownGoesOn
  <2>5. s = now'.s /\ n = reqs'[now'.arg].names
    BY <1>1, <2>1, <2>2
  <2>6. NowKnows'
    BY <2>4, <2>5 DEF NowKnows, Silent, KnowsNames
  <2>7. QED
    BY <1>1, <2>1, <2>6 DEF RequestsStay, NamesInv, WorkInv, SessionTypes
<1>4. QED
  BY <1>2, <1>3

\* The answers that are not read yet
AnswersStay == inbox' = inbox \/ (inbox # <<>> /\ inbox' = Tail(inbox))

LEMMA AnswersGoOn ==
  ASSUME NamesInv, RequestsStay, AnswersStay
  PROVE  /\ RenameIsSeen'
         /\ \A i \in 1..Len(inbox') : inbox'[i].kind = "decompiled" => inbox'[i].arg \in 1..Len(reqs')
<1>1. inbox \in Seq(Mail) /\ Len(inbox) \in Nat /\ Len(reqs) \in Nat
  BY DEF NamesInv, WorkInv, SessionTypes
<1>2. ASSUME NEW i \in 1..Len(inbox')
      PROVE  \E k \in 1..Len(inbox) : inbox'[i] = inbox[k]
  <2>1. CASE inbox' = inbox
    BY <2>1
  <2>2. CASE inbox # <<>> /\ inbox' = Tail(inbox)
    <3>1. Len(inbox') = Len(inbox) - 1 /\ inbox'[i] = inbox[i + 1] /\ i + 1 \in 1..Len(inbox)
      BY <1>1, <2>2
    <3>2. QED
      BY <3>1
  <2>3. QED
    BY <2>1, <2>2 DEF AnswersStay
<1>3. ASSUME NEW i \in 1..Len(inbox'), inbox'[i].kind = "decompiled"
      PROVE  /\ inbox'[i].arg \in 1..Len(reqs')
             /\ inbox'[i].ok => inbox'[i].names >= reqs'[inbox'[i].arg].names
  <2>1. PICK k \in 1..Len(inbox) : inbox'[i] = inbox[k]
    BY <1>2
  <2>2. inbox[k].arg \in 1..Len(reqs) /\ (inbox[k].ok => inbox[k].names >= reqs[inbox[k].arg].names)
    BY <1>3, <2>1 DEF NamesInv, AsksMade, RenameIsSeen
  <2>3. QED
    BY <1>1, <2>1, <2>2 DEF RequestsStay
<1>4. QED
  BY <1>3 DEF RenameIsSeen

\* The promise for the work that would be posted next
LEMMA CurrentIsKnown ==
  ASSUME NEW s, NEW n, NEW k, s = m_Decompiler', n = names', k = Len(todo') + 1, WillKnow(s, n, k)'
  PROVE  CurrentWillKnow'
  BY DEF CurrentWillKnow, WillKnow, Silent, AfterNow, KnowsNames, RenamesOf, RenamedSince

\* The session that is asked next knows, or is a new one.
LEMMA EndIsKnown ==
  ASSUME NamesInv, SessionsKnow, GrowsPlainly, NEW s, NEW n, n = names,
         (s = m_Decompiler /\ s # 0) \/ FreshKnows(s),
         NEW k \in (Len(todo) + 1)..(Len(todo') + 1)
  PROVE  WillKnow(s, n, k)'
<1>1. CASE FreshKnows(s)
  <2>1. k \in 1..(Len(todo') + 1) /\ WorkInv
    BY DEF NamesInv, WorkInv, SessionTypes
  <2>2. QED
    BY <1>1, <2>1, FreshWillKnow
<1>2. CASE s = m_Decompiler /\ s # 0
  <2>1. s \in 1..made /\ WorkInv /\ WillKnow(s, n, Len(todo) + 1)
    BY <1>2 DEF NamesInv, CurrentWillKnow, WorkInv, SessionTypes
  <2>2. QED
    BY <2>1, EndGoesOn
<1>3. QED
  BY <1>1, <1>2

\* Steps that post no request and no rename
LEMMA PlainKeepsNames ==
  ASSUME NamesInv, WorkInv', SessionsKnow, GrowsPlainly, UNCHANGED <<reqs, names>>, AnswersStay,
         \A i \in (Len(todo) + 1)..Len(todo') : todo'[i].kind # "decompile",
         m_Decompiler' = 0 \/ m_Decompiler' = m_Decompiler \/ FreshKnows(m_Decompiler')
  PROVE  NamesInv'
<1>1. RequestsStay /\ Grows
  BY DEF NamesInv, WorkInv, SessionTypes, RequestsStay, GrowsPlainly
<1>2. ASSUME NEW i \in 1..Len(todo')
      PROVE  PlaceAsks(i)' /\ PlaceWillKnow(i)'
  <2>1. i \in 1..Len(todo) \/ i \in (Len(todo) + 1)..Len(todo')
    BY DEF NamesInv, WorkInv, SessionTypes
  <2>2. CASE i \in 1..Len(todo)
    BY <1>1, <2>2, PlaceGoesOn
  <2>3. CASE i \in (Len(todo) + 1)..Len(todo')
    BY <2>3 DEF PlaceAsks, PlaceWillKnow
  <2>4. QED
    BY <2>1, <2>2, <2>3
<1>3. AsksMade' /\ NowKnows' /\ RenameIsSeen'
  <2>1. \A r \in 1..Len(reqs') : reqs'[r].names <= names'
    BY DEF NamesInv, AsksMade
  <2>2. QED
    BY <1>1, <1>2, <2>1, NowGoesOn, AnswersGoOn DEF AsksMade
<1>4. CurrentWillKnow'
  <2>1. CASE m_Decompiler' = 0
    BY <2>1 DEF CurrentWillKnow
  <2>2. CASE m_Decompiler' # 0
    <3>1. PICK s, n, k : s = m_Decompiler' /\ n = names' /\ k = Len(todo') + 1
      OBVIOUS
    <3>2. n = names /\ k \in (Len(todo) + 1)..(Len(todo') + 1)
      BY <3>1 DEF GrowsPlainly, Grows, NamesInv, WorkInv, SessionTypes
    <3>3. WillKnow(s, n, k)'
      BY <2>2, <3>1, <3>2, EndIsKnown
    <3>4. QED
      BY <3>1, <3>3, CurrentIsKnown
  <2>3. QED
    BY <2>1, <2>2
<1>5. QED
  BY <1>2, <1>3, <1>4 DEF NamesInv, QueueWillKnow

\* A decompilation is asked for.
LEMMA RequestKeepsNames ==
  ASSUME NamesInv, WorkInv', SessionsKnow, NEW s, NEW v \in Views,
         m_Decompiler' = s, (s = m_Decompiler /\ s # 0) \/ FreshKnows(s),
         SE!Submit([kind |-> "decompile", s |-> s, arg |-> Len(reqs) + 1]), NewRequest(v),
         [kind |-> "decompile", s |-> s, arg |-> Len(reqs) + 1] \in WorkItems,
         UNCHANGED <<names, inbox>>
  PROVE  NamesInv'
<1> DEFINE w == [kind |-> "decompile", s |-> s, arg |-> Len(reqs) + 1]
           q == [view |-> v, file |-> file, names |-> names]
<1>1. /\ todo' \in Seq(WorkItems) /\ Len(todo') = Len(todo) + 1
      /\ \A i \in 1..Len(todo) : todo'[i] = todo[i]
      /\ todo'[Len(todo) + 1] = w
  BY Submitted DEF NamesInv, WorkInv
<1>2. Len(todo) \in Nat /\ Len(reqs) \in Nat
  BY DEF NamesInv, WorkInv, SessionTypes
<1>3. reqs' = Append(reqs, q)
  BY DEF NewRequest
<1>4. /\ Len(reqs') = Len(reqs) + 1 /\ reqs'[Len(reqs) + 1] = q
      /\ \A r \in 1..Len(reqs) : reqs'[r] = reqs[r]
  BY <1>3 DEF NamesInv, WorkInv, SessionTypes
<1>5. RequestsStay /\ GrowsPlainly /\ Grows /\ AnswersStay
  BY <1>1, <1>2, <1>4 DEF RequestsStay, GrowsPlainly, Grows, AnswersStay
<1>6. PICK n, k, e : n = names /\ k = Len(todo) + 1 /\ e = Len(todo) + 2
  OBVIOUS
<1>7. WillKnow(s, n, k)' /\ WillKnow(s, n, e)'
  <2>1. k \in (Len(todo) + 1)..(Len(todo') + 1) /\ e \in (Len(todo) + 1)..(Len(todo') + 1)
    BY <1>1, <1>2, <1>6
  <2>2. QED
    BY <1>5, <1>6, <2>1, EndIsKnown
<1>8. ASSUME NEW i \in 1..Len(todo')
      PROVE  PlaceAsks(i)' /\ PlaceWillKnow(i)'
  <2>1. i \in 1..Len(todo) \/ i = k
    BY <1>1, <1>2, <1>6
  <2>2. CASE i \in 1..Len(todo)
    BY <1>5, <2>2, PlaceGoesOn
  <2>3. CASE i = k
    <3>1. todo'[i].s = s /\ todo'[i].arg = Len(reqs) + 1 /\ reqs'[todo'[i].arg].names = n
      BY <1>1, <1>4, <1>6, <2>3
    <3>2. PlaceAsks(i)'
      BY <1>2, <1>4, <3>1 DEF PlaceAsks
    <3>3. PlaceWillKnow(i)'
      BY <1>7, <2>3, <3>1 DEF PlaceWillKnow, WillKnow, Silent, AfterNow, KnowsNames, RenamesOf, RenamedSince
    <3>4. QED
      BY <3>2, <3>3
  <2>4. QED
    BY <2>1, <2>2, <2>3
<1>9. \A r \in 1..Len(reqs') : reqs'[r].names <= names'
  <2> SUFFICES ASSUME NEW r \in 1..Len(reqs')
               PROVE  reqs'[r].names <= names'
    OBVIOUS
  <2>1. r \in 1..Len(reqs) \/ r = Len(reqs) + 1
    BY <1>2, <1>4
  <2>2. names \in Nat
    BY DEF NamesInv, WorkInv, SessionTypes
  <2>3. QED
    BY <1>4, <2>1, <2>2 DEF NamesInv, AsksMade
<1>10. AsksMade' /\ NowKnows' /\ RenameIsSeen'
  BY <1>5, <1>8, <1>9, NowGoesOn, AnswersGoOn DEF AsksMade
<1>11. CurrentWillKnow'
  <2>1. s = m_Decompiler' /\ n = names' /\ e = Len(todo') + 1
    BY <1>1, <1>2, <1>6
  <2>2. QED
    BY <1>7, <2>1, CurrentIsKnown
<1>12. QED
  BY <1>8, <1>10, <1>11 DEF NamesInv, QueueWillKnow

\* The user's next name is told to the session there is, behind all its work.
LEMMA RenameKeepsNames ==
  ASSUME NamesInv, WorkInv', RenameFunction
  PROVE  NamesInv'
<1>1. UNCHANGED <<phase, io, sess, made, window, m_Decompiler, reqs, inbox>> /\ names' = names + 1
      /\ TellDecompiler
  BY DEF RenameFunction, fileVars, requestVars
<1>2. names \in Nat /\ Len(reqs) \in Nat /\ Len(todo) \in Nat /\ todo \in Seq(WorkItems)
  BY DEF NamesInv, WorkInv, SessionTypes
<1>3. RequestsStay /\ AnswersStay
  BY <1>1, <1>2 DEF RequestsStay, AnswersStay
<1>4. \A r \in 1..Len(reqs') : reqs'[r].names <= names'
  <2> SUFFICES ASSUME NEW r \in 1..Len(reqs)
               PROVE  reqs[r].names <= names + 1
    BY <1>1
  <2>1. reqs[r].names <= names
    BY DEF NamesInv, AsksMade
  <2> DEFINE R == [view : Views, file : Nat, names : Nat]
  <2>2. reqs \in Seq(R)
    BY DEF NamesInv, WorkInv, SessionTypes
  <2>3. reqs[r] \in R
    <3> HIDE DEF R
    <3>1. QED
      BY <2>2
  <2>4. reqs[r].names \in Nat
    BY <2>3
  <2>5. QED
    BY <1>2, <2>1, <2>4
<1>5. CASE m_Decompiler = 0
  <2>1. UNCHANGED <<todo, now>>
    BY <1>1, <1>5 DEF TellDecompiler
  <2>2. SessionsKnow /\ Grows
    BY <1>1, <1>2, <2>1 DEF SessionsKnow, Grows
  <2>3. \A i \in 1..Len(todo') : PlaceAsks(i)' /\ PlaceWillKnow(i)'
    BY <1>3, <2>1, <2>2, PlaceGoesOn
  <2>4. AsksMade' /\ NowKnows' /\ RenameIsSeen'
    BY <1>3, <1>4, <2>2, <2>3, NowGoesOn, AnswersGoOn DEF AsksMade
  <2>5. CurrentWillKnow'
    BY <1>1, <1>5 DEF CurrentWillKnow
  <2>6. QED
    BY <2>3, <2>4, <2>5 DEF NamesInv, QueueWillKnow
<1>6. CASE m_Decompiler # 0
  <2> DEFINE w == [kind |-> "rename", s |-> m_Decompiler, arg |-> names']
  <2>1. w \in WorkItems
    BY <1>1, <1>2, <1>6, BoundsAreNat DEF NamesInv, WorkInv, SessionTypes, WorkItems, Kinds, Sessions
  <2>2. SE!Submit(w)
    BY <1>1, <1>6 DEF TellDecompiler
  <2>3. /\ todo' \in Seq(WorkItems) /\ Len(todo') = Len(todo) + 1 /\ UNCHANGED now
        /\ \A i \in 1..Len(todo) : todo'[i] = todo[i]
        /\ todo'[Len(todo) + 1] = w
    BY <2>1, <2>2, Submitted DEF NamesInv, WorkInv
  <2>4. SessionsKnow /\ Grows
    BY <1>1, <1>2, <2>3 DEF SessionsKnow, Grows
  <2>5. PICK s, n, k, e : s = m_Decompiler /\ n = names' /\ k = Len(todo) + 1 /\ e = Len(todo) + 2
    OBVIOUS
  <2>6. ASSUME NEW i \in 1..Len(todo')
        PROVE  PlaceAsks(i)' /\ PlaceWillKnow(i)'
    <3>1. i \in 1..Len(todo) \/ i = Len(todo) + 1
      BY <1>2, <2>3
    <3>2. CASE i \in 1..Len(todo)
      BY <1>3, <2>4, <3>2, PlaceGoesOn
    <3>3. CASE i = Len(todo) + 1
      BY <2>3, <3>3 DEF PlaceAsks, PlaceWillKnow
    <3>4. QED
      BY <3>1, <3>2, <3>3
  <2>7. AsksMade' /\ NowKnows' /\ RenameIsSeen'
    BY <1>3, <1>4, <2>4, <2>6, NowGoesOn, AnswersGoOn DEF AsksMade
  <2>8. todo'[k].kind = "rename" /\ todo'[k].s = s /\ todo'[k].arg = n /\ k \in 1..(e - 1)
    BY <1>2, <2>3, <2>5
  <2>9. RenamedSince(s, n, k, e)'
    <3>1. \A x \in k..(e - 1) : x = k
      BY <1>2, <2>5
    <3>2. n \in Nat
      BY <1>1, <1>2, <2>5
    <3>3. QED
      BY <2>8, <3>1, <3>2 DEF RenamedSince
  <2>10. WillKnow(s, n, e)'
    BY <2>8, <2>9 DEF WillKnow, RenamesOf
  <2>11. CurrentWillKnow'
    <3>1. s = m_Decompiler' /\ n = names' /\ e = Len(todo') + 1
      BY <1>1, <1>2, <2>3, <2>5
    <3>2. QED
      BY <2>10, <3>1, CurrentIsKnown
  <2>12. QED
    BY <2>6, <2>7, <2>11 DEF NamesInv, QueueWillKnow
<1>7. QED
  BY <1>5, <1>6

LEMMA AsyncKeepsNames ==
  ASSUME NamesInv, WorkInv', NEW v \in Views, DecompileAsync(v), UNCHANGED <<file, names, window, inbox>>
  PROVE  NamesInv'
<1>1. PICK s \in Sessions : /\ Decompiler(m_Decompiler, s)
                            /\ SE!Submit([kind |-> "decompile", s |-> s, arg |-> Len(reqs) + 1])
  BY DEF DecompileAsync
<1>2. [kind |-> "decompile", s |-> s, arg |-> Len(reqs) + 1] \in WorkItems
  BY <1>1 DEF NamesInv, WorkInv, SessionTypes, WorkItems, Kinds
<1>3. /\ m_Decompiler' = s /\ \A r \in 1..made : sess'[r] = sess[r]
      /\ s > made => sess'[s].state = "new"
      /\ s <= made => s = m_Decompiler
  BY <1>1, Asks DEF NamesInv
<1>4. SessionsKnow
  BY <1>1, <1>3 DEF SessionsKnow, SE!Submit, SE!SubmitAll
<1>5. (s = m_Decompiler /\ s # 0) \/ FreshKnows(s)
  BY <1>3, BoundsAreNat DEF FreshKnows, Sessions, NamesInv, WorkInv, SessionTypes
<1>6. NewRequest(v)
  BY DEF DecompileAsync
<1>7. QED
  BY <1>1, <1>2, <1>3, <1>4, <1>5, <1>6, RequestKeepsNames

LEMMA AgainKeepsNames ==
  ASSUME NamesInv, WorkInv', MakeAgain, UNCHANGED <<made, file, window, reqs, names>>, AnswersStay
  PROVE  NamesInv'
<1>1. /\ m_Decompiler' = 0
      /\ \A r \in Sessions : /\ sess'[r].Closed = sess[r].Closed /\ sess'[r].state = sess[r].state
                            /\ sess'[r].names = sess[r].names
      /\ UNCHANGED now
      /\ \/ UNCHANGED todo
         \/ /\ m_Decompiler # 0
            /\ SE!Submit([kind |-> "drop", s |-> m_Decompiler, arg |-> 0])
  BY Replaced DEF NamesInv
<1>2. \A r \in 1..made : r \in Sessions
  BY BoundsAreNat DEF NamesInv, WorkInv, SessionTypes, Sessions
<1>3. SessionsKnow
  BY <1>1, <1>2 DEF SessionsKnow
<1>4. GrowsPlainly /\ \A i \in (Len(todo) + 1)..Len(todo') : todo'[i].kind # "decompile"
  <2>1. todo \in Seq(WorkItems) /\ Len(todo) \in Nat
    BY DEF NamesInv, WorkInv, SessionTypes
  <2>2. CASE UNCHANGED todo
    BY <2>1, <2>2 DEF GrowsPlainly, Grows
  <2>3. CASE m_Decompiler # 0 /\ SE!Submit([kind |-> "drop", s |-> m_Decompiler, arg |-> 0])
    <3> DEFINE w == [kind |-> "drop", s |-> m_Decompiler, arg |-> 0]
    <3>1. w \in WorkItems
      BY <2>3, BoundsAreNat DEF NamesInv, WorkInv, SessionTypes, WorkItems, Kinds, Sessions
    <3>2. /\ todo' \in Seq(WorkItems) /\ Len(todo') = Len(todo) + 1
          /\ \A i \in 1..Len(todo) : todo'[i] = todo[i]
          /\ todo'[Len(todo) + 1] = w
      BY <2>3, <3>1, Submitted DEF NamesInv, WorkInv
    <3>3. \A i \in (Len(todo) + 1)..Len(todo') : todo'[i] = w
      BY <2>1, <3>2
    <3>4. QED
      BY <2>1, <3>2, <3>3 DEF GrowsPlainly, Grows
  <2>4. QED
    BY <1>1, <2>2, <2>3
<1>5. QED
  BY <1>1, <1>3, <1>4, PlainKeepsNames

\* Steps that leave the thread, the sessions and the requests
LEMMA QuietKeepsNames ==
  ASSUME NamesInv, WorkInv', UNCHANGED <<todo, now, sess, m_Decompiler, window, reqs, names>>, AnswersStay
  PROVE  NamesInv'
<1>1. todo \in Seq(WorkItems) /\ Len(todo) \in Nat
  BY DEF NamesInv, WorkInv, SessionTypes
<1>2. SessionsKnow /\ GrowsPlainly
  BY <1>1 DEF SessionsKnow, GrowsPlainly, Grows
<1>3. \A i \in (Len(todo) + 1)..Len(todo') : todo'[i].kind # "decompile"
  BY <1>1
<1>4. QED
  BY <1>2, <1>3, PlainKeepsNames

LEMMA DriverKeepsNames ==
  ASSUME NamesInv, WorkInv', NEW again \in BOOLEAN, NEW s \in Sessions, Driver(again, s),
         UNCHANGED <<file, window, reqs, names, inbox>>
  PROVE  NamesInv'
<1> DEFINE d == [kind |-> "drop", s |-> m_Decompiler, arg |-> 0]
           w == [kind |-> "driver", s |-> s, arg |-> driver.generation]
<1>1. AnswersStay /\ todo \in Seq(WorkItems) /\ Len(todo) \in Nat /\ todo' \in Seq(WorkItems)
  BY DEF AnswersStay, NamesInv, WorkInv, SessionTypes
<1>2. CASE again /\ m_Decompiler # 0
  <2>1. /\ s = made + 1 /\ m_Decompiler' = s
        /\ \A r \in 1..made : /\ sess'[r].Closed = sess[r].Closed /\ sess'[r].state = sess[r].state
                              /\ sess'[r].names = sess[r].names
        /\ sess'[s].state = "new"
    BY <1>2, ReplacedAtOnce DEF NamesInv
  <2>2. todo' = todo \o (<<d>> \o <<w>>) /\ UNCHANGED now
    BY <1>2 DEF Driver, SE!SubmitAll
  <2>3. /\ Len(todo') = Len(todo) + 2 /\ todo'[Len(todo) + 1] = d /\ todo'[Len(todo) + 2] = w
        /\ \A i \in 1..Len(todo) : todo'[i] = todo[i]
    <3> HIDE DEF d, w
    <3>1. QED
      BY <1>1, <2>2
  <2>4. \A i \in (Len(todo) + 1)..Len(todo') : todo'[i].kind \in {"drop", "driver"}
    <3>1. \A i \in (Len(todo) + 1)..Len(todo') : i = Len(todo) + 1 \/ i = Len(todo) + 2
      BY <1>1, <2>3
    <3>2. QED
      BY <2>3, <3>1
  <2>5. SessionsKnow /\ GrowsPlainly
    BY <1>1, <2>1, <2>2, <2>3, <2>4 DEF SessionsKnow, GrowsPlainly, Grows
  <2>6. FreshKnows(m_Decompiler')
    BY <2>1 DEF FreshKnows, NamesInv, WorkInv, SessionTypes
  <2>7. QED
    BY <1>1, <2>4, <2>5, <2>6, PlainKeepsNames
<1>3. CASE ~(again /\ m_Decompiler # 0)
  <2>1. Decompiler(m_Decompiler, s) /\ todo' = todo \o (<<>> \o <<w>>) /\ UNCHANGED now
    BY <1>3 DEF Driver, SE!SubmitAll
  <2>2. /\ m_Decompiler' = s /\ \A r \in 1..made : sess'[r] = sess[r]
        /\ s > made => sess'[s].state = "new"
        /\ s <= made => s = m_Decompiler
    BY <2>1, Asks DEF NamesInv
  <2>3. /\ Len(todo') = Len(todo) + 1 /\ todo'[Len(todo) + 1] = w
        /\ \A i \in 1..Len(todo) : todo'[i] = todo[i]
    <3> HIDE DEF w
    <3>1. QED
      BY <1>1, <2>1
  <2>4. \A i \in (Len(todo) + 1)..Len(todo') : todo'[i].kind \in {"drop", "driver"}
    <3>1. \A i \in (Len(todo) + 1)..Len(todo') : i = Len(todo) + 1
      BY <1>1, <2>3
    <3>2. QED
      BY <2>3, <3>1
  <2>5. SessionsKnow /\ GrowsPlainly
    BY <1>1, <2>1, <2>2, <2>3, <2>4 DEF SessionsKnow, GrowsPlainly, Grows
  <2>6. m_Decompiler' = m_Decompiler \/ FreshKnows(m_Decompiler')
    BY <2>2, BoundsAreNat DEF FreshKnows, Sessions, NamesInv, WorkInv, SessionTypes
  <2>7. QED
    BY <1>1, <2>4, <2>5, <2>6, PlainKeepsNames
<1>4. QED
  BY <1>2, <1>3

\* The window is closed by the frame: it is there until then.
HasWindow == closing # "no" => window

LEMMA NextHasWindow == HasWindow /\ [Next]_vars => HasWindow'
<1> SUFFICES ASSUME HasWindow, [Next]_vars
             PROVE  HasWindow'
  OBVIOUS
<1>1. ASSUME NEW v \in Views, DecompileFunction(v) \/ Redecompile(v) \/ CloseTab(v)
      PROVE  HasWindow'
  BY <1>1 DEF HasWindow, DecompileFunction, Redecompile, CloseTab, fileVars
<1>2. CASE OnWindowCloseAll \/ RenameFunction \/ PreferConstantName \/ OnSymbolsLoaded
  BY <1>2 DEF HasWindow, OnWindowCloseAll, RenameFunction, PreferConstantName, OnSymbolsLoaded, fileVars
<1>3. CASE OnXrefsBuilt
  BY <1>3, XrefsSteps DEF HasWindow
<1>4. ASSUME NEW why \in CloseReasons, CloseDecompilerBegin(why)
      PROVE  HasWindow'
  BY <1>4 DEF HasWindow, CloseDecompilerBegin, InLoop, fileVars
<1>5. CASE CloseDecompilerEnd
  BY <1>5 DEF HasWindow, CloseDecompilerEnd
<1>6. CASE OnDecompilerAsk \/ AskWindowGone \/ OnDecompiled \/ OnDriverAnalyzed
  BY <1>6 DEF HasWindow, OnDecompilerAsk, AskWindowGone, OnDecompiled, OnDriverAnalyzed, fileVars
<1>7. CASE ThreadStep \/ Shutdown
  <2>1. UNCHANGED frameVars
    BY <1>7 DEF ThreadStep, Shutdown, Take, SkipCancelled, Open, OpenFails, OpenAsksNames, ReadBegin,
       ReadEnd, Ask, Decompile, PostResult, ApplyRename, DropSession
  <2>2. QED
    BY <2>1 DEF HasWindow, frameVars, fileVars
<1>8. CASE Over \/ UNCHANGED vars
  BY <1>8 DEF HasWindow, Over, vars
<1>9. QED
  BY <1>1, <1>2, <1>3, <1>4, <1>5, <1>6, <1>7, <1>8 DEF Next, FrameStep

LEMMA CloseKeepsNames ==
  ASSUME NamesInv, HasWindow, WorkInv', CloseDecompilerEnd
  PROVE  NamesInv'
<1>1. /\ UNCHANGED <<made, reqs, names, inbox>> /\ closing # "no"
      /\ \/ m_Decompiler = 0 /\ UNCHANGED <<todo, now, sess, m_Decompiler>>
         \/ /\ m_Decompiler # 0 /\ m_Decompiler' = 0
            /\ sess' = [sess EXCEPT ![m_Decompiler].Closed = TRUE]
            /\ SE!Submit([kind |-> "drop", s |-> m_Decompiler, arg |-> 0])
  BY DEF CloseDecompilerEnd, LetGo, requestVars
<1>2. /\ todo \in Seq(WorkItems) /\ Len(todo) \in Nat /\ todo' \in Seq(WorkItems)
      /\ sess \in [Sessions -> SessionRecords] /\ \A r \in 1..made : r \in Sessions
      /\ m_Decompiler # 0 => m_Decompiler \in 1..made
  <2>1. todo \in Seq(WorkItems) /\ todo' \in Seq(WorkItems) /\ sess \in [Sessions -> SessionRecords]
    BY DEF NamesInv, WorkInv, SessionTypes
  <2>2. made \in 0..MaxSessions /\ m_Decompiler \in 0..made
    BY DEF NamesInv, WorkInv, SessionTypes
  <2>3. MaxSessions \in Nat
    BY BoundsAreNat
  <2>4. QED
    BY <2>1, <2>2, <2>3 DEF Sessions
<1>3. AnswersStay /\ window
  BY <1>1 DEF AnswersStay, HasWindow
<1>4. CASE m_Decompiler = 0
  <2>1. UNCHANGED <<todo, now, sess, m_Decompiler>>
    BY <1>1, <1>4
  <2>2. SessionsKnow /\ GrowsPlainly
    BY <1>2, <1>3, <2>1 DEF SessionsKnow, GrowsPlainly, Grows
  <2>3. \A i \in (Len(todo) + 1)..Len(todo') : todo'[i].kind # "decompile"
    BY <1>2, <2>1
  <2>4. QED
    BY <1>1, <1>3, <2>1, <2>2, <2>3, PlainKeepsNames
<1>5. CASE m_Decompiler # 0
  <2> DEFINE w == [kind |-> "drop", s |-> m_Decompiler, arg |-> 0]
  <2>1. w \in WorkItems
    BY <1>2, <1>5 DEF WorkItems, Kinds
  <2>2. /\ todo' \in Seq(WorkItems) /\ Len(todo') = Len(todo) + 1 /\ UNCHANGED now
        /\ \A i \in 1..Len(todo) : todo'[i] = todo[i]
        /\ todo'[Len(todo) + 1] = w
    BY <1>1, <1>5, <2>1, Submitted DEF NamesInv, WorkInv
  <2>3. \A i \in (Len(todo) + 1)..Len(todo') : todo'[i] = w
    BY <1>2, <2>2
  <2>4. SessionsKnow
    <3> SUFFICES ASSUME NEW r \in 1..made
                 PROVE  /\ sess'[r].state = sess[r].state /\ sess'[r].names = sess[r].names
                        /\ sess[r].Closed => sess'[r].Closed
      BY <1>3, <2>2 DEF SessionsKnow
    <3>1. r \in Sessions
      BY <1>2
    <3>2. /\ r # m_Decompiler => sess'[r] = sess[r]
          /\ r = m_Decompiler => sess'[r] = [sess[r] EXCEPT !.Closed = TRUE]
      BY <1>1, <1>2, <1>5, <3>1
    <3>3. sess[r] \in SessionRecords
      BY <1>2, <3>1
    <3>4. CASE r = m_Decompiler
      <4>1. sess'[r].state = sess[r].state /\ sess'[r].names = sess[r].names /\ sess'[r].Closed = TRUE
        BY <3>2, <3>3, <3>4 DEF SessionRecords
      <4>2. QED
        BY <4>1
    <3>5. QED
      BY <3>2, <3>4
  <2>5. GrowsPlainly /\ \A i \in (Len(todo) + 1)..Len(todo') : todo'[i].kind # "decompile"
    BY <1>2, <2>2, <2>3 DEF GrowsPlainly, Grows
  <2>6. QED
    BY <1>1, <1>3, <1>5, <2>4, <2>5, PlainKeepsNames
<1>6. QED
  BY <1>4, <1>5

-----------------------------------------------------------------------------
(* The thread's steps *)

\* The queue stays, and the work in progress goes on or ends without losing what was known.
ThreadKnows ==
  /\ UNCHANGED <<todo, made, m_Decompiler, window, reqs, names>>
  /\ now' \in {now, NoWork}
  /\ \A s \in 1..made, n \in 0..names : AfterNow(s, n) => AfterNow(s, n)' \/ Silent(s)'
  /\ \A s \in 1..made : Silent(s) => Silent(s)'

\* what the frame was sent
AnswersSeen ==
  /\ RenameIsSeen
  /\ \A i \in 1..Len(inbox) : inbox[i].kind = "decompiled" => inbox[i].arg \in 1..Len(reqs)

LEMMA RequestsOfNames == NamesInv => \A r \in 1..Len(reqs) : reqs[r].names \in 0..names
<1> SUFFICES ASSUME NamesInv, NEW r \in 1..Len(reqs)
             PROVE  reqs[r].names \in 0..names
  OBVIOUS
<1> DEFINE R == [view : Views, file : Nat, names : Nat]
<1>1. reqs \in Seq(R) /\ names \in Nat
  BY DEF NamesInv, WorkInv, SessionTypes
<1>2. reqs[r] \in R
  <2> HIDE DEF R
  <2>1. QED
    BY <1>1
<1>3. reqs[r].names \in Nat
  BY <1>2
<1>4. QED
  BY <1>1, <1>3 DEF NamesInv, AsksMade

LEMMA ThreadKeepsNames ==
  ASSUME NamesInv, WorkInv', ThreadKnows, AnswersSeen'
  PROVE  NamesInv'
<1>1. /\ UNCHANGED <<todo, made, m_Decompiler, window, reqs, names>> /\ now' \in {now, NoWork}
      /\ todo \in Seq(WorkItems) /\ Len(todo) \in Nat /\ names \in Nat
  BY DEF ThreadKnows, NamesInv, WorkInv, SessionTypes
<1>2. ASSUME NEW s \in 1..made, NEW n \in 0..names, NEW i \in 1..(Len(todo) + 1), WillKnow(s, n, i)
      PROVE  WillKnow(s, n, i)'
  <2>1. i \in Nat /\ i >= 1 /\ i <= i /\ \A j \in 1..(i - 1) : todo'[j] = todo[j]
    BY <1>1
  <2>2. /\ Silent(s) => Silent(s)'
        /\ AfterNow(s, n) => AfterNow(s, n)' \/ Silent(s)'
    BY DEF ThreadKnows
  <2>3. \A j \in i..(i - 1) : ~RenamesOf(s, todo'[j])
    BY <2>1
  <2>4. QED
    BY <1>2, <2>1, <2>2, <2>3, PromiseStays
<1>3. QueueWillKnow'
  <2> SUFFICES ASSUME NEW i \in 1..Len(todo), todo[i].kind = "decompile"
               PROVE  PlaceWillKnow(i)'
    BY <1>1 DEF QueueWillKnow, PlaceWillKnow
  <2>1. todo[i].arg \in 1..Len(reqs) /\ todo[i].s \in 1..made
        /\ WillKnow(todo[i].s, reqs[todo[i].arg].names, i)
    BY DEF NamesInv, AsksMade, PlaceAsks, QueueWillKnow, PlaceWillKnow, WorkInv, OnlyMade
  <2>2. PICK s \in 1..made, n \in 0..names : s = todo[i].s /\ n = reqs[todo[i].arg].names
    BY <2>1, RequestsOfNames
  <2>3. WillKnow(s, n, i)'
    BY <1>1, <1>2, <2>1, <2>2
  <2>4. s = todo'[i].s /\ n = reqs'[todo'[i].arg].names
    BY <1>1, <2>2
  <2>5. QED
    BY <2>3, <2>4 DEF PlaceWillKnow, WillKnow, Silent, AfterNow, KnowsNames, RenamesOf, RenamedSince
<1>4. CurrentWillKnow'
  <2>1. CASE m_Decompiler = 0
    BY <1>1, <2>1 DEF CurrentWillKnow
  <2>2. CASE m_Decompiler # 0
    <3>1. PICK s \in 1..made, n \in 0..names, k \in 1..(Len(todo) + 1) :
            s = m_Decompiler /\ n = names /\ k = Len(todo) + 1
      <4>1. m_Decompiler \in 1..made
        BY <2>2 DEF NamesInv, WorkInv, SessionTypes
      <4>2. names \in 0..names /\ Len(todo) + 1 \in 1..(Len(todo) + 1)
        BY <1>1
      <4>3. QED
        BY <4>1, <4>2
    <3>2. WillKnow(s, n, k)
      BY <2>2, <3>1 DEF NamesInv, CurrentWillKnow
    <3>3. WillKnow(s, n, k)'
      BY <1>2, <3>2
    <3>4. s = m_Decompiler' /\ n = names' /\ k = Len(todo') + 1
      BY <1>1, <3>1
    <3>5. QED
      BY <3>3, <3>4, CurrentIsKnown
  <2>3. QED
    BY <2>1, <2>2
<1>5. NowKnows'
  <2> SUFFICES ASSUME now' = now, now.kind = "decompile"
               PROVE  (Silent(now.s) \/ KnowsNames(now.s, reqs[now.arg].names))'
    BY <1>1 DEF NowKnows, NoWork
  <2>1. now.arg \in 1..Len(reqs) /\ now.s \in 1..made
    BY DEF NamesInv, AsksMade, WorkInv, OnlyMade, NoWork
  <2>2. PICK s \in 1..made, n \in 0..names : s = now.s /\ n = reqs[now.arg].names
    BY <2>1, RequestsOfNames
  <2>3. Silent(s) \/ AfterNow(s, n)
    BY <2>2 DEF NamesInv, NowKnows, AfterNow, RenamesOf
  <2>4. Silent(s)' \/ AfterNow(s, n)'
    BY <2>3 DEF ThreadKnows
  <2>5. Silent(s)' \/ KnowsNames(s, n)'
    BY <2>4 DEF AfterNow, RenamesOf
  <2>6. s = now'.s /\ n = reqs'[now'.arg].names
    BY <1>1, <2>2
  <2>7. QED
    BY <2>5, <2>6 DEF Silent, KnowsNames
<1>6. AsksMade'
  BY <1>1 DEF AsksMade, NamesInv, AnswersSeen, PlaceAsks, NoWork
<1>7. QED
  BY <1>3, <1>4, <1>5, <1>6 DEF NamesInv, AnswersSeen

\* nothing new was sent
LEMMA NothingSent == NamesInv /\ UNCHANGED <<reqs, inbox>> => AnswersSeen'
  BY DEF NamesInv, AsksMade, RenameIsSeen, AnswersSeen

\* A piece of work that is no rename goes on or ends, and no decompiler is made by it.
LEMMA WorkKnows ==
  ASSUME NamesInv, UNCHANGED <<todo, made, m_Decompiler, window, reqs, names>>, now' \in {now, NoWork},
         now.kind # "rename",
         \A s \in 1..made : /\ sess'[s].names = sess[s].names /\ sess'[s].Closed = sess[s].Closed
                            /\ sess'[s].state # sess[s].state => sess'[s].state = "failed" \/ Silent(s)
  PROVE  ThreadKnows
<1>1. ASSUME NEW s \in 1..made
      PROVE  Silent(s) => Silent(s)'
  BY <1>1 DEF Silent
<1>2. ASSUME NEW s \in 1..made, NEW n \in 0..names, AfterNow(s, n)
      PROVE  AfterNow(s, n)' \/ Silent(s)'
  <2>1. KnowsNames(s, n) /\ now'.kind # "rename"
    BY <1>2 DEF AfterNow, RenamesOf, NoWork
  <2>2. KnowsNames(s, n)' \/ Silent(s)'
    BY <1>1, <2>1 DEF KnowsNames
  <2>3. QED
    BY <2>1, <2>2 DEF AfterNow, RenamesOf
<1>3. QED
  BY <1>1, <1>2 DEF ThreadKnows

LEMMA TakeKeepsNames ==
  ASSUME NamesInv, WorkInv', Take
  PROVE  NamesInv'
<1>1. /\ now = NoWork /\ todo # <<>> /\ now' = Head(todo) /\ todo' = Tail(todo)
      /\ UNCHANGED <<sess, inbox, made, window, m_Decompiler, reqs, names>>
  BY DEF Take, SE!Start, frameVars, fileVars, requestVars
<1>2. todo \in Seq(WorkItems) /\ Len(todo) \in Nat
  BY DEF NamesInv, WorkInv, SessionTypes
<1>3. /\ Len(todo) >= 1 /\ now' = todo[1] /\ Len(todo') = Len(todo) - 1
      /\ \A i \in 1..Len(todo') : todo'[i] = todo[i + 1] /\ i + 1 \in 1..Len(todo)
  BY <1>1, <1>2
<1>4. ASSUME NEW s, NEW n, NEW i \in 1..Len(todo), WillKnow(s, n, i + 1)
      PROVE  WillKnow(s, n, i)'
  <2>1. i \in Nat /\ i >= 1 /\ \A j \in 1..(i - 1) : todo'[j] = todo[j + 1]
    BY <1>2, <1>3
  <2>2. QED
    BY <1>1, <1>3, <1>4, <2>1, PromiseTaken
<1>5. ASSUME NEW i \in 1..Len(todo')
      PROVE  PlaceAsks(i)' /\ PlaceWillKnow(i)'
  <2>1. PICK p : p = i + 1 /\ p \in 1..Len(todo) /\ todo'[i] = todo[p] /\ i \in 1..Len(todo)
    BY <1>2, <1>3
  <2>2. PlaceAsks(p) /\ PlaceWillKnow(p)
    BY <2>1 DEF NamesInv, AsksMade, QueueWillKnow
  <2>3. PlaceAsks(i)'
    BY <1>1, <2>1, <2>2 DEF PlaceAsks
  <2>4. PlaceWillKnow(i)'
    <3>1. CASE todo[p].kind # "decompile"
      BY <2>1, <3>1 DEF PlaceWillKnow
    <3>2. CASE todo[p].kind = "decompile"
      <4>1. PICK s, n : s = todo[p].s /\ n = reqs[todo[p].arg].names
        OBVIOUS
      <4>2. WillKnow(s, n, i + 1)
        BY <2>1, <2>2, <3>2, <4>1 DEF PlaceWillKnow
      <4>3. WillKnow(s, n, i)'
        BY <1>4, <2>1, <4>2
      <4>4. s = todo'[i].s /\ n = reqs'[todo'[i].arg].names
        BY <1>1, <2>1, <4>1
      <4>5. QED
        BY <4>3, <4>4 DEF PlaceWillKnow, WillKnow, Silent, AfterNow, KnowsNames, RenamesOf, RenamedSince
    <3>3. QED
      BY <3>1, <3>2
  <2>5. QED
    BY <2>3, <2>4
<1>6. CurrentWillKnow'
  <2>1. CASE m_Decompiler = 0
    BY <1>1, <2>1 DEF CurrentWillKnow
  <2>2. CASE m_Decompiler # 0
    <3>1. PICK s, n, k : s = m_Decompiler /\ n = names /\ k = Len(todo)
      OBVIOUS
    <3>2. k \in 1..Len(todo) /\ WillKnow(s, n, k + 1)
      BY <1>2, <1>3, <2>2, <3>1 DEF NamesInv, CurrentWillKnow
    <3>3. WillKnow(s, n, k)'
      BY <1>4, <3>2
    <3>4. s = m_Decompiler' /\ n = names' /\ k = Len(todo') + 1
      BY <1>1, <1>2, <1>3, <3>1
    <3>5. QED
      BY <3>3, <3>4, CurrentIsKnown
  <2>3. QED
    BY <2>1, <2>2
<1>7. NowKnows' /\ (now'.kind = "decompile" => now'.arg \in 1..Len(reqs'))
  <2> SUFFICES ASSUME now'.kind = "decompile"
               PROVE  NowKnows' /\ now'.arg \in 1..Len(reqs')
    BY DEF NowKnows
  <2>1. PlaceAsks(1) /\ PlaceWillKnow(1) /\ todo[1].kind = "decompile" /\ 1 \in 1..Len(todo)
    BY <1>2, <1>3 DEF NamesInv, AsksMade, QueueWillKnow
  <2>2. PICK s, n : s = todo[1].s /\ n = reqs[todo[1].arg].names
    OBVIOUS
  <2>3. WillKnow(s, n, 1)
    BY <2>1, <2>2 DEF PlaceWillKnow
  <2>4. Silent(s) \/ KnowsNames(s, n)
    BY <1>1, <2>3 DEF WillKnow, AfterNow, RenamesOf, NoWork
  <2>5. (Silent(s) \/ KnowsNames(s, n))'
    BY <1>1, <2>4 DEF Silent, KnowsNames
  <2>6. s = now'.s /\ n = reqs'[now'.arg].names
    BY <1>1, <1>3, <2>2
  <2>7. NowKnows'
    BY <2>5, <2>6 DEF NowKnows, Silent, KnowsNames
  <2>8. QED
    BY <1>1, <1>3, <2>1, <2>7 DEF PlaceAsks
<1>8. AnswersSeen'
  BY <1>1, NothingSent
<1>9. AsksMade'
  <2>1. \A r \in 1..Len(reqs') : reqs'[r].names <= names'
    BY <1>1 DEF NamesInv, AsksMade
  <2>2. QED
    BY <1>5, <1>7, <1>8, <2>1 DEF AsksMade, AnswersSeen
<1>10. QED
  BY <1>5, <1>6, <1>7, <1>8, <1>9 DEF NamesInv, QueueWillKnow, AnswersSeen

\* The result is of the names asked for, or is not posted.
LEMMA PostKeepsNames ==
  ASSUME NamesInv, WorkInv', PostResult
  PROVE  NamesInv'
<1> DEFINE m == [kind |-> IF now.kind = "driver" THEN "driver" ELSE "decompiled",
                 arg |-> now.arg, names |-> sess[now.s].names,
                 ok |-> sess[now.s].state = "made", file |-> sess[now.s].file]
<1>1. /\ phase = "post" /\ now' = NoWork /\ UNCHANGED <<todo, sess, made, window, m_Decompiler, reqs, names>>
      /\ inbox' = inbox \/ (~Silent(now.s) /\ inbox' = Append(inbox, m))
  BY DEF PostResult, EndOfWork, SE!Finish, frameVars, fileVars, requestVars, Silent
<1>2. Running
  BY <1>1 DEF NamesInv, WorkInv, ThreadControl
<1>3. ThreadKnows
  BY <1>1, <1>2, WorkKnows DEF Running
<1>4. AnswersSeen'
  <2>1. CASE inbox' = inbox
    BY <1>1, <2>1, NothingSent
  <2>2. CASE ~Silent(now.s) /\ inbox' = Append(inbox, m)
    <3>1. m.kind = "decompiled" => /\ m.arg \in 1..Len(reqs)
                                   /\ m.ok => m.names >= reqs[m.arg].names
      BY <1>2, <2>2 DEF Running, NamesInv, AsksMade, NowKnows, KnowsNames
    <3>2. inbox \in Seq(Mail) /\ Len(inbox) \in Nat
      BY DEF NamesInv, WorkInv, SessionTypes
    <3> HIDE DEF m
    <3>3. ASSUME NEW i \in 1..Len(inbox')
          PROVE  (i \in 1..Len(inbox) /\ inbox'[i] = inbox[i]) \/ inbox'[i] = m
      BY <2>2, <3>2
    <3>4. ASSUME NEW i \in 1..Len(inbox'), inbox'[i].kind = "decompiled"
          PROVE  /\ inbox'[i].arg \in 1..Len(reqs)
                 /\ inbox'[i].ok => inbox'[i].names >= reqs[inbox'[i].arg].names
      <4>1. CASE inbox'[i] = m
        BY <3>1, <3>4, <4>1
      <4>2. CASE i \in 1..Len(inbox) /\ inbox'[i] = inbox[i]
        BY <3>4, <4>2 DEF NamesInv, AsksMade, RenameIsSeen
      <4>3. QED
        BY <3>3, <4>1, <4>2
    <3>5. QED
      BY <1>1, <3>4 DEF AnswersSeen, RenameIsSeen
  <2>3. QED
    BY <1>1, <2>1, <2>2
<1>5. QED
  BY <1>3, <1>4, ThreadKeepsNames

\* The rename in progress is what counted: it is in the decompiler when it ends.
LEMMA ApplyKeepsNames ==
  ASSUME NamesInv, WorkInv', ApplyRename
  PROVE  NamesInv'
<1>1. /\ now.kind = "rename" /\ now' = NoWork
      /\ UNCHANGED <<todo, made, window, m_Decompiler, reqs, names, inbox>>
      /\ sess' = IF sess[now.s].state = "made" /\ ~sess[now.s].Closed
                 THEN [sess EXCEPT ![now.s].names = now.arg]
                 ELSE sess
  BY DEF ApplyRename, EndOfWork, SE!Finish, frameVars, fileVars, requestVars
<1>2. sess \in [Sessions -> SessionRecords] /\ \A s \in 1..made : s \in Sessions
  BY MadeAreSessions DEF NamesInv
<1>3. ASSUME NEW s \in 1..made
      PROVE  /\ sess'[s].state = sess[s].state /\ sess'[s].Closed = sess[s].Closed
             /\ s # now.s => sess'[s].names = sess[s].names
             /\ s = now.s /\ sess[s].state = "made" /\ ~sess[s].Closed => sess'[s].names = now.arg
  <2>1. s \in Sessions
    BY <1>2
  <2>2. QED
    BY <1>1, <1>2, <2>1 DEF SessionRecords
<1>4. ASSUME NEW s \in 1..made
      PROVE  Silent(s) => Silent(s)'
  BY <1>1, <1>3 DEF Silent
<1>5. ASSUME NEW s \in 1..made, NEW n \in 0..names, AfterNow(s, n)
      PROVE  AfterNow(s, n)' \/ Silent(s)'
  <2>1. ~RenamesOf(s, now')
    BY <1>1 DEF RenamesOf, NoWork
  <2>2. CASE s = now.s
    <3>1. now.arg >= n
      BY <1>1, <1>5, <2>2 DEF AfterNow, RenamesOf
    <3>2. CASE sess[s].Closed
      BY <1>3, <3>2 DEF Silent
    <3>3. CASE sess[s].state # "made"
      BY <1>3, <2>1, <3>3 DEF AfterNow, KnowsNames, RenamesOf
    <3>4. CASE sess[s].state = "made" /\ ~sess[s].Closed
      BY <1>3, <2>1, <2>2, <3>1, <3>4 DEF AfterNow, KnowsNames, RenamesOf
    <3>5. QED
      BY <3>2, <3>3, <3>4
  <2>3. CASE s # now.s
    BY <1>3, <1>5, <2>1, <2>3 DEF AfterNow, KnowsNames, RenamesOf
  <2>4. QED
    BY <2>2, <2>3
<1>6. ThreadKnows
  BY <1>1, <1>4, <1>5 DEF ThreadKnows
<1>7. QED
  BY <1>1, <1>6, NothingSent, ThreadKeepsNames

\* The decompiler is made with the names there are, unless its file was closed.
LEMMA AnswerKeepsNames ==
  ASSUME NamesInv, WorkInv', OnDecompilerAsk \/ AskWindowGone
  PROVE  NamesInv'
<1>1. /\ io # "none" /\ UNCHANGED <<todo, now, made, window, m_Decompiler, reqs, names, inbox>>
      /\ \/ sess' = sess
         \/ sess' = [sess EXCEPT ![now.s].state = "made"] /\ ~window
         \/ sess' = [sess EXCEPT ![now.s].state = "made", ![now.s].names = names]
         \/ /\ sess' = [sess EXCEPT ![now.s].state = "made", ![now.s].names = sess[now.s].names]
            /\ sess[now.s].Closed
  BY DEF OnDecompilerAsk, AskWindowGone, AskArrives, AskRuns, Asked, fileVars, requestVars
<1>2. now.s \in Sessions /\ Running
  BY <1>1, ReadingIsMade DEF NamesInv, WorkInv, ThreadControl
<1>3. sess \in [Sessions -> SessionRecords] /\ \A s \in 1..made : s \in Sessions
  BY MadeAreSessions DEF NamesInv
<1>4. ASSUME NEW s \in 1..made
      PROVE  /\ sess'[s].Closed = sess[s].Closed
             /\ sess'[s] = sess[s] \/ Silent(s) \/ sess'[s].names = names
  <2>1. s \in Sessions /\ sess[s] \in SessionRecords
    BY <1>3
  <2>2. QED
    BY <1>1, <1>2, <1>3, <2>1 DEF SessionRecords, Silent
<1>5. ASSUME NEW s \in 1..made
      PROVE  Silent(s) => Silent(s)'
  BY <1>1, <1>4 DEF Silent
<1>6. ASSUME NEW s \in 1..made, NEW n \in 0..names, AfterNow(s, n)
      PROVE  AfterNow(s, n)' \/ Silent(s)'
  <2>1. ~RenamesOf(s, now) /\ now' = now
    BY <1>1, <1>2 DEF Running, RenamesOf
  <2>2. CASE sess'[s].names = names
    BY <2>1, <2>2 DEF AfterNow, KnowsNames, RenamesOf
  <2>3. CASE sess'[s] = sess[s]
    BY <1>6, <2>1, <2>3 DEF AfterNow, KnowsNames, RenamesOf
  <2>4. CASE Silent(s)
    BY <1>5, <2>4
  <2>5. QED
    BY <1>4, <2>2, <2>3, <2>4
<1>7. ThreadKnows
  BY <1>1, <1>5, <1>6 DEF ThreadKnows
<1>8. QED
  BY <1>1, <1>7, NothingSent, ThreadKeepsNames

LEMMA ThreadStepKeepsNames ==
  ASSUME NamesInv, WorkInv', ThreadStep
  PROVE  NamesInv'
<1> USE DEF frameVars, fileVars, requestVars, EndOfWork, SE!Finish
<1>t. sess \in [Sessions -> SessionRecords] /\ \A s \in 1..made : s \in Sessions
  BY MadeAreSessions DEF NamesInv
<1>p. phase \in {"open", "use", "post"} => Running
  BY DEF NamesInv, WorkInv, ThreadControl
<1>1. CASE SkipCancelled \/ DropSession \/ Open \/ ReadBegin \/ ReadEnd \/ Ask \/ Decompile
  <2>1. /\ now.kind # "rename" /\ now' \in {now, NoWork}
        /\ UNCHANGED <<todo, sess, made, window, m_Decompiler, reqs, names, inbox>>
    <3>1. CASE SkipCancelled \/ DropSession
      BY <3>1 DEF SkipCancelled, DropSession
    <3>2. CASE Open \/ ReadBegin \/ Ask \/ Decompile
      BY <1>p, <3>2 DEF Open, ReadBegin, Ask, Decompile, Running
    <3>3. CASE ReadEnd
      <4>1. io = "reading"
        BY <3>3 DEF ReadEnd, ReadEnds
      <4>2. Running
        BY <1>p, <4>1 DEF NamesInv, WorkInv, ThreadControl
      <4>3. QED
        BY <3>3, <4>2 DEF ReadEnd, Running
    <3>4. QED
      BY <1>1, <3>1, <3>2, <3>3
  <2>2. ThreadKnows
    BY <2>1, WorkKnows
  <2>3. QED
    BY <2>1, <2>2, NothingSent, ThreadKeepsNames
<1>2. CASE OpenFails \/ OpenAsksNames
  <2>1. /\ now.kind # "rename" /\ now' = now
        /\ UNCHANGED <<todo, made, window, m_Decompiler, reqs, names, inbox>>
        /\ \/ sess' = sess
           \/ sess' = [sess EXCEPT ![now.s].state = "failed"]
           \/ sess' = [sess EXCEPT ![now.s].state = "made"] /\ sess[now.s].Closed
    BY <1>2, <1>p DEF OpenFails, OpenAsksNames, Running
  <2>2. ASSUME NEW s \in 1..made
        PROVE  /\ sess'[s].names = sess[s].names /\ sess'[s].Closed = sess[s].Closed
               /\ sess'[s].state # sess[s].state => sess'[s].state = "failed" \/ Silent(s)
    <3>1. s \in Sessions /\ sess[s] \in SessionRecords
      BY <1>t
    <3>2. QED
      BY <1>t, <2>1, <3>1 DEF SessionRecords, Silent
  <2>3. ThreadKnows
    BY <2>1, <2>2, WorkKnows
  <2>4. QED
    BY <2>1, <2>3, NothingSent, ThreadKeepsNames
<1>3. CASE Take
  BY <1>3, TakeKeepsNames
<1>4. CASE PostResult
  BY <1>4, PostKeepsNames
<1>5. CASE ApplyRename
  BY <1>5, ApplyKeepsNames
<1>6. QED
  BY <1>1, <1>2, <1>3, <1>4, <1>5 DEF ThreadStep

\* Without a window nothing is answered any more.
LEMMA ShutdownKeepsNames ==
  ASSUME NamesInv, WorkInv', Shutdown
  PROVE  NamesInv'
<1>1. /\ ~window' /\ todo' = <<>> /\ UNCHANGED <<now, sess, made, m_Decompiler, reqs, names, inbox>>
  BY DEF Shutdown, SE!End, frameVars, fileVars, requestVars
<1>2. CurrentWillKnow' /\ QueueWillKnow' /\ NowKnows'
  BY <1>1 DEF CurrentWillKnow, QueueWillKnow, NowKnows, WillKnow, Silent
<1>3. AnswersSeen'
  BY <1>1, NothingSent
<1>4. AsksMade'
  BY <1>1, <1>3 DEF AsksMade, AnswersSeen, NamesInv
<1>5. QED
  BY <1>2, <1>3, <1>4 DEF NamesInv, AnswersSeen

LEMMA NextNamesInv == NamesInv /\ HasWindow /\ [Next]_vars => NamesInv'
<1> SUFFICES ASSUME NamesInv, HasWindow, [Next]_vars
             PROVE  NamesInv'
  OBVIOUS
<1>w. WorkInv'
  BY NextWorkInv DEF NamesInv
<1>1. ASSUME NEW v \in Views, DecompileFunction(v)
      PROVE  NamesInv'
  BY <1>1, <1>w, AsyncKeepsNames DEF DecompileFunction, fileVars
<1>2. ASSUME NEW v \in Views, Redecompile(v)
      PROVE  NamesInv'
  <2>1. CASE DecompileAsync(v)
    BY <1>2, <1>w, <2>1, AsyncKeepsNames DEF Redecompile, fileVars
  <2>2. CASE UNCHANGED <<todo, now, ended, sess, made, m_Decompiler, requestVars>>
    <3>1. UNCHANGED <<todo, now, sess, m_Decompiler, window, reqs, names>> /\ AnswersStay
      BY <1>2, <2>2 DEF Redecompile, fileVars, requestVars, AnswersStay
    <3>2. QED
      BY <1>w, <3>1, QuietKeepsNames
  <2>3. QED
    BY <1>2, <2>1, <2>2 DEF Redecompile
<1>3. ASSUME \/ \E v \in Views : CloseTab(v)
             \/ OnWindowCloseAll
             \/ \E why \in CloseReasons : CloseDecompilerBegin(why)
             \/ OnDecompiled
      PROVE  NamesInv'
  <2>1. UNCHANGED <<todo, now, sess, m_Decompiler, window, reqs, names>> /\ AnswersStay
    <3> USE DEF threadVars, fileVars, requestVars, Cancel, AnswersStay
    <3>1. ASSUME NEW v \in Views, CloseTab(v)
          PROVE  UNCHANGED <<todo, now, sess, m_Decompiler, window, reqs, names>> /\ AnswersStay
      BY <3>1 DEF CloseTab
    <3>2. ASSUME NEW why \in CloseReasons, CloseDecompilerBegin(why)
          PROVE  UNCHANGED <<todo, now, sess, m_Decompiler, window, reqs, names>> /\ AnswersStay
      BY <3>2 DEF CloseDecompilerBegin
    <3>3. CASE OnWindowCloseAll
      BY <3>3 DEF OnWindowCloseAll
    <3>4. CASE OnDecompiled
      BY <3>4 DEF OnDecompiled
    <3>5. QED
      BY <1>3, <3>1, <3>2, <3>3, <3>4
  <2>2. QED
    BY <1>w, <2>1, QuietKeepsNames
<1>4. CASE RenameFunction
  BY <1>4, <1>w, RenameKeepsNames
<1>5. CASE PreferConstantName \/ OnSymbolsLoaded
  <2>1. MakeAgain /\ UNCHANGED <<made, file, window, reqs, names>> /\ AnswersStay
    BY <1>5 DEF PreferConstantName, OnSymbolsLoaded, fileVars, requestVars, AnswersStay
  <2>2. QED
    BY <1>w, <2>1, AgainKeepsNames
<1>6. CASE OnXrefsBuilt
  <2>1. /\ UNCHANGED <<file, window, reqs, names, inbox>> /\ AnswersStay
        /\ XrefsNames \/ (\E again \in BOOLEAN, s \in Sessions : Driver(again, s))
    BY <1>6, XrefsSteps DEF requestVars, AnswersStay
  <2>2. CASE XrefsNames
    BY <1>w, <2>1, <2>2, AgainKeepsNames DEF XrefsNames
  <2>3. CASE \E again \in BOOLEAN, s \in Sessions : Driver(again, s)
    BY <1>w, <2>1, <2>3, DriverKeepsNames
  <2>4. QED
    BY <2>1, <2>2, <2>3
<1>7. CASE CloseDecompilerEnd
  BY <1>7, <1>w, CloseKeepsNames
<1>8. CASE OnDecompilerAsk \/ AskWindowGone
  BY <1>8, <1>w, AnswerKeepsNames
<1>9. CASE OnDriverAnalyzed
  <2>1. /\ UNCHANGED <<made, file, window, reqs, names>> /\ AnswersStay
        /\ MakeAgain \/ UNCHANGED <<todo, now, sess, m_Decompiler>>
    BY <1>9 DEF OnDriverAnalyzed, fileVars, requestVars, AnswersStay
  <2>2. QED
    BY <1>w, <2>1, AgainKeepsNames, QuietKeepsNames
<1>10. CASE ThreadStep
  BY <1>10, <1>w, ThreadStepKeepsNames
<1>11. CASE Shutdown
  BY <1>11, <1>w, ShutdownKeepsNames
<1>12. CASE Over \/ UNCHANGED vars
  <2>1. UNCHANGED <<todo, now, sess, m_Decompiler, window, reqs, names>> /\ AnswersStay
    BY <1>12 DEF Over, vars, AnswersStay
  <2>2. QED
    BY <1>w, <2>1, QuietKeepsNames
<1>13. QED
  BY <1>1, <1>2, <1>3, <1>4, <1>5, <1>6, <1>7, <1>8, <1>9, <1>10, <1>11, <1>12 DEF Next, FrameStep

\* What is decompiled after a rename has the new name, for any number of renames, files and
\* sessions and any order of the two threads (RenameFunction, DecompilerSession::Open).
THEOREM RenamesAreSeen == Spec => []RenameIsSeen
<1>1. Init => NamesInv /\ HasWindow
  BY InitNamesInv DEF Init, HasWindow
<1>2. NamesInv /\ HasWindow /\ [Next]_vars => (NamesInv /\ HasWindow)'
  BY NextNamesInv, NextHasWindow
<1>3. NamesInv /\ HasWindow => RenameIsSeen
  BY DEF NamesInv
<1>4. QED
  BY <1>1, <1>2, <1>3, PTL DEF Spec

-----------------------------------------------------------------------------
(* The third invariant: the ids.  The requests are worked on in the order they were made, and are
   answered in that order; so no answer that comes is older than what its view shows. *)

QueueIds == {todo[i].arg : i \in {j \in 1..Len(todo) : todo[j].kind = "decompile"}}
NowIds == {id \in {now.arg} : now.kind = "decompile"}
MailIds == {inbox[i].arg : i \in {j \in 1..Len(inbox) : inbox[j].kind = "decompiled"}}
ShownIds == {shown[v].id : v \in Views}

Below(S, T) == \A a \in S, b \in T : a < b

QueueInOrder ==
  \A i, j \in 1..Len(todo) :
    i < j /\ todo[i].kind = "decompile" /\ todo[j].kind = "decompile" => todo[i].arg < todo[j].arg
MailInOrder ==
  \A i, j \in 1..Len(inbox) :
    i < j /\ inbox[i].kind = "decompiled" /\ inbox[j].kind = "decompiled" => inbox[i].arg < inbox[j].arg

IdsInOrder ==
  /\ QueueInOrder /\ MailInOrder
  /\ Below(ShownIds, MailIds) /\ Below(ShownIds, NowIds) /\ Below(ShownIds, QueueIds)
  /\ Below(MailIds, NowIds) /\ Below(MailIds, QueueIds)
  /\ Below(NowIds, QueueIds)
  /\ ShownIds \subseteq 0..Len(reqs) /\ (MailIds \cup NowIds \cup QueueIds) \subseteq 1..Len(reqs)

\* What is shown, and what is pending: of the open file, and nothing while it is closed
ShownTypes == /\ shown \in [Views -> [id : Nat, names : Nat]] /\ views \subseteq Views
              /\ pending \subseteq 1..Len(reqs)
PendingOfFile == /\ \A r \in pending : reqs[r].file = file
                 /\ closing # "no" => pending = {} /\ refresh = {}

\* What each view shows, with what it waits for
ViewsShowLatest ==
  file # 0 /\ closing = "no" =>
    \A v \in views : \E r \in 1..Len(reqs) : IsLatest(r, v) /\ (r \in pending \/ shown[v].id = r)

ShownInv == ShownTypes /\ IdsInOrder /\ PendingOfFile /\ ViewsShowLatest

LEMMA InitShownInv == Init => ShownInv
<1> SUFFICES ASSUME Init PROVE ShownInv
  OBVIOUS
<1>1. /\ todo = <<>> /\ now = NoWork /\ inbox = <<>> /\ reqs = <<>> /\ pending = {} /\ views = {}
      /\ shown = [v \in Views |-> Nothing]
  BY DEF Init, SE!ExecutorInit
<1>2. QueueIds = {} /\ NowIds = {} /\ MailIds = {} /\ ShownIds \subseteq {0} /\ Len(reqs) = 0
  BY <1>1 DEF QueueIds, NowIds, MailIds, ShownIds, NoWork, Nothing
<1>3. QueueInOrder /\ MailInOrder
  BY <1>1 DEF QueueInOrder, MailInOrder
<1>4. IdsInOrder
  BY <1>2, <1>3 DEF IdsInOrder, Below
<1>5. ShownTypes /\ PendingOfFile /\ ViewsShowLatest
  BY <1>1 DEF Init, ShownTypes, PendingOfFile, ViewsShowLatest, Nothing
<1> QED
  BY <1>4, <1>5 DEF ShownInv

\* Ids that are no more than there were are in order as they were.
LEMMA OrderStays ==
  ASSUME IdsInOrder, QueueIds' \subseteq QueueIds, NowIds' \subseteq NowIds, MailIds' \subseteq MailIds,
         ShownIds' \subseteq ShownIds \cup {0}, UNCHANGED reqs, QueueInOrder', MailInOrder', Len(reqs) \in Nat
  PROVE  IdsInOrder'
<1>1. /\ Below(ShownIds, MailIds) /\ Below(ShownIds, NowIds) /\ Below(ShownIds, QueueIds)
      /\ Below(MailIds, NowIds) /\ Below(MailIds, QueueIds) /\ Below(NowIds, QueueIds)
      /\ ShownIds \subseteq 0..Len(reqs) /\ (MailIds \cup NowIds \cup QueueIds) \subseteq 1..Len(reqs)
  BY DEF IdsInOrder
<1>2. Below({0}, MailIds) /\ Below({0}, NowIds) /\ Below({0}, QueueIds)
  BY <1>1 DEF Below
<1>3. /\ Below(ShownIds', MailIds') /\ Below(ShownIds', NowIds') /\ Below(ShownIds', QueueIds')
      /\ Below(MailIds', NowIds') /\ Below(MailIds', QueueIds') /\ Below(NowIds', QueueIds')
  BY <1>1, <1>2 DEF Below
<1>4. ShownIds' \subseteq 0..Len(reqs) /\ (MailIds' \cup NowIds' \cup QueueIds') \subseteq 1..Len(reqs)
  BY <1>1
<1> QED
  BY <1>3, <1>4 DEF IdsInOrder, Below

\* The queue grows by work other than decompilations.
GrowsByOthers ==
  Grows /\ UNCHANGED now /\ \A i \in (Len(todo) + 1)..Len(todo') : todo'[i].kind # "decompile"

LEMMA OthersSubmitted ==
  ASSUME SessionTypes, NEW ws \in Seq(WorkItems), SE!SubmitAll(ws),
         \A k \in 1..Len(ws) : ws[k].kind # "decompile"
  PROVE  GrowsByOthers
<1>1. todo' = todo \o ws /\ UNCHANGED now /\ todo \in Seq(WorkItems)
  BY DEF SE!SubmitAll, SessionTypes
<1>2. /\ todo' \in Seq(WorkItems) /\ Len(todo') = Len(todo) + Len(ws) /\ Len(todo) \in Nat /\ Len(ws) \in Nat
      /\ \A i \in 1..Len(todo) : todo'[i] = todo[i]
  BY <1>1
<1>3. ASSUME NEW i \in (Len(todo) + 1)..Len(todo')
      PROVE  todo'[i].kind # "decompile"
  <2> DEFINE k == i - Len(todo)
  <2>1. k \in 1..Len(ws) /\ i = Len(todo) + k
    BY <1>2
  <2> HIDE DEF k
  <2>2. todo'[i] = ws[k]
    BY <1>1, <1>2, <2>1
  <2> QED
    BY <2>1, <2>2
<1> QED
  BY <1>1, <1>2, <1>3 DEF GrowsByOthers, Grows

\* The pieces of the frame's handlers that post such work
LEMMA OtherSubmitted ==
  ASSUME SessionTypes, NEW w \in WorkItems, SE!Submit(w), w.kind # "decompile"
  PROVE  GrowsByOthers
<1> DEFINE ws == <<w>>
<1>1. ws \in Seq(WorkItems) /\ \A k \in 1..Len(ws) : ws[k].kind # "decompile"
  OBVIOUS
<1>2. SE!SubmitAll(ws)
  BY DEF SE!Submit
<1> HIDE DEF ws
<1> QED
  BY <1>1, <1>2, OthersSubmitted

LEMMA NothingSubmitted ==
  ASSUME SessionTypes, UNCHANGED <<todo, now>>
  PROVE  GrowsByOthers
  BY DEF GrowsByOthers, Grows, SessionTypes

LEMMA DropIsWork ==
  ASSUME WorkInv, m_Decompiler # 0
  PROVE  /\ m_Decompiler \in Sessions
         /\ [kind |-> "drop", s |-> m_Decompiler, arg |-> 0] \in WorkItems
  BY BoundsAreNat DEF WorkInv, SessionTypes, WorkItems, Kinds, Sessions

LEMMA LetGoSubmits ==
  ASSUME WorkInv, m_Decompiler # 0, LetGo
  PROVE  GrowsByOthers
  BY DropIsWork, OtherSubmitted DEF LetGo, WorkInv

LEMMA MakeAgainSubmits ==
  ASSUME WorkInv, MakeAgain
  PROVE  GrowsByOthers
  BY LetGoSubmits, NothingSubmitted DEF MakeAgain, WorkInv

LEMMA RenameSubmits ==
  ASSUME WorkInv, RenameFunction
  PROVE  GrowsByOthers
<1>1. names' = names + 1 /\ names \in Nat /\ SessionTypes /\ TellDecompiler
  BY DEF RenameFunction, WorkInv, SessionTypes
<1>2. CASE m_Decompiler = 0
  BY <1>1, <1>2, NothingSubmitted DEF TellDecompiler
<1>3. CASE m_Decompiler # 0
  <2> DEFINE w == [kind |-> "rename", s |-> m_Decompiler, arg |-> names']
  <2>1. w \in WorkItems /\ w.kind # "decompile"
    BY <1>1, <1>3, DropIsWork DEF WorkItems, Kinds
  <2>2. SE!Submit(w)
    BY <1>1, <1>3 DEF TellDecompiler
  <2> HIDE DEF w
  <2> QED
    BY <1>1, <2>1, <2>2, OtherSubmitted
<1> QED
  BY <1>2, <1>3

LEMMA DriverSubmits ==
  ASSUME WorkInv, NEW again \in BOOLEAN, NEW s \in Sessions, Driver(again, s)
  PROVE  GrowsByOthers
<1> DEFINE d == [kind |-> "drop", s |-> m_Decompiler, arg |-> 0]
           w == [kind |-> "driver", s |-> s, arg |-> driver.generation]
<1>1. w \in WorkItems /\ w.kind # "decompile" /\ d.kind # "decompile" /\ SessionTypes
  BY DEF WorkInv, SessionTypes, WorkItems, Kinds
<1>2. CASE again /\ m_Decompiler # 0
  <2>1. d \in WorkItems
    BY <1>2, DropIsWork
  <2>2. SE!SubmitAll(<<d>> \o <<w>>)
    BY <1>2 DEF Driver
  <2> DEFINE ws == <<d>> \o <<w>>
  <2>3. ws \in Seq(WorkItems) /\ Len(ws) = 2 /\ ws[1] = d /\ ws[2] = w
    <3> HIDE DEF d, w
    <3> QED
      BY <1>1, <2>1
  <2> HIDE DEF d, w, ws
  <2>4. \A k \in 1..Len(ws) : ws[k].kind # "decompile"
    BY <1>1, <2>3
  <2>5. SE!SubmitAll(ws)
    BY <2>2 DEF ws
  <2> QED
    BY <1>1, <2>3, <2>4, <2>5, OthersSubmitted
<1>3. CASE ~(again /\ m_Decompiler # 0)
  <2>1. SE!SubmitAll(<<>> \o <<w>>)
    BY <1>3 DEF Driver
  <2> HIDE DEF d, w
  <2>2. <<>> \o <<w>> = <<w>>
    OBVIOUS
  <2> QED
    BY <1>1, <2>1, <2>2, OtherSubmitted DEF SE!Submit
<1> QED
  BY <1>2, <1>3

\* Then the ids of the queue are what they were.
LEMMA QueueStays ==
  ASSUME SessionTypes, QueueInOrder, GrowsByOthers
  PROVE  QueueIds' = QueueIds /\ NowIds' = NowIds /\ QueueInOrder'
<1>1. /\ Len(todo) \in Nat /\ Len(todo') \in Nat /\ Len(todo) <= Len(todo')
      /\ \A i \in 1..Len(todo) : todo'[i] = todo[i]
      /\ \A i \in 1..Len(todo') : todo'[i].kind = "decompile" => i \in 1..Len(todo)
  BY DEF GrowsByOthers, Grows, SessionTypes
<1>2. QueueIds' = QueueIds
  BY <1>1 DEF QueueIds
<1>3. NowIds' = NowIds
  BY DEF GrowsByOthers, NowIds
<1>4. QueueInOrder'
  BY <1>1 DEF QueueInOrder
<1> QED
  BY <1>2, <1>3, <1>4

\* A message is taken from the inbox.
LEMMA MailTaken ==
  ASSUME SessionTypes, MailInOrder, inbox # <<>>, inbox' = Tail(inbox)
  PROVE  /\ MailIds' \subseteq MailIds /\ MailInOrder'
         /\ Head(inbox).kind = "decompiled" =>
              Head(inbox).arg \in MailIds /\ Below({Head(inbox).arg}, MailIds')
<1>1. inbox \in Seq(Mail) /\ Len(inbox) \in Nat \ {0}
  BY DEF SessionTypes
<1>2. /\ Len(inbox') = Len(inbox) - 1 /\ Head(inbox) = inbox[1]
      /\ \A i \in 1..Len(inbox') : inbox'[i] = inbox[i + 1] /\ i + 1 \in 1..Len(inbox)
  BY <1>1
<1>3. \A id \in MailIds' : \E i \in 1..Len(inbox) : i > 1 /\ inbox[i].kind = "decompiled" /\ id = inbox[i].arg
  BY <1>1, <1>2 DEF MailIds
<1>4. MailInOrder'
  <2> SUFFICES ASSUME NEW i \in 1..Len(inbox'), NEW j \in 1..Len(inbox'), i < j,
                      inbox'[i].kind = "decompiled", inbox'[j].kind = "decompiled"
               PROVE  inbox'[i].arg < inbox'[j].arg
    BY DEF MailInOrder
  <2>1. i + 1 < j + 1
    BY <1>1, <1>2
  <2> QED
    BY <1>2, <2>1 DEF MailInOrder
<1>5. MailIds' \subseteq MailIds
  BY <1>3 DEF MailIds
<1>6. Head(inbox).kind = "decompiled" => Head(inbox).arg \in MailIds /\ Below({Head(inbox).arg}, MailIds')
  <2> SUFFICES ASSUME inbox[1].kind = "decompiled"
               PROVE  inbox[1].arg \in MailIds /\ Below({inbox[1].arg}, MailIds')
    BY <1>2
  <2>1. 1 \in 1..Len(inbox)
    BY <1>1
  <2>2. \A id \in MailIds' : inbox[1].arg < id
    BY <1>3, <2>1 DEF MailInOrder
  <2> QED
    BY <2>1, <2>2 DEF MailIds, Below
<1> QED
  BY <1>4, <1>5, <1>6

LEMMA RequestsAre ==
  ASSUME SessionTypes
  PROVE  Len(reqs) \in Nat /\ DOMAIN reqs = 1..Len(reqs)
  BY DEF SessionTypes

-----------------------------------------------------------------------------
(* The frame's steps *)

\* Steps that leave the views, what they show and what is pending
LEMMA ShownGoesOn ==
  ASSUME WorkInv, ShownInv, GrowsByOthers, UNCHANGED <<views, shown, pending, reqs, file, closing>>,
         refresh' = refresh \/ closing = "no",
         inbox' = inbox \/ (inbox # <<>> /\ inbox' = Tail(inbox))
  PROVE  ShownInv'
<1>1. SessionTypes /\ IdsInOrder /\ QueueInOrder /\ MailInOrder
  BY DEF WorkInv, ShownInv, IdsInOrder
<1>2. QueueIds' = QueueIds /\ NowIds' = NowIds /\ QueueInOrder'
  BY <1>1, QueueStays
<1>3. MailIds' \subseteq MailIds /\ MailInOrder'
  <2>1. CASE inbox' = inbox
    BY <1>1, <2>1 DEF MailIds, MailInOrder
  <2>2. CASE inbox # <<>> /\ inbox' = Tail(inbox)
    BY <1>1, <2>2, MailTaken
  <2> QED
    BY <2>1, <2>2
<1>4. ShownIds' = ShownIds
  BY DEF ShownIds
<1>5. IdsInOrder'
  BY <1>1, <1>2, <1>3, <1>4, RequestsAre, OrderStays
<1>6. ShownTypes' /\ PendingOfFile'
  BY DEF ShownInv, ShownTypes, PendingOfFile
<1>7. ViewsShowLatest'
  BY DEF ShownInv, ViewsShowLatest, IsLatest
<1> QED
  BY <1>5, <1>6, <1>7 DEF ShownInv

\* A new request is the latest of its view, and of all.
LEMMA AsyncKeepsShown ==
  ASSUME WorkInv, ShownInv, NEW v \in Views, DecompileAsync(v), closing = "no",
         UNCHANGED <<file, closing, shown, inbox>>, views' = views \cup {v} \/ views' = views
  PROVE  ShownInv'
<1> DEFINE n == Len(reqs) + 1
           request == [view |-> v, file |-> file, names |-> names]
<1>1. PICK s \in Sessions : SE!Submit([kind |-> "decompile", s |-> s, arg |-> n])
  BY DEF DecompileAsync
<1> DEFINE w == [kind |-> "decompile", s |-> s, arg |-> n]
<1>2. SessionTypes /\ IdsInOrder /\ Len(reqs) \in Nat /\ n \in Nat
  BY RequestsAre DEF WorkInv, ShownInv
<1>3. reqs' = Append(reqs, request) /\ pending' = pending \cup {Len(reqs')}
  BY DEF DecompileAsync, NewRequest
<1>4. /\ Len(reqs') = n /\ reqs'[n] = request
      /\ \A r \in 1..Len(reqs) : reqs'[r] = reqs[r]
      /\ DOMAIN reqs' = 1..n /\ \A r : r \in 1..n <=> r \in 1..Len(reqs) \/ r = n
  <2> HIDE DEF request
  <2>1. Len(reqs') = n /\ reqs'[n] = request /\ \A r \in 1..Len(reqs) : reqs'[r] = reqs[r]
    BY <1>2, <1>3 DEF SessionTypes
  <2>2. DOMAIN reqs' = 1..n
    BY <1>2, <1>3 DEF SessionTypes
  <2> QED
    BY <1>2, <2>1, <2>2
<1>5. w \in WorkItems /\ w.kind = "decompile" /\ w.arg = n
  BY <1>2 DEF WorkItems, Kinds
<1>6. /\ todo' \in Seq(WorkItems) /\ Len(todo') = Len(todo) + 1 /\ Len(todo) \in Nat
      /\ \A i \in 1..Len(todo) : todo'[i] = todo[i]
      /\ todo'[Len(todo) + 1] = w /\ UNCHANGED now
  BY <1>1, <1>2, <1>5, Submitted DEF SessionTypes
<1>7. request.view = v /\ request.file = file
  OBVIOUS
<1> HIDE DEF n, w, request
<1>8. IdsInOrder'
  <2>1. QueueIds' \subseteq QueueIds \cup {n}
    BY <1>5, <1>6 DEF QueueIds
  <2>2. NowIds' = NowIds /\ MailIds' = MailIds /\ ShownIds' = ShownIds /\ MailInOrder'
    BY <1>2, <1>6 DEF NowIds, MailIds, ShownIds, IdsInOrder, MailInOrder
  <2>3. /\ Below(ShownIds, MailIds) /\ Below(ShownIds, NowIds) /\ Below(ShownIds, QueueIds)
        /\ Below(MailIds, NowIds) /\ Below(MailIds, QueueIds) /\ Below(NowIds, QueueIds)
        /\ ShownIds \subseteq 0..Len(reqs) /\ (MailIds \cup NowIds \cup QueueIds) \subseteq 1..Len(reqs)
    BY <1>2 DEF IdsInOrder
  <2>4. Below(ShownIds, {n}) /\ Below(MailIds, {n}) /\ Below(NowIds, {n}) /\ Below(QueueIds, {n})
    BY <1>2, <2>3 DEF Below, n
  <2>5. /\ Below(ShownIds', QueueIds') /\ Below(MailIds', QueueIds') /\ Below(NowIds', QueueIds')
        /\ Below(ShownIds', MailIds') /\ Below(ShownIds', NowIds') /\ Below(MailIds', NowIds')
    BY <2>1, <2>2, <2>3, <2>4 DEF Below
  <2>6. ShownIds' \subseteq 0..n /\ (MailIds' \cup NowIds' \cup QueueIds') \subseteq 1..n
    BY <1>2, <2>1, <2>2, <2>3 DEF n
  <2>7. QueueInOrder'
    <3> SUFFICES ASSUME NEW i \in 1..Len(todo'), NEW j \in 1..Len(todo'), i < j,
                        todo'[i].kind = "decompile", todo'[j].kind = "decompile"
                 PROVE  todo'[i].arg < todo'[j].arg
      BY DEF QueueInOrder
    <3>1. i \in 1..Len(todo) /\ (j \in 1..Len(todo) \/ j = Len(todo) + 1)
      BY <1>6
    <3>2. todo'[i] = todo[i] /\ todo[i].arg \in QueueIds
      BY <1>6, <3>1 DEF QueueIds
    <3>3. CASE j \in 1..Len(todo)
      BY <1>2, <1>6, <3>1, <3>2, <3>3 DEF IdsInOrder, QueueInOrder
    <3>4. CASE j = Len(todo) + 1
      BY <1>5, <1>6, <2>4, <3>2, <3>4 DEF Below
    <3> QED
      BY <3>1, <3>3, <3>4
  <2> QED
    BY <1>4, <2>2, <2>5, <2>6, <2>7 DEF IdsInOrder, Below
<1>9. ShownTypes'
  BY <1>3, <1>4 DEF ShownInv, ShownTypes
<1>10. PendingOfFile'
  BY <1>3, <1>4, <1>7 DEF ShownInv, ShownTypes, PendingOfFile
<1>11. ViewsShowLatest'
  <2> SUFFICES ASSUME file # 0, NEW u \in views'
               PROVE  \E r \in 1..n : IsLatest(r, u)' /\ (r \in pending' \/ shown[u].id = r)
    BY <1>4 DEF ViewsShowLatest
  <2>1. CASE u = v
    <3>1. \A r : r = n => IsLatest(r, u)'
      <4>1. \A q \in 1..n : q <= n
        BY <1>2
      <4> QED
        BY <1>4, <1>7, <2>1, <4>1 DEF IsLatest
    <3> QED
      BY <1>3, <1>4, <3>1
  <2>2. CASE u # v
    <3>1. PICK r \in 1..Len(reqs) : IsLatest(r, u) /\ (r \in pending \/ shown[u].id = r)
      BY <2>2 DEF ShownInv, ViewsShowLatest
    <3>2. IsLatest(r, u)'
      BY <1>2, <1>4, <1>7, <2>2, <3>1, RequestsAre DEF IsLatest
    <3> QED
      BY <1>3, <1>4, <3>1, <3>2
  <2> QED
    BY <2>1, <2>2
<1> QED
  BY <1>8, <1>9, <1>10, <1>11 DEF ShownInv

\* Views are closed, or shown to have no file; requests are withdrawn with their views.
LEMMA FewerKeepShown ==
  ASSUME WorkInv, ShownInv, UNCHANGED <<todo, now, inbox, reqs, file>>,
         ShownTypes', ShownIds' \subseteq ShownIds \cup {0}, pending' \subseteq pending,
         closing' # "no" => pending' = {} /\ refresh' = {},
         ViewsShowLatest'
  PROVE  ShownInv'
<1>1. QueueIds' = QueueIds /\ NowIds' = NowIds /\ MailIds' = MailIds
  BY DEF QueueIds, NowIds, MailIds
<1>2. IdsInOrder /\ QueueInOrder' /\ MailInOrder'
  BY DEF ShownInv, IdsInOrder, QueueInOrder, MailInOrder
<1>3. IdsInOrder'
  BY <1>1, <1>2, RequestsAre, OrderStays DEF WorkInv
<1>4. PendingOfFile'
  BY DEF ShownInv, PendingOfFile
<1> QED
  BY <1>3, <1>4 DEF ShownInv

LEMMA NoFileKeepsShown ==
  ASSUME WorkInv, ShownInv, NEW v \in Views, Redecompile(v), file = 0,
         shown' = [shown EXCEPT ![v] = Nothing],
         UNCHANGED <<todo, now, requestVars>>
  PROVE  ShownInv'
<1>1. UNCHANGED <<todo, now, inbox, reqs, pending, file, closing, views>> /\ v \in refresh
  BY DEF Redecompile, requestVars, fileVars
<1>2. shown \in [Views -> [id : Nat, names : Nat]] /\ Nothing \in [id : Nat, names : Nat] /\ Nothing.id = 0
  BY DEF ShownInv, ShownTypes, Nothing
<1>3. ShownTypes'
  BY <1>1, <1>2 DEF ShownInv, ShownTypes
<1>4. ShownIds' \subseteq ShownIds \cup {0}
  <2>1. \A u \in Views : shown'[u].id \in {shown[u].id, 0}
    BY <1>2
  <2> QED
    BY <2>1 DEF ShownIds
<1>5. closing = "no"
  BY <1>1 DEF ShownInv, PendingOfFile
<1>6. ViewsShowLatest'
  BY <1>1 DEF ViewsShowLatest
<1> QED
  BY <1>1, <1>3, <1>4, <1>5, <1>6, FewerKeepShown

\* The requests that CloseTab withdraws are of no other view.
LEMMA CloseTabKeepsShown ==
  ASSUME WorkInv, ShownInv, NEW v \in Views, CloseTab(v)
  PROVE  ShownInv'
<1>1. /\ UNCHANGED <<todo, now, inbox, reqs, file, closing, refresh, shown>>
      /\ views' = views \ {v} /\ pending' = pending \ {r \in pending : reqs[r].view = v}
      /\ closing = "no"
  BY DEF CloseTab, Cancel, threadVars, fileVars, InLoop
<1>2. ShownTypes' /\ ShownIds' = ShownIds
  BY <1>1 DEF ShownInv, ShownTypes, ShownIds
<1>3. ViewsShowLatest'
  <2> SUFFICES ASSUME file # 0, NEW u \in views \ {v}
               PROVE  \E r \in 1..Len(reqs) : IsLatest(r, u) /\ (r \in pending' \/ shown[u].id = r)
    BY <1>1 DEF ViewsShowLatest, IsLatest
  <2>1. PICK r \in 1..Len(reqs) : IsLatest(r, u) /\ (r \in pending \/ shown[u].id = r)
    BY <1>1 DEF ShownInv, ViewsShowLatest
  <2> QED
    BY <1>1, <2>1 DEF IsLatest
<1> QED
  BY <1>1, <1>2, <1>3, FewerKeepShown

LEMMA CloseAllKeepsShown ==
  ASSUME WorkInv, ShownInv, OnWindowCloseAll
  PROVE  ShownInv'
<1>1. UNCHANGED <<todo, now, inbox, reqs, file, closing, refresh, shown, pending>> /\ views' = {} /\ closing = "no"
  BY DEF OnWindowCloseAll, threadVars, fileVars, requestVars, InLoop
<1>2. ShownTypes' /\ ShownIds' = ShownIds /\ ViewsShowLatest'
  BY <1>1 DEF ShownInv, ShownTypes, ShownIds, ViewsShowLatest
<1> QED
  BY <1>1, <1>2, FewerKeepShown

\* All requests are withdrawn when the file is closed ...
LEMMA CloseBeginKeepsShown ==
  ASSUME WorkInv, ShownInv, NEW why \in CloseReasons, CloseDecompilerBegin(why)
  PROVE  ShownInv'
<1>1. /\ UNCHANGED <<todo, now, inbox, reqs, file, refresh, shown>> /\ refresh = {}
      /\ pending' = {} /\ views' \subseteq views /\ closing' # "no"
  BY DEF CloseDecompilerBegin, Cancel, threadVars, fileVars, InLoop, CloseReasons
<1>2. ShownTypes' /\ ShownIds' = ShownIds /\ ViewsShowLatest'
  BY <1>1 DEF ShownInv, ShownTypes, ShownIds, ViewsShowLatest
<1> QED
  BY <1>1, <1>2, FewerKeepShown

\* ... and its views are gone when there is another.
LEMMA CloseEndKeepsShown ==
  ASSUME WorkInv, ShownInv, CloseDecompilerEnd
  PROVE  ShownInv'
<1>1. /\ UNCHANGED <<inbox, reqs, pending, refresh, shown>> /\ closing # "no" /\ closing' = "no"
      /\ views' \subseteq views /\ (file' # 0 => views' = {})
      /\ (m_Decompiler = 0 /\ UNCHANGED <<todo, now>>) \/ (m_Decompiler # 0 /\ LetGo)
  BY DEF CloseDecompilerEnd, requestVars
<1>2. GrowsByOthers
  BY <1>1, LetGoSubmits, NothingSubmitted DEF WorkInv
<1>3. SessionTypes /\ IdsInOrder /\ QueueInOrder /\ MailInOrder /\ Len(reqs) \in Nat
  BY RequestsAre DEF WorkInv, ShownInv, IdsInOrder
<1>4. QueueIds' = QueueIds /\ NowIds' = NowIds /\ QueueInOrder'
  BY <1>2, <1>3, QueueStays
<1>5. MailIds' = MailIds /\ MailInOrder' /\ ShownIds' = ShownIds
  BY <1>1, <1>3 DEF MailIds, MailInOrder, ShownIds
<1>6. IdsInOrder'
  BY <1>1, <1>3, <1>4, <1>5, OrderStays
<1>7. ShownTypes' /\ PendingOfFile' /\ ViewsShowLatest'
  BY <1>1 DEF ShownInv, ShownTypes, PendingOfFile, ViewsShowLatest
<1> QED
  BY <1>6, <1>7 DEF ShownInv

\* What OnDecompiled shows
Shows(id, names2) ==
  [v \in Views |-> IF reqs[id].view = v /\ v \in views THEN [id |-> id, names |-> names2] ELSE shown[v]]

LEMMA DecompiledSteps ==
  ASSUME WorkInv, OnDecompiled
  PROVE  /\ inbox # <<>> /\ inbox' = Tail(inbox) /\ Head(inbox).kind = "decompiled"
         /\ Head(inbox).arg \in Nat /\ Head(inbox).names \in Nat
         /\ pending' = pending \ {Head(inbox).arg}
         /\ IF Head(inbox).arg \in pending THEN shown' = Shows(Head(inbox).arg, Head(inbox).names)
                                           ELSE shown' = shown
         /\ UNCHANGED <<todo, now, reqs, views, file, closing, refresh>>
<1>1. inbox # <<>> /\ inbox \in Seq(Mail)
  BY DEF OnDecompiled, WorkInv, SessionTypes
<1>2. Head(inbox) \in Mail
  BY <1>1
<1>3. Head(inbox).arg \in Nat /\ Head(inbox).names \in Nat
  BY <1>2 DEF Mail
<1> QED
  BY <1>1, <1>3 DEF OnDecompiled, Answered, Shows, threadVars, fileVars

\* An answer is of the oldest request that is not answered: no view shows what is newer.
LEMMA DecompiledKeepsShown ==
  ASSUME WorkInv, ShownInv, OnDecompiled
  PROVE  /\ ShownInv'
         /\ \A v \in Views : shown'[v] # shown[v] => /\ reqs[shown'[v].id].file = file
                                                     /\ shown'[v].id > shown[v].id
<1> DEFINE a == Head(inbox).arg
           shows == Shows(Head(inbox).arg, Head(inbox).names)
<1>1. /\ inbox # <<>> /\ inbox' = Tail(inbox) /\ a \in Nat
      /\ pending' = pending \ {a} /\ IF a \in pending THEN shown' = shows ELSE shown' = shown
      /\ UNCHANGED <<todo, now, reqs, views, file, closing, refresh>>
  BY DecompiledSteps
<1>2. SessionTypes /\ IdsInOrder /\ MailInOrder /\ Len(reqs) \in Nat
  BY RequestsAre DEF WorkInv, ShownInv, IdsInOrder
<1>3. MailIds' \subseteq MailIds /\ MailInOrder' /\ a \in MailIds /\ Below({a}, MailIds')
  BY <1>2, DecompiledSteps, MailTaken
<1>4. /\ shown \in [Views -> [id : Nat, names : Nat]] /\ shows \in [Views -> [id : Nat, names : Nat]]
      /\ \A v \in Views : /\ reqs[a].view = v /\ v \in views => shows[v].id = a
                          /\ ~(reqs[a].view = v /\ v \in views) => shows[v] = shown[v]
  <2>1. Head(inbox).names \in Nat
    BY DecompiledSteps
  <2> QED
    BY <1>1, <2>1 DEF ShownInv, ShownTypes, Shows
<1> HIDE DEF a, shows
<1>5. \A v \in Views : \/ shown'[v] = shown[v]
                       \/ a \in pending /\ reqs[a].view = v /\ v \in views /\ shown'[v].id = a
  BY <1>1, <1>4
<1>6. \A v \in Views : shown[v].id \in Nat /\ shown[v].id < a
  BY <1>2, <1>3, <1>4 DEF IdsInOrder, Below, ShownIds
<1>7. \A v \in Views : shown'[v] # shown[v] => reqs[shown'[v].id].file = file /\ shown'[v].id > shown[v].id
  BY <1>1, <1>5, <1>6 DEF ShownInv, PendingOfFile
<1>8. IdsInOrder'
  <2>1. QueueIds' = QueueIds /\ NowIds' = NowIds /\ QueueInOrder'
    BY <1>1, <1>2 DEF QueueIds, NowIds, QueueInOrder, IdsInOrder
  <2>2. /\ Below(ShownIds, MailIds) /\ Below(ShownIds, NowIds) /\ Below(ShownIds, QueueIds)
        /\ Below(MailIds, NowIds) /\ Below(MailIds, QueueIds) /\ Below(NowIds, QueueIds)
        /\ ShownIds \subseteq 0..Len(reqs) /\ (MailIds \cup NowIds \cup QueueIds) \subseteq 1..Len(reqs)
    BY <1>2 DEF IdsInOrder
  <2>3. ShownIds' \subseteq ShownIds \cup {a}
    BY <1>5 DEF ShownIds
  <2>4. Below(ShownIds \cup {a}, MailIds') /\ Below(ShownIds \cup {a}, NowIds) /\ Below(ShownIds \cup {a}, QueueIds)
    BY <1>3, <2>2 DEF Below
  <2>5. /\ Below(ShownIds', MailIds') /\ Below(ShownIds', NowIds') /\ Below(ShownIds', QueueIds')
        /\ Below(MailIds', NowIds') /\ Below(MailIds', QueueIds') /\ Below(NowIds', QueueIds')
    BY <1>3, <2>1, <2>2, <2>3, <2>4 DEF Below
  <2>6. ShownIds' \subseteq 0..Len(reqs) /\ (MailIds' \cup NowIds' \cup QueueIds') \subseteq 1..Len(reqs)
    BY <1>2, <1>3, <2>1, <2>2, <2>3
  <2> QED
    BY <1>1, <1>3, <2>1, <2>5, <2>6 DEF IdsInOrder, Below
<1>9. ShownTypes' /\ PendingOfFile'
  BY <1>1, <1>4 DEF ShownInv, ShownTypes, PendingOfFile
<1>10. ViewsShowLatest'
  <2> SUFFICES ASSUME file # 0, closing = "no", NEW v \in views
               PROVE  \E r \in 1..Len(reqs) : IsLatest(r, v) /\ (r \in pending' \/ shown'[v].id = r)
    BY <1>1 DEF ViewsShowLatest, IsLatest
  <2>1. PICK r \in 1..Len(reqs) : IsLatest(r, v) /\ (r \in pending \/ shown[v].id = r)
    BY DEF ShownInv, ViewsShowLatest
  <2>2. v \in Views /\ reqs[r].view = v
    BY <2>1 DEF ShownInv, ShownTypes, IsLatest
  <2>3. CASE r \in pending /\ r # a
    BY <1>1, <2>1, <2>3
  <2>4. CASE r \in pending /\ r = a
    BY <1>1, <1>4, <2>1, <2>2, <2>4
  <2>5. CASE shown[v].id = r
    <3>1. ~(a \in pending /\ reqs[a].view = v)
      <4> SUFFICES ASSUME a \in pending, reqs[a].view = v PROVE FALSE
        OBVIOUS
      <4>1. a \in DOMAIN reqs
        BY <1>2, RequestsAre DEF ShownInv, ShownTypes
      <4>2. a <= r
        BY <2>1, <4>1 DEF IsLatest
      <4> QED
        BY <1>1, <1>6, <2>2, <2>5, <4>2
    <3>2. shown'[v] = shown[v]
      BY <1>5, <2>2, <3>1
    <3> QED
      BY <2>1, <2>5, <3>2
  <2> QED
    BY <2>1, <2>3, <2>4, <2>5
<1> QED
  BY <1>7, <1>8, <1>9, <1>10 DEF ShownInv

-----------------------------------------------------------------------------
(* The thread's steps *)

LEMMA ThreadKeepsShown ==
  ASSUME WorkInv, ShownInv, UNCHANGED frameVars, IdsInOrder'
  PROVE  ShownInv'
<1>1. UNCHANGED <<views, shown, pending, reqs, file, closing, refresh>>
  BY DEF frameVars, fileVars, requestVars, viewVars
<1>2. ShownTypes' /\ PendingOfFile' /\ ViewsShowLatest'
  BY <1>1 DEF ShownInv, ShownTypes, PendingOfFile, ViewsShowLatest, IsLatest
<1> QED
  BY <1>2 DEF ShownInv

\* The oldest of the queue is taken.
LEMMA TakeKeepsOrder ==
  ASSUME WorkInv, ShownInv, Take
  PROVE  IdsInOrder'
<1>1. /\ now = NoWork /\ todo # <<>> /\ now' = Head(todo) /\ todo' = Tail(todo)
      /\ UNCHANGED <<inbox, shown, reqs>>
  BY DEF Take, SE!Start, frameVars, requestVars, viewVars
<1>2. todo \in Seq(WorkItems) /\ Len(todo) \in Nat \ {0} /\ IdsInOrder /\ QueueInOrder /\ Len(reqs) \in Nat
  BY <1>1, RequestsAre DEF WorkInv, SessionTypes, ShownInv, IdsInOrder
<1>3. /\ Len(todo') = Len(todo) - 1 /\ now' = todo[1] /\ 1 \in 1..Len(todo)
      /\ \A i \in 1..Len(todo') : todo'[i] = todo[i + 1] /\ i + 1 \in 1..Len(todo)
  BY <1>1, <1>2
<1>4. NowIds' \subseteq QueueIds
  BY <1>3 DEF NowIds, QueueIds
<1>5. \A id \in QueueIds' : \E i \in 1..Len(todo) : i > 1 /\ todo[i].kind = "decompile" /\ id = todo[i].arg
  BY <1>2, <1>3 DEF QueueIds
<1>6. QueueIds' \subseteq QueueIds
  BY <1>5 DEF QueueIds
<1>7. Below(NowIds', QueueIds')
  BY <1>2, <1>3, <1>5 DEF NowIds, Below, QueueInOrder
<1>8. QueueInOrder'
  <2> SUFFICES ASSUME NEW i \in 1..Len(todo'), NEW j \in 1..Len(todo'), i < j,
                      todo'[i].kind = "decompile", todo'[j].kind = "decompile"
               PROVE  todo'[i].arg < todo'[j].arg
    BY DEF QueueInOrder
  <2>1. i + 1 < j + 1
    BY <1>2, <1>3
  <2> QED
    BY <1>2, <1>3, <2>1 DEF QueueInOrder
<1>9. MailIds' = MailIds /\ ShownIds' = ShownIds /\ MailInOrder'
  BY <1>1, <1>2 DEF MailIds, ShownIds, MailInOrder, IdsInOrder
<1>10. /\ Below(ShownIds, MailIds) /\ Below(ShownIds, QueueIds) /\ Below(MailIds, QueueIds)
       /\ ShownIds \subseteq 0..Len(reqs) /\ (MailIds \cup NowIds \cup QueueIds) \subseteq 1..Len(reqs)
  BY <1>2 DEF IdsInOrder
<1>11. /\ Below(ShownIds', MailIds') /\ Below(ShownIds', NowIds') /\ Below(ShownIds', QueueIds')
       /\ Below(MailIds', NowIds') /\ Below(MailIds', QueueIds')
  BY <1>4, <1>6, <1>9, <1>10 DEF Below
<1>12. ShownIds' \subseteq 0..Len(reqs) /\ (MailIds' \cup NowIds' \cup QueueIds') \subseteq 1..Len(reqs)
  BY <1>4, <1>6, <1>9, <1>10
<1> QED
  BY <1>1, <1>7, <1>8, <1>9, <1>11, <1>12 DEF IdsInOrder, Below

\* The work ends, or goes on, and nothing is sent.
LEMMA SilentKeepsOrder ==
  ASSUME WorkInv, ShownInv, UNCHANGED <<todo, inbox, shown, reqs>>, now' = now \/ now' = NoWork
  PROVE  IdsInOrder'
<1>1. QueueIds' = QueueIds /\ MailIds' = MailIds /\ ShownIds' = ShownIds
  BY DEF QueueIds, MailIds, ShownIds
<1>2. NowIds' \subseteq NowIds
  BY DEF NowIds, NoWork
<1>3. IdsInOrder /\ QueueInOrder' /\ MailInOrder'
  BY DEF ShownInv, IdsInOrder, QueueInOrder, MailInOrder
<1> QED
  BY <1>1, <1>2, <1>3, RequestsAre, OrderStays DEF WorkInv

\* What ends is answered, after all that was answered before.
LEMMA PostKeepsOrder ==
  ASSUME WorkInv, ShownInv, PostResult
  PROVE  IdsInOrder'
<1> DEFINE m == [kind |-> IF now.kind = "driver" THEN "driver" ELSE "decompiled",
                 arg |-> now.arg, names |-> sess[now.s].names,
                 ok |-> sess[now.s].state = "made", file |-> sess[now.s].file]
<1>1. /\ now' = NoWork /\ phase = "post" /\ UNCHANGED <<todo, shown, reqs>>
      /\ inbox' = inbox \/ inbox' = Append(inbox, m)
  BY DEF PostResult, EndOfWork, SE!Finish, frameVars, requestVars, viewVars
<1>2. CASE inbox' = inbox
  BY <1>1, <1>2, SilentKeepsOrder
<1>3. CASE inbox' = Append(inbox, m)
  <2>1. Running /\ IdsInOrder /\ inbox \in Seq(Mail) /\ Len(inbox) \in Nat /\ Len(reqs) \in Nat
    BY <1>1, RequestsAre DEF WorkInv, ThreadControl, SessionTypes, ShownInv
  <2>2. m.kind = "decompiled" => now.kind = "decompile" /\ m.arg = now.arg
    BY <2>1 DEF Running
  <2> HIDE DEF m
  <2>3. m.kind = "decompiled" => m.arg \in NowIds
    BY <2>2 DEF NowIds
  <2>4. /\ Len(inbox') = Len(inbox) + 1 /\ inbox'[Len(inbox) + 1] = m
        /\ \A i \in 1..Len(inbox) : inbox'[i] = inbox[i]
    BY <1>3, <2>1
  <2>5. MailIds' \subseteq MailIds \cup NowIds
    <3> SUFFICES ASSUME NEW i \in 1..Len(inbox'), inbox'[i].kind = "decompiled"
                 PROVE  inbox'[i].arg \in MailIds \cup NowIds
      BY DEF MailIds
    <3>1. i \in 1..Len(inbox) \/ i = Len(inbox) + 1
      BY <2>1, <2>4
    <3> QED
      BY <2>3, <2>4, <3>1 DEF MailIds
  <2>6. NowIds' = {} /\ QueueIds' = QueueIds /\ ShownIds' = ShownIds /\ QueueInOrder'
    BY <1>1, <2>1 DEF NowIds, NoWork, QueueIds, ShownIds, IdsInOrder, QueueInOrder
  <2>7. /\ Below(ShownIds, MailIds) /\ Below(ShownIds, NowIds) /\ Below(ShownIds, QueueIds)
        /\ Below(MailIds, NowIds) /\ Below(MailIds, QueueIds) /\ Below(NowIds, QueueIds)
        /\ ShownIds \subseteq 0..Len(reqs) /\ (MailIds \cup NowIds \cup QueueIds) \subseteq 1..Len(reqs)
    BY <2>1 DEF IdsInOrder
  <2>8. MailInOrder'
    <3> SUFFICES ASSUME NEW i \in 1..Len(inbox'), NEW j \in 1..Len(inbox'), i < j,
                        inbox'[i].kind = "decompiled", inbox'[j].kind = "decompiled"
                 PROVE  inbox'[i].arg < inbox'[j].arg
      BY DEF MailInOrder
    <3>1. i \in 1..Len(inbox) /\ (j \in 1..Len(inbox) \/ j = Len(inbox) + 1)
      BY <2>1, <2>4
    <3>2. inbox'[i] = inbox[i] /\ inbox[i].arg \in MailIds
      BY <2>4, <3>1 DEF MailIds
    <3>3. CASE j \in 1..Len(inbox)
      BY <2>1, <2>4, <3>1, <3>2, <3>3 DEF IdsInOrder, MailInOrder
    <3>4. CASE j = Len(inbox) + 1
      BY <2>3, <2>4, <2>7, <3>2, <3>4 DEF Below
    <3> QED
      BY <3>1, <3>3, <3>4
  <2>9. /\ Below(ShownIds', MailIds') /\ Below(ShownIds', NowIds') /\ Below(ShownIds', QueueIds')
        /\ Below(MailIds', NowIds') /\ Below(MailIds', QueueIds') /\ Below(NowIds', QueueIds')
    BY <2>5, <2>6, <2>7 DEF Below
  <2>10. ShownIds' \subseteq 0..Len(reqs) /\ (MailIds' \cup NowIds' \cup QueueIds') \subseteq 1..Len(reqs)
    BY <2>5, <2>6, <2>7
  <2> QED
    BY <1>1, <2>6, <2>8, <2>9, <2>10 DEF IdsInOrder, Below
<1> QED
  BY <1>1, <1>2, <1>3

LEMMA ThreadStepKeepsShown ==
  ASSUME WorkInv, ShownInv, ThreadStep
  PROVE  ShownInv'
<1>0. UNCHANGED frameVars
  BY DEF ThreadStep, Take, SkipCancelled, Open, OpenFails, OpenAsksNames, ReadBegin,
     ReadEnd, Ask, Decompile, PostResult, ApplyRename, DropSession
<1>1. UNCHANGED <<shown, reqs>>
  BY <1>0 DEF frameVars, requestVars, viewVars
<1>2. CASE Take
  BY <1>0, <1>2, TakeKeepsOrder, ThreadKeepsShown
<1>3. CASE PostResult
  BY <1>0, <1>3, PostKeepsOrder, ThreadKeepsShown
<1>4. CASE SkipCancelled \/ ApplyRename \/ DropSession
  <2>1. now' = NoWork /\ UNCHANGED <<todo, inbox>>
    BY <1>4 DEF SkipCancelled, ApplyRename, DropSession, EndOfWork, SE!Finish
  <2> QED
    BY <1>0, <1>1, <2>1, SilentKeepsOrder, ThreadKeepsShown
<1>5. CASE Open \/ OpenFails \/ OpenAsksNames \/ ReadBegin \/ ReadEnd \/ Ask \/ Decompile
  <2>1. UNCHANGED <<todo, now, inbox>>
    BY <1>5 DEF Open, OpenFails, OpenAsksNames, ReadBegin, ReadEnd, Ask, Decompile
  <2> QED
    BY <1>0, <1>1, <2>1, SilentKeepsOrder, ThreadKeepsShown
<1> QED
  BY <1>2, <1>3, <1>4, <1>5 DEF ThreadStep

\* The work not started is dropped.
LEMMA ShutdownKeepsShown ==
  ASSUME WorkInv, ShownInv, Shutdown
  PROVE  ShownInv'
<1>1. todo' = <<>> /\ UNCHANGED <<now, inbox, frameVars>>
  BY DEF Shutdown, SE!End
<1>2. UNCHANGED <<shown, reqs>>
  BY <1>1 DEF frameVars, requestVars, viewVars
<1>3. QueueIds' = {} /\ NowIds' = NowIds /\ MailIds' = MailIds /\ ShownIds' = ShownIds
  BY <1>1, <1>2 DEF QueueIds, NowIds, MailIds, ShownIds
<1>4. IdsInOrder /\ QueueInOrder' /\ MailInOrder'
  BY <1>1 DEF ShownInv, IdsInOrder, QueueInOrder, MailInOrder
<1>5. IdsInOrder'
  BY <1>2, <1>3, <1>4, RequestsAre, OrderStays DEF WorkInv
<1> QED
  BY <1>1, <1>5, ThreadKeepsShown

-----------------------------------------------------------------------------
\* Steps that change no more than the sessions, and what waits for the frame
LEMMA QuietKeepsShown ==
  ASSUME WorkInv, ShownInv, UNCHANGED <<todo, now, inbox, views, shown, pending, reqs, file, closing, refresh>>
  PROVE  ShownInv'
  BY NothingSubmitted, ShownGoesOn DEF WorkInv

LEMMA NextShownInv == WorkInv /\ ShownInv /\ [Next]_vars => ShownInv'
<1> SUFFICES ASSUME WorkInv, ShownInv, [Next]_vars
             PROVE  ShownInv'
  OBVIOUS
<1>1. ASSUME NEW v \in Views, DecompileFunction(v)
      PROVE  ShownInv'
  BY <1>1, AsyncKeepsShown DEF DecompileFunction, fileVars, InLoop
<1>2. ASSUME NEW v \in Views, Redecompile(v)
      PROVE  ShownInv'
  <2>1. closing = "no"
    BY <1>2 DEF Redecompile, ShownInv, PendingOfFile
  <2>2. CASE file # 0
    BY <1>2, <2>1, <2>2, AsyncKeepsShown DEF Redecompile, fileVars
  <2>3. CASE file = 0
    <3>1. shown' = [shown EXCEPT ![v] = Nothing] /\ UNCHANGED <<todo, now, requestVars>>
      BY <1>2, <2>3 DEF Redecompile
    <3> QED
      BY <1>2, <2>3, <3>1, NoFileKeepsShown
  <2> QED
    BY <2>2, <2>3
<1>3. ASSUME NEW v \in Views, CloseTab(v)
      PROVE  ShownInv'
  BY <1>3, CloseTabKeepsShown
<1>4. ASSUME NEW why \in CloseReasons, CloseDecompilerBegin(why)
      PROVE  ShownInv'
  BY <1>4, CloseBeginKeepsShown
<1>5. CASE OnWindowCloseAll
  BY <1>5, CloseAllKeepsShown
<1>6. CASE CloseDecompilerEnd
  BY <1>6, CloseEndKeepsShown
<1>7. CASE RenameFunction
  <2>1. UNCHANGED <<views, shown, pending, reqs, file, closing, inbox>> /\ closing = "no"
    BY <1>7 DEF RenameFunction, fileVars, requestVars, viewVars, InLoop
  <2> QED
    BY <1>7, <2>1, RenameSubmits, ShownGoesOn
<1>8. CASE PreferConstantName \/ OnSymbolsLoaded
  <2>1. /\ MakeAgain /\ UNCHANGED <<views, shown, pending, reqs, file, closing, inbox>> /\ closing = "no"
    BY <1>8 DEF PreferConstantName, OnSymbolsLoaded, fileVars, requestVars, viewVars, InLoop
  <2> QED
    BY <2>1, MakeAgainSubmits, ShownGoesOn
<1>9. CASE OnXrefsBuilt
  <2>1. /\ UNCHANGED <<views, shown, pending, reqs, file, closing, refresh, inbox>>
        /\ XrefsNames \/ (\E again \in BOOLEAN, s \in Sessions : Driver(again, s))
    BY <1>9, XrefsSteps DEF requestVars, viewVars
  <2>2. GrowsByOthers
    BY <2>1, MakeAgainSubmits, DriverSubmits DEF XrefsNames
  <2> QED
    BY <2>1, <2>2, ShownGoesOn
<1>10. CASE OnDriverAnalyzed
  <2>1. /\ UNCHANGED <<views, shown, pending, reqs, file, closing, refresh>>
        /\ inbox # <<>> /\ inbox' = Tail(inbox)
        /\ MakeAgain \/ UNCHANGED <<todo, now>>
    BY <1>10 DEF OnDriverAnalyzed, fileVars, requestVars, viewVars
  <2>2. GrowsByOthers
    BY <2>1, MakeAgainSubmits, NothingSubmitted DEF WorkInv
  <2> QED
    BY <2>1, <2>2, ShownGoesOn
<1>11. CASE OnDecompiled
  BY <1>11, DecompiledKeepsShown
<1>12. CASE OnDecompilerAsk \/ AskWindowGone
  <2>1. UNCHANGED <<todo, now, inbox, views, shown, pending, reqs, file, closing, refresh>>
    BY <1>12 DEF OnDecompilerAsk, AskWindowGone, fileVars, requestVars, viewVars
  <2> QED
    BY <2>1, QuietKeepsShown
<1>13. CASE ThreadStep
  BY <1>13, ThreadStepKeepsShown
<1>14. CASE Shutdown
  BY <1>14, ShutdownKeepsShown
<1>15. CASE Over \/ UNCHANGED vars
  <2>1. UNCHANGED <<todo, now, inbox, views, shown, pending, reqs, file, closing, refresh>>
    BY <1>15 DEF Over, vars
  <2> QED
    BY <2>1, QuietKeepsShown
<1> QED
  BY <1>1, <1>2, <1>3, <1>4, <1>5, <1>6, <1>7, <1>8, <1>9, <1>10, <1>11, <1>12, <1>13, <1>14, <1>15
     DEF Next, FrameStep

\* The ids are in order, and each view waits for what was last asked for it or shows it, in every
\* state (DecompileAsync, OnDecompiled, CancelDecompiles).
THEOREM ShownInvariance == Spec => [](WorkInv /\ ShownInv)
<1>1. Init => WorkInv /\ ShownInv
  BY InitWorkInv, InitShownInv
<1>2. (WorkInv /\ ShownInv) /\ [Next]_vars => (WorkInv /\ ShownInv)'
  BY NextWorkInv, NextShownInv
<1> QED
  BY <1>1, <1>2, PTL DEF Spec

\* With nothing pending for it, an open view shows what was last asked for it: for any number of views,
\* files and requests, whichever are withdrawn, and however the answers come.
THEOREM LatestIsShown == Spec => []SettledViewShowsLatest
<1>1. WorkInv /\ ShownInv => SettledViewShowsLatest
  BY RequestsAre DEF WorkInv, ShownInv, ViewsShowLatest, SettledViewShowsLatest, InLoop
<1> QED
  BY <1>1, ShownInvariance, PTL

\* What a view is given is of the open file, and newer than what it shows: OnDecompiled shows no answer
\* of a file that was closed, and none that a later one has overtaken.
THEOREM ViewsMoveOn == Spec => ViewMovesOn
<1> DEFINE MovesOn == \A v \in Views : shown'[v] # shown[v] /\ shown'[v] # Nothing
                                        => reqs[shown'[v].id].file = file /\ shown'[v].id > shown[v].id
<1>1. (WorkInv /\ ShownInv) /\ [Next]_vars => [MovesOn]_vars
  <2> SUFFICES ASSUME WorkInv, ShownInv, Next PROVE MovesOn
    OBVIOUS
  <2>1. CASE OnDecompiled
    BY <2>1, DecompiledKeepsShown
  <2>2. ASSUME NEW v \in Views, Redecompile(v) PROVE MovesOn
    <3>1. shown' = shown \/ shown' = [shown EXCEPT ![v] = Nothing]
      BY <2>2 DEF Redecompile
    <3>2. \A u \in Views : shown'[u] = shown[u] \/ shown'[u] = Nothing
      BY <3>1 DEF ShownInv, ShownTypes
    <3> QED
      BY <3>2
  <2>3. CASE ~OnDecompiled /\ ~\E v \in Views : Redecompile(v)
    <3>1. ThreadStep \/ Shutdown => UNCHANGED frameVars
      BY DEF ThreadStep, Shutdown, Take, SkipCancelled, Open, OpenFails, OpenAsksNames, ReadBegin,
         ReadEnd, Ask, Decompile, PostResult, ApplyRename, DropSession
    <3>2. UNCHANGED shown
      BY <2>3, <3>1 DEF Next, FrameStep, DecompileFunction, CloseTab, OnWindowCloseAll, RenameFunction,
         PreferConstantName, OnSymbolsLoaded, OnXrefsBuilt, CloseDecompilerBegin, CloseDecompilerEnd,
         OnDecompilerAsk, OnDriverAnalyzed, AskWindowGone, Over, vars, viewVars, frameVars
    <3> QED
      BY <3>2
  <2> QED
    BY <2>1, <2>2, <2>3
<1> QED
  BY <1>1, ShownInvariance, PTL DEF Spec, ViewMovesOn

-----------------------------------------------------------------------------
(* Who has a session *)

\* The queue grows, and the reference of the frame stays with it or is in the queue.
KeepsReferences ==
  /\ Grows /\ UNCHANGED now
  /\ \/ m_Decompiler' = m_Decompiler
     \/ m_Decompiler = 0
     \/ \E i \in 1..Len(todo') : todo'[i].s = m_Decompiler

LEMMA ReferencesStay ==
  ASSUME SessionTypes, KeepsReferences, NEW s \in Sessions, Referenced(s)
  PROVE  Referenced(s)'
<1>1. /\ Len(todo) \in Nat /\ Len(todo') \in Nat /\ Len(todo) <= Len(todo')
      /\ \A i \in 1..Len(todo) : todo'[i] = todo[i]
  BY DEF KeepsReferences, Grows, SessionTypes
<1>2. s # 0
  BY DEF Sessions
<1>3. CASE m_Decompiler = s
  BY <1>2, <1>3 DEF KeepsReferences, Referenced
<1>4. CASE now.s = s
  BY <1>4 DEF KeepsReferences, Referenced
<1>5. CASE \E i \in 1..Len(todo) : todo[i].s = s
  <2>1. PICK i \in 1..Len(todo) : todo[i].s = s
    BY <1>5
  <2>2. i \in 1..Len(todo') /\ todo'[i].s = s
    BY <1>1, <2>1
  <2> QED
    BY <2>2 DEF Referenced
<1> QED
  BY <1>3, <1>4, <1>5 DEF Referenced

LEMMA AsyncKeepsReferences ==
  ASSUME WorkInv, NEW v \in Views, DecompileAsync(v)
  PROVE  KeepsReferences
<1>1. PICK s \in Sessions : /\ Decompiler(m_Decompiler, s)
                            /\ SE!Submit([kind |-> "decompile", s |-> s, arg |-> Len(reqs) + 1])
  BY DEF DecompileAsync
<1> DEFINE w == [kind |-> "decompile", s |-> s, arg |-> Len(reqs) + 1]
<1>2. SessionTypes /\ w \in WorkItems
  BY RequestsAre DEF WorkInv, WorkItems, Kinds
<1>3. /\ todo' \in Seq(WorkItems) /\ Len(todo') = Len(todo) + 1 /\ UNCHANGED now
      /\ \A i \in 1..Len(todo) : todo'[i] = todo[i]
  BY <1>1, <1>2, Submitted
<1>4. m_Decompiler' = m_Decompiler \/ m_Decompiler = 0
  BY <1>1 DEF Decompiler
<1>5. Len(todo) \in Nat
  BY <1>2 DEF SessionTypes
<1> QED
  BY <1>3, <1>4, <1>5 DEF KeepsReferences, Grows

LEMMA LetGoKeepsReferences ==
  ASSUME WorkInv, m_Decompiler # 0, LetGo
  PROVE  KeepsReferences
<1> DEFINE w == [kind |-> "drop", s |-> m_Decompiler, arg |-> 0]
<1>1. w \in WorkItems /\ SessionTypes /\ w.s = m_Decompiler /\ SE!Submit(w)
  BY DropIsWork DEF WorkInv, LetGo
<1> HIDE DEF w
<1>2. /\ Len(todo') = Len(todo) + 1 /\ todo'[Len(todo) + 1] = w /\ Len(todo) \in Nat
  BY <1>1, Submitted DEF SessionTypes
<1>3. \E i \in 1..Len(todo') : todo'[i].s = m_Decompiler
  BY <1>1, <1>2
<1> QED
  BY <1>3, LetGoSubmits DEF KeepsReferences, GrowsByOthers

LEMMA MakeAgainKeepsReferences ==
  ASSUME WorkInv, MakeAgain
  PROVE  KeepsReferences
<1>1. CASE m_Decompiler = 0
  BY <1>1, MakeAgainSubmits DEF KeepsReferences, GrowsByOthers
<1>2. CASE m_Decompiler # 0
  BY <1>2, LetGoKeepsReferences DEF MakeAgain
<1> QED
  BY <1>1, <1>2

\* The session that is replaced and the one that replaces it are in the queue.
LEMMA DriverKeepsReferences ==
  ASSUME WorkInv, NEW again \in BOOLEAN, NEW s \in Sessions, Driver(again, s)
  PROVE  KeepsReferences
<1>1. Grows /\ UNCHANGED now
  BY DriverSubmits DEF GrowsByOthers
<1>2. CASE again /\ m_Decompiler # 0
  <2> DEFINE d == [kind |-> "drop", s |-> m_Decompiler, arg |-> 0]
             w == [kind |-> "driver", s |-> s, arg |-> driver.generation]
  <2>1. todo' = todo \o (<<d>> \o <<w>>)
    BY <1>2 DEF Driver, SE!SubmitAll
  <2>2. d.s = m_Decompiler
    OBVIOUS
  <2> HIDE DEF d, w
  <2>3. todo \in Seq(WorkItems) /\ Len(todo) \in Nat
    BY DEF WorkInv, SessionTypes
  <2>4. Len(todo') = Len(todo) + 2 /\ todo'[Len(todo) + 1] = d
    BY <2>1, <2>3
  <2>5. \E i \in 1..Len(todo') : todo'[i].s = m_Decompiler
    BY <2>2, <2>3, <2>4
  <2> QED
    BY <1>1, <2>5 DEF KeepsReferences
<1>3. CASE ~(again /\ m_Decompiler # 0)
  <2>1. m_Decompiler' = m_Decompiler \/ m_Decompiler = 0
    BY <1>3 DEF Driver, Decompiler
  <2> QED
    BY <1>1, <2>1 DEF KeepsReferences
<1> QED
  BY <1>2, <1>3

LEMMA StillKeepsReferences ==
  ASSUME WorkInv, UNCHANGED <<todo, now, m_Decompiler>>
  PROVE  KeepsReferences
  BY NothingSubmitted DEF KeepsReferences, GrowsByOthers, WorkInv

LEMMA FrameKeepsReferences ==
  ASSUME WorkInv, FrameStep \/ AskWindowGone
  PROVE  KeepsReferences
<1>1. ASSUME NEW v \in Views, DecompileFunction(v)
      PROVE  KeepsReferences
  BY <1>1, AsyncKeepsReferences DEF DecompileFunction
<1>2. ASSUME NEW v \in Views, Redecompile(v)
      PROVE  KeepsReferences
  BY <1>2, AsyncKeepsReferences, StillKeepsReferences DEF Redecompile
<1>3. ASSUME NEW v \in Views, CloseTab(v)
      PROVE  KeepsReferences
  BY <1>3, StillKeepsReferences DEF CloseTab, threadVars
<1>4. ASSUME NEW why \in CloseReasons, CloseDecompilerBegin(why)
      PROVE  KeepsReferences
  BY <1>4, StillKeepsReferences DEF CloseDecompilerBegin, threadVars
<1>5. CASE OnWindowCloseAll \/ OnDecompiled \/ OnDecompilerAsk \/ AskWindowGone
  <2>1. UNCHANGED <<todo, now, m_Decompiler>>
    BY <1>5 DEF OnWindowCloseAll, OnDecompiled, OnDecompilerAsk, AskWindowGone, threadVars
  <2> QED
    BY <2>1, StillKeepsReferences
<1>6. CASE RenameFunction
  BY <1>6, RenameSubmits DEF RenameFunction, KeepsReferences, GrowsByOthers
<1>7. CASE PreferConstantName \/ OnSymbolsLoaded \/ OnDriverAnalyzed
  BY <1>7, MakeAgainKeepsReferences, StillKeepsReferences DEF PreferConstantName, OnSymbolsLoaded, OnDriverAnalyzed
<1>8. CASE OnXrefsBuilt
  BY <1>8, XrefsSteps, MakeAgainKeepsReferences, DriverKeepsReferences DEF XrefsNames
<1>9. CASE CloseDecompilerEnd
  BY <1>9, LetGoKeepsReferences, StillKeepsReferences DEF CloseDecompilerEnd
<1> QED
  BY <1>1, <1>2, <1>3, <1>4, <1>5, <1>6, <1>7, <1>8, <1>9 DEF FrameStep

\* What is taken from the queue is in progress.
LEMMA ThreadKeepsReferences ==
  ASSUME WorkInv, ThreadStep, NEW s \in Sessions, Referenced(s), now.s # s
  PROVE  Referenced(s)'
<1>0. UNCHANGED m_Decompiler
  BY DEF ThreadStep, Take, SkipCancelled, Open, OpenFails, OpenAsksNames, ReadBegin,
     ReadEnd, Ask, Decompile, PostResult, ApplyRename, DropSession, frameVars
<1>1. CASE Take
  <2>1. /\ now' = Head(todo) /\ todo' = Tail(todo) /\ todo # <<>> /\ todo \in Seq(WorkItems)
    BY <1>1 DEF Take, SE!Start, WorkInv, SessionTypes
  <2>2. /\ now' = todo[1] /\ Len(todo') = Len(todo) - 1 /\ Len(todo) \in Nat
        /\ \A i \in 1..Len(todo') : todo'[i] = todo[i + 1]
    BY <2>1
  <2>3. ASSUME NEW i \in 1..Len(todo), todo[i].s = s
        PROVE  Referenced(s)'
    <3>1. CASE i = 1
      BY <2>2, <2>3, <3>1 DEF Referenced
    <3>2. CASE i # 1
      <4> DEFINE j == i - 1
      <4>1. j \in 1..Len(todo') /\ i = j + 1
        BY <2>2, <3>2
      <4> HIDE DEF j
      <4>2. todo'[j].s = s
        BY <2>2, <2>3, <4>1
      <4> QED
        BY <4>1, <4>2 DEF Referenced
    <3> QED
      BY <3>1, <3>2
  <2> QED
    BY <1>0, <2>3 DEF Referenced
<1>2. CASE ~Take
  <2>1. UNCHANGED todo
    BY <1>2 DEF ThreadStep, SkipCancelled, Open, OpenFails, OpenAsksNames, ReadBegin,
       ReadEnd, Ask, Decompile, PostResult, ApplyRename, DropSession, EndOfWork, SE!Finish
  <2> QED
    BY <1>0, <2>1 DEF Referenced
<1> QED
  BY <1>1, <1>2

\* The last reference to a session goes when the decompiler's thread ends a piece of work of it, or drops
\* the work left (DecompilerThread.h:10-12), whatever the frame opens, closes, replaces or renames.
THEOREM LastReferencesGoOnThread == Spec => LastReferenceGoesOnThread
<1> DEFINE OnThread == \A s \in Sessions : Referenced(s) /\ ~Referenced(s)' => now.s = s \/ ended' # ended
<1>1. (WorkInv /\ ShownInv) /\ [Next]_vars => [OnThread]_vars
  <2> SUFFICES ASSUME WorkInv, Next, NEW s \in Sessions, Referenced(s), ~Referenced(s)', now.s # s
               PROVE  ended' # ended
    OBVIOUS
  <2>1. ~FrameStep /\ ~AskWindowGone
    BY FrameKeepsReferences, ReferencesStay DEF WorkInv
  <2>2. ~ThreadStep
    BY ThreadKeepsReferences
  <2>3. ~Over
    BY DEF Over, vars, Referenced
  <2>4. ASSUME Shutdown PROVE ended' # ended
    <3>1. ~ended /\ ended' = TRUE
      BY <2>4 DEF Shutdown, SE!End
    <3> QED
      BY <3>1
  <2> QED
    BY <2>1, <2>2, <2>3, <2>4 DEF Next
<1> QED
  BY <1>1, ShownInvariance, PTL DEF Spec, LastReferenceGoesOnThread
=============================================================================
