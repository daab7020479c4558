--------------------------- MODULE Workers_Proofs ----------------------------
(***************************************************************************)
(* Theorems about work on other threads (the two parts of MCWorkers).      *)
(* RunOrdered: for any number of items and any finite set of workers.      *)
(***************************************************************************)
EXTENDS RunOrdered, FileScans, FiniteSetTheorems, SequenceTheorems, TLAPS

\* The types, with next and the items taken unbounded: the bound needs the count below.
Shape ==
  /\ out \in Seq(Nat)
  /\ g_Cancel \in BOOLEAN
  /\ verdict \in {"none", "complete", "cancelled"}
  /\ next \in Nat
  /\ slots \in [Items -> BOOLEAN]
  /\ worker \in [Threads -> WorkerPlaces]
  /\ item \in [Threads -> Nat]
  /\ caller \in CallerPlaces
  /\ i \in 0..Count

\* Where item k is: with the caller (or handed over), in its slot, or with a worker.
Finished(k) == k < i \/ (k = i /\ caller = "consume")

\* The items taken are those below next, and each is in one of those places.
TakenBelowNext ==
  /\ \A k \in Items : slots[k] \/ Finished(k) => k < next
  /\ \A t \in Threads : worker[t] = "work" => item[t] < next /\ item[t] \in Items
OnePlace ==
  /\ \A k \in Items : ~(slots[k] /\ Finished(k))
  /\ \A t \in Threads : worker[t] = "work" => ~slots[item[t]] /\ ~Finished(item[t])
  /\ \A t, u \in Threads : worker[t] = "work" /\ worker[u] = "work" /\ item[t] = item[u] => t = u
SomePlace ==
  \A k \in Items : k < next => slots[k] \/ Finished(k) \/ \E t \in Threads : Has(t, k)

\* A worker leaves when it was cancelled or no item is left.
LeavesFor == \A t \in Threads : worker[t] \in {"leave", "ended"} => g_Cancel \/ next >= Count

\* What the caller knows at each place.
CallerKnows ==
  /\ Len(out) = i
  /\ caller \in {"look", "sleep", "consume"} => i < Count
  /\ caller \in {"join", "returned"} => i = Count \/ g_Cancel
  /\ caller # "returned" => verdict = "none"
  /\ caller = "sleep" => /\ ~slots[i]
                         /\ g_Cancel => \E t \in Threads : worker[t] # "ended"

IInv == Shape /\ TakenBelowNext /\ OnePlace /\ SomePlace /\ LeavesFor /\ CallerKnows

-----------------------------------------------------------------------------
LEMMA InitEstablishes == Init => IInv
<1> SUFFICES ASSUME Init PROVE IInv
  OBVIOUS
<1> USE DEF Init, OutputInit, AfterItem, Items
<1>1. Shape
  <2>1. out \in Seq(Nat) /\ i \in 0..Count
    BY CountIsNat
  <2>2. worker \in [Threads -> WorkerPlaces] /\ caller \in CallerPlaces
    BY DEF WorkerPlaces, CallerPlaces
  <2>3. slots \in [Items -> BOOLEAN] /\ item \in [Threads -> Nat]
    OBVIOUS
  <2> QED
    BY <2>1, <2>2, <2>3 DEF Shape
<1>2. TakenBelowNext /\ OnePlace /\ SomePlace
  BY CountIsNat DEF TakenBelowNext, OnePlace, SomePlace, Finished, Has
<1>3. LeavesFor
  BY DEF LeavesFor
<1>4. CallerKnows
  BY CountIsNat DEF CallerKnows
<1> QED
  BY <1>1, <1>2, <1>3, <1>4 DEF IInv

\* A sleeping caller has a worker that did not end: else all left for want of items, and
\* the item waited for is in its slot.
LEMMA SomeoneNotifies == IInv => SleepsWhileNotified
<1> SUFFICES ASSUME IInv, caller = "sleep", \A t \in Threads : worker[t] = "ended" PROVE FALSE
  BY DEF IInv, CallerKnows, SleepsWhileNotified
<1>1. PICK t \in Threads : worker[t] = "ended"
  BY SomeThreads
<1>2. ~g_Cancel /\ ~slots[i] /\ i < Count /\ i \in Items
  BY CountIsNat DEF IInv, CallerKnows, Shape, Items
<1>3. i < next
  BY <1>1, <1>2, CountIsNat DEF IInv, LeavesFor, Shape, Items
<1>4. Finished(i) \/ \E u \in Threads : Has(u, i)
  BY <1>2, <1>3 DEF IInv, SomePlace
<1> QED
  BY <1>2, <1>4 DEF Finished, Has, Items

LEMMA TestCancelPreserves == ASSUME IInv, NEW t \in Threads, TestCancel(t) PROVE IInv'
<1> USE DEF IInv, TestCancel
<1>1. Shape'
  BY DEF Shape, WorkerPlaces
<1>2. TakenBelowNext' /\ OnePlace'
  BY DEF TakenBelowNext, OnePlace, Finished, Shape, Items
<1>3. SomePlace'
  BY DEF SomePlace, Finished, Has, Shape
<1>4. LeavesFor'
  BY DEF LeavesFor, Shape
<1>5. CallerKnows'
  BY DEF CallerKnows, Shape
<1> QED
  BY <1>1, <1>2, <1>3, <1>4, <1>5

LEMMA TakeItemPreserves == ASSUME IInv, NEW t \in Threads, TakeItem(t) PROVE IInv'
<1> USE DEF IInv, TakeItem, Claim, AfterTake
<1>1. Shape'
  BY DEF Shape, WorkerPlaces
<1>2. TakenBelowNext'
  BY CountIsNat DEF TakenBelowNext, Finished, Shape, Items
<1>3. OnePlace'
  BY CountIsNat DEF OnePlace, TakenBelowNext, Finished, Shape, Items
<1>4. SomePlace'
  BY CountIsNat DEF SomePlace, Finished, Has, Shape, Items
<1>5. LeavesFor'
  BY CountIsNat DEF LeavesFor, Shape
<1>6. CallerKnows'
  BY DEF CallerKnows, Shape
<1> QED
  BY <1>1, <1>2, <1>3, <1>4, <1>5, <1>6

LEMMA StoreResultPreserves == ASSUME IInv, NEW t \in Threads, StoreResult(t) PROVE IInv'
<1> USE DEF IInv, StoreResult, NotifyAll
<1>0. item[t] \in Items /\ ~slots[item[t]] /\ ~Finished(item[t])
  BY DEF TakenBelowNext, OnePlace
<1>1. Shape'
  BY <1>0 DEF Shape, WorkerPlaces, CallerPlaces
<1>2. TakenBelowNext'
  BY <1>0 DEF TakenBelowNext, Finished, Shape, Items
<1>3. OnePlace'
  BY <1>0 DEF OnePlace, TakenBelowNext, Finished, Shape, Items
<1>4. SomePlace'
  BY <1>0 DEF SomePlace, Finished, Has, Shape, Items
<1>5. LeavesFor'
  BY DEF LeavesFor, Shape
<1>6. CallerKnows'
  BY DEF CallerKnows, Shape
<1> QED
  BY <1>1, <1>2, <1>3, <1>4, <1>5, <1>6

LEMMA LeavePreserves == ASSUME IInv, NEW t \in Threads, Leave(t) PROVE IInv'
<1> USE DEF IInv, Leave, LastNotify, NotifyAll
<1>1. Shape'
  BY DEF Shape, WorkerPlaces, CallerPlaces
<1>2. TakenBelowNext' /\ OnePlace'
  BY DEF TakenBelowNext, OnePlace, Finished, Shape, Items
<1>3. SomePlace'
  BY DEF SomePlace, Finished, Has, Shape
<1>4. LeavesFor'
  BY DEF LeavesFor, Shape
<1>5. CallerKnows'
  BY DEF CallerKnows, Shape
<1> QED
  BY <1>1, <1>2, <1>3, <1>4, <1>5

LEMMA LookPreserves == ASSUME IInv, Look PROVE IInv'
<1> USE DEF IInv, Look, GiveUp
<1>0. i \in Items
  BY CountIsNat DEF CallerKnows, Shape, Items
<1>1. Shape'
  BY <1>0 DEF Shape, CallerPlaces
<1>2. TakenBelowNext'
  BY <1>0 DEF TakenBelowNext, Finished, Shape, Items
<1>3. OnePlace'
  <2>1. CASE slots[i]
    <3>1. /\ slots' = [slots EXCEPT ![i] = FALSE] /\ caller' = "consume"
          /\ UNCHANGED <<worker, item, i>>
      BY <2>1
    <3>2. \A k \in Items : Finished(k)' => Finished(k) \/ k = i
      BY <3>1 DEF Finished
    <3>3. \A t \in Threads : worker[t] = "work" => item[t] \in Items /\ item[t] # i
      BY <2>1 DEF OnePlace, TakenBelowNext
    <3>4. \A k \in Items : ~(slots[k] /\ Finished(k))'
      BY <3>1, <3>2, <1>0 DEF OnePlace, Shape
    <3>5. \A t \in Threads : worker[t] = "work" => ~(slots[item[t]])' /\ ~Finished(item[t])'
      BY <3>1, <3>3, <1>0 DEF OnePlace, Shape, Finished
    <3> QED
      BY <3>1, <3>4, <3>5 DEF OnePlace
  <2>2. CASE ~slots[i]
    BY <2>2 DEF OnePlace, Finished
  <2> QED
    BY <2>1, <2>2
<1>4. SomePlace'
  BY <1>0 DEF SomePlace, Finished, Has, Shape, Items
<1>5. LeavesFor'
  BY DEF LeavesFor
<1>6. CallerKnows'
  BY <1>0 DEF CallerKnows, Shape
<1> QED
  BY <1>1, <1>2, <1>3, <1>4, <1>5, <1>6

LEMMA ConsumePreserves == ASSUME IInv, Consume PROVE IInv'
<1> USE DEF IInv, Consume, AfterItem
<1>0. i \in Items /\ ~slots[i] /\ i < Count
  BY CountIsNat DEF CallerKnows, OnePlace, Finished, Shape, Items
<1>1. Shape'
  BY <1>0, CountIsNat DEF Shape, CallerPlaces
<1>2. TakenBelowNext'
  BY <1>0 DEF TakenBelowNext, Finished, Shape, Items
<1>3. OnePlace'
  BY <1>0 DEF OnePlace, TakenBelowNext, Finished, Shape, Items
<1>4. SomePlace'
  BY <1>0 DEF SomePlace, Finished, Has, Shape, Items
<1>5. LeavesFor'
  BY DEF LeavesFor
<1>6. CallerKnows'
  BY <1>0, CountIsNat DEF CallerKnows, Shape
<1> QED
  BY <1>1, <1>2, <1>3, <1>4, <1>5, <1>6

\* The other steps of the caller, and the console's handler.
LEMMA OthersPreserve ==
  ASSUME IInv, SpuriousWake \/ JoinAndReturn \/ CtrlHandler \/ UNCHANGED vars PROVE IInv'
<1> USE DEF IInv
<1>1. ASSUME SpuriousWake PROVE IInv'
  <2>1. Shape' /\ LeavesFor' /\ CallerKnows'
    BY <1>1 DEF SpuriousWake, Shape, CallerPlaces, LeavesFor, CallerKnows
  <2>2. TakenBelowNext' /\ OnePlace' /\ SomePlace'
    BY <1>1 DEF SpuriousWake, TakenBelowNext, OnePlace, SomePlace, Finished, Has
  <2> QED
    BY <2>1, <2>2
<1>2. ASSUME JoinAndReturn PROVE IInv'
  <2>1. Shape' /\ LeavesFor' /\ CallerKnows'
    BY <1>2 DEF JoinAndReturn, Verdict, Shape, CallerPlaces, LeavesFor, CallerKnows
  <2>2. TakenBelowNext' /\ OnePlace' /\ SomePlace'
    BY <1>2 DEF JoinAndReturn, TakenBelowNext, OnePlace, SomePlace, Finished, Has
  <2> QED
    BY <2>1, <2>2
<1>3. ASSUME CtrlHandler PROVE IInv'
  <2>1. SleepsWhileNotified
    BY SomeoneNotifies
  <2>2. Shape' /\ LeavesFor' /\ CallerKnows'
    BY <1>3, <2>1 DEF CtrlHandler, Shape, LeavesFor, CallerKnows, SleepsWhileNotified
  <2>3. TakenBelowNext' /\ OnePlace' /\ SomePlace'
    BY <1>3 DEF CtrlHandler, TakenBelowNext, OnePlace, SomePlace, Finished, Has
  <2> QED
    BY <2>2, <2>3
<1>4. ASSUME UNCHANGED vars PROVE IInv'
  BY <1>4 DEF vars, Shape, TakenBelowNext, OnePlace, SomePlace, LeavesFor, CallerKnows, Finished, Has
<1> QED
  BY <1>1, <1>2, <1>3, <1>4

LEMMA StepPreserves == IInv /\ [Next]_vars => IInv'
  BY TestCancelPreserves, TakeItemPreserves, StoreResultPreserves, LeavePreserves, LookPreserves,
     ConsumePreserves, OthersPreserve DEF Next, WorkerStep, CallerStep, Over

\* Spec => []IInv: the invariant the theorems below rest on.
THEOREM Invariance == Spec => []IInv
  BY InitEstablishes, StepPreserves, PTL DEF Spec

-----------------------------------------------------------------------------
\* No item is worked on twice, or by two threads (next++).
THEOREM TakenOnce == Spec => []ItemTakenOnce
<1>1. IInv => ItemTakenOnce
  BY CountIsNat DEF IInv, Shape, TakenBelowNext, OnePlace, Finished, ItemTakenOnce, Has, Items
<1> QED
  BY <1>1, Invariance, PTL

\* The caller never sleeps with nobody left to notify it, cancelled or not.
THEOREM NoLostWakeup == Spec => []SleepsWhileNotified
  BY SomeoneNotifies, Invariance, PTL

-----------------------------------------------------------------------------
(* The bound of next: past the end, each worker increments it once. *)
Left == {t \in Threads : worker[t] \in {"leave", "ended"}}
Bound == /\ next <= Count + Cardinality(Left)
         /\ \A t \in Threads : item[t] <= next

LEMMA LeftIsFinite == IsFiniteSet(Left) /\ Cardinality(Left) \in Nat
                      /\ Cardinality(Left) <= Cardinality(Threads) /\ Cardinality(Threads) \in Nat
<1>1. Left \subseteq Threads /\ IsFiniteSet(Threads)
  BY SomeThreads DEF Left
<1> QED
  BY <1>1, FS_Subset, FS_CardinalityType

LEMMA OneMoreLeft ==
  ASSUME NEW t \in Threads, t \notin Left, Left' = Left \cup {t}
  PROVE Cardinality(Left') = Cardinality(Left) + 1
  BY LeftIsFinite, FS_AddElement

LEMMA BoundPreserved == Shape /\ Shape' /\ Bound /\ [Next]_vars => Bound'
<1> SUFFICES ASSUME Shape, Shape', Bound, [Next]_vars PROVE Bound'
  OBVIOUS
<1>0. Cardinality(Left) \in Nat /\ Cardinality(Left') \in Nat
  <2>1. IsFiniteSet(Left')
    <3>1. Left' \subseteq Threads
      BY DEF Left
    <3> QED
      BY <3>1, SomeThreads, FS_Subset
  <2> QED
    BY <2>1, LeftIsFinite, FS_CardinalityType
<1>1. ASSUME NEW t \in Threads, TestCancel(t) \/ (TakeItem(t) /\ next >= Count) PROVE Bound'
  <2>1. t \notin Left
    BY <1>1 DEF TestCancel, TakeItem, Left
  <2>2. CASE worker'[t] = "leave"
    <3>1. Left' = Left \cup {t}
      BY <1>1, <2>2 DEF TestCancel, TakeItem, AfterTake, Left, Shape
    <3>2. Cardinality(Left') = Cardinality(Left) + 1
      BY <2>1, <3>1, OneMoreLeft
    <3>3. next' \in {next, next + 1} /\ next \in Nat
      BY <1>1 DEF TestCancel, TakeItem, Claim, Shape
    <3>4. next' <= Count + Cardinality(Left')
      BY <1>0, <3>2, <3>3, CountIsNat DEF Bound
    <3>5. \A u \in Threads : item[u] <= next /\ item[u] \in Nat
      BY DEF Bound, Shape
    <3>6. \A u \in Threads : item'[u] \in {item[u], next}
      BY <1>1 DEF TestCancel, TakeItem, Claim, Shape
    <3>7. \A u \in Threads : item'[u] <= next'
      BY <3>3, <3>5, <3>6
    <3> QED
      BY <3>4, <3>7 DEF Bound
  <2>3. CASE worker'[t] # "leave"
    <3>1. Left' = Left /\ UNCHANGED <<next, item>>
      BY <1>1, <2>3, CountIsNat DEF TestCancel, TakeItem, AfterTake, Left, Shape
    <3> QED
      BY <3>1 DEF Bound
  <2> QED
    BY <2>2, <2>3
<1>2. ASSUME NEW t \in Threads, TakeItem(t), next < Count PROVE Bound'
  <2>1. Left' = Left
    BY <1>2 DEF TakeItem, AfterTake, Left, Shape
  <2> QED
    BY <1>0, <1>2, <2>1, CountIsNat DEF Bound, TakeItem, Claim, Shape
<1>3. ASSUME NEW t \in Threads, StoreResult(t) \/ Leave(t) PROVE Bound'
  <2>1. Left' = Left /\ UNCHANGED <<next, item>>
    BY <1>3 DEF StoreResult, Leave, Left, Shape
  <2> QED
    BY <2>1 DEF Bound
<1>4. ASSUME CallerStep \/ SpuriousWake \/ CtrlHandler \/ UNCHANGED vars PROVE Bound'
  <2>1. UNCHANGED <<next, item, worker>>
    BY <1>4 DEF CallerStep, Look, Consume, JoinAndReturn, SpuriousWake, CtrlHandler, vars
  <2> QED
    BY <2>1 DEF Bound, Left
<1>5. ASSUME NEW t \in Threads, WorkerStep(t) PROVE Bound'
  <2>1. next < Count \/ next >= Count
    BY CountIsNat DEF Shape
  <2>2. CASE TestCancel(t)
    BY <1>1, <2>2
  <2>3. CASE TakeItem(t) /\ next >= Count
    BY <1>1, <2>3
  <2>4. CASE TakeItem(t) /\ next < Count
    BY <1>2, <2>4
  <2>5. CASE StoreResult(t) \/ Leave(t)
    BY <1>3, <2>5
  <2> QED
    BY <1>5, <2>1, <2>2, <2>3, <2>4, <2>5 DEF WorkerStep
<1> QED
  BY <1>4, <1>5 DEF Next, Over

\* Every variable keeps its type; next goes past the end by one for each worker, at most.
THEOREM TypeCorrect == Spec => []TypeOK
<1>1. Init => Bound
  <2> SUFFICES ASSUME Init PROVE Bound
    OBVIOUS
  <2> QED
    BY LeftIsFinite, CountIsNat DEF Init, Bound
<1>2. IInv /\ IInv' /\ Bound /\ [Next]_vars => Bound'
  BY BoundPreserved DEF IInv
<1>3. IInv /\ Bound => TypeOK
  <2> SUFFICES ASSUME IInv, Bound PROVE TypeOK
    OBVIOUS
  <2>1. next \in 0..(Count + Cardinality(Threads))
    BY LeftIsFinite, CountIsNat DEF IInv, Shape, Bound
  <2>2. item \in [Threads -> 0..(Count + Cardinality(Threads))]
    BY <2>1, LeftIsFinite, CountIsNat DEF IInv, Shape, Bound
  <2> QED
    BY <2>1, <2>2 DEF IInv, Shape, TypeOK
<1> QED
  BY <1>1, <1>2, <1>3, Invariance, PTL DEF Spec

-----------------------------------------------------------------------------
\* RunOrdered implements OrderedOutput: in order, one at a time, complete only with all.
THEOREM RefinesOrderedOutput == Spec => ImplementsOrderedOutput
<1>1. Init => OutputInit
  BY DEF Init
<1>2. IInv /\ [Next]_vars => [OutputNext]_<<out, g_Cancel, verdict>>
  <2> SUFFICES ASSUME IInv, [Next]_vars PROVE [OutputNext]_<<out, g_Cancel, verdict>>
    OBVIOUS
  <2>1. ASSUME NEW t \in Threads, WorkerStep(t) PROVE UNCHANGED <<out, g_Cancel, verdict>>
    BY <2>1 DEF WorkerStep, TestCancel, TakeItem, StoreResult, Leave
  <2>2. ASSUME Look \/ SpuriousWake \/ UNCHANGED vars PROVE UNCHANGED <<out, g_Cancel, verdict>>
    BY <2>2 DEF Look, SpuriousWake, vars
  <2>3. ASSUME Consume PROVE Deliver
    BY <2>3 DEF Consume, Deliver, IInv, CallerKnows
  <2>4. ASSUME JoinAndReturn PROVE Return
    BY <2>4 DEF JoinAndReturn, Return, Verdict, IInv, CallerKnows, Shape
  <2>5. ASSUME CtrlHandler PROVE CtrlC
    BY <2>5 DEF CtrlHandler, CtrlC
  <2> QED
    BY <2>1, <2>2, <2>3, <2>4, <2>5 DEF Next, CallerStep, Over, OutputNext
<1> QED
  BY <1>1, <1>2, Invariance, PTL DEF Spec, ImplementsOrderedOutput, OutputSpec

-----------------------------------------------------------------------------
(* FileScans: the scans of a window's file, for any number of files, scans  *)
(* and choices of rules.  A scan has a generation of its own and is         *)
(* cancelled as soon as the window goes on to another: what is of the      *)
(* window's generation was told by one thread, of the file opened last.     *)
Current == {s \in scans : s.gen = m_VtGeneration}

ScanGenerations ==
  /\ \A s \in scans : s.gen <= m_VtGeneration
  /\ \A s, u \in scans : s.gen = u.gen => s = u
  /\ \A s \in scans : s.cancel <=> s.gen # m_VtGeneration
  /\ \A s \in scans : s.gen = m_VtGeneration => s.gen = m_VtCancel
  /\ m_VtCancel \in {0, m_VtGeneration}
  /\ \A s \in scans : s.gen # 0

\* How a scan ends is the last that is told of it.
TellsOfScans ==
  /\ \A k \in DOMAIN statuses : statuses[k].gen <= m_VtGeneration
  /\ \A k, l \in DOMAIN statuses :
       k < l /\ statuses[k].gen = statuses[l].gen => IsRunning(statuses[k].Step)
  /\ \A k \in DOMAIN statuses, s \in scans : statuses[k].gen = s.gen => IsRunning(statuses[k].Step)

ShownIsTold ==
  m_PE # 0 =>
    /\ IsRunning(m_Vt.Step) <=> Current # {} \/ ToldEnd # {}
    /\ (\E k \in DOMAIN statuses : statuses[k].gen = m_VtGeneration) => IsRunning(m_Vt.Step)

ScansOfOpened ==
  /\ m_PE \in {0, opened}
  /\ m_Vt.of \in {0, opened}
  /\ \A s \in scans : s.gen = m_VtGeneration => s.of = opened
  /\ \A k \in DOMAIN statuses : statuses[k].gen = m_VtGeneration => statuses[k].of = opened

VtInv == ScanGenerations /\ TellsOfScans /\ ShownIsTold /\ ScansOfOpened

ScanType == [gen : Nat, of : 1..MaxOpens, Step : Phases \ {"Idle"}, at : {"tell", "post", "work"},
             cancel : BOOLEAN, polls : 0..MaxPolls]
StatusType == [gen : Nat, of : 1..MaxOpens, Step : Phases \ {"Idle"}]

VtTypeOK ==
  /\ m_PE \in 0..MaxOpens
  /\ opened \in 0..MaxOpens
  /\ m_Vt \in [Step : Phases, of : 0..MaxOpens]
  /\ m_VtGeneration \in Nat
  /\ m_VtCancel \in Nat
  /\ scans \subseteq ScanType
  /\ started \in 0..MaxScans
  /\ statuses \in Seq(StatusType)

LEMMA ScanBounds == MaxOpens \in Nat /\ MaxScans \in Nat /\ MaxChoices \in Nat /\ MaxPolls \in Nat
  BY ScanBoundsAreNat

-----------------------------------------------------------------------------
\* A message that is posted, and one that is taken
LEMMA Posted ==
  ASSUME NEW S, NEW q \in Seq(S), NEW m \in S
  PROVE /\ Append(q, m) \in Seq(S)
        /\ Len(q) \in Nat /\ DOMAIN q = 1..Len(q) /\ DOMAIN Append(q, m) = 1..(Len(q) + 1)
        /\ \A k \in 1..Len(q) : Append(q, m)[k] = q[k]
        /\ Append(q, m)[Len(q) + 1] = m
  BY AppendProperties, LenProperties

LEMMA Dispatched ==
  ASSUME NEW S, NEW q \in Seq(S), q # <<>>
  PROVE /\ Tail(q) \in Seq(S) /\ Head(q) \in S
        /\ Len(q) \in Nat /\ 1 \in DOMAIN q /\ Head(q) = q[1]
        /\ \A k \in DOMAIN Tail(q) : k \in Nat /\ k + 1 \in DOMAIN q /\ Tail(q)[k] = q[k + 1]
        /\ \A k \in DOMAIN q : k \in Nat /\ (k # 1 => k - 1 \in DOMAIN Tail(q))
<1>1. Len(q) \in Nat /\ DOMAIN q = 1..Len(q) /\ Len(q) # 0
  BY LenProperties, EmptySeq
<1>2. Tail(q) \in Seq(S) /\ Head(q) \in S /\ Len(Tail(q)) = Len(q) - 1
      /\ \A k \in 1..Len(Tail(q)) : Tail(q)[k] = q[k + 1]
  BY HeadTailProperties
<1>3. DOMAIN Tail(q) = 1..(Len(q) - 1)
  BY <1>1, <1>2, LenProperties
<1>4. Head(q) = q[1]
  BY <1>1
<1> QED
  BY <1>1, <1>2, <1>3, <1>4

-----------------------------------------------------------------------------
(* The flag of the scan that the window knows *)
Flagged(s) == [s EXCEPT !.cancel = @ \/ s.gen = m_VtCancel]

LEMMA FlaggedIsScan ==
  ASSUME NEW s \in ScanType
  PROVE /\ Flagged(s) \in ScanType
        /\ Flagged(s).gen = s.gen /\ Flagged(s).of = s.of
        /\ Flagged(s).cancel <=> s.cancel \/ s.gen = m_VtCancel
<1>1. CASE s.cancel \/ s.gen = m_VtCancel
  <2>1. Flagged(s) = [s EXCEPT !.cancel = TRUE]
    BY <1>1 DEF Flagged, ScanType
  <2> QED
    BY <1>1, <2>1 DEF ScanType
<1>2. CASE ~(s.cancel \/ s.gen = m_VtCancel)
  <2>1. Flagged(s) = [s EXCEPT !.cancel = FALSE]
    BY <1>2 DEF Flagged, ScanType
  <2> QED
    BY <1>2, <2>1 DEF ScanType
<1> QED
  BY <1>1, <1>2

\* Another generation begins: every scan is told to stop.
LEMMA AllAreTold ==
  ASSUME VtTypeOK, ScanGenerations
  PROVE /\ WithFlag \subseteq ScanType
        /\ \A s \in WithFlag : s.cancel /\ s.gen <= m_VtGeneration /\ s.gen # 0
        /\ \A s \in WithFlag : \E u \in scans : s.gen = u.gen
        /\ \A s, u \in WithFlag : s.gen = u.gen => s = u
<1>1. WithFlag = {Flagged(s) : s \in scans}
  BY DEF WithFlag, Flagged
<1>2. \A s \in scans : /\ Flagged(s) \in ScanType
                       /\ Flagged(s).gen = s.gen
                       /\ Flagged(s).cancel <=> s.cancel \/ s.gen = m_VtCancel
  BY FlaggedIsScan DEF VtTypeOK
<1> QED
  BY <1>1, <1>2 DEF ScanGenerations

\* CancelVirusTotal: nothing of the new generation was told yet
LEMMA CancelPreserves ==
  ASSUME VtTypeOK, VtInv, CancelVirusTotal, UNCHANGED <<statuses, started>>,
         opened' \in 0..MaxOpens, m_PE' \in {0, opened'}
  PROVE VtTypeOK' /\ VtInv'
<1>1. /\ scans' = WithFlag /\ m_VtCancel' = 0 /\ m_VtGeneration' = m_VtGeneration + 1
      /\ m_Vt' = NoStatus /\ m_VtGeneration \in Nat /\ m_VtGeneration' \in Nat
  BY DEF CancelVirusTotal, VtTypeOK
<1>2. VtTypeOK'
  <2>1. NoStatus \in [Step : Phases, of : 0..MaxOpens]
    BY ScanBounds DEF NoStatus, Phases
  <2>2. scans' \subseteq ScanType
    BY <1>1, AllAreTold DEF VtInv
  <2>3. m_PE' \in 0..MaxOpens
    BY ScanBounds
  <2> QED
    BY <1>1, <2>1, <2>2, <2>3 DEF VtTypeOK
<1>3. \A s \in scans' : s.cancel /\ s.gen < m_VtGeneration' /\ s.gen # 0 /\ s.gen \in Nat
  BY <1>1, AllAreTold DEF VtInv, ScanType
<1>4. DOMAIN statuses = 1..Len(statuses) /\ \A k \in DOMAIN statuses : statuses[k] \in StatusType
  BY LenProperties, ElementOfSeq DEF VtTypeOK
<1>5. \A k \in DOMAIN statuses : statuses[k].gen < m_VtGeneration' /\ statuses[k].gen \in Nat
  BY <1>1, <1>4 DEF VtInv, TellsOfScans, StatusType
<1>6. ScanGenerations'
  <2>1. \A s, u \in scans' : s.gen = u.gen => s = u
    BY <1>1, AllAreTold DEF VtInv
  <2> QED
    BY <1>1, <1>3, <2>1 DEF ScanGenerations
<1>7. TellsOfScans'
  <2>1. \A k \in DOMAIN statuses, s \in scans' : statuses[k].gen = s.gen => IsRunning(statuses[k].Step)
    BY <1>1, AllAreTold DEF VtInv, TellsOfScans
  <2> QED
    BY <1>1, <1>5, <2>1 DEF TellsOfScans, VtInv
<1>8. ShownIsTold'
  <2>1. ~IsRunning(NoStatus.Step)
    BY DEF IsRunning, NoStatus, RunningPhases
  <2>2. Current' = {} /\ ToldEnd' = {}
    BY <1>1, <1>3, <1>5 DEF Current, ToldEnd
  <2> QED
    BY <1>1, <1>5, <2>1, <2>2 DEF ShownIsTold
<1>9. ScansOfOpened'
  <2>1. m_Vt'.of = 0
    BY <1>1 DEF NoStatus
  <2> QED
    BY <1>1, <1>3, <1>5, <2>1 DEF ScansOfOpened
<1> QED
  BY <1>2, <1>6, <1>7, <1>8, <1>9 DEF VtInv

LEMMA OnVirusTotalPreserves == VtTypeOK /\ VtInv /\ OnVirusTotal => VtTypeOK' /\ VtInv'
<1> SUFFICES ASSUME VtTypeOK, VtInv, OnVirusTotal PROVE VtTypeOK' /\ VtInv'
  OBVIOUS
<1> DEFINE g == m_VtGeneration + 1
           new == NewScan(g)
<1>1. /\ scans' = WithFlag \cup {new} /\ m_VtCancel' = g /\ m_VtGeneration' = g
      /\ g \in Nat /\ m_VtGeneration \in Nat /\ g # 0
      /\ m_Vt' = [Step |-> "Hashing", of |-> m_PE]
      /\ UNCHANGED <<m_PE, opened, statuses>>
      /\ m_PE # 0
  BY DEF OnVirusTotal, VtTypeOK, openVars
<1>2. m_PE \in 1..MaxOpens /\ m_PE = opened
  BY <1>1, ScanBounds DEF VtTypeOK, VtInv, ScansOfOpened
<1>3. /\ new \in ScanType /\ new.gen = g /\ new.of = opened /\ ~new.cancel
  BY <1>1, <1>2, ScanBounds DEF NewScan, ScanType, Phases, RunningPhases
<1> HIDE DEF new
<1>4. \A s \in WithFlag : s \in ScanType /\ s.cancel /\ s.gen < g /\ s.gen # 0 /\ s.gen \in Nat
  BY <1>1, AllAreTold DEF VtInv, ScanType
<1>5. \A k \in DOMAIN statuses : statuses[k] \in StatusType
  BY LenProperties, ElementOfSeq DEF VtTypeOK
<1>6. \A k \in DOMAIN statuses : statuses[k].gen < g /\ statuses[k].gen \in Nat
  BY <1>1, <1>5 DEF VtInv, TellsOfScans, StatusType
<1>7. VtTypeOK'
  <2>1. m_Vt' \in [Step : Phases, of : 0..MaxOpens]
    BY <1>1 DEF Phases, RunningPhases, VtTypeOK
  <2>2. started' \in 0..MaxScans
    BY ScanBounds DEF OnVirusTotal, VtTypeOK
  <2>3. scans' \subseteq ScanType
    BY <1>1, <1>3, <1>4
  <2> QED
    BY <1>1, <2>1, <2>2, <2>3 DEF VtTypeOK
<1>8. ScanGenerations'
  <2>1. \A s, u \in scans' : s.gen = u.gen => s = u
    BY <1>1, <1>3, <1>4, AllAreTold DEF VtInv
  <2>2. \A s \in scans' : s.gen <= g /\ s.gen # 0 /\ (s.cancel <=> s.gen # g)
    BY <1>1, <1>3, <1>4
  <2> QED
    BY <1>1, <2>1, <2>2 DEF ScanGenerations
<1>9. TellsOfScans'
  <2>1. \A k \in DOMAIN statuses, s \in scans' : statuses[k].gen = s.gen => IsRunning(statuses[k].Step)
    BY <1>1, <1>3, <1>6, AllAreTold DEF VtInv, TellsOfScans
  <2> QED
    BY <1>1, <1>6, <2>1 DEF TellsOfScans, VtInv
<1>10. ShownIsTold'
  <2>1. IsRunning(m_Vt'.Step)
    BY <1>1 DEF IsRunning, RunningPhases
  <2>2. new \in Current'
    BY <1>1, <1>3 DEF Current
  <2> QED
    BY <2>1, <2>2 DEF ShownIsTold
<1>11. ScansOfOpened'
  <2>1. m_Vt'.of = opened
    BY <1>1, <1>2
  <2>2. \A s \in scans' : s.gen = g => s.of = opened
    BY <1>1, <1>3, <1>4
  <2> QED
    BY <1>1, <1>2, <1>6, <2>1, <2>2 DEF ScansOfOpened
<1> QED
  BY <1>7, <1>8, <1>9, <1>10, <1>11 DEF VtInv

\* The window is told how a scan goes on, or how it ended; of another one it takes nothing.
LEMMA OnVirusTotalStatusPreserves ==
  VtTypeOK /\ VtInv /\ OnVirusTotalStatus => VtTypeOK' /\ VtInv'
<1> SUFFICES ASSUME VtTypeOK, VtInv, OnVirusTotalStatus PROVE VtTypeOK' /\ VtInv'
  OBVIOUS
<1> DEFINE m == Head(statuses)
<1>1. /\ statuses # <<>> /\ statuses' = Tail(statuses)
      /\ UNCHANGED <<m_PE, opened, m_VtGeneration, scans, started>>
  BY DEF OnVirusTotalStatus, openVars
<1>2. /\ statuses' \in Seq(StatusType) /\ m \in StatusType
      /\ 1 \in DOMAIN statuses /\ m = statuses[1]
      /\ \A k \in DOMAIN statuses' : k \in Nat /\ k + 1 \in DOMAIN statuses /\ statuses'[k] = statuses[k + 1]
      /\ \A k \in DOMAIN statuses : k \in Nat /\ (k # 1 => k - 1 \in DOMAIN statuses')
  BY <1>1, Dispatched DEF VtTypeOK
<1> HIDE DEF m
<1>3. \A k \in DOMAIN statuses' : k # 0
  BY <1>2, LenProperties
<1>4. TellsOfScans'
  <2>1. \A k \in DOMAIN statuses' : statuses'[k].gen <= m_VtGeneration
    BY <1>2 DEF VtInv, TellsOfScans
  <2>2. \A k, l \in DOMAIN statuses' :
          k < l /\ statuses'[k].gen = statuses'[l].gen => IsRunning(statuses'[k].Step)
    <3>1. \A k, l \in DOMAIN statuses' : k < l => k + 1 < l + 1
      BY <1>2
    <3> QED
      BY <1>2, <3>1 DEF VtInv, TellsOfScans
  <2>3. \A k \in DOMAIN statuses', s \in scans : statuses'[k].gen = s.gen => IsRunning(statuses'[k].Step)
    BY <1>2 DEF VtInv, TellsOfScans
  <2> QED
    BY <1>1, <2>1, <2>2, <2>3 DEF TellsOfScans
<1>5. \A k \in DOMAIN statuses' : statuses'[k].gen = m.gen => IsRunning(m.Step)
  <2>1. \A k \in DOMAIN statuses' : 1 < k + 1
    BY <1>2, <1>3
  <2> QED
    BY <1>2, <2>1 DEF VtInv, TellsOfScans
<1>6. \A k \in DOMAIN statuses' : statuses'[k].gen = m_VtGeneration => statuses'[k].of = opened
  BY <1>2 DEF VtInv, ScansOfOpened
<1>7. CASE ~StatusTaken(m)
  <2>1. UNCHANGED <<m_Vt, m_VtCancel>>
    BY <1>7 DEF OnVirusTotalStatus, m
  <2>2. VtTypeOK'
    BY <1>1, <1>2, <2>1 DEF VtTypeOK
  <2>3. ScanGenerations'
    BY <1>1, <2>1 DEF VtInv, ScanGenerations
  <2>4. ShownIsTold'
    <3>1. SUFFICES ASSUME m_PE # 0 PROVE ShownIsTold'
      BY <1>1 DEF ShownIsTold
    <3>2. m.gen # m_VtGeneration
      BY <1>7, <3>1 DEF StatusTaken
    <3>3. Current' = Current
      BY <1>1 DEF Current
    <3>4. ToldEnd # {} <=> ToldEnd' # {}
      <4>1. ASSUME NEW k \in ToldEnd PROVE ToldEnd' # {}
        <5>1. k # 1 /\ k - 1 \in DOMAIN statuses' /\ statuses'[k - 1] = statuses[k]
          BY <1>2, <3>2 DEF ToldEnd
        <5> QED
          BY <1>1, <5>1 DEF ToldEnd
      <4>2. ASSUME NEW k \in ToldEnd' PROVE ToldEnd # {}
        BY <1>1, <1>2 DEF ToldEnd
      <4> QED
        BY <4>1, <4>2
    <3> QED
      BY <1>1, <1>2, <2>1, <3>1, <3>3, <3>4 DEF VtInv, ShownIsTold
  <2>5. ScansOfOpened'
    BY <1>1, <1>6, <2>1 DEF VtInv, ScansOfOpened
  <2> QED
    BY <1>4, <2>2, <2>3, <2>4, <2>5 DEF VtInv
<1>8. CASE StatusTaken(m)
  <2>1. /\ m_Vt' = [Step |-> m.Step, of |-> m.of]
        /\ m_VtCancel' = IF IsRunning(m.Step) THEN m_VtCancel ELSE 0
        /\ m.gen = m_VtGeneration /\ m_PE # 0
    BY <1>8 DEF OnVirusTotalStatus, StatusTaken, m
  <2>2. VtTypeOK'
    <3>1. m_Vt' \in [Step : Phases, of : 0..MaxOpens]
      BY <1>2, <2>1, ScanBounds DEF StatusType
    <3>2. m_VtCancel' \in Nat
      BY <2>1 DEF VtTypeOK
    <3> QED
      BY <1>1, <1>2, <3>1, <3>2 DEF VtTypeOK
  <2>3. ~IsRunning(m.Step) => Current = {}
    BY <1>2, <2>1 DEF VtInv, TellsOfScans, Current
  <2>4. ScanGenerations'
    <3>1. \A s \in scans' : s.gen = m_VtGeneration => s.gen = m_VtCancel'
      BY <1>1, <2>1, <2>3 DEF VtInv, ScanGenerations, Current
    <3>2. m_VtCancel' \in {0, m_VtGeneration}
      BY <2>1 DEF VtInv, ScanGenerations
    <3> QED
      BY <1>1, <3>1, <3>2 DEF VtInv, ScanGenerations
  <2>5. ShownIsTold'
    <3>1. CASE IsRunning(m.Step)
      <4>1. IsRunning(m_Vt'.Step) /\ IsRunning(m_Vt.Step)
        BY <1>2, <2>1, <3>1 DEF VtInv, ShownIsTold
      <4>2. Current' = Current
        BY <1>1 DEF Current
      <4>3. ASSUME NEW k \in ToldEnd PROVE ToldEnd' # {}
        <5>1. k # 1 /\ k - 1 \in DOMAIN statuses' /\ statuses'[k - 1] = statuses[k]
          BY <1>2, <3>1 DEF ToldEnd
        <5> QED
          BY <1>1, <5>1 DEF ToldEnd
      <4> QED
        BY <2>1, <4>1, <4>2, <4>3 DEF VtInv, ShownIsTold
    <3>2. CASE ~IsRunning(m.Step)
      <4>1. ~IsRunning(m_Vt'.Step)
        BY <2>1, <3>2
      <4>2. \A k \in DOMAIN statuses' : statuses'[k].gen # m_VtGeneration
        BY <1>5, <2>1, <3>2
      <4>3. Current' = {} /\ ToldEnd' = {}
        BY <1>1, <2>3, <3>2, <4>2 DEF Current, ToldEnd
      <4> QED
        BY <1>1, <4>1, <4>2, <4>3 DEF ShownIsTold
    <3> QED
      BY <3>1, <3>2
  <2>6. ScansOfOpened'
    <3>1. m_Vt'.of = opened
      BY <1>2, <2>1 DEF VtInv, ScansOfOpened
    <3> QED
      BY <1>1, <1>6, <3>1 DEF VtInv, ScansOfOpened
  <2> QED
    BY <1>4, <2>2, <2>4, <2>5, <2>6 DEF VtInv
<1> QED
  BY <1>7, <1>8

-----------------------------------------------------------------------------
(* The threads *)
threadKeeps == <<m_PE, opened, m_Vt, m_VtGeneration, m_VtCancel, started>>

\* A thread goes on
LEMMA GoesOnPreserves ==
  ASSUME VtTypeOK, VtInv, NEW s \in scans, NEW t \in ScanType,
         t.gen = s.gen, t.of = s.of, t.cancel <=> s.cancel,
         scans' = (scans \ {s}) \cup {t}, UNCHANGED <<threadKeeps, statuses>>
  PROVE VtTypeOK' /\ VtInv'
<1>1. UNCHANGED <<m_PE, opened, m_Vt, m_VtGeneration, m_VtCancel, started, statuses>>
  BY DEF threadKeeps
<1>2. VtTypeOK'
  BY <1>1 DEF VtTypeOK
<1>3. \A u \in scans' : \E w \in scans : u.gen = w.gen /\ u.of = w.of /\ (u.cancel <=> w.cancel)
  OBVIOUS
<1>4. ScanGenerations'
  <2>1. \A u, w \in scans' : u.gen = w.gen => u = w
    BY DEF VtInv, ScanGenerations
  <2> QED
    BY <1>1, <1>3, <2>1 DEF VtInv, ScanGenerations
<1>5. TellsOfScans'
  BY <1>1, <1>3 DEF VtInv, TellsOfScans
<1>6. ShownIsTold'
  <2>1. Current # {} <=> Current' # {}
    BY <1>1, <1>3 DEF Current
  <2>2. ToldEnd' = ToldEnd
    BY <1>1 DEF ToldEnd
  <2> QED
    BY <1>1, <2>1, <2>2 DEF VtInv, ShownIsTold
<1>7. ScansOfOpened'
  BY <1>1, <1>3 DEF VtInv, ScansOfOpened
<1> QED
  BY <1>2, <1>4, <1>5, <1>6, <1>7 DEF VtInv

\* A thread that was told to stop ends
LEMMA StopsPreserves ==
  ASSUME VtTypeOK, VtInv, NEW s \in scans, s.cancel,
         scans' = scans \ {s}, UNCHANGED <<threadKeeps, statuses>>
  PROVE VtTypeOK' /\ VtInv'
<1>1. UNCHANGED <<m_PE, opened, m_Vt, m_VtGeneration, m_VtCancel, started, statuses>>
  BY DEF threadKeeps
<1>2. VtTypeOK'
  BY <1>1 DEF VtTypeOK
<1>3. ScanGenerations' /\ TellsOfScans' /\ ScansOfOpened'
  BY <1>1 DEF VtInv, ScanGenerations, TellsOfScans, ScansOfOpened
<1>4. ShownIsTold'
  <2>1. s.gen # m_VtGeneration
    BY DEF VtInv, ScanGenerations
  <2>2. Current' = Current
    BY <1>1, <2>1 DEF Current
  <2>3. ToldEnd' = ToldEnd
    BY <1>1 DEF ToldEnd
  <2> QED
    BY <1>1, <2>2, <2>3 DEF VtInv, ShownIsTold
<1> QED
  BY <1>2, <1>3, <1>4 DEF VtInv

\* A thread tells how far it is; it ends, if there is no more to tell.
LEMMA PostPreserves ==
  ASSUME VtTypeOK, VtInv, NEW s \in scans, Post(s) PROVE VtTypeOK' /\ VtInv'
<1> DEFINE m == [gen |-> s.gen, of |-> s.of, Step |-> s.Step]
           last == Len(statuses) + 1
<1>1. /\ UNCHANGED <<m_PE, opened, m_Vt, m_VtGeneration, m_VtCancel, started>>
      /\ statuses' = Append(statuses, m)
  BY DEF Post, openVars
<1>2. s \in ScanType /\ m \in StatusType /\ m.gen = s.gen /\ m.of = s.of /\ m.Step = s.Step
  BY DEF VtTypeOK, ScanType, StatusType
<1> HIDE DEF m
<1>3. /\ statuses' \in Seq(StatusType) /\ Len(statuses) \in Nat
      /\ DOMAIN statuses = 1..Len(statuses) /\ DOMAIN statuses' = 1..last
      /\ \A k \in DOMAIN statuses : statuses'[k] = statuses[k]
      /\ statuses'[last] = m
  BY <1>1, <1>2, Posted DEF VtTypeOK
<1>4. /\ last \in DOMAIN statuses'
      /\ \A k \in DOMAIN statuses' : k = last \/ (k \in DOMAIN statuses /\ k < last)
      /\ \A k \in DOMAIN statuses : k \in DOMAIN statuses'
  BY <1>3
<1> HIDE DEF last
<1>5. CASE IsRunning(s.Step)
  <2> DEFINE t == [s EXCEPT !.at = "work"]
  <2>1. scans' = (scans \ {s}) \cup {t}
    BY <1>2, <1>5 DEF Post, Becomes, ScanType
  <2>2. t \in ScanType /\ t.gen = s.gen /\ t.of = s.of /\ t.cancel = s.cancel
    BY <1>2 DEF ScanType
  <2> HIDE DEF t
  <2>3. \A u \in scans' : \E w \in scans : u.gen = w.gen /\ u.of = w.of /\ u.cancel = w.cancel
    BY <2>1, <2>2
  <2>4. \A w \in scans : \E u \in scans' : u.gen = w.gen
    BY <2>1, <2>2
  <2>5. VtTypeOK'
    BY <1>1, <1>3, <2>1, <2>2 DEF VtTypeOK
  <2>6. ScanGenerations'
    <3>1. \A u, w \in scans' : u.gen = w.gen => u = w
      BY <2>1, <2>2 DEF VtInv, ScanGenerations
    <3> QED
      BY <1>1, <2>3, <3>1 DEF VtInv, ScanGenerations
  <2>7. TellsOfScans'
    <3>1. \A k \in DOMAIN statuses' : statuses'[k].gen <= m_VtGeneration
      BY <1>2, <1>3, <1>4 DEF VtInv, TellsOfScans, ScanGenerations
    <3>2. \A k, l \in DOMAIN statuses' :
            k < l /\ statuses'[k].gen = statuses'[l].gen => IsRunning(statuses'[k].Step)
      <4>1. ASSUME NEW k \in DOMAIN statuses', NEW l \in DOMAIN statuses',
                   k < l, statuses'[k].gen = statuses'[l].gen
            PROVE IsRunning(statuses'[k].Step)
        <5>1. CASE k = last
          BY <1>2, <1>3, <1>5, <5>1
        <5>2. CASE k # last /\ l = last
          BY <1>2, <1>3, <1>4, <4>1, <5>2 DEF VtInv, TellsOfScans
        <5>3. CASE k # last /\ l # last
          BY <1>3, <1>4, <4>1, <5>3 DEF VtInv, TellsOfScans
        <5> QED
          BY <5>1, <5>2, <5>3
      <4> QED
        BY <4>1
    <3>3. \A k \in DOMAIN statuses', u \in scans' : statuses'[k].gen = u.gen => IsRunning(statuses'[k].Step)
      BY <1>2, <1>3, <1>4, <1>5, <2>3 DEF VtInv, TellsOfScans
    <3> QED
      BY <1>1, <3>1, <3>2, <3>3 DEF TellsOfScans
  <2>8. ShownIsTold'
    <3>1. Current # {} <=> Current' # {}
      BY <1>1, <2>3, <2>4 DEF Current
    <3>2. ToldEnd # {} <=> ToldEnd' # {}
      BY <1>1, <1>2, <1>3, <1>4, <1>5 DEF ToldEnd
    <3>3. s.gen = m_VtGeneration => Current # {}
      BY DEF Current
    <3> QED
      BY <1>1, <1>2, <1>3, <1>4, <3>1, <3>2, <3>3 DEF VtInv, ShownIsTold
  <2>9. ScansOfOpened'
    BY <1>1, <1>2, <1>3, <1>4, <2>3 DEF VtInv, ScansOfOpened
  <2> QED
    BY <2>5, <2>6, <2>7, <2>8, <2>9 DEF VtInv
<1>6. CASE ~IsRunning(s.Step)
  <2>1. scans' = scans \ {s}
    BY <1>2, <1>6 DEF Post, Becomes, ScanType
  <2>2. \A u \in scans' : u.gen # s.gen
    BY <2>1 DEF VtInv, ScanGenerations
  <2>3. VtTypeOK'
    BY <1>1, <1>3, <2>1 DEF VtTypeOK
  <2>4. ScanGenerations'
    BY <1>1, <2>1 DEF VtInv, ScanGenerations
  <2>5. TellsOfScans'
    <3>1. \A k \in DOMAIN statuses' : statuses'[k].gen <= m_VtGeneration
      BY <1>2, <1>3, <1>4 DEF VtInv, TellsOfScans, ScanGenerations
    <3>2. \A k, l \in DOMAIN statuses' :
            k < l /\ statuses'[k].gen = statuses'[l].gen => IsRunning(statuses'[k].Step)
      <4>1. ASSUME NEW k \in DOMAIN statuses', NEW l \in DOMAIN statuses',
                   k < l, statuses'[k].gen = statuses'[l].gen
            PROVE IsRunning(statuses'[k].Step)
        <5>1. k # last
          BY <1>3, <1>4, <4>1
        <5>2. CASE l = last
          BY <1>2, <1>3, <1>4, <4>1, <5>1, <5>2 DEF VtInv, TellsOfScans
        <5>3. CASE l # last
          BY <1>3, <1>4, <4>1, <5>1, <5>3 DEF VtInv, TellsOfScans
        <5> QED
          BY <5>2, <5>3
      <4> QED
        BY <4>1
    <3>3. \A k \in DOMAIN statuses', u \in scans' : statuses'[k].gen = u.gen => IsRunning(statuses'[k].Step)
      BY <1>2, <1>3, <1>4, <2>1, <2>2 DEF VtInv, TellsOfScans
    <3> QED
      BY <1>1, <3>1, <3>2, <3>3 DEF TellsOfScans
  <2>6. ShownIsTold'
    <3>1. CASE s.gen = m_VtGeneration
      <4>1. last \in ToldEnd' /\ s \in Current
        BY <1>1, <1>2, <1>3, <1>4, <1>6, <3>1 DEF ToldEnd, Current
      <4> QED
        BY <1>1, <4>1 DEF VtInv, ShownIsTold
    <3>2. CASE s.gen # m_VtGeneration
      <4>1. Current' = Current
        BY <1>1, <2>1, <3>2 DEF Current
      <4>2. ToldEnd' = ToldEnd
        BY <1>1, <1>2, <1>3, <1>4, <3>2 DEF ToldEnd
      <4> QED
        BY <1>1, <1>2, <1>3, <1>4, <3>2, <4>1, <4>2 DEF VtInv, ShownIsTold
    <3> QED
      BY <3>1, <3>2
  <2>7. ScansOfOpened'
    BY <1>1, <1>2, <1>3, <1>4, <2>1 DEF VtInv, ScansOfOpened
  <2> QED
    BY <2>3, <2>4, <2>5, <2>6, <2>7 DEF VtInv
<1> QED
  BY <1>5, <1>6

LEMMA ScanStepPreserves ==
  ASSUME VtTypeOK, VtInv, NEW s \in scans, ScanStep(s) PROVE VtTypeOK' /\ VtInv'
<1>1. s \in ScanType
  BY DEF VtTypeOK
<1>2. CASE Post(s)
  BY <1>2, PostPreserves
<1>3. CASE Tell(s)
  <2>1. UNCHANGED <<threadKeeps, statuses>>
    BY <1>3 DEF Tell, threadKeeps, openVars
  <2>2. CASE s.cancel /\ ~IsRunning(s.Step)
    <3>1. scans' = scans \ {s}
      BY <1>1, <1>3, <2>2 DEF Tell, Becomes, ScanType
    <3> QED
      BY <2>1, <2>2, <3>1, StopsPreserves
  <2>3. CASE ~(s.cancel /\ ~IsRunning(s.Step))
    <3>1. PICK place \in {"post", "work"} : scans' = (scans \ {s}) \cup {[s EXCEPT !.at = place]}
      BY <1>1, <1>3, <2>3 DEF Tell, Becomes, ScanType
    <3>2. /\ [s EXCEPT !.at = place] \in ScanType
          /\ [s EXCEPT !.at = place].gen = s.gen /\ [s EXCEPT !.at = place].of = s.of
          /\ [s EXCEPT !.at = place].cancel = s.cancel
      BY <1>1 DEF ScanType
    <3> QED
      BY <2>1, <3>1, <3>2, GoesOnPreserves
  <2> QED
    BY <2>2, <2>3
<1>4. CASE Cancelled(s)
  <2>1. UNCHANGED <<threadKeeps, statuses>>
    BY <1>4 DEF Cancelled, threadKeeps, openVars
  <2>2. s.cancel /\ scans' = scans \ {s}
    BY <1>1, <1>4 DEF Cancelled, Becomes, ScanType
  <2> QED
    BY <2>1, <2>2, StopsPreserves
<1>5. CASE Work(s)
  <2>1. UNCHANGED <<threadKeeps, statuses>>
    BY <1>5 DEF Work, threadKeeps, openVars
  <2>2. PICK step \in After(s.Step) :
          Becomes(s, [s EXCEPT !.at = "tell", !.Step = step, !.polls = IF Polls(s.Step) THEN @ + 1 ELSE @])
    BY <1>5 DEF Work
  <2>3. step \in Phases \ {"Idle"}
    <3>1. After(s.Step) \subseteq {"Lookup", "Done", "Uploading", "Queued", "Analyzing", "Failed"}
      BY DEF After
    <3> QED
      BY <3>1 DEF Phases, RunningPhases
  <2>4. PICK n \in 0..MaxPolls :
          scans' = (scans \ {s}) \cup {[s EXCEPT !.at = "tell", !.Step = step, !.polls = n]}
    <3>1. s.polls \in 0..MaxPolls /\ (Polls(s.Step) => s.polls # MaxPolls)
      BY <1>1, <1>5 DEF Work, TimeIsUp, ScanType
    <3>2. (IF Polls(s.Step) THEN s.polls + 1 ELSE s.polls) \in 0..MaxPolls
      BY <3>1, ScanBounds
    <3> QED
      BY <1>1, <2>2, <3>2 DEF Becomes, ScanType
  <2> DEFINE t == [s EXCEPT !.at = "tell", !.Step = step, !.polls = n]
  <2>5. t \in ScanType /\ t.gen = s.gen /\ t.of = s.of /\ t.cancel = s.cancel
    BY <1>1, <2>3 DEF ScanType
  <2> HIDE DEF t
  <2>6. scans' = (scans \ {s}) \cup {t}
    BY <2>4 DEF t
  <2> QED
    BY <2>1, <2>5, <2>6, GoesOnPreserves
<1>6. CASE AskAgain(s)
  <2>1. UNCHANGED <<threadKeeps, statuses>>
    BY <1>6 DEF AskAgain, threadKeeps, openVars
  <2> DEFINE t == [s EXCEPT !.polls = s.polls + 1]
  <2>2. s.polls + 1 \in 0..MaxPolls
    BY <1>1, <1>6, ScanBounds DEF AskAgain, TimeIsUp, ScanType
  <2>3. t \in ScanType /\ t.gen = s.gen /\ t.of = s.of /\ t.cancel = s.cancel /\ t.at = "work"
    BY <1>1, <1>6, <2>2 DEF ScanType, AskAgain
  <2>4. Becomes(s, t)
    BY <1>6 DEF AskAgain
  <2> HIDE DEF t
  <2>5. scans' = (scans \ {s}) \cup {t}
    BY <2>3, <2>4 DEF Becomes
  <2> QED
    BY <2>1, <2>3, <2>5, GoesOnPreserves
<1>7. CASE TimeOut(s)
  <2>1. UNCHANGED <<threadKeeps, statuses>>
    BY <1>7 DEF TimeOut, threadKeeps, openVars
  <2> DEFINE t == [s EXCEPT !.at = "tell", !.Step = "Failed"]
  <2>2. t \in ScanType /\ t.gen = s.gen /\ t.of = s.of /\ t.cancel = s.cancel /\ t.at = "tell"
    BY <1>1 DEF ScanType, Phases
  <2>3. Becomes(s, t)
    BY <1>7 DEF TimeOut, GivesUp
  <2> HIDE DEF t
  <2>4. scans' = (scans \ {s}) \cup {t}
    BY <2>2, <2>3 DEF Becomes
  <2> QED
    BY <2>1, <2>2, <2>4, GoesOnPreserves
<1> QED
  BY <1>2, <1>3, <1>4, <1>5, <1>6, <1>7 DEF ScanStep

-----------------------------------------------------------------------------
(* The YARA rules: at most one thread, or what it posted, has the window's  *)
(* generation, and it was given the rules that the window has.             *)
MatcherType == [gen : Nat, path : Paths, rules : Rules, of : 0..MaxOpens]
FoundType == [gen : Nat, loaded : BOOLEAN, rules : Rules, of : 0..MaxOpens]

YaraTypeOK ==
  /\ YaraRules \in Rules
  /\ m_Yara \in Rules
  /\ m_YaraMatches \in [of : 0..MaxOpens, rules : Rules]
  /\ m_YaraGeneration \in Nat
  /\ matchers \subseteq MatcherType
  /\ found \subseteq FoundType
  /\ choices \in 0..MaxChoices
  /\ user \in {"scans", "rules"}

MatchGenerations ==
  /\ \A y \in matchers : y.gen <= m_YaraGeneration /\ (y.gen = m_YaraGeneration => y.rules = m_Yara)
  /\ \A m \in found : /\ m.gen <= m_YaraGeneration
                      /\ m.gen = m_YaraGeneration /\ ~m.loaded => m.rules = m_Yara
  /\ \A y \in matchers, m \in found : ~(y.gen = m_YaraGeneration /\ m.gen = m_YaraGeneration)
  /\ \A x, y \in matchers : x.gen = m_YaraGeneration /\ y.gen = m_YaraGeneration => x = y
  /\ \A x, y \in found : x.gen = m_YaraGeneration /\ y.gen = m_YaraGeneration => x = y

MatchesShown ==
  /\ \A y \in matchers \cup found : y.gen = m_YaraGeneration => m_YaraMatches.of = 0
  /\ m_YaraMatches.of \in {0, opened}
  /\ m_YaraMatches.of # 0 => m_YaraMatches.rules = m_Yara

YaraInv == MatchGenerations /\ MatchesShown

LEMMA NoMatchesYet == NoMatches \in [of : 0..MaxOpens, rules : Rules] /\ NoMatches.of = 0
  BY ScanBounds DEF NoMatches, Rules

\* A generation begins: with a thread that is given the rules the window has, or without one.
LEMMA GenerationPreserves ==
  ASSUME YaraTypeOK, YaraInv,
         m_YaraGeneration' = m_YaraGeneration + 1, m_YaraMatches' = NoMatches,
         NEW y \in MatcherType, y.gen = m_YaraGeneration + 1, y.rules = m_Yara',
         matchers' \in {matchers, matchers \cup {y}},
         YaraRules' \in Rules, m_Yara' \in Rules, choices' \in 0..MaxChoices,
         UNCHANGED <<found, user>>
  PROVE YaraTypeOK' /\ YaraInv'
<1>1. m_YaraGeneration \in Nat /\ m_YaraGeneration' \in Nat /\ NoMatches.of = 0
  BY NoMatchesYet DEF YaraTypeOK
<1>2. \A x \in matchers : x.gen < m_YaraGeneration' /\ x \in MatcherType
  BY <1>1 DEF YaraTypeOK, YaraInv, MatchGenerations, MatcherType
<1>3. \A x \in found : x.gen < m_YaraGeneration' /\ x \in FoundType
  BY <1>1 DEF YaraTypeOK, YaraInv, MatchGenerations, FoundType
<1>4. \A x \in matchers' : x \in MatcherType /\ (x = y \/ x.gen < m_YaraGeneration')
  BY <1>2
<1>5. YaraTypeOK'
  BY <1>1, <1>4, NoMatchesYet DEF YaraTypeOK
<1>6. MatchGenerations'
  <2>1. \A x \in matchers' : x.gen <= m_YaraGeneration' /\ (x.gen = m_YaraGeneration' => x = y)
    BY <1>1, <1>4 DEF MatcherType
  <2>2. \A x \in found' : x.gen <= m_YaraGeneration' /\ x.gen # m_YaraGeneration'
    BY <1>1, <1>3 DEF FoundType
  <2> QED
    BY <2>1, <2>2 DEF MatchGenerations
<1>7. MatchesShown'
  BY <1>1 DEF MatchesShown
<1> QED
  BY <1>5, <1>6, <1>7 DEF YaraInv

\* StartYara, with the rules that the window has, and the open file
LEMMA StartYaraPreserves ==
  ASSUME YaraTypeOK, YaraInv, NEW path \in Rules, NEW rules \in Rules, NEW f \in 0..MaxOpens,
         StartYara(path, rules, f), m_Yara' = rules,
         YaraRules' \in Rules, choices' \in 0..MaxChoices, UNCHANGED <<found, user>>
  PROVE YaraTypeOK' /\ YaraInv'
<1> DEFINE y == [gen |-> m_YaraGeneration + 1, path |-> path, rules |-> rules, of |-> f]
<1>1. m_YaraGeneration + 1 \in Nat
  BY DEF YaraTypeOK
<1>2. CASE path = None
  <2>1. m_YaraGeneration' = m_YaraGeneration + 1 /\ m_YaraMatches' = NoMatches /\ matchers' = matchers
    BY <1>2 DEF StartYara
  <2>2. YaraTypeOK'
    BY <1>1, <2>1, NoMatchesYet DEF YaraTypeOK
  <2>3. MatchGenerations'
    <3>1. \A x \in matchers : x.gen <= m_YaraGeneration /\ x.gen \in Nat
      BY DEF YaraTypeOK, YaraInv, MatchGenerations, MatcherType
    <3>2. \A x \in found : x.gen <= m_YaraGeneration /\ x.gen \in Nat
      BY DEF YaraTypeOK, YaraInv, MatchGenerations, FoundType
    <3>3. m_YaraGeneration \in Nat
      BY DEF YaraTypeOK
    <3>4. \A x \in matchers \cup found : x.gen <= m_YaraGeneration' /\ x.gen # m_YaraGeneration'
      BY <2>1, <3>1, <3>2, <3>3
    <3> QED
      BY <2>1, <3>4 DEF MatchGenerations
  <2>4. MatchesShown'
    BY <2>1, NoMatchesYet DEF MatchesShown
  <2> QED
    BY <2>2, <2>3, <2>4 DEF YaraInv
<1>3. CASE path # None
  <2>1. y \in MatcherType /\ y.gen = m_YaraGeneration + 1 /\ y.rules = rules
    BY <1>1, <1>3 DEF MatcherType, Rules
  <2>2. matchers' \in {matchers, matchers \cup {y}}
    BY DEF StartYara
  <2> HIDE DEF y
  <2> QED
    BY <2>1, <2>2, GenerationPreserves DEF StartYara
<1> QED
  BY <1>2, <1>3

LEMMA ResetYaraPreserves ==
  ASSUME YaraTypeOK, YaraInv, ResetYara, YaraRules' \in Rules, m_Yara' \in Rules,
         choices' \in 0..MaxChoices, UNCHANGED <<matchers, found, user>>
  PROVE YaraTypeOK' /\ YaraInv'
<1>1. m_YaraGeneration' = m_YaraGeneration + 1 /\ m_YaraMatches' = NoMatches /\ m_YaraGeneration \in Nat
  BY DEF ResetYara, YaraTypeOK
<1>2. YaraTypeOK'
  BY <1>1, NoMatchesYet DEF YaraTypeOK
<1>3. \A x \in matchers : x.gen <= m_YaraGeneration' /\ x.gen # m_YaraGeneration'
  BY <1>1 DEF YaraTypeOK, YaraInv, MatchGenerations, MatcherType
<1>4. \A x \in found : x.gen <= m_YaraGeneration' /\ x.gen # m_YaraGeneration'
  BY <1>1 DEF YaraTypeOK, YaraInv, MatchGenerations, FoundType
<1>5. MatchGenerations' /\ MatchesShown'
  BY <1>1, <1>3, <1>4, NoMatchesYet DEF MatchGenerations, MatchesShown
<1> QED
  BY <1>2, <1>5 DEF YaraInv

LEMMA MatcherEndsPreserves ==
  ASSUME YaraTypeOK, YaraInv, NEW y \in matchers, MatcherEnds(y) PROVE YaraTypeOK' /\ YaraInv'
<1>1. PICK rules \in (IF y.rules # None THEN {y.rules} ELSE {y.path, None}) :
        found' = found \cup {[gen |-> y.gen, loaded |-> y.rules = None, rules |-> rules,
                             of |-> IF rules = None THEN 0 ELSE y.of]}
  BY DEF MatcherEnds
<1> DEFINE m == [gen |-> y.gen, loaded |-> y.rules = None, rules |-> rules,
                 of |-> IF rules = None THEN 0 ELSE y.of]
<1>2. UNCHANGED <<opened, YaraRules, m_Yara, m_YaraMatches, m_YaraGeneration, choices, user>>
      /\ matchers' = matchers \ {y} /\ found' = found \cup {m}
  BY <1>1 DEF MatcherEnds, openVars
<1>3. y \in MatcherType
  BY DEF YaraTypeOK
<1>4. rules \in Rules
  BY <1>3 DEF MatcherType, Rules
<1>5. m.gen = y.gen /\ m.rules = rules /\ (m.loaded <=> y.rules = None)
  OBVIOUS
<1>6. m \in FoundType
  <2>1. (IF rules = None THEN 0 ELSE y.of) \in 0..MaxOpens
    BY <1>3, ScanBounds DEF MatcherType
  <2>2. (y.rules = None) \in BOOLEAN
    OBVIOUS
  <2>3. y.gen \in Nat
    BY <1>3 DEF MatcherType
  <2> QED
    BY <1>4, <2>1, <2>2, <2>3 DEF FoundType
<1> HIDE DEF m
<1>7. YaraTypeOK'
  BY <1>2, <1>6 DEF YaraTypeOK
<1>8. ~m.loaded => m.rules = y.rules
  BY <1>5
<1>9. MatchGenerations'
  BY <1>2, <1>5, <1>8 DEF YaraInv, MatchGenerations
<1>10. MatchesShown'
  BY <1>2, <1>5 DEF YaraInv, MatchesShown
<1> QED
  BY <1>7, <1>9, <1>10 DEF YaraInv

LEMMA OnYaraDonePreserves ==
  ASSUME YaraTypeOK, YaraInv, m_PE \in {0, opened}, NEW m \in found, OnYaraDone(m)
  PROVE YaraTypeOK' /\ YaraInv'
<1> DEFINE rules == IF m.loaded THEN m.rules ELSE m_Yara
<1>1. UNCHANGED <<opened, m_YaraGeneration, matchers, choices, user>> /\ found' = found \ {m}
  BY DEF OnYaraDone, openVars
<1>2. m \in FoundType
  BY DEF YaraTypeOK
<1>3. CASE ~MatchTaken(m)
  <2>1. UNCHANGED <<m_Yara, YaraRules, m_YaraMatches>>
    BY <1>3 DEF OnYaraDone
  <2>2. YaraTypeOK'
    BY <1>1, <2>1 DEF YaraTypeOK
  <2>3. MatchGenerations' /\ MatchesShown'
    BY <1>1, <2>1 DEF YaraInv, MatchGenerations, MatchesShown
  <2> QED
    BY <2>2, <2>3 DEF YaraInv
<1>4. CASE MatchTaken(m)
  <2>1. /\ m_Yara' = rules
        /\ YaraRules' = IF rules = None THEN None ELSE YaraRules
        /\ m_YaraMatches' = IF rules # None /\ m.of # 0 /\ m.of = m_PE
                            THEN [of |-> m.of, rules |-> m.rules] ELSE m_YaraMatches
    BY <1>4 DEF OnYaraDone
  <2>2. rules \in Rules
    BY <1>2 DEF YaraTypeOK, FoundType
  <2>3. m.gen = m_YaraGeneration /\ rules = m.rules
    BY <1>4 DEF MatchTaken, YaraInv, MatchGenerations
  <2>4. m_YaraMatches.of = 0
    BY <2>3 DEF YaraInv, MatchesShown
  <2> HIDE DEF rules
  <2>5. YaraTypeOK'
    <3>1. m_YaraMatches' \in [of : 0..MaxOpens, rules : Rules]
      BY <1>2, <2>1 DEF YaraTypeOK, FoundType
    <3>2. YaraRules' \in Rules
      BY <2>1, <2>2 DEF YaraTypeOK
    <3> QED
      BY <1>1, <2>1, <2>2, <3>1, <3>2 DEF YaraTypeOK
  <2>6. \A x \in matchers' \cup found' : x.gen # m_YaraGeneration
    BY <1>1, <2>3 DEF YaraInv, MatchGenerations
  <2>7. MatchGenerations'
    BY <1>1, <2>6 DEF YaraInv, MatchGenerations
  <2>8. MatchesShown'
    <3>1. CASE rules # None /\ m.of # 0 /\ m.of = m_PE
      <4>1. m_YaraMatches'.of = opened /\ m_YaraMatches'.rules = m_Yara'
        BY <2>1, <2>3, <3>1
      <4> QED
        BY <1>1, <2>6, <4>1 DEF MatchesShown
    <3>2. CASE ~(rules # None /\ m.of # 0 /\ m.of = m_PE)
      BY <1>1, <2>1, <2>4, <2>6, <3>2 DEF MatchesShown
    <3> QED
      BY <3>1, <3>2
  <2> QED
    BY <2>5, <2>7, <2>8 DEF YaraInv
<1> QED
  BY <1>3, <1>4

-----------------------------------------------------------------------------
ScansInv == VtTypeOK /\ VtInv /\ YaraTypeOK /\ YaraInv

LEMMA ScansInitEstablishes == ScansInit => ScansInv
<1> SUFFICES ASSUME ScansInit PROVE ScansInv
  OBVIOUS
<1> USE ScanBounds DEF ScansInit
<1>1. VtTypeOK
  <2>1. m_Vt \in [Step : Phases, of : 0..MaxOpens]
    BY DEF NoStatus, Phases
  <2>2. statuses \in Seq(StatusType)
    BY EmptySeq
  <2> QED
    BY <2>1, <2>2 DEF VtTypeOK
<1>2. VtInv
  <2>1. DOMAIN statuses = {}
    OBVIOUS
  <2>2. ~IsRunning(m_Vt.Step) /\ m_Vt.of = 0
    BY DEF IsRunning, NoStatus, RunningPhases
  <2> QED
    BY <2>1, <2>2 DEF VtInv, ScanGenerations, TellsOfScans, ShownIsTold, ScansOfOpened
<1>3. YaraTypeOK
  BY NoMatchesYet DEF YaraTypeOK, Rules
<1>4. YaraInv
  BY NoMatchesYet DEF YaraInv, MatchGenerations, MatchesShown
<1> QED
  BY <1>1, <1>2, <1>3, <1>4 DEF ScansInv

LEMMA ScansStepPreserves == ScansInv /\ [ScansNext]_scanVars => ScansInv'
<1> SUFFICES ASSUME ScansInv, [ScansNext]_scanVars PROVE ScansInv'
  OBVIOUS
<1> USE DEF ScansInv
<1>1. ASSUME OpenSucceeds PROVE ScansInv'
  <2>1. /\ opened' = opened + 1 /\ m_PE' = opened'
        /\ opened' \in 0..MaxOpens
        /\ UNCHANGED <<statuses, started>> /\ CancelVirusTotal
    BY <1>1, ScanBounds DEF OpenSucceeds, VtTypeOK
  <2>2. VtTypeOK' /\ VtInv'
    BY <2>1, CancelPreserves
  <2>3. /\ StartYara(YaraRules, m_Yara, opened') /\ UNCHANGED <<m_Yara, YaraRules, choices, found, user>>
        /\ YaraRules \in Rules /\ m_Yara \in Rules /\ choices \in 0..MaxChoices
    BY <1>1, <2>1 DEF OpenSucceeds, YaraTypeOK
  <2>4. YaraTypeOK' /\ YaraInv'
    BY <2>1, <2>3, StartYaraPreserves
  <2> QED
    BY <2>2, <2>4
<1>2. ASSUME OpenCannot PROVE ScansInv'
  <2>1. m_PE' = 0 /\ UNCHANGED <<opened, vtVars, yaraVars, user>>
    BY <1>2 DEF OpenCannot
  <2>2. VtTypeOK'
    BY <2>1, ScanBounds DEF VtTypeOK, vtVars
  <2>3. VtInv'
    BY <2>1 DEF VtInv, ScanGenerations, TellsOfScans, ShownIsTold, ScansOfOpened, vtVars
  <2>4. YaraTypeOK' /\ YaraInv'
    BY <2>1 DEF YaraTypeOK, YaraInv, MatchGenerations, MatchesShown, yaraVars
  <2> QED
    BY <2>2, <2>3, <2>4
<1>3. ASSUME Close PROVE ScansInv'
  <2>1. /\ m_PE' = 0 /\ opened' = opened /\ opened' \in 0..MaxOpens
        /\ UNCHANGED <<statuses, started>> /\ CancelVirusTotal
    BY <1>3 DEF Close, VtTypeOK
  <2>2. VtTypeOK' /\ VtInv'
    BY <2>1, CancelPreserves
  <2>3. YaraTypeOK' /\ YaraInv'
    BY <1>3, ResetYaraPreserves DEF Close, YaraTypeOK
  <2> QED
    BY <2>2, <2>3
\* the other steps of the scan leave the rules alone, and those of the rules the scan
<1>4. ASSUME VtTypeOK' /\ VtInv', UNCHANGED <<openVars, yaraVars, user>> PROVE ScansInv'
  <2>1. YaraTypeOK' /\ YaraInv'
    BY <1>4 DEF YaraTypeOK, YaraInv, MatchGenerations, MatchesShown, yaraVars, openVars
  <2> QED
    BY <1>4, <2>1
<1>5. ASSUME YaraTypeOK' /\ YaraInv', UNCHANGED <<openVars, vtVars>> PROVE ScansInv'
  <2>1. VtTypeOK' /\ ScanGenerations' /\ TellsOfScans' /\ ScansOfOpened'
    BY <1>5 DEF VtTypeOK, VtInv, ScanGenerations, TellsOfScans, ScansOfOpened, vtVars, openVars
  <2>2. ShownIsTold'
    BY <1>5 DEF VtInv, ShownIsTold, Current, ToldEnd, vtVars, openVars
  <2> QED
    BY <1>5, <2>1, <2>2 DEF VtInv
<1>6. ASSUME OnVirusTotal PROVE ScansInv'
  BY <1>4, <1>6, OnVirusTotalPreserves DEF OnVirusTotal
<1>7. ASSUME OnVirusTotalStatus PROVE ScansInv'
  BY <1>4, <1>7, OnVirusTotalStatusPreserves DEF OnVirusTotalStatus
<1>8. ASSUME ScanSteps PROVE ScansInv'
  <2>1. PICK s \in scans : ScanStep(s)
    BY <1>8 DEF ScanSteps
  <2>2. UNCHANGED <<openVars, yaraVars, user>>
    BY <2>1 DEF ScanStep, Tell, Post, Cancelled, Work, AskAgain, TimeOut
  <2> QED
    BY <1>4, <2>1, <2>2, ScanStepPreserves
<1>9. ASSUME NEW path \in Paths, ChooseRules(path) PROVE ScansInv'
  <2>1. /\ path \in Rules /\ None \in Rules /\ m_PE \in 0..MaxOpens /\ choices' \in 0..MaxChoices
    BY <1>9, ScanBounds DEF ChooseRules, Rules, VtTypeOK, YaraTypeOK
  <2>2. YaraTypeOK' /\ YaraInv'
    BY <1>9, <2>1, StartYaraPreserves DEF ChooseRules
  <2> QED
    BY <1>5, <1>9, <2>2 DEF ChooseRules
<1>10. ASSUME ClearRules PROVE ScansInv'
  <2>1. None \in Rules /\ choices' \in 0..MaxChoices
    BY <1>10, ScanBounds DEF ClearRules, Rules, YaraTypeOK
  <2>2. YaraTypeOK' /\ YaraInv'
    BY <1>10, <2>1, ResetYaraPreserves DEF ClearRules
  <2> QED
    BY <1>5, <1>10, <2>2 DEF ClearRules
<1>11. ASSUME OtherWindow PROVE ScansInv'
  <2>1. YaraTypeOK' /\ YaraInv'
    BY <1>11 DEF OtherWindow, YaraTypeOK, YaraInv, MatchGenerations, MatchesShown, openVars
  <2> QED
    BY <1>5, <1>11, <2>1 DEF OtherWindow
<1>12. ASSUME NEW y \in matchers, MatcherEnds(y) PROVE ScansInv'
  BY <1>5, <1>12, MatcherEndsPreserves DEF MatcherEnds
<1>13. ASSUME NEW m \in found, OnYaraDone(m) PROVE ScansInv'
  BY <1>5, <1>13, OnYaraDonePreserves DEF OnYaraDone, VtInv, ScansOfOpened
<1>14. ASSUME UNCHANGED scanVars PROVE ScansInv'
  <2>1. YaraTypeOK' /\ YaraInv'
    BY <1>14 DEF YaraTypeOK, YaraInv, MatchGenerations, MatchesShown, yaraVars, openVars, scanVars
  <2> QED
    BY <1>5, <1>14, <2>1 DEF scanVars
<1> QED
  BY <1>1, <1>2, <1>3, <1>6, <1>7, <1>8, <1>9, <1>10, <1>11, <1>12, <1>13, <1>14 DEF ScansNext, Waits

\* The invariant that the three theorems below rest on.
THEOREM ScansInvariance == ScansSpec => []ScansInv
  BY ScansInitEstablishes, ScansStepPreserves, PTL DEF ScansSpec

\* The types of what the frame keeps of the scans and the rules, and of all that is posted to it.
THEOREM ScansTypeCorrect == ScansSpec => []ScansTypeOK
<1>1. ScansInv => ScansTypeOK
  BY DEF ScansInv, VtTypeOK, YaraTypeOK, ScansTypeOK, ScanType, StatusType, MatcherType, FoundType
<1> QED
  BY <1>1, ScansInvariance, PTL

\* What is shown is of the file that is open: what is posted of another one has another generation,
\* and there is no moment at which the frame has the generation and not the file.
THEOREM ScansOfOpenFile == ScansSpec => []ScansAreOfOpenFile
<1>1. ScansInv => ScansAreOfOpenFile
  BY DEF ScansInv, VtInv, ScansOfOpened, YaraInv, MatchesShown, ScansAreOfOpenFile
<1> QED
  BY <1>1, ScansInvariance, PTL

\* A set that has one element at most
LEMMA OneAtMost ==
  ASSUME NEW S, \A x, y \in S : x = y
  PROVE Cardinality(S) = IF S = {} THEN 0 ELSE 1
<1>1. CASE S = {}
  BY <1>1, FS_EmptySet
<1>2. CASE S # {}
  <2>1. PICK x \in S : S = {x}
    BY <1>2
  <2> QED
    BY <1>2, <2>1, FS_Singleton
<1> QED
  BY <1>1, <1>2

\* While a scan is shown as running exactly one thread is going to tell how it ends, or has told it;
\* every other thread was cancelled.
THEOREM RunningIsTold == ScansSpec => []RunningScanIsTold
<1>1. ASSUME ScansInv, m_PE # 0
      PROVE Cardinality(Telling) + Cardinality(ToldEnd) = IF IsRunning(m_Vt.Step) THEN 1 ELSE 0
  <2>1. Telling = Current
    BY <1>1 DEF ScansInv, VtInv, ScanGenerations, Telling, Current
  <2>2. Cardinality(Current) = IF Current = {} THEN 0 ELSE 1
    <3>1. \A s, u \in Current : s = u
      BY <1>1 DEF ScansInv, VtInv, ScanGenerations, Current
    <3> QED
      BY <3>1, OneAtMost
  <2>3. Cardinality(ToldEnd) = IF ToldEnd = {} THEN 0 ELSE 1
    <3>1. DOMAIN statuses = 1..Len(statuses) /\ Len(statuses) \in Nat
      BY <1>1, LenProperties DEF ScansInv, VtTypeOK
    <3>2. \A k, l \in ToldEnd : ~(k < l)
      BY <1>1, <3>1 DEF ScansInv, VtInv, TellsOfScans, ToldEnd
    <3>3. \A k, l \in ToldEnd : k = l
      BY <3>1, <3>2 DEF ToldEnd
    <3> QED
      BY <3>3, OneAtMost
  <2>4. Current = {} \/ ToldEnd = {}
    BY <1>1 DEF ScansInv, VtInv, TellsOfScans, Current, ToldEnd
  <2>5. IsRunning(m_Vt.Step) <=> Current # {} \/ ToldEnd # {}
    BY <1>1 DEF ScansInv, VtInv, ShownIsTold
  <2> QED
    BY <2>1, <2>2, <2>3, <2>4, <2>5
<1>2. ScansInv => RunningScanIsTold
  BY <1>1 DEF RunningScanIsTold
<1> QED
  BY <1>2, ScansInvariance, PTL
=============================================================================
