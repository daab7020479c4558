----------------------------- MODULE RunOrdered ------------------------------
(***************************************************************************)
(* RunOrdered (TotalPE.Cli/main.cpp): worker threads do the items, and the *)
(* calling thread hands the results over in the order of the items.  One   *)
(* mutex and one condition variable; the console's handler thread sets     *)
(* g_Cancel without either.  A critical section is one step, and so is the *)
(* predicate's evaluation with the sleep that follows (the lock is held).  *)
(***************************************************************************)
EXTENDS OrderedOutput, FiniteSets

CONSTANT Threads    \* the worker threads

ASSUME SomeThreads == Threads # {} /\ IsFiniteSet(Threads)

VARIABLES
  next,     \* the item taken next
  slots,    \* whether each item's result is there
  worker,   \* where each worker is in its loop
  item,     \* the item it has taken
  caller,   \* where the calling thread is
  i         \* the item it waits for

vars == <<out, g_Cancel, verdict, next, slots, worker, item, caller, i>>

Items == 0..(Count - 1)
WorkerPlaces == {"test", "take", "work", "leave", "ended"}
CallerPlaces == {"look", "sleep", "consume", "join", "returned"}

TypeOK ==
  /\ out \in Seq(Nat)
  /\ g_Cancel \in BOOLEAN
  /\ verdict \in {"none", "complete", "cancelled"}
  /\ next \in 0..(Count + Cardinality(Threads))   \* (one past the end for each worker, at most)
  /\ slots \in [Items -> BOOLEAN]
  /\ worker \in [Threads -> WorkerPlaces]
  /\ item \in [Threads -> 0..(Count + Cardinality(Threads))]
  /\ caller \in CallerPlaces
  /\ i \in 0..Count

AfterItem(k) == IF k < Count THEN "look" ELSE "join"

Init ==
  /\ OutputInit
  /\ next = 0
  /\ slots = [k \in Items |-> FALSE]
  /\ worker = [t \in Threads |-> "test"]
  /\ item = [t \in Threads |-> 0]
  /\ i = 0
  /\ caller = AfterItem(0)

-----------------------------------------------------------------------------
(* A worker: for (size_t i; !g_Cancel && (i = next++) < count; ) ... *)

\* the loop's condition, up to the &&
TestCancel(t) ==
  /\ worker[t] = "test"
  /\ worker' = [worker EXCEPT ![t] = IF g_Cancel THEN "leave" ELSE "take"]
  /\ UNCHANGED <<out, g_Cancel, verdict, next, slots, item, caller, i>>

\* next++ (atomic), and the comparison
Claim_NotAtomic(t) == item' = [item EXCEPT ![t] = next] /\ next' \in {next, next + 1}  \* (mutant)
Claim(t) == item' = [item EXCEPT ![t] = next] /\ next' = next + 1

AfterTake_Again(k) == IF k < Count THEN "work" ELSE "test"   \* (mutant: the loop does not end)
AfterTake(k) == IF k < Count THEN "work" ELSE "leave"

TakeItem(t) ==
  /\ worker[t] = "take"
  /\ Claim(t)
  /\ worker' = [worker EXCEPT ![t] = AfterTake(next)]
  /\ UNCHANGED <<out, g_Cancel, verdict, slots, caller, i>>

\* notify_all: the caller, if it sleeps, looks again
NotifyAll == caller' = IF caller = "sleep" THEN "look" ELSE caller

\* the work, and the result stored under the lock
StoreResult(t) ==
  /\ worker[t] = "work"
  /\ slots' = [slots EXCEPT ![item[t]] = TRUE]
  /\ worker' = [worker EXCEPT ![t] = "test"]
  /\ NotifyAll
  /\ UNCHANGED <<out, g_Cancel, verdict, next, item, i>>

\* "when cancelled, the item waited for may never be done": the last notification
LastNotify_None == UNCHANGED caller                     \* (mutant)
LastNotify == NotifyAll

Leave(t) ==
  /\ worker[t] = "leave"
  /\ worker' = [worker EXCEPT ![t] = "ended"]
  /\ LastNotify
  /\ UNCHANGED <<out, g_Cancel, verdict, next, slots, item, i>>

-----------------------------------------------------------------------------
(* The calling thread *)

\* ready.wait's predicate, and "if (!slots[i]) break"
GiveUp_Never == FALSE                                   \* (mutant: the wait is for the result only)
GiveUp == g_Cancel

Look ==
  /\ caller = "look"
  /\ IF slots[i]
     THEN caller' = "consume" /\ slots' = [slots EXCEPT ![i] = FALSE]
     ELSE caller' = (IF GiveUp THEN "join" ELSE "sleep") /\ UNCHANGED slots
  /\ UNCHANGED <<out, g_Cancel, verdict, next, worker, item, i>>

SpuriousWake ==
  /\ caller = "sleep"
  /\ caller' = "look"
  /\ UNCHANGED <<out, g_Cancel, verdict, next, slots, worker, item, i>>

\* consume(i, result), outside the lock, and the next item
Consume ==
  /\ caller = "consume"
  /\ out' = Append(out, i)
  /\ i' = i + 1
  /\ caller' = AfterItem(i + 1)
  /\ UNCHANGED <<g_Cancel, verdict, next, slots, worker, item>>

\* workers.clear(): every thread is joined; then return !g_Cancel
Joined == \A t \in Threads : worker[t] = "ended"
Verdict_Done == "complete"                              \* (mutant: what was left out is not told)
Verdict == IF g_Cancel THEN "cancelled" ELSE "complete"

JoinAndReturn ==
  /\ caller = "join"
  /\ Joined
  /\ caller' = "returned"
  /\ verdict' = Verdict
  /\ UNCHANGED <<out, g_Cancel, next, slots, worker, item, i>>

-----------------------------------------------------------------------------
\* The console's handler, on a thread of its own
CtrlHandler ==
  /\ ~g_Cancel
  /\ g_Cancel' = TRUE
  /\ UNCHANGED <<out, verdict, next, slots, worker, item, caller, i>>

Over == caller = "returned" /\ UNCHANGED vars

WorkerStep(t) == TestCancel(t) \/ TakeItem(t) \/ StoreResult(t) \/ Leave(t)
CallerStep == Look \/ Consume \/ JoinAndReturn

Next == \/ \E t \in Threads : WorkerStep(t)
        \/ CallerStep \/ SpuriousWake \/ CtrlHandler \/ Over

Spec == Init /\ [][Next]_vars
\* Every thread runs; an item's work ends.
Fairness == WF_vars(CallerStep) /\ \A t \in Threads : WF_vars(WorkerStep(t))
FairSpec == Spec /\ Fairness

-----------------------------------------------------------------------------
(* Properties *)

\* An item is worked on by one thread at a time, and not again once its result is there or
\* was handed over: next++ gives each item to one worker.
Has(t, k) == worker[t] = "work" /\ item[t] = k
ItemTakenOnce ==
  \A t \in Threads, k \in Items :
    Has(t, k) => /\ ~slots[k] /\ i <= k
                 /\ (i = k => caller # "consume")
                 /\ \A u \in Threads : Has(u, k) => u = t

\* The caller sleeps only while a worker will still notify it, whenever g_Cancel is set
\* (between the predicate and the sleep, too: the handler takes no lock and notifies nobody).
SleepsWhileNotified == caller = "sleep" => ~slots[i] /\ \E t \in Threads : worker[t] # "ended"

\* The results are handed over in the items' order, and a run is reported complete only if all were.
ImplementsOrderedOutput == OutputSpec

\* The call returns, cancelled or not.
Returns == <>(caller = "returned")
=============================================================================
