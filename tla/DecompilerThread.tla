-------------------------- MODULE DecompilerThread --------------------------
(***************************************************************************)
(* TotalPE/DecompilerThread.cpp: a queue under a mutex, one condition      *)
(* variable (m_Ready) on which both the worker waits for work and Shutdown *)
(* waits for the worker's end, and a bounded wait at the end of the        *)
(* process.  Every critical section of m_Lock is one step; a notification  *)
(* that is sent after the lock is released is a step of its own.  The      *)
(* frame's thread is the only one that posts and shuts down.               *)
(***************************************************************************)
EXTENDS Naturals, Sequences

CONSTANTS Work,       \* the pieces of work that can be posted
          NoWork,     \* the worker runs nothing
          MaxPosts    \* bound: the work posted in a behaviour

ASSUME IdleIsNoWork == NoWork \notin Work
ASSUME MaxPostsIsNat == MaxPosts \in Nat

VARIABLES
  m_Queue,      \* posted and not taken
  m_Stop,
  m_Done,       \* the thread ended
  work,         \* the piece the worker runs, or NoWork
  worker,       \* where the worker is in Run
  caller,       \* where the frame's thread is in Post or Shutdown
  posts         \* the number of posts so far (bounds the model)

threadVars == <<m_Queue, m_Stop, m_Done, work, worker, caller, posts>>

\* "none": s_Thread is null.  "check": about to take the lock and test the
\* wait's predicate.  "asleep": in m_Ready's wait set.  "end": out of the loop.
WorkerPlaces == {"none", "check", "asleep", "run", "end", "exited"}

\* "notify": between the unlock and the notify_one of Post.  "waiting": in
\* m_Ready's wait set, in Shutdown.  "woken": about to test Shutdown's predicate.
FramePlaces == {"free", "notify", "waiting", "woken", "joining", "joined", "detached"}

ThreadTypeOK == /\ m_Queue \in Seq(Work)
                /\ m_Stop \in BOOLEAN
                /\ m_Done \in BOOLEAN
                /\ work \in Work \cup {NoWork}
                /\ worker \in WorkerPlaces
                /\ caller \in FramePlaces
                /\ posts \in 0..MaxPosts

ThreadInit == /\ m_Queue = <<>>
              /\ m_Stop = FALSE
              /\ m_Done = FALSE
              /\ work = NoWork
              /\ worker = "none"
              /\ caller = "free"
              /\ posts = 0

-----------------------------------------------------------------------------
\* A notification of m_Ready: a worker in the wait set goes on to test its predicate.
WakeWorker_Nobody == UNCHANGED worker            \* (mutant: nobody is notified)
WakeWorker == worker' = IF worker = "asleep" THEN "check" ELSE worker

\* (mutant: the work is put before the work that waits)
Enqueue_First(w) == m_Queue' = <<w>> \o m_Queue
Enqueue(w) == m_Queue' = Append(m_Queue, w)

\* Get().Post(w): the thread is made on first use; the queue grows under the lock.
Post(w) ==
  /\ caller = "free"
  /\ posts < MaxPosts
  /\ posts' = posts + 1
  /\ Enqueue(w)
  /\ worker' = IF worker = "none" THEN "check" ELSE worker
  /\ caller' = "notify"
  /\ UNCHANGED <<m_Stop, m_Done, work>>

\* ... and, after the unlock, notify_one (only the worker can be in the wait set).
Notify ==
  /\ caller = "notify"
  /\ WakeWorker
  /\ caller' = "free"
  /\ UNCHANGED <<m_Queue, m_Stop, m_Done, work, posts>>

\* Shutdown: m_Stop and notify_all under the lock, and on into wait_for.
ShutdownStart ==
  /\ caller = "free"
  /\ IF worker = "none"
     THEN caller' = "joined" /\ UNCHANGED <<m_Stop, worker>>
     ELSE /\ m_Stop' = TRUE
          /\ WakeWorker
          /\ caller' = IF m_Done THEN "joining" ELSE "waiting"
  /\ UNCHANGED <<m_Queue, m_Done, work, posts>>

\* wait_for returns because it was notified, and Done is set.
ShutdownWoken ==
  /\ caller = "woken"
  /\ caller' = IF m_Done THEN "joining" ELSE "waiting"
  /\ UNCHANGED <<m_Queue, m_Stop, m_Done, work, worker, posts>>

\* wait_for times out: the thread is left running.
TimedOut_Forever == FALSE                         \* (mutant: the wait has no timeout)
TimedOut == caller' = IF m_Done THEN "joining" ELSE "detached"

ShutdownTimeout ==
  /\ caller = "waiting"
  /\ TimedOut
  /\ UNCHANGED <<m_Queue, m_Stop, m_Done, work, worker, posts>>

ShutdownJoin ==
  /\ caller = "joining"
  /\ worker = "exited"
  /\ caller' = "joined"
  /\ UNCHANGED <<m_Queue, m_Stop, m_Done, work, worker, posts>>

-----------------------------------------------------------------------------
\* Run, under the lock: the wait's predicate, then stop, take, or sleep.
TakeFront_All == work' = m_Queue /\ m_Queue' = <<>>   \* (mutant: the whole queue is moved)
TakeFront == work' = Head(m_Queue) /\ m_Queue' = Tail(m_Queue)

SeesStop == m_Stop

Check ==
  /\ worker = "check"
  /\ \/ /\ SeesStop                   \* the work left is moved out, and goes on this thread
        /\ m_Queue' = <<>>
        /\ worker' = "end"
        /\ UNCHANGED work
     \/ /\ ~SeesStop /\ m_Queue # <<>>
        /\ TakeFront
        /\ worker' = "run"
     \/ /\ ~SeesStop /\ m_Queue = <<>>
        /\ worker' = "asleep"
        /\ UNCHANGED <<m_Queue, work>>
  /\ UNCHANGED <<m_Stop, m_Done, caller, posts>>

\* A condition variable may wake without a notification.
SpuriousWake ==
  /\ worker = "asleep"
  /\ worker' = "check"
  /\ UNCHANGED <<m_Queue, m_Stop, m_Done, work, caller, posts>>

\* work() returns.
RunDone ==
  /\ worker = "run"
  /\ work' = NoWork
  /\ worker' = "check"
  /\ UNCHANGED <<m_Queue, m_Stop, m_Done, caller, posts>>

\* m_Done and notify_all, under the lock; the thread's function returns.
MarkDone ==
  /\ worker = "end"
  /\ m_Done' = TRUE
  /\ worker' = "exited"
  /\ caller' = IF caller = "waiting" THEN "woken" ELSE caller
  /\ UNCHANGED <<m_Queue, m_Stop, work, posts>>

-----------------------------------------------------------------------------
Over == caller \in {"joined", "detached"} /\ worker \in {"none", "exited"} /\ UNCHANGED threadVars

ThreadNext == \/ \E w \in Work : Post(w)
              \/ Notify
              \/ ShutdownStart \/ ShutdownWoken \/ ShutdownTimeout \/ ShutdownJoin
              \/ Check \/ SpuriousWake \/ RunDone \/ MarkDone
              \/ Over

\* A thread that can run does, and the wait of Shutdown is bounded by its timeout.  A
\* piece of work may never end; posting and shutting down are the user's choice.
ThreadFairness == /\ WF_threadVars(Notify)
                  /\ WF_threadVars(Check) /\ WF_threadVars(MarkDone)
                  /\ WF_threadVars(ShutdownWoken) /\ WF_threadVars(ShutdownTimeout) /\ WF_threadVars(ShutdownJoin)

ThreadSpec == ThreadInit /\ [][ThreadNext]_threadVars /\ ThreadFairness

-----------------------------------------------------------------------------
\* Work in the queue is never forgotten by a sleeping worker: if it sleeps while
\* there is work, the notification is on its way; and it never sleeps through Stop.
NoLostWakeup == worker = "asleep" => /\ m_Queue # <<>> => caller = "notify"
                                     /\ ~m_Stop

\* Shutdown that says the thread ended is right: nothing runs, and nothing was left
\* queued behind it (DecompilerThread.h:21, "False if the work in progress did not end").
JoinedMeansDone == caller = "joined" => /\ worker \in {"none", "exited"}
                                       /\ work = NoWork
                                       /\ m_Queue = <<>>

\* After Shutdown began no piece of work is started (DecompilerThread.h:21, "the work
\* that was not started is not done").
NoStartAfterStop == [][m_Stop => (work' = work \/ work' = NoWork)]_threadVars

\* Shutdown returns (the process can end), whatever the decompiler is busy with.
ShutdownReturns == caller = "waiting" ~> caller \in {"joined", "detached"}

\* Refinement: the thread is the serial executor of the rest of the program.
SE == INSTANCE SerialExecutor WITH
        Idle <- NoWork, todo <- m_Queue, now <- work, ended <- worker \in {"end", "exited"}

ImplementsSerialExecutor == SE!ExecutorSpec
=============================================================================
