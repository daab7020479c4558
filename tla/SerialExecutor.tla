--------------------------- MODULE SerialExecutor ---------------------------
(***************************************************************************)
(* What the decompiler's thread promises to the rest of the program        *)
(* (TotalPE/DecompilerThread.h): "one piece at a time, in order", and at   *)
(* the end of the process "the work that was not started is not done".     *)
(* DecompilerThread implements this specification; DecompilerSession is    *)
(* built on it.                                                            *)
(***************************************************************************)
EXTENDS Sequences

CONSTANTS Work,     \* the pieces of work that can be submitted
          Idle      \* no work in progress: not a piece of work

VARIABLES todo,     \* the work submitted and not started, oldest first
          now,      \* the work in progress, or Idle
          ended     \* nothing is started any more

executorVars == <<todo, now, ended>>

ExecutorTypeOK == /\ todo \in Seq(Work)
                  /\ now \in Work \cup {Idle}
                  /\ ended \in BOOLEAN

ExecutorInit == /\ todo = <<>>
                /\ now = Idle
                /\ ended = FALSE

SubmitAll(ws) == /\ ~ended
                 /\ todo' = todo \o ws
                 /\ UNCHANGED <<now, ended>>

Submit(w) == SubmitAll(<<w>>)

Start == /\ ~ended
         /\ now = Idle
         /\ todo # <<>>
         /\ now' = Head(todo)
         /\ todo' = Tail(todo)
         /\ UNCHANGED ended

Finish == /\ now # Idle
          /\ now' = Idle
          /\ UNCHANGED <<todo, ended>>

\* The work in progress is done with (it cannot be stopped); the rest is dropped.
End == /\ ~ended
       /\ now = Idle
       /\ ended' = TRUE
       /\ todo' = <<>>
       /\ UNCHANGED now

ExecutorNext == \/ \E w \in Work : Submit(w)
                \/ Start
                \/ Finish
                \/ End

ExecutorSpec == ExecutorInit /\ [][ExecutorNext]_executorVars /\ WF_executorVars(Start)
=============================================================================
