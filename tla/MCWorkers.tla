----------------------------- MODULE MCWorkers ------------------------------
(* Work on other threads, on small instances: the files of a command line,   *)
(* that workers share (RunOrdered), or the scans of a window's file          *)
(* (FileScans).  One of the two runs (nothing fair is enabled in the other). *)
EXTENDS RunOrdered, FileScans

VARIABLE part

\* No call of RunOrdered is under way
NoCall ==
  /\ OutputInit
  /\ next = 0
  /\ slots = [k \in Items |-> FALSE]
  /\ worker = [t \in Threads |-> "ended"]
  /\ item = [t \in Threads |-> 0]
  /\ i = 0
  /\ caller = "returned"

WorkersInit ==
  /\ \/ part = "command line" /\ user = "scans" /\ Init
     \/ part = "window" /\ NoCall
  /\ ScansInit

WorkersNext ==
  \/ part = "command line" /\ Next /\ UNCHANGED <<part, scanVars>>
  \/ part = "window" /\ ScansNext /\ UNCHANGED <<part, vars>>

WorkersSpec ==
  /\ WorkersInit /\ [][WorkersNext]_<<part, vars, scanVars>>
  /\ Fairness /\ ScansFairness
=============================================================================
