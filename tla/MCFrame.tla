------------------------------ MODULE MCFrame -------------------------------
(* Three components of a window's process on small instances: the workers of *)
(* the open file, the search index with its dialogs, and the decompiler's    *)
(* thread.  They share no variable: one of them runs, and the states are the *)
(* sum of theirs (nothing fair is enabled in the others).                    *)
EXTENDS OpenFile, SearchDialogs, DecompilerThread

VARIABLE part

Parts == {"open file", "search", "thread"}

FrameInit == part \in Parts /\ Init /\ DialogsInit /\ ThreadInit

FrameNext ==
  \/ part = "open file" /\ Next /\ UNCHANGED <<part, searchVars, threadVars>>
  \/ part = "search" /\ DialogsNext /\ UNCHANGED <<part, vars, threadVars>>
  \/ part = "thread" /\ ThreadNext /\ UNCHANGED <<part, vars, searchVars>>

FrameSpec ==
  /\ FrameInit /\ [][FrameNext]_<<part, vars, searchVars, threadVars>>
  /\ Fairness /\ DialogsFairness /\ ThreadFairness
=============================================================================
