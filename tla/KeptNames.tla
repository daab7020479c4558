------------------------------ MODULE KeptNames ------------------------------
(***************************************************************************)
(* What the annotations of a file promise (PECore/Annotations.h): the       *)
(* user's names are kept for the file.  A window has those that are kept    *)
(* when it opens the file, changes its own, and keeps all that it has in    *)
(* one step, or not at all.  The promise ends when its conditions do: when  *)
(* two processes save at once, or the disk does not take what is written.   *)
(***************************************************************************)
CONSTANTS Windows, Items

VARIABLES kept,       \* the names kept for the file
          has,        \* the names each window has
          spoiled     \* the conditions were not met

vars == <<kept, has, spoiled>>

Init == /\ kept \in SUBSET Items
        /\ has = [w \in Windows |-> {}]
        /\ spoiled = FALSE

\* A window opens the file (it has none, if they cannot be read), or closes it
Open(w) == has' = [has EXCEPT ![w] = kept] /\ UNCHANGED kept
Leave(w) == has' = [has EXCEPT ![w] = {}] /\ UNCHANGED kept

Change(w) == /\ \E items \in SUBSET Items : has' = [has EXCEPT ![w] = items]
             /\ UNCHANGED kept

Keep(w) == kept' = has[w] /\ UNCHANGED has

Step == \E w \in Windows : Open(w) \/ Leave(w) \/ Change(w) \/ Keep(w)

Next == \/ ~spoiled' /\ ~spoiled /\ Step
        \/ spoiled'

Spec == Init /\ [][Next]_vars
=============================================================================
