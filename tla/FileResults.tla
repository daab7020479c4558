----------------------------- MODULE FileResults -----------------------------
(***************************************************************************)
(* What the frame promises of the results that worker threads find for the *)
(* file that is open (TotalPE/MainFrm.cpp): a result that is shown is the  *)
(* open file's, it stays until the file is closed, and none outlives it.   *)
(***************************************************************************)
EXTENDS Naturals

CONSTANT Kinds      \* the kinds of results

VARIABLES file,     \* the file that is open (each opening has a number of its own), or 0
          found     \* the kinds found for it

ResultsInit == file = 0 /\ found = {}

Open == file' \in Nat \ {0} /\ file' # file /\ found' = {}

Close == file' = 0 /\ found' = {}

Find == /\ file # 0
        /\ \E k \in Kinds \ found : found' = found \cup {k}
        /\ UNCHANGED file

ResultsNext == Open \/ Close \/ Find

ResultsSpec == ResultsInit /\ [][ResultsNext]_<<file, found>>
=============================================================================
