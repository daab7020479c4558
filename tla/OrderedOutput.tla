---------------------------- MODULE OrderedOutput ----------------------------
(***************************************************************************)
(* What RunOrdered promises its callers (TotalPE.Cli/main.cpp): the        *)
(* results of items 0..Count-1 are handed over in the order of the items,  *)
(* one at a time, and the call reports a complete run only when all were.  *)
(***************************************************************************)
EXTENDS Naturals, Sequences

CONSTANT Count      \* how many items

ASSUME CountIsNat == Count \in Nat

VARIABLES out,      \* the items handed over
          g_Cancel, \* Ctrl+C
          verdict   \* what the call returned: "none" while it runs, then "complete" or "cancelled"

OutputInit == out = <<>> /\ g_Cancel = FALSE /\ verdict = "none"

Deliver == /\ verdict = "none"
           /\ Len(out) < Count
           /\ out' = Append(out, Len(out))
           /\ UNCHANGED <<g_Cancel, verdict>>

CtrlC == g_Cancel' = TRUE /\ UNCHANGED <<out, verdict>>

Return == /\ verdict = "none"
          /\ \/ Len(out) = Count /\ ~g_Cancel /\ verdict' = "complete"
             \/ g_Cancel /\ verdict' = "cancelled"
          /\ UNCHANGED <<out, g_Cancel>>

OutputNext == Deliver \/ CtrlC \/ Return

OutputSpec == OutputInit /\ [][OutputNext]_<<out, g_Cancel, verdict>>
=============================================================================
