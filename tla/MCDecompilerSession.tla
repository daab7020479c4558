------------------------ MODULE MCDecompilerSession -------------------------
(* DecompilerSession on a small instance. *)
EXTENDS DecompilerSession, TLC

Symmetry == Permutations(Views)
=============================================================================
