------------------------------ MODULE Sublists ------------------------------
(* std::erase_if on a vector, and the loops that copy some of its elements: *)
(* what is kept stays in its order.                                        *)
EXTENDS Naturals, Sequences, FiniteSets

\* the elements of s that are in S: the k-th has k - 1 of them before it
Sublist(s, S) ==
  LET kept == {i \in DOMAIN s : s[i] \in S}
      Rank(i) == Cardinality({j \in kept : j <= i})
  IN [k \in 1..Cardinality(kept) |-> s[CHOOSE i \in kept : Rank(i) = k]]
=============================================================================
