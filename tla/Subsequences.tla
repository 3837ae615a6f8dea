---------------------------- MODULE Subsequences ----------------------------
(***************************************************************************)
(* What Array.prototype.filter leaves of a sequence.  SelectSeq and Remove *)
(* say the same; a proof cannot look into them.                            *)
(***************************************************************************)
EXTENDS Integers, Sequences, FiniteSets

\* The elements of s that are in S, in their order: the n-th of them is the one with
\* n of them up to it.
Only(s, S) ==
  LET at == {k \in 1..Len(s) : s[k] \in S}
  IN  [n \in 1..Cardinality(at) |->
         s[CHOOSE k \in at : Cardinality({l \in at : l <= k}) = n]]
=============================================================================
