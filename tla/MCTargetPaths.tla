--------------------------- MODULE MCTargetPaths ---------------------------
(***************************************************************************)
(* TargetPaths for TLC: the items are interchangeable.                     *)
(***************************************************************************)
EXTENDS TargetPaths, TLC

Symmetry == Permutations(Items)
=============================================================================
