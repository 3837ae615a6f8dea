------------------------- MODULE MCSchedulerIntent -------------------------
(* One package of two items and one of one item, for SchedulerIntent. *)
EXTENDS SchedulerIntent, TLC

CONSTANTS a1, a2, b1, A, B

MixedItems == {a1, a2, b1}
MixedPackages == {A, B}
MixedPackageOf == a1 :> A @@ a2 :> A @@ b1 :> B
=============================================================================
