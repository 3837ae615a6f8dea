------------------------ MODULE MCDownloadScheduler ------------------------
(* Two items, each in a package of its own or both in one. *)
EXTENDS DownloadScheduler, TLC

CONSTANTS a1, a2, b1, A, B

ApartItems == {a1, b1}
ApartPackages == {A, B}
ApartPackageOf == a1 :> A @@ b1 :> B

PairItems == {a1, a2}
PairPackages == {A}
PairPackageOf == a1 :> A @@ a2 :> A

\* Every task that was aborted ends.  Stated for one item: the instance is the same
\* with its items and their packages exchanged.
AbortedTaskEnds == EndsOnceAborted(a1)
=============================================================================
