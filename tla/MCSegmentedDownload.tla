------------------------ MODULE MCSegmentedDownload ------------------------
(* A download of two segments, and one too small for two connections.      *)
EXTENDS SegmentedDownload, TLC

CONSTANTS d1, d2, p1, p2, p3
MCSegmentsOf == [d \in Downloads |-> IF d = d1 THEN 2 ELSE 1]
MCLimitOf == [d \in Downloads |-> IF d = d1 THEN 3 ELSE 2]
Symmetry == Permutations(Proxies)
=============================================================================
