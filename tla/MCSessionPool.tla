--------------------------- MODULE MCSessionPool ---------------------------
(***************************************************************************)
(* Small instances of SessionPool.                                         *)
(***************************************************************************)
EXTENDS SessionPool, TLC

CONSTANTS w1, w2, w3, sw, s1, s2, s3

MCWorkers == {w1, w2}
MCWorkers3 == {w1, w2, w3}
MCSessions3 == {s1, s2, s3}

AllFaults == FaultKinds
RecycleOnly == {"recycle"}

Symmetry3 == Permutations(MCWorkers3) \cup Permutations(MCSessions3)
=============================================================================
