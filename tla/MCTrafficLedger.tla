--------------------------- MODULE MCTrafficLedger ---------------------------
(* Two instances of one user, two requests at a time.                        *)
EXTENDS TrafficLedger, TLC

CONSTANTS i1, i2, p1, p2

TwoInstances == {i1, i2}
TwoProcs == {p1, p2}
Symmetry == Permutations(TwoInstances) \cup Permutations(TwoProcs)
=============================================================================
