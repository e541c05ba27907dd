----------------------------- MODULE MCTraceRing -----------------------------
(* Instances of TraceRing for TLC. *)
EXTENDS TraceRing, TLC

CONSTANTS c1, c2, c3

TwoThreads == {c1, c2}
ThreeThreads == {c1, c2, c3}

ThreadSymmetry == Permutations(Calls)
=============================================================================
