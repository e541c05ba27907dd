--------------------------- MODULE MCMethodTracer ---------------------------
(* Instances of MethodTracer for TLC. *)
EXTENDS MethodTracer

CONSTANTS m1, m2, c1, c2

OneMethod == {m1}
TwoMethods == {m1, m2}
TinyMethod == {m2}
TwoCalls == {c1, c2}
=============================================================================
