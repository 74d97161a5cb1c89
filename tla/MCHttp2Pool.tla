---------------------------- MODULE MCHttp2Pool ----------------------------
(* Http2Pool with two requests to one origin and one to another.  *)
EXTENDS Http2Pool

CONSTANTS r1, r2, r3, a, b
ThreeReqs == {r1, r2, r3}
TwoOrigins == {a, b}
TwoAndOne == [r \in ThreeReqs |-> IF r = r3 THEN b ELSE a]
=============================================================================
