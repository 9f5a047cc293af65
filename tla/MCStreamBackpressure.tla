----------------------- MODULE MCStreamBackpressure -----------------------
(* Model-checking instances of StreamBackpressure: the requests are model  *)
(* values.                                                                 *)
EXTENDS StreamBackpressure

CONSTANTS r1, r2

TwoReqs == {r1, r2}
===========================================================================
