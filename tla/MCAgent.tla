------------------------------- MODULE MCAgent -------------------------------
(* Four requests for a queue of two: the queue fills while one request is  *)
(* processed, and there is one left to come during the drain or after it.  *)
EXTENDS Agent

CONSTANTS r1, r2, r3, r4
FourRequests == {r1, r2, r3, r4}
=============================================================================
