---------------------------- MODULE MCAttemptSeries ----------------------------
(* A sequential driver and a pool of two threads. *)
EXTENDS AttemptSeries

CONSTANTS first, second

Two == {first, second}
Mixed == [d \in Drivers |-> IF d = first THEN 1 ELSE 2]
=============================================================================
