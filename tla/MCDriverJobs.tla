----------------------------- MODULE MCDriverJobs -----------------------------
(* A sequential driver and a pool of two threads on one output root.        *)
EXTENDS DriverJobs

CONSTANTS first, second

Two == {first, second}
One == {first}
Mixed == [d \in Drivers |-> IF d = first THEN 1 ELSE 2]
Same == [d \in Drivers |-> "config"]
=============================================================================
