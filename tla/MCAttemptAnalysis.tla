--------------------------- MODULE MCAttemptAnalysis ---------------------------
(* A sequential driver and a pool of two threads, and the analysis of what  *)
(* either leaves behind.                                                    *)
EXTENDS AttemptAnalysis

CONSTANTS first, second

Two == {first, second}
Mixed == [d \in Drivers |-> IF d = first THEN 1 ELSE 2]
=============================================================================
