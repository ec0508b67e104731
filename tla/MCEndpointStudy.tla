--------------------------- MODULE MCEndpointStudy ---------------------------
(* Two conditions that differ in both coordinates, two waves of unequal     *)
(* length, one case: four blocks of two or one requests, and the seed probe. *)
EXTENDS EndpointStudy
MCConditions == << [temperature |-> 0, concurrency |-> 1],
                   [temperature |-> 3, concurrency |-> 2] >>
MCSpans == << <<0, 2>>, <<2, 3>> >>
=============================================================================
