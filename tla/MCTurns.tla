------------------------------- MODULE MCTurns -------------------------------
(* Instances of Turns for TLC. *)
EXTENDS Turns, TLC

CONSTANTS a, b, c

\* a is first in line, then b, then c.
MCStanding == [n \in Nodes |-> IF n = a THEN 3 ELSE IF n = b THEN 2 ELSE 1]

=============================================================================
