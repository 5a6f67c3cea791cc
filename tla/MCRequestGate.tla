--------------------------- MODULE MCRequestGate ---------------------------
(* Instances of RequestGate for TLC.                                         *)
EXTENDS RequestGate

CONSTANTS a, b, c, p1, p2

TwoAndOne == [r \in {a, b, c} |-> IF r = c THEN p2 ELSE p1]
\* Live messages have no deadline.
SomeDeadlines == [r \in {a, b, c} |-> IF r = a THEN {1} ELSE {Off}]
=============================================================================
