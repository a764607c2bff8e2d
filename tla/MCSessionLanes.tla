--------------------------- MODULE MCSessionLanes ---------------------------
(* A small instance of SessionLanes for TLC. *)
EXTENDS SessionLanes, TLC

CONSTANTS f1, f2, fast, deep

MCFlights == {f1, f2}
MCSelections == {fast, deep}
NameSymmetry == Permutations(MCFlights) \cup Permutations(MCSelections)
=============================================================================
