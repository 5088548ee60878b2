------------------------------- MODULE MCAgent -------------------------------
(* Model checking Agent: two neighbors, one load above the cap, and the     *)
(* baseline below it.                                                       *)
EXTENDS Agent

CONSTANTS a, b

TwoNeighbors == {a, b}
Loads == {4}
Caps == {2}
Flows == {1}
Losses == {10, 30}
Latencies == {100}
Durations == {0, 1}
=============================================================================
