--------------------------- MODULE MCVerdictStore ---------------------------
(* Model checking VerdictStore: as many threads as the store has places.    *)
EXTENDS VerdictStore

CONSTANTS w1, w2

TwoWorkers == {w1, w2}
=============================================================================
