---------------------------- MODULE MCValidation ----------------------------
(* Model checking Validation: every graph over a few columns.  The columns  *)
(* other than the treatment and the outcome are interchangeable.            *)
EXTENDS Validation, TLC

CONSTANTS load, latency, queue, throughput

ThreeColumns == {load, latency, queue}
FourColumns == {load, latency, queue, throughput}

Symmetric == Permutations({queue, throughput})
=============================================================================
