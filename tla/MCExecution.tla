----------------------------- MODULE MCExecution -----------------------------
(* Model checking Execution: one verdict of the engine, one other client.   *)
EXTENDS Execution

CONSTANTS v1, d1, n1, n2

OneVerdict == {v1}
OneDirect == {d1}
OneNode == {n1}
TwoNodes == {n1, n2}
=============================================================================
