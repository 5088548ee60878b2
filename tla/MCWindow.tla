------------------------------ MODULE MCWindow ------------------------------
(* Model checking Window: two columns, and gaps of all widths up to more    *)
(* than twice the limit, inside and at both ends.                           *)
EXTENDS Window, TLC

CONSTANTS load, latency

TwoColumns == {load, latency}
OneColumn == {load}

Symmetric == Permutations(TwoColumns)
=============================================================================
