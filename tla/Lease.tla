-------------------------------- MODULE Lease --------------------------------
(***************************************************************************)
(* What every timed effect on an agent promises: a value is granted for a  *)
(* duration, a new grant replaces the old one and its remaining time, and  *)
(* the moment more than the duration has passed the value is gone.         *)
(***************************************************************************)
EXTENDS Naturals

CONSTANTS
    Key, Value, None,
    Durations  \* for how long each key may be granted: [Key -> SUBSET Nat]

VARIABLES lease, left

Init ==
    /\ lease = [k \in Key |-> None]
    /\ left = [k \in Key |-> 0]

Grant(k, v, d) ==
    /\ lease' = [lease EXCEPT ![k] = v]
    /\ left' = [left EXCEPT ![k] = d]

\* One unit of time.
Pass ==
    /\ lease' = [k \in Key |-> IF left[k] = 0 THEN None ELSE lease[k]]
    /\ left' = [k \in Key |-> IF left[k] = 0 THEN 0 ELSE left[k] - 1]

\* The holder's process ends.
Revoke ==
    /\ lease' = [k \in Key |-> None]
    /\ left' = [k \in Key |-> 0]

Next ==
    \/ \E k \in Key, v \in Value : \E d \in Durations[k] : Grant(k, v, d)
    \/ Pass
    \/ Revoke

Spec == Init /\ [][Next]_<<lease, left>>
=============================================================================
