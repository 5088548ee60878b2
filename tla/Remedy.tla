-------------------------------- MODULE Remedy --------------------------------
(***************************************************************************)
(* What the chain from an approved verdict to the agents promises of an    *)
(* action, whoever asks for it and whatever fails on the way: it is sent   *)
(* at most once, to one node; it comes into force there at most once, and  *)
(* only while the agent runs; and once it has ended, was replaced, or was  *)
(* lost, it does not come back.                                            *)
(***************************************************************************)
CONSTANTS Action, Node, Nobody

VARIABLES
    sent,    \* the actions that were sent
    coming,  \* per node, the actions on their way to it
    acting,  \* per node, the action in force
    alive    \* per node, whether its agent runs

vars == <<sent, coming, acting, alive>>

Init ==
    /\ sent = {}
    /\ coming = [n \in Node |-> {}]
    /\ acting = [n \in Node |-> Nobody]
    /\ alive = [n \in Node |-> TRUE]

\* An action for an agent that is gone is sent to nobody.
Send(a, n) ==
    /\ a \notin sent
    /\ sent' = sent \cup {a}
    /\ coming' = IF alive[n] THEN [coming EXCEPT ![n] = @ \cup {a}] ELSE coming
    /\ UNCHANGED <<acting, alive>>

Arrive(a, n) ==
    /\ a \in coming[n]
    /\ coming' = [coming EXCEPT ![n] = @ \ {a}]
    /\ acting' = [acting EXCEPT ![n] = a]
    /\ UNCHANGED <<sent, alive>>

\* Lost, or of a kind the agent does not know.
Vanish(a, n) ==
    /\ a \in coming[n]
    /\ coming' = [coming EXCEPT ![n] = @ \ {a}]
    /\ UNCHANGED <<sent, acting, alive>>

End(n) ==
    /\ acting' = [acting EXCEPT ![n] = Nobody]
    /\ UNCHANGED <<sent, coming, alive>>

Die(n) ==
    /\ alive' = [alive EXCEPT ![n] = FALSE]
    /\ coming' = [coming EXCEPT ![n] = {}]
    /\ acting' = [acting EXCEPT ![n] = Nobody]
    /\ UNCHANGED sent

Next ==
    \/ \E a \in Action, n \in Node : Send(a, n) \/ Arrive(a, n) \/ Vanish(a, n)
    \/ \E n \in Node : End(n) \/ Die(n)

Spec == Init /\ [][Next]_vars
=============================================================================
