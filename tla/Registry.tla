------------------------------ MODULE Registry ------------------------------
(***************************************************************************)
(* Which nodes the control-plane takes for alive (control-plane/main.go):  *)
(* agents register when they start and once a second with their metrics,   *)
(* on two subscriptions; the registry keeps when it last heard of a node.  *)
(*                                                                         *)
(* What the metrics say is not modelled: only that they were heard.  One   *)
(* message of a kind and a node is under way at a time; another one joins it. *)
(* Module Cluster puts these steps together with those of the agents.      *)
(***************************************************************************)
EXTENDS Integers

CONSTANTS
    Node,
    AliveWindow,  \* in seconds (3)
    Never         \* no entry in lastSeen

Kind == {"register", "metrics"}

VARIABLES
    up,     \* the agents whose process runs
    seen,   \* seconds since lastSeen of each node, 0..AliveWindow, or Never
    flight  \* <<kind, node>> of the messages under way

registry == <<seen, flight>>

RegistryInit == seen = [n \in Node |-> Never] /\ flight = {}

\* GET /nodes
MutAlive(n) == seen[n] # Never
Alive(n) == seen[n] # Never /\ seen[n] < AliveWindow

\* An operator starts an agent, again after a kill.
Boot(n) ==
    /\ n \notin up
    /\ up' = up \cup {n}
    /\ flight' = flight \cup {<<"register", n>>}
    /\ UNCHANGED seen

Report(n) ==
    /\ n \in up
    /\ flight' = flight \cup {<<"metrics", n>>, <<"register", n>>}
    /\ UNCHANGED <<up, seen>>

\* os.Exit: what was published stays under way.
Kill(n) ==
    /\ n \in up
    /\ up' = up \ {n}
    /\ UNCHANGED <<seen, flight>>

MutHeard(n) == [seen EXCEPT ![n] = IF @ = Never THEN 0 ELSE @]
Heard(n) == [seen EXCEPT ![n] = 0]

\* markSeen and recordMetrics
Deliver(kind, n) ==
    /\ <<kind, n>> \in flight
    /\ flight' = flight \ {<<kind, n>>}
    /\ seen' = Heard(n)
    /\ UNCHANGED up

Lose(kind, n) ==
    /\ <<kind, n>> \in flight
    /\ flight' = flight \ {<<kind, n>>}
    /\ UNCHANGED <<up, seen>>

Second ==
    /\ seen' = [n \in Node |-> IF seen[n] \in 0..(AliveWindow - 1) THEN seen[n] + 1 ELSE seen[n]]
    /\ UNCHANGED <<up, flight>>

\* The registry is in memory, and nobody is subscribed while it is down.
ControlPlaneRestart ==
    /\ seen' = [n \in Node |-> Never]
    /\ flight' = {}
    /\ UNCHANGED up
=============================================================================
