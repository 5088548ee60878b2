------------------------------ MODULE Cluster -------------------------------
(***************************************************************************)
(* The agents between those who act on them and those who watch them:      *)
(* module Faults, in which chaos commands kill agents and operators start  *)
(* them again, together with module Registry, in which the control-plane   *)
(* hears of the agents that run.  An agent is one process in both.         *)
(***************************************************************************)
EXTENDS Faults

CONSTANTS
    AliveWindow,  \* in seconds (3)
    Never,        \* no entry in lastSeen
    Followed      \* bound: the nodes whose entry is followed

ASSUME ClusterAssumption ==
    /\ AliveWindow \in Nat \ {0}
    /\ Never \notin Nat
    /\ Followed \subseteq Node

VARIABLES seen, flight

View == INSTANCE Registry WITH Node <- Followed, up <- up \cap Followed

registry == <<seen, flight>>
cluster == <<vars, registry>>

\* The agents run when the control-plane is started.
ClusterInit == Init /\ View!RegistryInit

(***************************************************************************)
(* Steps of both: an agent ends or begins.                                 *)
(***************************************************************************)
Strike(p) ==
    /\ Deliver(p)
    /\ IF Addressee(fault[p]) \in Followed /\ fault[p].type = "kill"
       THEN View!Kill(Addressee(fault[p]))
       ELSE UNCHANGED registry

Reboot(n) ==
    /\ Restart(n)
    /\ IF n \in Followed THEN View!Boot(n) ELSE UNCHANGED registry

(***************************************************************************)
(* Steps of one of them.                                                   *)
(***************************************************************************)
Order(p) == (Command(p) \/ Lose(p)) /\ UNCHANGED registry
Check == (Load \/ Again) /\ UNCHANGED registry
GoOn == Validate /\ UNCHANGED registry

Tick(n) == UNCHANGED vars /\ View!Report(n)
Hear(kind, n) == UNCHANGED vars /\ View!Deliver(kind, n)
Miss(kind, n) == UNCHANGED vars /\ View!Lose(kind, n)
Second == UNCHANGED vars /\ View!Second
ControlPlaneRestart == UNCHANGED vars /\ View!ControlPlaneRestart

ClusterNext ==
    \/ \E p \in Process : Order(p) \/ Strike(p)
    \/ \E n \in Node : Reboot(n)
    \/ Check \/ GoOn
    \/ \E n \in Followed :
         \/ Tick(n)
         \/ \E kind \in View!Kind : Hear(kind, n) \/ Miss(kind, n)
    \/ Second \/ ControlPlaneRestart

\* The script goes on.  The clock does too, agents tick, and no message is under
\* way for ever.  NATS loses messages, but not all the metrics an agent keeps sending.
ClusterFairness ==
    /\ WF_cluster(GoOn)
    /\ WF_cluster(Second)
    /\ \A n \in Followed :
         /\ WF_cluster(Tick(n))
         /\ \A kind \in View!Kind : WF_cluster(Hear(kind, n) \/ Miss(kind, n))
         /\ SF_cluster(Hear("metrics", n))

ClusterSpec == ClusterInit /\ [][ClusterNext]_cluster /\ ClusterFairness

(***************************************************************************)
(* Properties, besides those of Faults.                                    *)
(***************************************************************************)
\* A node that chaos killed and nobody started again is taken for dead for
\* good, even though a message that was under way may revive it meanwhile
\* (control-plane/main.go:66-85, agent/main.go:117-119).
KillNoticed == \A n \in Followed : <>[](n \notin up) => <>[]~View!Alive(n)

\* A node that keeps running is taken for alive again and again, whatever is
\* lost and however often the control-plane restarts (agent/main.go:100-103).
RunningSeen == \A n \in Followed : <>[](n \in up) => []<>View!Alive(n)
=============================================================================
