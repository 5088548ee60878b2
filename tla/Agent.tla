-------------------------------- MODULE Agent --------------------------------
(***************************************************************************)
(* One agent: the state its NATS callbacks write while the tick loop reads *)
(* it (agent/main.go, action.go, chaos.go, simulate.go).                   *)
(*                                                                         *)
(* Every effect is a value with an expiry that is looked at only when it is *)
(* read, and cleared, or merely skipped, by the reader.  The tick loop     *)
(* reads them one after the other, each under its own mutex, so a callback *)
(* or a second can come between any two reads.  Time is counted in whole   *)
(* units; an effect is still in force at the very instant it expires,      *)
(* because the code compares with After and >.                             *)
(***************************************************************************)
EXTENDS Integers, FiniteSetsExt

CONSTANTS
    Neighbor,      \* the peers the agent shares a link with
    Baseline,      \* its offered load when nobody overrides it
    LoadValue,     \* loads an operator sets
    CapValue,      \* caps the control-plane sets
    FlowValue,     \* what a neighbor forwards
    LossValue,     \* loss percentages chaos injects
    LatencyValue,  \* milliseconds chaos injects
    LoadStale,     \* loadStaleAfter (8 s)
    FlowStale,     \* flowStaleAfter (5 s)
    Duration,      \* durations of actions and faults
    MaxCommands,   \* bound: messages delivered to the agent
    None

LoadKey == <<"load">>
CapKey == <<"cap">>
LatencyKey == <<"latency">>
LossKey(n) == <<"loss", n>>
FlowKey(n) == <<"flow", n>>

Key == {LoadKey, CapKey, LatencyKey}
       \cup {LossKey(n) : n \in Neighbor} \cup {FlowKey(n) : n \in Neighbor}

Value == LoadValue \cup CapValue \cup FlowValue \cup LossValue \cup LatencyValue

DurationsOf(k) ==
    IF k = LoadKey THEN {LoadStale}
    ELSE IF k \in {FlowKey(n) : n \in Neighbor} THEN {FlowStale}
    ELSE Duration

ASSUME AgentAssumption ==
    /\ IsFiniteSet(Neighbor)
    /\ Baseline \in Nat
    /\ Value \subseteq Nat \ {0}
    /\ Duration \cup {LoadStale, FlowStale} \subseteq Nat
    /\ MaxCommands \in Nat
    /\ None \notin Value

VARIABLES
    slot,      \* per effect: the flag or map entry, the value, the time left
    pc,        \* the next step of the tick loop; "dead" after a kill
    draft,     \* what the running tick has read so far
    report,    \* what the last tick published
    todo,      \* neighbors the tick still forwards to
    struck,    \* neighbors whose loss was set since the tick's report
    commands   \* messages delivered so far

vars == <<slot, pc, draft, report, todo, struck, commands>>

(***************************************************************************)
(* An effect and its readers.  left is -1 from the first instant After the *)
(* expiry.                                                                 *)
(***************************************************************************)
Off == [on |-> FALSE, value |-> 0, left |-> -1]

InForce(s) == s.on /\ s.left >= 0

\* get, apply, currentLatencyMs and currentLossPct clear what has expired.
Cleared(s) == IF InForce(s) THEN s ELSE Off

MutReading(k, default) == IF slot[k].on THEN slot[k].value ELSE default
Reading(k, default) == IF InForce(slot[k]) THEN slot[k].value ELSE default

MutSetTo(k, v, d) == [slot EXCEPT ![k] = [on |-> TRUE, value |-> v,
                                          left |-> IF InForce(@) THEN @.left + d ELSE d]]
SetTo(k, v, d) == [slot EXCEPT ![k] = [on |-> TRUE, value |-> v, left |-> d]]

Init ==
    /\ slot = [k \in Key |-> Off]
    /\ pc = "load"
    /\ draft = [offered |-> Baseline, latency |-> 0]
    /\ report = [offered |-> Baseline, latency |-> 0, loss |-> 0]
    /\ todo = {}
    /\ struck = {}
    /\ commands = 0

Alive == pc # "dead"

(***************************************************************************)
(* The callbacks, each on the goroutine of its subscription.               *)
(***************************************************************************)
Command ==
    /\ Alive
    /\ commands < MaxCommands
    /\ commands' = commands + 1

OnLoad(v) ==
    /\ Command
    /\ slot' = SetTo(LoadKey, v, LoadStale)
    /\ UNCHANGED <<pc, draft, report, todo, struck>>

OnFlow(n, v) ==
    /\ Command
    /\ slot' = SetTo(FlowKey(n), v, FlowStale)
    /\ UNCHANGED <<pc, draft, report, todo, struck>>

\* One cap at a time: the newest replaces the one in force.  To log the
\* effect the handler reads the load, which clears a stale override.
OnAction(v, d) ==
    /\ Command
    /\ slot' = [SetTo(CapKey, v, d) EXCEPT ![LoadKey] = Cleared(@)]
    /\ UNCHANGED <<pc, draft, report, todo, struck>>

OnLatency(v, d) ==
    /\ Command
    /\ slot' = SetTo(LatencyKey, v, d)
    /\ UNCHANGED <<pc, draft, report, todo, struck>>

OnLoss(n, v, d) ==
    /\ Command
    /\ slot' = SetTo(LossKey(n), v, d)
    /\ struck' = struck \cup {n}
    /\ UNCHANGED <<pc, draft, report, todo>>

\* os.Exit: the process and all its state are gone.
OnKill ==
    /\ Command
    /\ pc' = "dead"
    /\ slot' = [k \in Key |-> Off]
    /\ todo' = {}
    /\ struck' = {}
    /\ UNCHANGED <<draft, report>>

(***************************************************************************)
(* The tick loop.                                                          *)
(***************************************************************************)
ReadLoad ==
    /\ pc = "load"
    /\ pc' = "cap"
    /\ draft' = [offered |-> Reading(LoadKey, Baseline), latency |-> 0]
    /\ slot' = [slot EXCEPT ![LoadKey] = Cleared(@)]
    /\ UNCHANGED <<report, todo, struck, commands>>

Capped(v) == IF InForce(slot[CapKey]) /\ v > slot[CapKey].value THEN slot[CapKey].value ELSE v

ApplyCap ==
    /\ pc = "cap"
    /\ pc' = "inbound"
    /\ draft' = [draft EXCEPT !.offered = Capped(@)]
    /\ slot' = [slot EXCEPT ![CapKey] = Cleared(@)]
    /\ UNCHANGED <<report, todo, struck, commands>>

\* Inbound flows that are stale are skipped, and stay in the map.
Inbound == MapThenSumSet(LAMBDA n : Reading(FlowKey(n), 0), Neighbor)

SumInbound ==
    /\ pc = "inbound"
    /\ pc' = "latency"
    /\ draft' = [draft EXCEPT !.offered = @ + Inbound]
    /\ UNCHANGED <<slot, report, todo, struck, commands>>

ReadLatency ==
    /\ pc = "latency"
    /\ pc' = "publish"
    /\ draft' = [draft EXCEPT !.latency = Reading(LatencyKey, 0)]
    /\ slot' = [slot EXCEPT ![LatencyKey] = Cleared(@)]
    /\ UNCHANGED <<report, todo, struck, commands>>

\* Of the loss faults in force the largest is reported; expired ones are
\* skipped here and deleted only when their own link is forwarded to.
ActiveLosses == {slot[LossKey(n)].value : n \in {m \in Neighbor : InForce(slot[LossKey(m)])}}

MutMaxActiveLoss == IF ActiveLosses = {} THEN 0 ELSE Min(ActiveLosses)
MaxActiveLoss == Max(ActiveLosses \cup {0})

\* The last reading of the tick, and the metrics it publishes.
Publish ==
    /\ pc = "publish"
    /\ pc' = IF Neighbor = {} THEN "load" ELSE "forward"
    /\ report' = [offered |-> draft.offered, latency |-> draft.latency, loss |-> MaxActiveLoss]
    /\ todo' = Neighbor
    /\ struck' = {}
    /\ UNCHANGED <<slot, draft, commands>>

Forward(n) ==
    /\ pc = "forward"
    /\ n \in todo
    /\ todo' = todo \ {n}
    /\ pc' = IF todo' = {} THEN "load" ELSE "forward"
    /\ slot' = [slot EXCEPT ![LossKey(n)] = Cleared(@)]
    /\ UNCHANGED <<draft, report, struck, commands>>

Tick ==
    \/ ReadLoad \/ ApplyCap \/ SumInbound \/ ReadLatency \/ Publish
    \/ \E n \in Neighbor : Forward(n)

Older(s) == [s EXCEPT !.left = IF s.left < 0 THEN -1 ELSE s.left - 1]

Pass ==
    /\ slot' = [k \in Key |-> Older(slot[k])]
    /\ UNCHANGED <<pc, draft, report, todo, struck, commands>>

Next ==
    \/ \E v \in LoadValue : OnLoad(v)
    \/ \E n \in Neighbor, v \in FlowValue : OnFlow(n, v)
    \/ \E v \in CapValue, d \in Duration : OnAction(v, d)
    \/ \E v \in LatencyValue, d \in Duration : OnLatency(v, d)
    \/ \E n \in Neighbor, v \in LossValue, d \in Duration : OnLoss(n, v, d)
    \/ OnKill
    \/ Tick
    \/ Pass

\* Time goes on, and the tick loop is never starved.
Fairness == WF_vars(Pass) /\ WF_vars(Tick)

Spec == Init /\ [][Next]_vars

FairSpec == Spec /\ Fairness

(***************************************************************************)
(* Properties.                                                             *)
(***************************************************************************)
Slot == [on : BOOLEAN, value : Value \cup {0}, left : Nat \cup {-1}]

\* Every variable has its type: no effect's remaining time falls below the
\* "expired" of its comparison (action.go:37, chaos.go:49, simulate.go:125).
TypeOK ==
    /\ slot \in [Key -> Slot]
    /\ pc \in {"load", "cap", "inbound", "latency", "publish", "forward", "dead"}
    /\ draft \in [offered : Nat, latency : Nat]
    /\ report \in [offered : Nat, latency : Nat, loss : Nat]
    /\ todo \subseteq Neighbor /\ struck \subseteq Neighbor
    /\ commands \in 0..MaxCommands

\* What is in force at this instant, whether or not a reader has cleared it.
inForce == [k \in Key |-> IF InForce(slot[k]) THEN slot[k].value ELSE None]
remaining == [k \in Key |-> IF InForce(slot[k]) THEN slot[k].left ELSE 0]

Promise == INSTANCE Lease WITH Durations <- [k \in Key |-> DurationsOf(k)],
                                lease <- inForce, left <- remaining

\* Clearing an effect only when it is read is not observable: to a reader
\* each effect is a lease that ends by itself, with "no lingering effect"
\* (action.go:20-23, chaos.go:44-56, simulate.go:118-121, 150-152).
EffectsAreLeases == Promise!Spec

\* While a link of ours drops packets the loss we report is at least its
\* (chaos.go:72-73): the report and the forwarding read the faults at two
\* moments of a tick, and differ only by what changed in between.
LossReported ==
    \A n \in todo \ struck :
        InForce(slot[LossKey(n)]) => report.loss >= slot[LossKey(n)].value

\* Once the messages stop, everything an operator, chaos or the control-plane
\* did to the agent wears off in what it publishes: nothing "can strand a node
\* at an artificial load forever" (simulate.go:118-121).
EverythingWearsOff ==
    <>[](~Alive \/ report = [offered |-> Baseline, latency |-> 0, loss |-> 0])
=============================================================================
