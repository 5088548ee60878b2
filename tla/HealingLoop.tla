---------------------------- MODULE HealingLoop -----------------------------
(***************************************************************************)
(* The self-healing loop in time: the watch script polls, asks the engine  *)
(* for a diagnosis that executes, verifies what was executed, cools down,  *)
(* and polls again (causal-engine/watch.py), while the cap it caused is    *)
(* delivered, holds for its duration and ends.                             *)
(*                                                                         *)
(* Execution says what each part believes, in any order of events; here the *)
(* question is whether the waits fit together: 10 s for /execute, 15 s to  *)
(* settle, 20 s of cooldown, against 30 s of cap.  Discovery takes as long *)
(* as it takes; what the code waits for takes that long; the rest of a     *)
(* program takes no time.  All actions are for one node: caps on different *)
(* nodes do not meet.                                                      *)
(***************************************************************************)
EXTENDS Naturals

CONSTANTS
    Interval,     \* WATCH_INTERVAL_S
    Cooldown,     \* WATCH_COOLDOWN_S
    Settle,       \* SETTLE_S
    Averaged,     \* the end of the settling that verify_action averages (10 s)
    CallTimeout,  \* of POST /execute
    Duration,     \* ACTION_DURATION_S
    Delay,        \* bound: from the publication of an action to its receipt
    MaxCycles     \* --max-cycles

\* How the defaults of config.py fit together.  The last is the network's
\* part: an action arrives before the samples that verify it are taken.
ASSUME Calibrated ==
    /\ {Interval, Cooldown, Settle, Averaged, CallTimeout, Duration, Delay} \subseteq Nat
    /\ MaxCycles \in Nat \ {0}
    /\ Settle + Cooldown > Delay + Duration
    /\ CallTimeout + Settle <= Duration
    /\ Delay + Averaged < Settle

Cycle == 1..MaxCycles

VARIABLES
    watch,     \* what the script is doing
    timer,     \* how long it still sleeps or settles
    cooldown,  \* until cooldown_until
    cycles,    \* the detect -> verify cycles done
    engine,    \* the engine's thread for the current diagnosis
    patience,  \* how long it still waits for /execute
    failed,    \* the cycles whose /execute the engine saw fail
    handler,   \* the control-plane's handler of each cycle's /execute
    flight,    \* the action message of each cycle
    due,       \* how long it may still be on its way
    cap        \* the cap in force: whose, and its time left

vars == <<watch, timer, cooldown, cycles, engine, patience, failed, handler, flight, due, cap>>
script == <<watch, timer, cooldown, cycles>>
thread == <<engine, patience, failed>>
action == <<handler, flight, due, cap>>

NoCap == [by |-> 0, left |-> 0]

Current == cycles + 1

Init ==
    /\ watch = "sleeping"
    /\ timer = 0
    /\ cooldown = 0
    /\ cycles = 0
    /\ engine = "idle"
    /\ patience = 0
    /\ failed = {}
    /\ handler = [c \in Cycle |-> "none"]
    /\ flight = [c \in Cycle |-> "none"]
    /\ due = [c \in Cycle |-> 0]
    /\ cap = NoCap

(***************************************************************************)
(* watch.py.                                                               *)
(***************************************************************************)
\* In cooldown, no window, or nothing degraded: sleep on.
PollNothing ==
    /\ watch = "sleeping" /\ timer = 0
    /\ timer' = Interval
    /\ UNCHANGED <<watch, cooldown, cycles, thread, action>>

MutCooled == TRUE
Cooled == cooldown = 0

PollDegraded ==
    /\ watch = "sleeping" /\ timer = 0
    /\ Cooled
    /\ watch' = "waiting"
    /\ engine' = "diagnosing"
    /\ UNCHANGED <<timer, cooldown, cycles, patience, failed, action>>

\* poll_once returned a result.
EndCycle ==
    /\ cycles' = Current
    /\ cooldown' = Cooldown
    /\ watch' = IF Current >= MaxCycles THEN "done" ELSE "sleeping"
    /\ timer' = Interval

\* No exception of httpx is caught: a timeout, an error status or a lost
\* connection ends the script, and the engine goes on.
Crash ==
    /\ watch \in {"waiting", "verifying"}
    /\ watch' = "crashed"
    /\ UNCHANGED <<timer, cooldown, cycles, thread, action>>

\* The settling is over, and the answer of /verify ends the cycle.
Measure ==
    /\ watch = "verifying" /\ timer = 0
    /\ EndCycle
    /\ UNCHANGED <<thread, action>>

(***************************************************************************)
(* The engine: POST /diagnose with auto_execute.                           *)
(***************************************************************************)
\* The answer goes to the script, if it still waits for it.
Answered(executed) ==
    /\ engine' = "idle"
    /\ IF watch # "waiting" THEN UNCHANGED script
       ELSE IF executed THEN /\ watch' = "verifying"
                             /\ timer' = Settle
                             /\ UNCHANGED <<cooldown, cycles>>
       ELSE EndCycle

NotApproved ==
    /\ engine = "diagnosing"
    /\ Answered(FALSE)
    /\ UNCHANGED <<patience, failed, action>>

Approved ==
    /\ engine = "diagnosing"
    /\ engine' = "calling"
    /\ patience' = CallTimeout
    /\ handler' = [handler EXCEPT ![Current] = "sent"]
    /\ UNCHANGED <<script, failed, flight, due, cap>>

Executed ==
    /\ engine = "calling"
    /\ handler[Current] = "published"
    /\ Answered(TRUE)
    /\ UNCHANGED <<patience, failed, action>>

\* Refused at once, or given up after CallTimeout; the handler goes on.
MutNoTimeout == FALSE
MutCallFails ==
    /\ engine = "calling"
    /\ Answered(TRUE)
    /\ UNCHANGED <<patience, failed, action>>

MutRetry ==
    /\ engine = "calling"
    /\ handler' = [handler EXCEPT ![Current] = "sent"]
    /\ patience' = CallTimeout
    /\ UNCHANGED <<script, engine, failed, flight, due, cap>>

CallFails ==
    /\ engine = "calling"
    /\ failed' = failed \cup {Current}
    /\ Answered(FALSE)
    /\ UNCHANGED <<patience, action>>

(***************************************************************************)
(* The control-plane, NATS and the agent.                                  *)
(***************************************************************************)
Publish(c) ==
    /\ handler[c] = "sent"
    /\ handler' = [handler EXCEPT ![c] = "published"]
    /\ flight' = [flight EXCEPT ![c] = "moving"]
    /\ due' = [due EXCEPT ![c] = Delay]
    /\ UNCHANGED <<script, thread, cap>>

\* The publish fails, or the control-plane's process ends.
HandlerDies(c) ==
    /\ handler[c] = "sent"
    /\ handler' = [handler EXCEPT ![c] = "dead"]
    /\ UNCHANGED <<script, thread, flight, due, cap>>

\* The duration counts from the receipt; the newest cap replaces the other.
MutGranted(c) == [by |-> c, left |-> Duration - Settle]
Granted(c) == [by |-> c, left |-> Duration]

Receive(c) ==
    /\ flight[c] = "moving"
    /\ flight' = [flight EXCEPT ![c] = "received"]
    /\ cap' = Granted(c)
    /\ UNCHANGED <<script, thread, handler, due>>

Lose(c) ==
    /\ flight[c] = "moving"
    /\ flight' = [flight EXCEPT ![c] = "lost"]
    /\ UNCHANGED <<script, thread, handler, due, cap>>

(***************************************************************************)
(* Time.                                                                   *)
(***************************************************************************)
Less(t) == IF t = 0 THEN 0 ELSE t - 1

\* What is due now happens before time goes on.
NothingDue ==
    /\ watch \in {"sleeping", "verifying"} => timer > 0
    /\ engine = "calling" => patience > 0
    /\ \A c \in Cycle : flight[c] = "moving" => due[c] > 0

Aged == IF cap.left = 0 THEN NoCap ELSE [cap EXCEPT !.left = @ - 1]

Pass ==
    /\ NothingDue
    /\ timer' = Less(timer)
    /\ cooldown' = Less(cooldown)
    /\ patience' = Less(patience)
    /\ due' = [c \in Cycle |-> Less(due[c])]
    /\ cap' = Aged
    /\ UNCHANGED <<watch, cycles, engine, failed, handler, flight>>

(***************************************************************************)
(* The specification.                                                      *)
(***************************************************************************)
Watch == PollNothing \/ PollDegraded \/ Measure
Engine == NotApproved \/ Approved \/ Executed \/ CallFails

Next ==
    \/ Watch
    \/ Crash
    \/ Engine
    \/ \E c \in Cycle : Publish(c) \/ HandlerDies(c) \/ Receive(c) \/ Lose(c)
    \/ Pass

\* Time goes on; a program that can go on does, in the end; NATS delivers a
\* message or has lost it.
Fairness ==
    /\ WF_vars(Pass)
    /\ WF_vars(Watch)
    /\ WF_vars(Engine)
    /\ \A c \in Cycle : WF_vars(Receive(c) \/ Lose(c))

Spec == Init /\ [][Next]_vars

FairSpec == Spec /\ Fairness

(***************************************************************************)
(* Properties.                                                             *)
(***************************************************************************)
\* Every variable has its type, and no cycle runs beyond --max-cycles
\* (watch.py:119-130).
TypeOK ==
    /\ watch \in {"sleeping", "waiting", "verifying", "done", "crashed"}
    /\ timer \in Nat /\ cooldown \in 0..Cooldown /\ patience \in 0..CallTimeout
    /\ cycles \in 0..MaxCycles
    /\ engine \in {"idle", "diagnosing", "calling"}
    /\ failed \subseteq Cycle
    /\ handler \in [Cycle -> {"none", "sent", "published", "dead"}]
    /\ flight \in [Cycle -> {"none", "moving", "received", "lost"}]
    /\ due \in [Cycle -> 0..Delay]
    /\ cap \in [by : 0..MaxCycles, left : 0..Duration]

\* "Don't trigger a new action while a previous one is still settling"
\* (config.py:74): an action replaces a cap in force only if the engine saw one
\* of the two calls fail, and so did not wait for it (watch.py:82-85, 127).
OneCapAtATime ==
    [][\A c \in Cycle :
        cap.by # 0 /\ cap'.by = c /\ cap.by # c => {c, cap.by} \cap failed # {}]_vars

\* Every sample that verify_action averages was taken while the action it
\* judges was in force, unless its message was lost or an action that the
\* engine had given up arrived late and replaced it: what is reported as
\* recovered is an action's doing (verify.py:54-76, watch.py:91).
MeasuredUnderCap ==
    watch = "verifying" /\ timer <= Averaged =>
        flight[Current] = "lost" \/ cap.by \in failed \cup {Current}

\* One request to /execute at a time awaits an answer, and no later cycle
\* begins before it is settled: the waits of the script nest.
OneCycleAtATime ==
    /\ watch \in {"sleeping", "verifying", "done"} => engine = "idle"
    /\ watch = "verifying" => handler[Current] = "published" /\ Current \notin failed
    /\ \A c \in Cycle : c > Current => handler[c] = "none"

Target == {"target"}

Promise == INSTANCE Remedy WITH
    Action <- Cycle, Node <- Target, Nobody <- 0,
    sent <- {c \in Cycle : flight[c] # "none"},
    coming <- [n \in Target |-> {c \in Cycle : flight[c] = "moving"}],
    acting <- [n \in Target |-> cap.by],
    alive <- [n \in Target |-> TRUE]

\* The loop in time keeps the promise of the chain without time: the action of
\* a cycle is sent once and in force once, however late it arrives and however
\* the cycle went on (watch.py:58-101, execute.go:159-170, action.go:47-53).
ActionsAreOneShot == Promise!Spec

\* A cycle that started ends: the script polls again, is done, or crashed.
CycleEnds == watch = "waiting" ~> watch \in {"sleeping", "done", "crashed"}
=============================================================================
