------------------------------ MODULE Execution ------------------------------
(***************************************************************************)
(* How an approved verdict becomes a cap on an agent, and what each part   *)
(* of the system then believes about it.                                   *)
(*                                                                         *)
(* The causal-engine serves each POST /diagnose on a thread of its own; if *)
(* the verdict is approved the thread calls the control-plane's POST       *)
(* /execute and waits 10 s for the answer.  The control-plane checks the   *)
(* verdict again, publishes an action message on NATS, records it, answers.*)
(* The agent of the target node holds at most one cap at a time.  Nothing  *)
(* here is transactional: calls time out while the handler goes on,        *)
(* messages are lost, files cannot be written, processes die.              *)
(*                                                                         *)
(* Requests are the verdicts of the engine and the bodies other clients    *)
(* post to /execute.  A handler mints one fresh action id, so the action   *)
(* of request r is named r.                                                *)
(***************************************************************************)
EXTENDS Naturals, Sequences, FiniteSets

CONSTANTS
    Verdict,      \* the POST /diagnose requests of the engine
    Direct,       \* the POST /execute requests of any other client
    Node,         \* the agents
    None,         \* no proposed action; no cap
    Unnamed,      \* a proposed action whose node is ""
    RecentMax,    \* records the control-plane keeps in memory (50)
    MaxRestarts,  \* bound: restarts of the engine and of the control-plane
    MaxVerifies   \* bound: POST /verify per action

Request == Verdict \cup Direct

ASSUME ConstantsAssumption ==
    /\ Verdict \cap Direct = {}
    /\ None \notin Node \cup Request
    /\ Unnamed \notin Node
    /\ Unnamed # None
    /\ RecentMax \in Nat \ {0}
    /\ MaxRestarts \in Nat
    /\ MaxVerifies \in Nat

VARIABLES
    stage,      \* the engine's thread for each verdict
    body,       \* what each request says
    execution,  \* verdict["execution"], as the engine reports it
    known,      \* the actions the engine can verify
    handler,    \* the control-plane's handler of each request
    published,  \* the requests whose action message was published
    queue,      \* per node, the action messages in flight
    cap,        \* per node, the action whose cap is in force
    up,         \* per node, whether the agent runs
    log,        \* experiments/logs/actions.jsonl
    recent,     \* the control-plane's records in memory
    verifies,   \* per action, the verifications done
    restarts    \* the restarts so far

engine == <<stage, execution, known, verifies>>
plane  == <<handler, published, recent>>
agents == <<queue, cap, up>>
vars   == <<engine, body, plane, agents, log, restarts>>

(***************************************************************************)
(* What the parts exchange.                                                *)
(***************************************************************************)
CapKind == "cap_offered_load"

Body == [approved : BOOLEAN,
         auto     : BOOLEAN,
         kind     : {CapKind, "other"},
         node     : Node \cup {None, Unnamed}]

\* The engine proposes nothing but caps on real nodes, and approves only a
\* proposal: _run_diagnosis never approves without an action.
EngineBody == {b \in Body : /\ b.kind = CapKind
                            /\ b.node # Unnamed
                            /\ b.approved => b.node # None}

\* auto_execute is a parameter of POST /diagnose alone.
DirectBody == {b \in Body : ~b.auto}

WantsExecution(b) == b.auto /\ b.approved

\* The control-plane enforces approval again, "not just trusted".
MutMayExecute(b) == b.node \in Node
MayExecute(b) == b.approved /\ b.node \notin {None, Unnamed}

Outcome == {"recovered", "partial", "not_recovered", "unknown"}

Line == [event : {"executed", "verified", "escalation"}, action : Request]

Executed(r) == [event |-> "executed", action |-> r]

Report(r, outcome) ==
    IF outcome = "not_recovered"
    THEN <<[event |-> "verified", action |-> r], [event |-> "escalation", action |-> r]>>
    ELSE <<[event |-> "verified", action |-> r]>>

MutTrim(s) == IF Len(s) > RecentMax THEN SubSeq(s, 1, RecentMax) ELSE s
Trim(s) == IF Len(s) > RecentMax
           THEN SubSeq(s, Len(s) - RecentMax + 1, Len(s))
           ELSE s

Unset == [approved |-> FALSE, auto |-> FALSE, kind |-> CapKind, node |-> None]

Init ==
    /\ stage = [v \in Verdict |-> "idle"]
    /\ body = [r \in Request |-> Unset]
    /\ execution = [v \in Verdict |-> "none"]
    /\ known = {}
    /\ handler = [r \in Request |-> "none"]
    /\ published = {}
    /\ queue = [n \in Node |-> <<>>]
    /\ cap = [n \in Node |-> None]
    /\ up = [n \in Node |-> TRUE]
    /\ log = <<>>
    /\ recent = <<>>
    /\ verifies = [r \in Request |-> 0]
    /\ restarts = 0

(***************************************************************************)
(* The causal-engine.                                                      *)
(***************************************************************************)
\* The verdict is built and stored; from here on it has no "execution" yet.
Diagnose(v) ==
    /\ stage[v] = "idle"
    /\ \E b \in EngineBody : body' = [body EXCEPT ![v] = b]
    /\ stage' = [stage EXCEPT ![v] = "stored"]
    /\ UNCHANGED <<execution, known, verifies, plane, agents, log, restarts>>

SkipExecution(v) ==
    /\ stage[v] = "stored"
    /\ ~WantsExecution(body[v])
    /\ execution' = [execution EXCEPT ![v] = IF body[v].auto THEN "skipped" ELSE "off"]
    /\ stage' = [stage EXCEPT ![v] = "answered"]
    /\ UNCHANGED <<body, known, verifies, plane, agents, log, restarts>>

CallExecute(v) ==
    /\ stage[v] = "stored"
    /\ WantsExecution(body[v])
    /\ stage' = [stage EXCEPT ![v] = "calling"]
    /\ handler' = [handler EXCEPT ![v] = "sent"]
    /\ UNCHANGED <<body, execution, known, verifies, published, recent, agents, log, restarts>>

Replied == {"rejected", "recorded", "unrecorded"}

\* The answer decides "execution"; the action is registered a statement later.
GetReply(v) ==
    /\ stage[v] = "calling"
    /\ handler[v] \in Replied
    /\ LET executed == handler[v] # "rejected"
       IN  /\ execution' = [execution EXCEPT ![v] = IF executed THEN "executed" ELSE "declined"]
           /\ stage' = [stage EXCEPT ![v] = IF executed THEN "registering" ELSE "answered"]
    /\ UNCHANGED <<body, known, verifies, plane, agents, log, restarts>>

\* A timeout, a refused connection, a 500 and a lost answer look the same.
MutCallFails(v) == FALSE
MutRetry(v) ==
    /\ stage[v] = "calling"
    /\ handler' = [handler EXCEPT ![v] = "sent"]
    /\ UNCHANGED <<engine, body, published, recent, agents, log, restarts>>

CallFails(v) ==
    /\ stage[v] = "calling"
    /\ execution' = [execution EXCEPT ![v] = "failed"]
    /\ stage' = [stage EXCEPT ![v] = "answered"]
    /\ UNCHANGED <<body, known, verifies, plane, agents, log, restarts>>

Register(v) ==
    /\ stage[v] = "registering"
    /\ known' = known \cup {v}
    /\ stage' = [stage EXCEPT ![v] = "registered"]
    /\ UNCHANGED <<body, execution, verifies, plane, agents, log, restarts>>

MutAnswer(v) ==
    /\ stage[v] \in {"registering", "registered"}
    /\ stage' = [stage EXCEPT ![v] = "answered"]
    /\ UNCHANGED <<body, known, execution, verifies, plane, agents, log, restarts>>

Answer(v) ==
    /\ stage[v] = "registered"
    /\ stage' = [stage EXCEPT ![v] = "answered"]
    /\ UNCHANGED <<body, known, execution, verifies, plane, agents, log, restarts>>

MutVerifiable(r) == r \in published
Verifiable(r) == r \in known

\* POST /verify looks the action up, settles, measures, and appends.  The command
\* line of verify.py, which appends for any id it is given, is not a part of it.
Verify(r) ==
    /\ Verifiable(r)
    /\ verifies[r] < MaxVerifies
    /\ verifies' = [verifies EXCEPT ![r] = @ + 1]
    /\ \E o \in Outcome : log' = log \o Report(r, o)
    /\ UNCHANGED <<stage, body, execution, known, plane, agents, restarts>>

\* The engine's process ends and starts again: threads and memory are gone.
EngineRestart ==
    /\ restarts < MaxRestarts
    /\ restarts' = restarts + 1
    /\ known' = {}
    /\ stage' = [v \in Verdict |-> IF stage[v] = "idle" THEN "idle" ELSE "gone"]
    /\ UNCHANGED <<body, execution, verifies, plane, agents, log>>

(***************************************************************************)
(* The control-plane.                                                      *)
(***************************************************************************)
\* Another client posts a body of its own, or replays one it has seen.
PostDirect(r) ==
    /\ handler[r] = "none"
    /\ \E b \in DirectBody : body' = [body EXCEPT ![r] = b]
    /\ handler' = [handler EXCEPT ![r] = "sent"]
    /\ UNCHANGED <<engine, published, recent, agents, log, restarts>>

Reject(r) ==
    /\ handler[r] = "sent"
    /\ ~MayExecute(body[r])
    /\ handler' = [handler EXCEPT ![r] = "rejected"]
    /\ UNCHANGED <<engine, body, published, recent, agents, log, restarts>>

\* NATS drops a message nobody is subscribed to.
Publish(r) ==
    /\ handler[r] = "sent"
    /\ MayExecute(body[r])
    /\ handler' = [handler EXCEPT ![r] = "published"]
    /\ published' = published \cup {r}
    /\ LET n == body[r].node
       IN  queue' = IF up[n] THEN [queue EXCEPT ![n] = Append(@, r)] ELSE queue
    /\ UNCHANGED <<engine, body, recent, cap, up, log, restarts>>

MutPublishFails(r) ==
    /\ handler[r] = "sent"
    /\ MayExecute(body[r])
    /\ handler' = [handler EXCEPT ![r] = "unrecorded"]
    /\ UNCHANGED <<engine, body, published, recent, agents, log, restarts>>

\* The 500 of a publish that fails: the engine sees a failed call.
PublishFails(r) ==
    /\ handler[r] = "sent"
    /\ MayExecute(body[r])
    /\ handler' = [handler EXCEPT ![r] = "failed"]
    /\ UNCHANGED <<engine, body, published, recent, agents, log, restarts>>

Record(r) ==
    /\ handler[r] = "published"
    /\ log' = Append(log, Executed(r))
    /\ recent' = Trim(Append(recent, r))
    /\ handler' = [handler EXCEPT ![r] = "recorded"]
    /\ UNCHANGED <<engine, body, published, agents, restarts>>

\* The file cannot be written: append returns before it updates recent, and
\* the handler logs the error and answers executed all the same.
RecordFails(r) ==
    /\ handler[r] = "published"
    /\ handler' = [handler EXCEPT ![r] = "unrecorded"]
    /\ UNCHANGED <<engine, body, published, recent, agents, log, restarts>>

InProgress == {"sent", "published"}

ControlPlaneRestart ==
    /\ restarts < MaxRestarts
    /\ restarts' = restarts + 1
    /\ handler' = [r \in Request |-> IF handler[r] \in InProgress THEN "dead" ELSE handler[r]]
    /\ recent' = <<>>
    /\ UNCHANGED <<engine, body, published, agents, log>>

(***************************************************************************)
(* NATS and the agents.                                                    *)
(***************************************************************************)
Enforces(b) == b.kind = CapKind

\* A cap overwrites the one in force; any other kind is ignored.
Deliver(n) ==
    /\ queue[n] # <<>>
    /\ LET r == Head(queue[n])
       IN  cap' = IF Enforces(body[r]) THEN [cap EXCEPT ![n] = r] ELSE cap
    /\ queue' = [queue EXCEPT ![n] = Tail(@)]
    /\ UNCHANGED <<engine, body, plane, up, log, restarts>>

\* Core NATS delivers at most once.
Lose(n) ==
    /\ queue[n] # <<>>
    /\ queue' = [queue EXCEPT ![n] = Tail(@)]
    /\ UNCHANGED <<engine, body, plane, cap, up, log, restarts>>

\* The duration has passed, counted from the receipt of the message.
Expire(n) ==
    /\ cap[n] # None
    /\ cap' = [cap EXCEPT ![n] = None]
    /\ UNCHANGED <<engine, body, plane, queue, up, log, restarts>>

\* The kill chaos ends the agent's process, and nothing restarts it.
Kill(n) ==
    /\ up[n]
    /\ up' = [up EXCEPT ![n] = FALSE]
    /\ cap' = [cap EXCEPT ![n] = None]
    /\ queue' = [queue EXCEPT ![n] = <<>>]
    /\ UNCHANGED <<engine, body, plane, log, restarts>>

(***************************************************************************)
(* The specification.                                                      *)
(***************************************************************************)
EngineStep(v) ==
    \/ Diagnose(v)
    \/ SkipExecution(v)
    \/ CallExecute(v)
    \/ GetReply(v)
    \/ CallFails(v)
    \/ Register(v)
    \/ Answer(v)

HandlerStep(r) ==
    \/ Reject(r)
    \/ Publish(r)
    \/ PublishFails(r)
    \/ Record(r)
    \/ RecordFails(r)

AgentStep(n) ==
    \/ Deliver(n)
    \/ Lose(n)
    \/ Expire(n)
    \/ Kill(n)

Next ==
    \/ \E v \in Verdict : EngineStep(v)
    \/ \E r \in Request : Verify(r)
    \/ EngineRestart
    \/ \E r \in Direct : PostDirect(r)
    \/ \E r \in Request : HandlerStep(r)
    \/ ControlPlaneRestart
    \/ \E n \in Node : AgentStep(n)

\* A thread of the engine that can go on does, and httpx ends its wait after
\* 10 s; a handler runs to its end; the other steps need not happen.
Fairness ==
    /\ \A v \in Verdict :
         WF_vars(SkipExecution(v) \/ CallExecute(v) \/ GetReply(v) \/ CallFails(v)
                   \/ Register(v) \/ Answer(v))
    /\ \A r \in Request : WF_vars(HandlerStep(r))

Spec == Init /\ [][Next]_vars

FairSpec == Spec /\ Fairness

(***************************************************************************)
(* Properties.                                                             *)
(***************************************************************************)
Stage == {"idle", "stored", "calling", "registering", "registered", "answered", "gone"}
Handler == {"none", "sent", "published", "failed", "dead"} \cup Replied

\* Every variable has its type; recent never outgrows its limit
\* (control-plane/execute.go, append).
TypeOK ==
    /\ stage \in [Verdict -> Stage]
    /\ body \in [Request -> Body]
    /\ execution \in [Verdict -> {"none", "off", "skipped", "failed", "declined", "executed"}]
    /\ known \in SUBSET Verdict
    /\ handler \in [Request -> Handler]
    /\ published \in SUBSET Request
    /\ queue \in [Node -> Seq(Request)]
    /\ cap \in [Node -> Request \cup {None}]
    /\ up \in [Node -> BOOLEAN]
    /\ log \in Seq(Line)
    /\ recent \in Seq(Request) /\ Len(recent) <= RecentMax
    /\ verifies \in [Request -> 0..MaxVerifies]
    /\ restarts \in 0..MaxRestarts

InFlight(n) == {queue[n][i] : i \in 1..Len(queue[n])}

\* No agent is sent, and no agent enforces, anything but an approved action
\* for that very node; an action of the engine also needs auto_execute.  It
\* holds whatever other clients post ("enforced here too, not just trusted
\* from the caller", control-plane/execute.go:4).
ActsOnlyOnApproval ==
    \A n \in Node :
        /\ \A r \in InFlight(n) :
             /\ body[r].approved /\ body[r].node = n
             /\ r \in Verdict => body[r].auto
        /\ cap[n] # None =>
             /\ body[cap[n]].approved /\ body[cap[n]].node = n
             /\ cap[n] \in Verdict => body[cap[n]].auto
             /\ body[cap[n]].kind = CapKind

\* What the engine reports of a verdict is true of the control-plane: an
\* executed one was published, one that is off, skipped or declined never is,
\* and the two sides' approval checks agree, so none is declined
\* (main.py:218-225, execute.go:138-156).
AnswerTruth ==
    \A v \in Verdict :
        /\ execution[v] = "executed" => v \in published
        /\ execution[v] \in {"off", "skipped"} => handler[v] = "none"
        /\ execution[v] # "declined"

\* A caller that was told its action was executed can verify it, unless the
\* engine has restarted since (main.py:225-241); conversely an action the engine
\* can verify was published.
AnsweredIsVerifiable ==
    /\ \A v \in Verdict : stage[v] = "answered" /\ execution[v] = "executed" => v \in known
    /\ known \subseteq published

LinesOf(event) == {i \in 1..Len(log) : log[i].event = event}

\* actions.jsonl, which two processes append to, reads in order: an action is
\* executed in it once; a verification follows the execution it checks unless
\* that record could not be written; an escalation follows its verification.
LogOrder ==
    /\ \A i, j \in LinesOf("executed") : log[i].action = log[j].action => i = j
    /\ \A i \in LinesOf("verified") :
         \/ handler[log[i].action] = "unrecorded"
         \/ \E j \in LinesOf("executed") : j < i /\ log[j].action = log[i].action
    /\ \A i \in LinesOf("escalation") :
         i > 1 /\ log[i-1] = [event |-> "verified", action |-> log[i].action]

\* GET /actions shows the newest executed records in their order on file: all of
\* them up to the limit unless the control-plane restarted (execute.go:102-107).
RecentIsLogTail ==
    LET executed == LinesOf("executed")
        k == Len(recent)
    IN  /\ \A i \in 1..k : \E l \in executed :
             /\ log[l].action = recent[i]
             /\ Cardinality({m \in executed : m > l}) = k - i
        /\ restarts = 0 => (k = RecentMax \/ k = Cardinality(executed))

\* Every diagnosis is answered, or its engine is gone: no failure of the
\* control-plane leaves a caller of POST /diagnose waiting
\* (execute_client.py:15-26).
DiagnosisAnswered ==
    \A v \in Verdict : stage[v] = "stored" ~> stage[v] \in {"answered", "gone"}

Promise == INSTANCE Remedy WITH
    Action <- Request, Nobody <- None,
    sent <- published, coming <- [n \in Node |-> InFlight(n)], acting <- cap, alive <- up

\* Through timeouts, lost messages and restarts every action remains one shot:
\* sent once, in force once, on one node and never again, because nothing on
\* the way repeats what it may already have done (execute_client.py:15-27,
\* execute.go:159-170, action.go:47-53).
ActionsAreOneShot == Promise!Spec

\* The claim that a failed call is "not executed" (execute_client.py:16-19),
\* which lets the orchestrator tell what happened (execute.go:43-45): when the
\* engine reports a failed call, no agent enforces that verdict's action.
FailedMeansNotExecuted ==
    \A v \in Verdict, n \in Node : execution[v] = "failed" => cap[n] # v
=============================================================================
