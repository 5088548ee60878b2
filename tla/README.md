# VELOCA in TLA+

VELOCA is a self-healing loop over a small simulated network: agents (Go) serve
simulated traffic and export metrics; a causal-engine (Python) watches the
metrics, finds the metric that drifts fastest, looks for its cause, and proposes
a *cap on the offered load* of one node; a control-plane (Go) checks the
proposal again and publishes it on NATS; the agent enforces the cap for a while;
the engine verifies whether the target recovered.

This directory holds TLA+ modules translated from that code, TLC configurations
that check them, and theorems checked by TLAPS. `PROJECT.json` ties them to the
source: `map` (definition to lines), `runs`, `mutants` (for every property a
plausible bug that breaks it), `hazards`, `findings`, `theorems`.

    tlc -workers 2 -config MCExecution.cfg MCExecution     # one run
    tlapm ExecutionProofs.tla                              # one proof module

## 1. The system

### Parts, their state and their operations

| Part (under `src/`) | State | Operations |
|---|---|---|
| control-plane `execute.go` | `actionLog.recent` (newest 50), the file `experiments/logs/actions.jsonl` | `POST /execute`: parse, check approval and action, publish and flush, append, answer; `GET /actions` |
| control-plane `main.go`, `topology.go` | registry of nodes: topology, last metrics, `lastSeen` | NATS register and metrics messages; `GET /nodes`, `/topology`, `/healthz`; alive within `aliveWindow` (3 s) |
| causal-engine `main.py` | `_verdicts`, `_verdict_order`, `_actions`; no lock, FastAPI's thread pool | `POST /diagnose` (optionally executing), `POST /verify`, `GET /diagnose/{id}`, `/status`, `/graph/latest`; the background slow re-run |
| causal-engine `execute_client.py`, `verify.py` | none; appends to `actions.jsonl` | call `/execute` with a 10 s timeout; settle, query, classify, append `verified` and `escalation` |
| causal-engine `validate.py` | none | break the cycles of the discovered graph, check for a path, estimate, refute, decide |
| causal-engine `window.py` | none | query Prometheus per column, put on a grid, fill short gaps or raise |
| causal-engine `rootcause.py`, `velocity.py` | none (state of a scan is local) | z-scores, EMA, hysteresis, ranked candidates |
| causal-engine `fast_discovery.py`, `slow_discovery.py` | none | Granger tests; PCMCI |
| `watch.py` | `cooldown_until`, cycles done | poll, diagnose with execution, verify, cool down, stop after `--max-cycles` |
| agent `action.go`, `chaos.go`, `simulate.go`, `main.go` | the cap slot, latency and loss faults, load override, inbound flows, each under its own mutex | one NATS callback per subject; the tick loop (1 s) reads all of them, publishes metrics, forwards flows |
| agent `topology.go`, `metrics.go` | read-only topology; gauges | which fault is for this agent; export |
| chaos command | none | resolve a fault, wait `--at`, publish, write the ground truth |
| loadgen | none | a schedule of multipliers, one load message per node and tick |
| `experiments/`, `infra/`, `docs/` | none of the running system | validation scripts, deployment, reports |

### How they interact

    watch --HTTP--> causal-engine --HTTP 10 s--> control-plane --NATS--> agent
      |                 |  ^                        |                      |
      |                 |  +--- Prometheus <--------|------ /metrics ------+
      |                 +------ actions.jsonl ------+                      |
      +-- /verify --> engine                           agent --NATS--> agents

* Calls are synchronous HTTP; a call that times out does not stop its handler.
* NATS is core NATS: at most once, and dropped when nobody subscribes.
* `actions.jsonl` is written by two processes (control-plane and engine).
* The engine's dictionaries are shared by its threads without a lock; the
  agent's fields by its callbacks and its tick loop, one mutex per field.
* Time couples the parts: how long a cap holds (30 s), how long verification
  settles (15 s) and averages (10 s), how long the loop cools down (20 s).

### What is hard

Threads of the engine that race through the store; a verdict served while it is
being revised; the timeout of `/execute` against its handler; a record that
cannot be written after the action has been published; a process that ends
between two steps; a cap that expires between two reads of a tick; waits that
must fit together; and the two algorithms no test enumerates, breaking cycles in
a dense graph and filling gaps from both sides. `PROJECT.json` lists 39 such
places, each with the properties that cover it or the reason why none does.

### What makes each part correct

* **/execute**: nothing but an approved action for the very node ever reaches
  an agent, whoever posts; none acts twice; what is answered is true; the log
  reads in order.
* **Diagnosis with execution**: every caller is answered; `executed` is told
  truthfully and leads to something verifiable.
* **Verdict store**: keeps the newest verdicts, leaks none, never serves half
  a revision, and every re-run ends.
* **Agent**: every effect is a lease that ends by itself; reported and applied
  loss agree; in the end the agent is back at its baseline.
* **Validation**: a DAG out of every graph, cheaply; the path check is honest.
* **Window**: no invented value, no look-ahead, refusal exactly for wide gaps.
* **Healing loop**: one cycle and one cap at a time, measurement under the cap,
  every cycle ends.
* **Velocity**: the mode changes only across the band, and a burst holds the fast
  path for a while.
* **Diagnosis**: a severe node is not outvoted by edges, the first approved
  candidate is the one that acts, `recovered` is relative to the incident.
* **Registry**: a killed node is in the end taken for dead, a running one for
  alive, over two unordered subscriptions that lose messages.
* **Faults**: the ground truth accounts for what agents obeyed, and the script
  that validates diagnoses against it passes only on what it has seen.

## 2. The modules

Each module heads its definitions with the code they come from; the table gives
the correspondence. Operators named `Mut...` are not part of any specification:
they are the bugs of `mutants`, one or more for every property.

| Module | Models | State and actions against the code |
|---|---|---|
| `Execution` | `main.py` 216-265, `execute_client.py`, `verify.py`, `execute.go`, the cap slot of the agents | `stage`/`execution`/`known` are the engine's thread, `verdict["execution"]`, `_actions`; `handler`/`published`/`recent`/`log` the control-plane's handler, NATS, the log in memory and on file; `queue`/`cap`/`up` the agents. One action per statement at which something else can come between: diagnose, skip, call, reply, failure, register, answer; reject, publish, record, each with its failure; deliver, lose, expire, kill; verify; restarts of both processes |
| `VerdictStore` | `main.py` 45-50, 158-179, 205-241, 255-265 | `order`, `stored`, `verdict` are `_verdict_order`, the keys and the values of `_verdicts`; `pc[w]` is where a thread stands. Steps end where CPython may switch threads: append, length check, pop, delete, and the encoding of an answer |
| `Remedy` | the promise of an action (abstract) | send, arrive, vanish, end, the death of the agent |
| `Lease` | the promise of a timed effect (abstract) | grant, replace, let time pass, revoke |
| `Agent` | `action.go`, `chaos.go`, `simulate.go`, `main.go` | `slot[k]` is one effect (load, cap, latency, loss per link, flow per neighbor) with its flag, value and time left; callbacks `On...`; the tick loop reads effect after effect (`ReadLoad`, `ApplyCap`, `SumInbound`, `ReadLatency`, `Publish`, `Forward`) and clears what expired when it reads it |
| `Validation` | `validate.py` | `work`, `front`, `back` are `remaining`, `s1`, reversed `s2` of the Eades-Lin-Smyth ordering; then `Kept`, the path check and the decision, or an estimate that raises. Iteration order of the graph is any order |
| `HealingLoop` | `watch.py`, `config.py`, with the engine, control-plane and agent reduced to what takes time | `watch`/`timer`/`cooldown`/`cycles` are the script; `engine`/`patience` the diagnosis and the 10 s call; `handler`/`flight`/`due` the action on its way; `cap` what the agent enforces. `Pass` is one unit of time, only when nothing is due |
| `Window` | `window.py` | `value[c][t]` is the index of the sample the value was taken from, 0 for NaN; the queries, `ffill`, `bfill`, the final check |
| `Velocity` | `velocity.py` | `series` is the aggregate load; `ema`/`unit` the smoothed velocity as an exact fraction; `modes` the mode series. One step per sample |
| `Diagnosis` | `main.py` 76-199, `rootcause.py`, `verify.py` 23-83 (EXTENDS `Velocity`) | one request: window, velocity, path, degraded columns and ranking (`Diagnose`), the loop over the candidates (`Try`, `Decide`), a discovery or validation that raises (`Raise`), the classification of `POST /verify`. A reading is how far a column strays above its baseline |
| `Registry` | control-plane `main.go` 46-126, agent `main.go` 94-126 | `seen[n]` is the age of `lastSeen[n]`; `flight` the messages on the two subscriptions; the steps alone, which `Cluster` puts together |
| `Faults` | chaos `main.go`, agent `main.go` and `topology.go` 82-106, `validate_phase3.py` | `stage[p]`/`message[p]` a chaos command and what became of its message; `truth` the file; `script`/`records`/`found`/`ok`/`bad` the validation script |
| `Cluster` | `Faults` and `Registry` together (EXTENDS `Faults`, `View == INSTANCE Registry`) | `up` is the processes of both: the kill of a command ends the agent whose reports the control-plane no longer hears (`Strike`), a restart registers it again (`Reboot`); all other steps are steps of one of the two |

The theorems about a module `M` are in `MProofs`. `MC...` modules give the
constants that a `.cfg` file cannot write; the other runs use the module itself.

`Execution` composes three programs (engine, control-plane, agents) through the
messages and files between them, and takes them in *any* order of events;
`HealingLoop` composes the same chain with the script and with clocks, for the
questions that depend on how long things take. `Faults` composes the chaos
commands, the agents, the ground truth and the validation script, and `Cluster`
puts `Faults` together with `Registry`, in which the control-plane follows whether
the agents live; `Diagnosis`
takes what `Window` delivers, and asks `Validation` for a decision it may give
either way. `Agent` is shown to implement
`Lease` by `Promise == INSTANCE Lease WITH lease <- inForce, left <- remaining`:
what is in force does not depend on when a reader gets round to clearing it.
`Execution` and `HealingLoop`, two views of the same chain, one without clocks and
one with them, are both shown to implement `Remedy`: the sets of actions sent and
on their way, and the one in force on each node, are read off `published`, `queue`
and `cap` in the one and off `flight` and `cap` in the other. An action that is
one shot in both is so because each POST mints its own id, no part of the code
repeats a call, and core NATS delivers at most once (`Deliver` takes the message
off the queue; that is the library's part, not the repository's).

Abstractions used throughout: a verdict, action or request is its identity plus
the few fields the code branches on; ids are the requests themselves (a handler
mints one fresh id); statistics (Granger, PCMCI, DoWhy, classification) are
nondeterministic outcomes; JSON, logging and annotations are left out.

## 3. What TLC checks

| Run | Properties | Bounds | What it shows |
|---|---|---|---|
| `execution` | `ActsOnlyOnApproval`, `AnswerTruth`, `AnsweredIsVerifiable`, `LogOrder`, `RecentIsLogTail`, `DiagnosisAnswered`, `ActionsAreOneShot` | one verdict, one foreign request, two nodes, `RecentMax` 1, two restarts, two verifications per action | only approved actions act; answers are true; the log and its tail are in order; every diagnosis is answered; the refinement of `Remedy` |
| `verdict_store` | `OrderIsNewest`, `StoreMatchesOrder`, `SizeBounded`, `NewestRetained`, `AnswerWhole`, `RefinementSettles` | two threads, a store of two, three verdicts | racing evictions keep the newest verdicts and leak nothing |
| `agent` | `LossReported`, `EffectsAreLeases`, `EverythingWearsOff` | two neighbors, three messages, durations 0 and 1 | the refinement of `Lease`; the tick's two reads of the loss agree; all wears off |
| `validation` | `OrderedOnce`, `KeptAcyclic`, `DagUntouched`, `HalfKept`, `PathDecided` | all graphs over four columns, every tie broken either way | the ordering is right on every graph; an approval has a path, and where there is no cycle a refusal has none |
| `healing_loop` | `MeasuredUnderCap`, `OneCycleAtATime`, `OneCapAtATime`, `CycleEnds`, `ActionsAreOneShot` | the defaults in units of 2.5 s, three cycles | the waits fit together, except after a call that was given up; the refinement of `Remedy` |
| `window` | `NothingInvented`, `NoLookAhead`, `RefusedForGaps` | two columns, seven seconds, limit two: every pattern of missing samples | both fills, and exactly which data is refused |
| `diagnosis` | `ModeByCrossings`, `FastLasts`, `SevereFirst`, `FirstApprovedWins`, `RecoveredIsRelative` | three nodes, five columns, five edges that may be discovered, loads of six samples, `TopN` 2 | from the load series to the classification of the recovery, for every graph and every run of validations |
| `cluster` | `TruthAccounts`, `PassEarned`, `ScriptEnds`, `KillNoticed`, `RunningSeen` | two nodes and their link, two commands (a kill, a loss named from the far end), one node followed by the registry, `AliveWindow` 2 | what the answer key and a PASS are worth; alive follows the agents, under kills, restarts, loss and delay |

`TypeOK` is proved for every module that has theorems, and for none of them is it
listed with a run. Four runs expect a violation; each is a disagreement between the code and what a comment or
document says:

| Run | Claim | What the code does |
|---|---|---|
| `execution_timeout` | `FailedMeansNotExecuted`: a failure is turned into a well-formed "not executed" (`execute_client.py:16-19`) | the handler outlives the call; the cap is enforced, the action cannot be verified |
| `validation_evidence` | `StrongerDirectionKept`: of a mutual pair the stronger evidence is kept (`docs/design.md:124-126`) | the ordering never reads a weight; degrees and ties decide |
| `window_gap` | `WideGapRefused`: a gap wider than the limit is a real hole (`window.py:80-81`) | an inner gap of up to twice the limit is filled from both sides |
| `chaos_link_name` | `EitherNameWorks`: an operator may type a link in either direction (`agent/topology.go:94-95`) | chaos sends the fault to the end that is named first, and an agent knows a reversed name only at the end named last: the fault is ignored and yet recorded |

What the passing runs also show, and a reader may not expect:

* *The path check sees the reduced graph.* `validate.py:132-138` asks for the path
  after cycles were broken, under the name `graph`; so an action may be refused
  although the discovered graph, of which `docs/design.md:114-116` speaks, has the
  path. `PathDecided` says what remains true: approvals always have a path, and on
  an acyclic graph refusals have none.
* *Severity dominates only up to a point.* The ranking adds half points for edges
  and for early onsets, and both grow with the number K of degraded columns:
  `SevereFirst` needs a margin of more than `max(4K-3, 5K-5)` half points, and `15 z`
  against `3 z` (six half points) is not enough any more when K is three. The formula in
  `docs/design.md` mentions no severity and a bonus for the first onset only.
* *Recovered is relative.* A peak of more than five thresholds may fall by 80 %
  and still read as degraded; it is called `recovered`. A target that was never
  above its baseline, in a verdict for the sake of another column of its node, is
  called `recovered` whatever it reads later (`RecoveredIsRelative`). There is no
  third way, for any readings and any threshold (`RecoveryIsRelative`).
* *A dead node may come back for up to three seconds*: a message under way when
  it was killed counts as a sign of life. Hence `KillNoticed` says "in the end".
* *A short window escapes the gap rule*: a column with a single sample in a window
  no longer than the fill limit is filled whole. `RefusedForGaps` therefore assumes
  that the limit is less than the length (5 against 61 or more in the code).

### Why the bounds are enough

* *Execution*: requests do not read each other's state; they meet only in a
  node's queue and cap, in the log and in `recent`. Two requests, one of the
  engine and one foreign, give every pair of them to meet; `RecentMax` 1 makes
  the second record trim; two restarts let both processes end, or one twice.
  The theorems remove these bounds from every safety property.
* *VerdictStore*: eviction starts with the third verdict of a store of two, so
  the two threads race at the limit; the theorems cover every number of threads
  up to the size of the store.
* *Agent*: two neighbors separate a link from the others; durations 0 and 1 are
  the boundary (an effect is in force *at* its expiry) and one past it; three
  messages put a replacement and another effect into one tick. The refinement is
  proved without these bounds.
* *Validation*: four columns are the least with a path through a third column
  beside a cycle through a fourth; the code treats columns uniformly, and the
  theorems hold for every number of them. `HasPath` is the least set that contains
  the source and is closed under edges. The community module's `ConnectionsIn`,
  with which it agrees on every graph over four columns, is defined by a recursive
  function of two arguments, which the prover does not take.
* *HealingLoop*: every constant is the default divided by 2.5 s; three cycles let
  a late action of the first meet both later ones.
* *Window*: seven seconds hold a gap of more than twice the limit with a
  sample on both sides; a fill never looks further than the limit.

* *Diagnosis*: three nodes are the fewest of which two can be ranked before a
  third that `TopN` 2 cuts off; one has two degradable columns and one a column
  that is never degraded, so that a node can be ranked by either. `Front` and
  `Recent` hold a column that stays at its baseline (a peak of zero); `Recent` holds
  the threshold itself, a value above it and an outlier of the kind for which
  the code takes the logarithm; `Later` holds both sides of each fraction for each peak.
  Six samples with a calm prefix of three let a burst trip the fast mode and let
  it go again. The constants
  0.3, 0.4 and 0.15 are the code's.
* *Cluster*: two commands are two records, so that the order and a duplicate could
  show; a kill of the followed node and the loss on its link are the two that
  meet in it. A node's entry in the registry depends on that node alone, so one is
  followed. The window of 2 s has what the code's 3 s has: an age inside, and the
  age at which alive ends. `chaos_link_name` adds the link's own name, so that the
  claim is tried with both. The safety theorems cover every topology, number of
  commands and set of followed nodes.

### Fairness

* `Execution`: a thread of the engine goes on (httpx ends a wait after 10 s,
  `execute_client.py:21`) and a handler runs to its end. Delivery, expiry,
  failures, restarts and other clients are never promised.
* `VerdictStore`: a thread goes on (weak); a queued re-run is served
  by the pool in turn, so it is not passed over for ever by other jobs, each of
  which takes and frees the threads again (strong).
* `Agent`: time passes and the ticker fires (weak, both).
* `HealingLoop`: time passes, the script and the engine go on, and a message is
  in the end received or lost. The control-plane is *not* assumed to go on.
* `Cluster`: the validation script goes on (weak): each of its calls has a timeout
  of 180 s. The clock goes on, a running agent reports, a message does not stay
  under way for ever (weak); NATS loses messages but not every one of the metrics
  that an agent keeps sending (strong, `Hear("metrics", n)`). Commands, kills and
  restarts are never promised.
* `Validation`, `Window`, `Diagnosis`: none; their properties are about safety.

## 4. What TLAPS proves

For every value of the constants that satisfies the named assumption of the
module (TLC evaluates the assumptions in every run).

| Theorem | States | Argument |
|---|---|---|
| `ExecutionProofs!TypeCorrect` | `Spec => []TypeOK` | inductive as it stands, with a lemma on `Trim` for the bound on `recent` |
| `ExecutionProofs!AnswersTrue`, `!ExecutedVerifiable` | `[]AnswerTruth`, `[]AnsweredIsVerifiable` | `EngineInv`: what a handler that got so far implies (`HandlerInv`), what a thread that calls, or no longer calls, implies of its handler (`CallInv`), what a reply implies (`ReplyInv`). Without it nothing forbids a handler that answers for a verdict nobody called for, nor an answer that overtakes the registration |
| `ExecutionProofs!ApprovalEnforced` | `[]ActsOnlyOnApproval` | `AgentInv`: whatever is in a queue or a cap was published for that node; bodies of published requests do not change (`PublishedBodiesFixed`), and `EngineInv` says what they were checked for |
| `VerdictStoreProofs!TypeCorrect`, `!NewestInOrder`, `!NothingLeaks`, `!StoreBounded`, `!EvictionBounded` | the five invariants of the store | `StoreInv`: them together with `EvictingInv` (a bound that counts the threads which have decided to pop but not popped yet, so that `pop(0)` never meets an empty list) and `VictimInv` (victims are distinct and older than the order). Needs `Cardinality(Worker) <= MaxStored`: 40 threads, 50 places |
| `VerdictStoreProofs!AnswersWhole` | `[]AnswerWhole` | `WholeInv`: a stored verdict, and what a GET has seen of it, say `revised` exactly when they carry the revision; an answer gets out only if the set of keys is still the one that was seen |
| `AgentProofs!AgentImplementsLease` | `Spec => EffectsAreLeases` | every step of `Agent` is a grant, a passing of time, a revocation or a stutter of `Lease`; clearing what has expired is a stutter (`ClearingUnseen`) |
| `AgentProofs!ReportCoversLoss` | `[]LossReported` | `ReportInv`: between the report and the forwarding the loss of a link can only fade (`Fades`), by time, by clearing or by a kill, unless the link is struck |
| `AgentProofs!AgentTypeCorrect` | `[]TypeOK` | `DraftInv`, everything but the slots, is inductive; what needs work is that the sum of the inbound flows, a fold over the neighbors, is a number (`SumExists`, `SumsAreNumbers`, below) and that the largest of finitely many losses is one (`MaxIs`) |
| `ValidationProofs!TypeCorrect`, `!ColumnsOrderedOnce`, `!DagsUntouched` | `[]TypeOK`, `[]OrderedOnce`, `[]DagUntouched` | `OrderInv`: front, back and rest are a partition without repetition (`PlacedInv`); without cycles, every front column comes after its predecessors and every back column before its successors, and the rest is empty when the degrees would be looked at (`SortedInv`), because the least-ranked column of a non-empty rest is a source (`SourceExists`). `ListsSet` says what the library's `SetToSeqs` returns; `Positions` turns places in `front` and `back` into positions in the order |
| `ExecutionProofs!ExecutionIsOneShot` | `Spec => ActionsAreOneShot` | every step of `Execution` is a step of `Remedy` or a stutter. `OneShotInv`: a published request is never waiting to be sent again, and no queue has a message twice (`FirstTaken`, `LastJoined`); with `AgentInv`, what is sent anew is in no queue |
| `ExecutionProofs!LogReadsInOrder` | `[]LogOrder` | `LogInv`: an action is in the log as executed once, exactly when its handler has recorded it, and whatever is verified was published and its handler has got past the record, which may have failed (`SettledInv`, `RecordedInv`, `Once`, `Grounded`) |
| `ExecutionProofs!RecentTrue` | `[]RecentIsLogTail` | inductive with the types: a record joins both lists at their ends (`RecordJoins`), `Trim` drops from the front of one (`TrimTails`), a verification adds no executed line (`ReportAddsNone`) |
| `ValidationProofs!NoCycleKept` | `[]KeptAcyclic` | kept edges lead forward in the order, whose positions are distinct (`OrderInvariant`), so that the columns from a position on are closed under them: no path leads back |
| `ValidationProofs!PathsDecided` | `[]PathDecided` | `AnswerInv`: an approval was given for a path in what was kept; such a path is one in the discovered graph, and `DagsUntouched` gives the converse |
| `ValidationProofs!HalfOfEdgesKept` | `[]HalfKept` | `HalfInv`: of the edges with an end that is placed (`Settled`), at least half lead forward (`Forwards`). A source or a sink adds only forward edges; otherwise the chosen column has at least as many edges out as in, because over any set of columns as many edges go out as come in (`SomeBalanced`) |
| `WindowProofs!TypeCorrect`, `!WindowTrue`, `!LooksBackFirst`, `!RefusalByGaps` | `[]TypeOK`, `[]NothingInvented`, `[]NoLookAhead`, `[]RefusedForGaps` | `Progress`: in each phase the values are those of the samples, of the forward fill, or of both. `FilledIs` says what both fills make of a second: the last sample up to it within the limit, or else the first one after it, or nothing, when no sample is that near. A missing second then lies in a gap that is too wide (`LonelyInGap`), and such a gap has a missing second (`GapIsLonely`). The last theorem assumes `Limit < Length` |
| `FaultsProofs!TypeCorrect`, `!TruthIsAccurate`, `!VerdictEarned` | `[]TypeOK`, `[]TruthAccounts`, `[]PassEarned` | the stage of a command says whether it is in the file; the tallies are positive exactly if there is such an answer |
| `FaultsProofs!ClusterKeepsBoth` | `ClusterSpec => [](TruthAccounts /\ PassEarned)` | every step of `Cluster` is a step of `Faults` or leaves it alone (`StepsOfFaults`), so what is inductive there is so here |
| `DiagnosisProofs!HysteresisHolds` | `[]ModeByCrossings` | inductive with the lengths of the two series; the step lemma follows the last sample (`ScanKeepsMode`) |
| `DiagnosisProofs!FastModeLasts` | `[]FastLasts` | `FastInv` bounds the smoothed velocity below by how many samples ago it was above the band. Assumes `Apart`: `Alpha < Scale` and `(Scale - Alpha)^2 * High >= Low * Scale^2`, that is `(1 - alpha)^2 * V_HIGH >= V_LOW`; `CodeApart` shows it of the code's 0.3, 0.4 and 0.15 |
| `DiagnosisProofs!DiagnosisTypeCorrect` | `[]TypeOK` | `VerdictInv` and `RequestInv`, and of the ranking that no node is in it twice (`RankingIs`) |
| `DiagnosisProofs!RecoveryIsRelative` | `[]RecoveredIsRelative` | `RecoveredInv`: the outcome is `Classify` of what was measured and of the peak of the action's node |
| `DiagnosisProofs!SeverityDecides` | `[]SevereFirst` | `RankedInv`: a ranking is what `Ranking` returns for the reading. The lemmas on that operator do the work: counting those ahead is a bijection of the nodes with their places (`PlacesTaken`, `LeadingIs`), edges and onsets weigh at most so much (`ScoreIs`), a node is as good as its best column (`BestIs`), together `RankingIs` |
| `DiagnosisProofs!FirstApproved` | `[]FirstApprovedWins` | `CandidatesInv`: how far the loop has got says what it found; no node is ranked twice (`RankingIs`), so a result is not overwritten |
| `HealingLoopProofs!TypeCorrect`, `!CyclesDoNotOverlap`, `!VerificationMeasuresCap`, `!ActionsKeptApart` | `[]TypeOK`, `[]OneCycleAtATime`, `[]MeasuredUnderCap`, `OneCapAtATime` | from `Calibrated`, the relations between the waits. `LoopInv`: which phases of script, engine and call go together (`Phases`); of earlier calls only those that were given up can still act (`Calls`); and three inequalities between clocks: what a running cap has left while the engine waits (`CallingCap`), while the script settles (`VerifyingCap`), and after the cycle (`PastCap`), which the cooldown outlasts |
| `HealingLoopProofs!LoopIsOneShot` | `Spec => ActionsAreOneShot` | from `LoopInv`: what was not published has no message (`Calls`), so that publishing it is sending it for the first time; `Pass` ends a cap or is a stutter |

`Calibrated` is what the defaults of `config.py` must keep to when they are
changed: `Settle + Cooldown > Delay + Duration`, `CallTimeout + Settle <=
Duration`, and, of the network, `Delay + Averaged < Settle`. The proof needs the
last one to be strict: an action that arrives at the very first averaged second
is too late.

Induction over data is out of the provers' reach, since the library's induction
theorems take an operator as a parameter. Where a proof needs it, it argues by a
least counterexample instead: the order of the numbers and strict inclusion of
finite sets are well-founded, `WFMin` gives a least element of a non-empty *set*
of bad numbers or subsets, and set comprehension makes a set of what would be a
predicate. `SomeBalanced` (the least set of columns over which edges out and in
differ), `MaxIs` and `LeadingIs` (the maximum, and the i-th, of a finite set) and
`SumExists` (the least size up to which the function behind a fold cannot be
built) are of this form.

Every safety invariant, action property and refinement of the runs is a theorem.
Only model-checked is liveness, which needs fairness and ENABLED:
`DiagnosisAnswered`, `RefinementSettles`, `EverythingWearsOff`, `CycleEnds`,
`KillNoticed`, `RunningSeen`, `ScriptEnds`.

## 5. Not modelled, and why

* Statistics: Granger tests, PCMCI, DoWhy's estimate and placebo. The models take
  any outcome; `Diagnosis` and `Validation` start from every graph.
* The queueing formula of the agent's simulation, its queue depth and its jitter:
  floating point and random numbers. The tick that calls it is in `Agent`.
* loadgen: a sequential loop over a schedule in floating point. When it ends and
  with which multiplier depends on rounding, which integers would not show; what
  it sends is any load in `Agent` and any series in `Velocity`.
* `GET` endpoints that only read, except `GET /diagnose/{id}`, which encodes a
  dictionary that others write.
* Grafana annotations and metrics export, which nothing reads back; deployment,
  reports, and the parts of the experiments that only print.
* The windows `validate_phase3.py` asks for. They are 60 s long and end at
  `fault_ts + max(duration, 10) + 5` (line 105): a fault of more than 25 s begins
  in the half that is taken for the baseline, and one of more than 55 s before the
  window. What a diagnosis makes of that is the statistics' matter; in `Faults`
  the engine may answer anything.
* Two refusals of `validate_action` that no caller brings about: a column that is not
  in the window (lines 125-129) and an action without a cap (141-145).
  `_run_diagnosis` takes candidates from the columns of the window and gives each
  action its cap. Nor is the `continue` of `main.py:130-131` in `Diagnosis`: a node
  of a window is a node of `topology.yaml`, which both read from one cached copy.
* The command line of `verify.py` (102-117), which appends a verification of any id
  it is given. `LogOrder` speaks of what the engine and the control-plane append.
* A verdict that is posted to `/execute` more than once acts as often: each post is
  an action of its own, and nothing in the code recognises the verdict.
* `SLOW_PATH_TIMEOUT_S` (`config.py:43-46`), which no code reads; the slow path has
  no limit of its own.
* An outcome `unknown` carries NaN (`verify.py:65`): it is appended to the file, but
  the answer cannot be encoded and becomes a 500. `Diagnosis` has the outcome
  (`VerifyUnknown`), `Execution` what the file says; the encoding is left out.

## 6. Plan

Done, in the order of importance: `Execution`, `VerdictStore`, `Agent` with
`Lease`, `Validation`, `HealingLoop`, `Window`, `Diagnosis` with `Velocity`,
`Faults`, `Registry` and `Cluster`, `Remedy`. All but `Registry`, whose part in
`Cluster` is about liveness, have theorems. What is left:

* a composition of `Diagnosis` with `Validation`, in which a candidate is judged on
  the graph it was ranked with. Both start from every graph; together they exceed
  what TLC explores at a size where ranking and cycles are both of interest;
* safety lemmas for `Registry`, of which its liveness is the other half: the age of
  a node that was killed never falls once its last message is off the wire.
