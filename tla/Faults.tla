------------------------------- MODULE Faults -------------------------------
(***************************************************************************)
(* Injected faults and what is made of them afterwards: chaos commands     *)
(* (chaos/main.go), the agents they reach (agent/main.go, topology.go),    *)
(* the ground truth they leave, and the script that compares it with the   *)
(* engine's diagnoses (experiments/validate_phase3.py).                    *)
(*                                                                         *)
(* A command is one process with one message.  How long an effect lasts is *)
(* module Agent's; how a diagnosis comes about is module Diagnosis's: here *)
(* the engine may answer anything.                                         *)
(***************************************************************************)
EXTENDS Integers, Sequences

CONSTANTS
    Node,
    Link,     \* <<from, to>> as written in topology.yaml
    Process,  \* chaos commands
    Fault,    \* what they may be asked for: type and target
    None

Names == UNION {{l, <<l[2], l[1]>>} : l \in Link}

ASSUME FaultsAssumption ==
    /\ Link \subseteq {l \in Node \X Node : l[1] # l[2]}
    /\ \A f \in Fault :
         \/ f.type \in {"kill", "latency"} /\ f.target \in Node
         \/ f.type = "loss" /\ f.target \in Names
    /\ None \notin Fault

VARIABLES
    up,       \* the agents that run
    stage,    \* how far each chaos command is
    fault,    \* what it injects
    message,  \* what became of its message
    truth,    \* ground_truth.jsonl
    script,   \* what the validation script does
    records,  \* what it has loaded
    found,    \* what it was told of each record so far
    ok,       \* tested_ok
    bad       \* tested_bad

chaos == <<up, stage, fault, message, truth>>
validation == <<script, records, found, ok, bad>>
vars == <<chaos, validation>>

Init ==
    /\ up = Node
    /\ stage = [p \in Process |-> "new"]
    /\ fault = [p \in Process |-> None]
    /\ message = [p \in Process |-> "none"]
    /\ truth = <<>>
    /\ script = "idle" /\ records = <<>> /\ found = <<>> /\ ok = 0 /\ bad = 0

(***************************************************************************)
(* One chaos command.                                                      *)
(***************************************************************************)
Launch(p, f) ==
    /\ stage[p] = "new"
    /\ fault' = [fault EXCEPT ![p] = f]
    /\ stage' = [stage EXCEPT ![p] = "waiting"]
    /\ UNCHANGED <<up, message, truth, validation>>

\* veloca.chaos.<node>: a fault on a link goes to the end that is named first.
Addressee(f) == IF f.type = "loss" THEN f.target[1] ELSE f.target

Fire(p) ==
    /\ stage[p] = "waiting"
    /\ message' = [message EXCEPT ![p] = "sent"]
    /\ stage' = [stage EXCEPT ![p] = "fired"]
    /\ UNCHANGED <<up, fault, truth, validation>>

MutFireFails(p) ==
    /\ stage[p] = "waiting"
    /\ stage' = [stage EXCEPT ![p] = "fired"]
    /\ UNCHANGED <<up, fault, message, truth, validation>>

\* log.Fatalf
FireFails(p) ==
    /\ stage[p] = "waiting"
    /\ stage' = [stage EXCEPT ![p] = "ended"]
    /\ UNCHANGED <<up, fault, message, truth, validation>>

Record(p) ==
    /\ stage[p] = "fired"
    /\ truth' = Append(truth, p)
    /\ stage' = [stage EXCEPT ![p] = "done"]
    /\ UNCHANGED <<up, fault, message, validation>>

\* The error is logged, no more.
RecordFails(p) ==
    /\ stage[p] = "fired"
    /\ stage' = [stage EXCEPT ![p] = "unrecorded"]
    /\ UNCHANGED <<up, fault, message, truth, validation>>

Interrupt(p) ==
    /\ stage[p] \in {"waiting", "fired"}
    /\ stage' = [stage EXCEPT ![p] = "ended"]
    /\ UNCHANGED <<up, fault, message, truth, validation>>

(***************************************************************************)
(* The agents.                                                             *)
(***************************************************************************)
\* neighborForLink: by its name, or as this agent's peer followed by itself.
Knows(n, name) ==
    \E l \in Link : n \in {l[1], l[2]} /\
        \/ name = l
        \/ name[2] = n /\ name[1] \in {l[1], l[2]} \ {n}

Obeys(n, f) == f.type = "loss" => Knows(n, f.target)

\* handleChaos
Deliver(p) ==
    LET f == fault[p]
        n == Addressee(f)
    IN  /\ message[p] = "sent"
        /\ n \in up
        /\ message' = [message EXCEPT ![p] = IF Obeys(n, f) THEN "obeyed" ELSE "ignored"]
        /\ up' = IF f.type = "kill" THEN up \ {n} ELSE up
        /\ UNCHANGED <<stage, fault, truth, validation>>

\* The agent does not run, or the message is lost on its way.
Lose(p) ==
    /\ message[p] = "sent"
    /\ message' = [message EXCEPT ![p] = "lost"]
    /\ UNCHANGED <<up, stage, fault, truth, validation>>

Restart(n) ==
    /\ n \notin up
    /\ up' = up \cup {n}
    /\ UNCHANGED <<stage, fault, message, truth, validation>>

(***************************************************************************)
(* The validation script.                                                  *)
(***************************************************************************)
\* expected_nodes
Expected(f) == IF f.type = "loss" THEN {f.target[1], f.target[2]} ELSE {f.target}

Load ==
    /\ script = "idle"
    /\ records' = truth
    /\ script' = IF truth = <<>> THEN "failed" ELSE "diagnose"
    /\ UNCHANGED <<chaos, found, ok, bad>>

\* The window is not to be had any more (424).
Skip ==
    /\ script = "diagnose" /\ Len(found) < Len(records)
    /\ found' = Append(found, "skipped")
    /\ UNCHANGED <<chaos, script, records, ok, bad>>

MutDiagnoseFails ==
    /\ script = "diagnose" /\ Len(found) < Len(records)
    /\ found' = Append(found, "error")
    /\ UNCHANGED <<chaos, script, records, ok, bad>>

DiagnoseFails ==
    /\ script = "diagnose" /\ Len(found) < Len(records)
    /\ found' = Append(found, "error")
    /\ bad' = bad + 1
    /\ UNCHANGED <<chaos, script, records, ok>>

\* The nodes among root_causes of an answer.
Answer == SUBSET Node

\* concurrent_load_spike_targets: the targets of load runs around the fault.
Concurrent == SUBSET Node

\* A cause that is a target of a concurrent load run is a right answer too.
Diagnosed(causes, loaded) ==
    LET f == fault[records[Len(found) + 1]]
        hit == causes \cap (Expected(f) \cup loaded) # {}
    IN  /\ script = "diagnose" /\ Len(found) < Len(records)
        /\ found' = Append(found, IF hit THEN "hit" ELSE "miss")
        /\ ok' = IF hit THEN ok + 1 ELSE ok
        /\ bad' = IF hit THEN bad ELSE bad + 1
        /\ script' = "compare"
        /\ UNCHANGED <<chaos, records>>

MutCompare ==
    /\ script = "compare"
    /\ UNCHANGED vars

\* Once more by the fast and by the slow path; an exception is only printed.
Compare ==
    /\ script = "compare"
    /\ script' = "diagnose"
    /\ UNCHANGED <<chaos, records, found, ok, bad>>

Summarise ==
    /\ script = "diagnose" /\ Len(found) = Len(records)
    /\ script' = IF ok + bad > 0 /\ bad = 0 THEN "passed" ELSE "failed"
    /\ UNCHANGED <<chaos, records, found, ok, bad>>

\* The script is run again.
Again ==
    /\ script \in {"passed", "failed"}
    /\ script' = "idle" /\ records' = <<>> /\ found' = <<>> /\ ok' = 0 /\ bad' = 0
    /\ UNCHANGED chaos

Command(p) ==
    \/ \E f \in Fault : Launch(p, f)
    \/ Fire(p) \/ FireFails(p) \/ Record(p) \/ RecordFails(p) \/ Interrupt(p)

Validate ==
    \/ Skip \/ DiagnoseFails
    \/ \E causes \in Answer, loaded \in Concurrent : Diagnosed(causes, loaded)
    \/ Compare \/ Summarise

Next ==
    \/ \E p \in Process : Command(p) \/ Deliver(p) \/ Lose(p)
    \/ \E n \in Node : Restart(n)
    \/ Load \/ Validate \/ Again

Spec == Init /\ [][Next]_vars /\ WF_vars(Validate)

(***************************************************************************)
(* Properties.                                                             *)
(***************************************************************************)
\* Commands, messages, records and tallies have their shapes; the tallies count
\* the records that were answered.
TypeOK ==
    /\ up \subseteq Node
    /\ stage \in [Process -> {"new", "waiting", "fired", "done", "unrecorded", "ended"}]
    /\ fault \in [Process -> Fault \cup {None}]
    /\ message \in [Process -> {"none", "sent", "obeyed", "ignored", "lost"}]
    /\ truth \in Seq(Process)
    /\ script \in {"idle", "diagnose", "compare", "passed", "failed"}
    /\ records \in Seq(Process)
    /\ found \in Seq({"skipped", "error", "hit", "miss"})
    /\ ok \in Nat /\ bad \in Nat

\* The answer key against what happened: a fault is recorded at most once, only
\* after its message went out, and by a command that came to its end; a fault
\* an agent obeyed is missing from it only while its command is still writing,
\* was interrupted, or could not write (chaos/main.go:117-129).
TruthAccounts ==
    \A p \in Process :
        /\ \A i, j \in DOMAIN truth : truth[i] = p /\ truth[j] = p => i = j
        /\ (\E i \in DOMAIN truth : truth[i] = p) <=> stage[p] = "done"
        /\ stage[p] = "done" => message[p] # "none"
        /\ message[p] = "obeyed" => stage[p] \in {"fired", "done", "unrecorded", "ended"}

\* PASS means that an expected node was among the root causes of at least one
\* recorded fault, and of every one whose window could still be had; an error
\* or a wrong diagnosis anywhere fails it (validate_phase3.py:92-163).
PassEarned ==
    script \in {"passed", "failed"} =>
        (script = "passed" <=>
            /\ \E i \in DOMAIN found : found[i] = "hit"
            /\ Len(found) = Len(records)
            /\ \A i \in DOMAIN found : found[i] \in {"hit", "skipped"})

\* Every run of the script comes to its verdict: each call has a timeout, and
\* each way a record can end goes on to the next.
ScriptEnds == script = "diagnose" ~> script \in {"passed", "failed"}

\* The claim that a loss fault may name its link "in either direction"
\* (agent/topology.go:94-95): the agent that is told of a fault on a link of
\* the topology applies it, whichever end the operator typed first.
EitherNameWorks == \A p \in Process : fault[p] # None /\ fault[p].type = "loss" => message[p] # "ignored"
=============================================================================
