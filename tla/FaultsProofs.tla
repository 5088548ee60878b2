---------------------------- MODULE FaultsProofs ----------------------------
(* The answer key and the verdict of the validation script, for any         *)
(* topology, any faults and any number of chaos commands; also with the     *)
(* control-plane looking on (module Cluster).                               *)
EXTENDS Cluster, TLAPS

USE FaultsAssumption

(* The type invariant and what it rests on.                                 *)
TypeInv ==
    /\ TypeOK
    /\ \A p \in Process : stage[p] # "new" => fault[p] \in Fault

LEMMA FaultsAre ==
    ASSUME NEW f \in Fault
    PROVE  /\ Addressee(f) \in Node
           /\ f.type = "loss" => f.target \in Names /\ f.target = <<f.target[1], f.target[2]>>
<1>1. CASE f.type = "loss"
  <2>1. PICK l \in Link : f.target \in {l, <<l[2], l[1]>>}
    BY <1>1 DEF Names
  <2>2. l = <<l[1], l[2]>> /\ l[1] \in Node /\ l[2] \in Node
    BY <2>1
  <2>3. QED BY <1>1, <2>1, <2>2 DEF Addressee, Names
<1>2. CASE f.type # "loss"
  BY <1>2 DEF Addressee
<1>3. QED BY <1>1, <1>2

LEMMA TypeInit == Init => TypeInv
BY DEF Init, TypeInv, TypeOK

LEMMA CommandTypes == ASSUME TypeInv, NEW p \in Process, Command(p) PROVE TypeInv'
<1>1. ASSUME NEW f \in Fault, Launch(p, f) PROVE TypeInv'
  BY <1>1 DEF TypeInv, TypeOK, Launch, validation
<1>2. CASE Fire(p)
  BY <1>2 DEF TypeInv, TypeOK, Fire, validation
<1>3. CASE FireFails(p)
  BY <1>3 DEF TypeInv, TypeOK, FireFails, validation
<1>4. CASE Record(p)
  BY <1>4 DEF TypeInv, TypeOK, Record, validation
<1>5. CASE RecordFails(p)
  BY <1>5 DEF TypeInv, TypeOK, RecordFails, validation
<1>6. CASE Interrupt(p)
  BY <1>6 DEF TypeInv, TypeOK, Interrupt, validation
<1>7. QED BY <1>1, <1>2, <1>3, <1>4, <1>5, <1>6 DEF Command

LEMMA ScriptTypes == ASSUME TypeInv, Load \/ Validate \/ Again PROVE TypeInv'
<1>1. CASE Load
  BY <1>1 DEF TypeInv, TypeOK, Load, chaos
<1>2. CASE Skip
  BY <1>2 DEF TypeInv, TypeOK, Skip, chaos
<1>3. CASE DiagnoseFails
  BY <1>3 DEF TypeInv, TypeOK, DiagnoseFails, chaos
<1>4. ASSUME NEW causes \in SUBSET Node, NEW loaded \in SUBSET Node, Diagnosed(causes, loaded)
      PROVE  TypeInv'
  BY <1>4 DEF TypeInv, TypeOK, Diagnosed, chaos
<1>5. CASE Compare
  BY <1>5 DEF TypeInv, TypeOK, Compare, chaos
<1>6. CASE Summarise
  BY <1>6 DEF TypeInv, TypeOK, Summarise, chaos
<1>7. CASE Again
  BY <1>7 DEF TypeInv, TypeOK, Again, chaos
<1>8. QED BY <1>1, <1>2, <1>3, <1>4, <1>5, <1>6, <1>7 DEF Validate, Answer, Concurrent

LEMMA TypeStep == TypeInv /\ [Next]_vars => TypeInv'
<1> SUFFICES ASSUME TypeInv, [Next]_vars PROVE TypeInv'
  OBVIOUS
<1>1. ASSUME NEW p \in Process, Deliver(p) PROVE TypeInv'
  BY <1>1 DEF TypeInv, TypeOK, Deliver, validation
<1>2. ASSUME NEW p \in Process, Lose(p) PROVE TypeInv'
  BY <1>2 DEF TypeInv, TypeOK, Lose, validation
<1>3. ASSUME NEW n \in Node, Restart(n) PROVE TypeInv'
  BY <1>3 DEF TypeInv, TypeOK, Restart, validation
<1>4. CASE UNCHANGED vars
  BY <1>4 DEF vars, chaos, validation, TypeInv, TypeOK
<1>5. QED BY <1>1, <1>2, <1>3, <1>4, CommandTypes, ScriptTypes DEF Next

(* Every variable has its type, and a tally never loses count.              *)
THEOREM TypeCorrect == Spec => []TypeOK
<1>1. TypeInv => TypeOK
  BY DEF TypeInv
<1>2. QED BY <1>1, TypeInit, TypeStep, PTL DEF Spec

-----------------------------------------------------------------------------
(* The answer key.                                                          *)

AccountsInv ==
    /\ TruthAccounts
    /\ \A p \in Process : message[p] # "none" => stage[p] \in {"fired", "done", "unrecorded", "ended"}
    /\ \A p \in Process : stage[p] = "fired" => message[p] # "none"

LEMMA AccountsStep == TypeInv /\ AccountsInv /\ [Next]_vars => AccountsInv'
<1> SUFFICES ASSUME TypeInv, AccountsInv, [Next]_vars PROVE AccountsInv'
  OBVIOUS
<1> USE DEF AccountsInv, TruthAccounts
<1>1. ASSUME NEW p \in Process, NEW f \in Fault, Launch(p, f) PROVE AccountsInv'
  BY <1>1 DEF TypeInv, TypeOK, Launch
<1>2. ASSUME NEW p \in Process, Fire(p) PROVE AccountsInv'
  BY <1>2 DEF TypeInv, TypeOK, Fire
<1>3. ASSUME NEW p \in Process, FireFails(p) \/ RecordFails(p) \/ Interrupt(p) PROVE AccountsInv'
  <2>1. PICK end \in {"ended", "unrecorded"} : stage' = [stage EXCEPT ![p] = end]
    BY <1>3 DEF FireFails, RecordFails, Interrupt
  <2>2. /\ stage[p] \in {"waiting", "fired"} /\ message' = message /\ truth' = truth
        /\ stage \in [Process -> {"new", "waiting", "fired", "done", "unrecorded", "ended"}]
    BY <1>3 DEF TypeInv, TypeOK, FireFails, RecordFails, Interrupt
  <2>3. stage'[p] = end /\ \A q \in Process : q # p => stage'[q] = stage[q]
    BY <2>1, <2>2
  <2>4. QED BY <2>2, <2>3
<1>4. ASSUME NEW p \in Process, Record(p) PROVE AccountsInv'
  <2>1. /\ DOMAIN truth' = 1..Len(truth) + 1
        /\ truth'[Len(truth) + 1] = p
        /\ \A i \in 1..Len(truth) : truth'[i] = truth[i]
        /\ DOMAIN truth = 1..Len(truth) /\ Len(truth) \in Nat
    BY <1>4 DEF TypeInv, TypeOK, Record
  <2>2. \A i \in DOMAIN truth : truth[i] # p
    BY <1>4 DEF Record
  <2>3. /\ stage' = [stage EXCEPT ![p] = "done"] /\ message' = message /\ stage[p] = "fired"
        /\ stage \in [Process -> {"new", "waiting", "fired", "done", "unrecorded", "ended"}]
    BY <1>4 DEF TypeInv, TypeOK, Record
  <2>4. \A q \in Process, i, j \in DOMAIN truth' : truth'[i] = q /\ truth'[j] = q => i = j
    BY <2>1, <2>2
  <2>5. \A q \in Process : (\E i \in DOMAIN truth' : truth'[i] = q) <=> stage'[q] = "done"
    <3>1. TAKE q \in Process
    <3>2. (\E i \in DOMAIN truth' : truth'[i] = q) <=> (q = p \/ \E i \in DOMAIN truth : truth[i] = q)
      BY <2>1
    <3>3. QED BY <2>3, <3>2
  <2>6. QED BY <2>3, <2>4, <2>5
<1>5. ASSUME NEW p \in Process, Deliver(p) \/ Lose(p) PROVE AccountsInv'
  BY <1>5 DEF TypeInv, TypeOK, Deliver, Lose
<1>6. CASE Load \/ Validate \/ Again \/ UNCHANGED vars \/ \E n \in Node : Restart(n)
  <2>1. UNCHANGED <<stage, message, truth>>
    BY <1>6 DEF Load, Validate, Answer, Concurrent, Skip, DiagnoseFails, Diagnosed, Compare, Summarise, Again, Restart,
                vars, chaos
  <2>2. QED BY <2>1
<1>7. QED BY <1>1, <1>2, <1>3, <1>4, <1>5, <1>6 DEF Next, Command

(* The ground truth holds each fault once, after it was sent, and lacks one *)
(* that an agent obeyed only for the reasons named.                         *)
THEOREM TruthIsAccurate == Spec => []TruthAccounts
<1>1. Init => AccountsInv
  BY DEF Init, AccountsInv, TruthAccounts
<1>2. AccountsInv => TruthAccounts
  BY DEF AccountsInv
<1>3. QED BY <1>1, <1>2, TypeInit, TypeStep, AccountsStep, PTL DEF Spec

-----------------------------------------------------------------------------
(* The verdict of the script.                                               *)

(* The tallies say whether there was a hit and whether anything was bad.    *)
TallyInv ==
    /\ script = "idle" => found = <<>> /\ ok = 0 /\ bad = 0
    /\ ok > 0 <=> \E i \in DOMAIN found : found[i] = "hit"
    /\ bad = 0 <=> \A i \in DOMAIN found : found[i] \in {"hit", "skipped"}
    /\ Len(found) <= Len(records)
    /\ PassEarned

LEMMA TallyStep == TypeInv /\ TallyInv /\ [Next]_vars => TallyInv'
<1> SUFFICES ASSUME TypeInv, TallyInv, [Next]_vars PROVE TallyInv'
  OBVIOUS
<1> DEFINE Verdicts == {"skipped", "error", "hit", "miss"}
<1>0. /\ found \in Seq(Verdicts) /\ ok \in Nat /\ bad \in Nat
      /\ Len(found) \in Nat /\ Len(records) \in Nat
  BY DEF TypeInv, TypeOK
<1>1. ASSUME NEW x \in Verdicts, found' = Append(found, x)
      PROVE  /\ Len(found') = Len(found) + 1
             /\ (\E i \in DOMAIN found' : found'[i] = "hit") <=>
                  x = "hit" \/ \E i \in DOMAIN found : found[i] = "hit"
             /\ (\A i \in DOMAIN found' : found'[i] \in {"hit", "skipped"}) <=>
                  /\ x \in {"hit", "skipped"}
                  /\ \A i \in DOMAIN found : found[i] \in {"hit", "skipped"}
  <2>1. /\ Len(found') = Len(found) + 1
        /\ DOMAIN found = 1..Len(found) /\ DOMAIN found' = 1..(Len(found) + 1)
        /\ found'[Len(found) + 1] = x
        /\ \A i \in 1..Len(found) : found'[i] = found[i]
    BY <1>0, <1>1
  <2>2. \A i : i \in DOMAIN found' <=> i \in DOMAIN found \/ i = Len(found) + 1
    BY <1>0, <2>1
  <2>3. \A i \in DOMAIN found : found'[i] = found[i]
    BY <2>1
  <2>4. QED BY <2>1, <2>2, <2>3, Zenon
<1>2. CASE Skip
  BY <1>0, <1>1, <1>2 DEF Skip, TallyInv, PassEarned
<1>3. CASE DiagnoseFails
  BY <1>0, <1>1, <1>3 DEF DiagnoseFails, TallyInv, PassEarned
<1>4. ASSUME NEW causes \in SUBSET Node, NEW loaded \in SUBSET Node, Diagnosed(causes, loaded)
      PROVE  TallyInv'
  <2>1. \/ found' = Append(found, "hit") /\ ok' = ok + 1 /\ bad' = bad
        \/ found' = Append(found, "miss") /\ ok' = ok /\ bad' = bad + 1
    BY <1>4 DEF Diagnosed
  <2>2. records' = records /\ script' = "compare" /\ Len(found) < Len(records)
    BY <1>4 DEF Diagnosed
  <2>3. QED BY <1>0, <1>1, <2>1, <2>2 DEF TallyInv, PassEarned
<1>5. CASE Compare
  BY <1>5 DEF Compare, TallyInv, PassEarned
<1>6. CASE Summarise
  BY <1>0, <1>6 DEF Summarise, TallyInv, PassEarned
<1>7. CASE Load
  BY <1>0, <1>7 DEF Load, TallyInv, PassEarned, TypeInv, TypeOK
<1>8. CASE Again
  BY <1>8 DEF Again, TallyInv, PassEarned
<1>9. CASE UNCHANGED validation
  BY <1>9 DEF validation, TallyInv, PassEarned
<1>10. ASSUME NEW p \in Process, Command(p) \/ Deliver(p) \/ Lose(p)
       PROVE  UNCHANGED validation
  BY <1>10 DEF Command, Launch, Fire, FireFails, Record, RecordFails, Interrupt, Deliver, Lose
<1>11. ASSUME NEW n \in Node, Restart(n) PROVE UNCHANGED validation
  BY <1>11 DEF Restart
<1>12. QED
  BY <1>2, <1>3, <1>4, <1>5, <1>6, <1>7, <1>8, <1>9, <1>10, <1>11 DEF Next, Validate, Answer, Concurrent, vars

(* The script passes exactly if some fault was found and none was missed.   *)
THEOREM VerdictEarned == Spec => []PassEarned
<1>1. Init => TallyInv
  BY DEF Init, TallyInv, PassEarned
<1>2. TallyInv => PassEarned
  BY DEF TallyInv
<1>3. QED BY <1>1, <1>2, TypeInit, TypeStep, TallyStep, PTL DEF Spec

-----------------------------------------------------------------------------
(* The control-plane only looks on: its steps are stutters of Faults.       *)

LEMMA StepsOfFaults == [ClusterNext]_cluster => [Next]_vars
<1> SUFFICES ASSUME ClusterNext PROVE Next \/ UNCHANGED vars
  BY DEF cluster
<1>1. ASSUME NEW p \in Process, Order(p) \/ Strike(p) PROVE Next
  BY <1>1 DEF Order, Strike, Next
<1>2. ASSUME NEW n \in Node, Reboot(n) PROVE Next
  BY <1>2 DEF Reboot, Next
<1>3. CASE Check \/ GoOn
  BY <1>3 DEF Check, GoOn, Next
<1>4. ASSUME NEW n \in Followed, NEW kind \in View!Kind, Tick(n) \/ Hear(kind, n) \/ Miss(kind, n)
      PROVE  UNCHANGED vars
  BY <1>4 DEF Tick, Hear, Miss
<1>5. ASSUME NEW n \in Followed, Tick(n) PROVE UNCHANGED vars
  BY <1>5 DEF Tick
<1>6. CASE Second \/ ControlPlaneRestart
  BY <1>6 DEF Second, ControlPlaneRestart
<1>7. QED BY <1>1, <1>2, <1>3, <1>4, <1>5, <1>6 DEF ClusterNext

(* Whatever the control-plane hears of the agents, and whenever it restarts, *)
(* the ground truth accounts for the faults and a PASS is earned.           *)
THEOREM ClusterKeepsBoth == ClusterSpec => [](TruthAccounts /\ PassEarned)
<1>1. ClusterInit => Init
  BY DEF ClusterInit
<1>2. Init => TypeInv /\ AccountsInv /\ TallyInv
  BY TypeInit DEF Init, AccountsInv, TruthAccounts, TallyInv, PassEarned
<1>3. TypeInv /\ AccountsInv /\ TallyInv /\ [ClusterNext]_cluster => (TypeInv /\ AccountsInv /\ TallyInv)'
  BY StepsOfFaults, TypeStep, AccountsStep, TallyStep
<1>4. AccountsInv /\ TallyInv => TruthAccounts /\ PassEarned
  BY DEF AccountsInv, TallyInv
<1>5. QED BY <1>1, <1>2, <1>3, <1>4, PTL DEF ClusterSpec
=============================================================================
