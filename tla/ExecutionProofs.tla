--------------------------- MODULE ExecutionProofs ---------------------------
(* Theorems about Execution for every set of requests and nodes and every   *)
(* bound: types, and that nothing acts without approval, that the engine's  *)
(* answers are true, that an answered execution can be verified, that the   *)
(* log reads in order, and that Execution implements Remedy.                *)
EXTENDS Execution, FiniteSetTheorems, SequenceTheorems, TLAPS

USE ConstantsAssumption DEF Request

-----------------------------------------------------------------------------
(* Types. *)

LEMMA TrimType ==
    ASSUME NEW s \in Seq(Request)
    PROVE  Trim(s) \in Seq(Request) /\ Len(Trim(s)) <= RecentMax
<1>1. CASE Len(s) > RecentMax
  <2>1. /\ Len(s) - RecentMax + 1 \in 1..Len(s)
        /\ Len(s) \in Nat
    BY <1>1, LenProperties
  <2>2. SubSeq(s, Len(s) - RecentMax + 1, Len(s)) \in Seq(Request)
    BY <2>1, SubSeqProperties
  <2>3. Len(SubSeq(s, Len(s) - RecentMax + 1, Len(s))) = RecentMax
    BY <2>1, SubSeqProperties
  <2>4. QED BY <1>1, <2>2, <2>3 DEF Trim
<1>2. CASE ~(Len(s) > RecentMax)
  BY <1>2, LenProperties DEF Trim
<1>3. QED BY <1>1, <1>2

LEMMA ReportType ==
    ASSUME NEW r \in Request, NEW o \in Outcome
    PROVE  Report(r, o) \in Seq(Line)
<1> DEFINE line(e) == [event |-> e, action |-> r]
<1>1. line("verified") \in Line /\ line("escalation") \in Line
  BY DEF Line
<1>2. <<line("verified")>> \in Seq(Line)
  BY <1>1
<1>3. <<line("verified"), line("escalation")>> \in Seq(Line)
  BY <1>1
<1>4. QED BY <1>2, <1>3 DEF Report

LEMMA TypeInit == Init => TypeOK
BY DEF Init, TypeOK, Body, CapKind, Stage, Handler, Replied, Unset

LEMMA TypeStep == TypeOK /\ [Next]_vars => TypeOK'
<1> SUFFICES ASSUME TypeOK, [Next]_vars
             PROVE  TypeOK'
  OBVIOUS
<1> USE DEF TypeOK
<1>1. ASSUME NEW v \in Verdict, EngineStep(v)
      PROVE  TypeOK'
  <2>1. CASE Diagnose(v)
    BY <2>1 DEF Diagnose, EngineBody, Stage, plane, agents
  <2>2. CASE SkipExecution(v)
    BY <2>2 DEF SkipExecution, Stage, plane, agents
  <2>3. CASE CallExecute(v)
    BY <2>3 DEF CallExecute, Stage, Handler, plane, agents
  <2>4. CASE GetReply(v)
    BY <2>4 DEF GetReply, Stage, plane, agents
  <2>5. CASE CallFails(v)
    BY <2>5 DEF CallFails, Stage, plane, agents
  <2>6. CASE Register(v)
    BY <2>6 DEF Register, Stage, plane, agents
  <2>7. CASE Answer(v)
    BY <2>7 DEF Answer, Stage, plane, agents
  <2>8. QED BY <1>1, <2>1, <2>2, <2>3, <2>4, <2>5, <2>6, <2>7 DEF EngineStep
<1>2. ASSUME NEW r \in Request, Verify(r)
      PROVE  TypeOK'
  <2>1. PICK o \in Outcome : log' = log \o Report(r, o)
    BY <1>2 DEF Verify
  <2>2. log' \in Seq(Line)
    BY <2>1, ReportType, ConcatProperties
  <2>3. verifies' \in [Request -> 0..MaxVerifies]
    BY <1>2 DEF Verify
  <2>4. QED BY <1>2, <2>2, <2>3 DEF Verify, plane, agents
<1>3. CASE EngineRestart
  BY <1>3 DEF EngineRestart, Stage, plane, agents
<1>4. ASSUME NEW r \in Direct, PostDirect(r)
      PROVE  TypeOK'
  BY <1>4 DEF PostDirect, DirectBody, Handler, engine, agents
<1>5. ASSUME NEW r \in Request, HandlerStep(r)
      PROVE  TypeOK'
  <2>1. CASE Reject(r)
    BY <2>1 DEF Reject, Handler, Replied, engine, agents
  <2>2. CASE Publish(r)
    <3>1. queue' \in [Node -> Seq(Request)]
      BY <2>2 DEF Publish, MayExecute, Body
    <3>2. QED BY <2>2, <3>1 DEF Publish, Handler, engine
  <2>3. CASE PublishFails(r)
    BY <2>3 DEF PublishFails, Handler, engine, agents
  <2>4. CASE Record(r)
    <3>1. Append(recent, r) \in Seq(Request)
      BY AppendProperties
    <3>2. recent' \in Seq(Request) /\ Len(recent') <= RecentMax
      BY <2>4, <3>1, TrimType DEF Record
    <3>3. log' \in Seq(Line)
      BY <2>4, AppendProperties DEF Record, Executed, Line
    <3>4. QED BY <2>4, <3>2, <3>3 DEF Record, Handler, Replied, engine, agents
  <2>5. CASE RecordFails(r)
    BY <2>5 DEF RecordFails, Handler, Replied, engine, agents
  <2>6. QED BY <1>5, <2>1, <2>2, <2>3, <2>4, <2>5 DEF HandlerStep
<1>6. CASE ControlPlaneRestart
  BY <1>6 DEF ControlPlaneRestart, Handler, Replied, engine, agents
<1>7. ASSUME NEW n \in Node, AgentStep(n)
      PROVE  TypeOK'
  <2>1. CASE Deliver(n)
    <3>1. Head(queue[n]) \in Request /\ Tail(queue[n]) \in Seq(Request)
      BY <2>1, HeadTailProperties DEF Deliver
    <3>2. QED BY <2>1, <3>1 DEF Deliver, engine, plane
  <2>2. CASE Lose(n)
    <3>1. Tail(queue[n]) \in Seq(Request)
      BY <2>2, HeadTailProperties DEF Lose
    <3>2. QED BY <2>2, <3>1 DEF Lose, engine, plane
  <2>3. CASE Expire(n)
    BY <2>3 DEF Expire, engine, plane
  <2>4. CASE Kill(n)
    BY <2>4 DEF Kill, engine, plane
  <2>5. QED BY <1>7, <2>1, <2>2, <2>3, <2>4 DEF AgentStep
<1>8. CASE UNCHANGED vars
  BY <1>8 DEF vars, engine, plane, agents
<1>9. QED BY <1>1, <1>2, <1>3, <1>4, <1>5, <1>6, <1>7, <1>8 DEF Next

(* Every reachable state is well typed, and the control-plane never keeps   *)
(* more than RecentMax records (control-plane/execute.go, append).          *)
THEOREM TypeCorrect == Spec => []TypeOK
<1>1. QED BY TypeInit, TypeStep, PTL DEF Spec

-----------------------------------------------------------------------------
(* What the engine and the control-plane know of each verdict.              *)

(* HandlerInv: a handler answers executed only after it published, and      *)
(* what was published passed MayExecute.  CallInv: the engine approves only *)
(* caps on nodes, and a verdict has a handler only after its thread called, *)
(* which it does for approved verdicts with auto_execute alone.  ReplyInv   *)
(* relates a thread's stage, what it reports, and what it registered.       *)
HandlerInv ==
    /\ \A r \in Request : handler[r] \in {"published", "recorded", "unrecorded"} => r \in published
    /\ \A r \in published : handler[r] # "none" /\ MayExecute(body[r])

CallInv ==
    \A v \in Verdict :
        /\ body[v].approved => body[v].node \in Node
        /\ handler[v] # "none" => /\ stage[v] \notin {"idle", "stored"}
                                  /\ body[v].auto /\ body[v].approved
                                  /\ handler[v] # "rejected"

ReplyInv ==
    \A v \in Verdict :
        /\ stage[v] \in {"idle", "stored", "calling"} => execution[v] = "none"
        /\ stage[v] = "registering" => execution[v] = "executed"
        /\ stage[v] = "registered" => execution[v] = "executed" /\ v \in known
        /\ execution[v] = "executed" => handler[v] \in {"recorded", "unrecorded"}

EngineInv ==
    TypeOK /\ HandlerInv /\ CallInv /\ ReplyInv /\ AnswerTruth /\ AnsweredIsVerifiable

LEMMA EngineInit == Init => EngineInv
<1>1. Init => TypeOK
  BY TypeInit
<1>2. QED BY <1>1 DEF Init, EngineInv, HandlerInv, CallInv, ReplyInv, AnswerTruth,
                      AnsweredIsVerifiable, Unset

LEMMA EngineStepInv == EngineInv /\ [Next]_vars => EngineInv'
<1> SUFFICES ASSUME EngineInv, [Next]_vars
             PROVE  EngineInv'
  OBVIOUS
<1>0. TypeOK /\ TypeOK'
  BY TypeStep DEF EngineInv
<1> USE DEF EngineInv, HandlerInv, CallInv, ReplyInv, AnswerTruth, AnsweredIsVerifiable
<1>1. ASSUME NEW v \in Verdict, EngineStep(v)
      PROVE  EngineInv'
  <2>1. CASE Diagnose(v)
    BY <1>0, <2>1 DEF Diagnose, EngineBody, Body, plane, TypeOK
  <2>2. CASE SkipExecution(v)
    BY <1>0, <2>2 DEF SkipExecution, plane, TypeOK
  <2>3. CASE CallExecute(v)
    BY <1>0, <2>3 DEF CallExecute, WantsExecution, TypeOK
  <2>4. CASE GetReply(v)
    BY <1>0, <2>4 DEF GetReply, Replied, plane, TypeOK
  <2>5. CASE CallFails(v)
    BY <1>0, <2>5 DEF CallFails, plane, TypeOK
  <2>6. CASE Register(v)
    BY <1>0, <2>6 DEF Register, plane, TypeOK
  <2>7. CASE Answer(v)
    BY <1>0, <2>7 DEF Answer, plane, TypeOK
  <2>8. QED BY <1>1, <2>1, <2>2, <2>3, <2>4, <2>5, <2>6, <2>7 DEF EngineStep
<1>2. ASSUME NEW r \in Request, Verify(r)
      PROVE  EngineInv'
  BY <1>0, <1>2 DEF Verify, plane
<1>3. CASE EngineRestart
  BY <1>0, <1>3 DEF EngineRestart, plane, TypeOK
<1>4. ASSUME NEW r \in Direct, PostDirect(r)
      PROVE  EngineInv'
  BY <1>0, <1>4 DEF PostDirect, engine, TypeOK
<1>5. ASSUME NEW r \in Request, HandlerStep(r)
      PROVE  EngineInv'
  <2>1. CASE Reject(r)
    <3>1. r \notin Verdict
      BY <2>1, <1>0 DEF Reject, MayExecute
    <3>2. QED BY <1>0, <2>1, <3>1 DEF Reject, engine, TypeOK
  <2>2. CASE Publish(r)
    BY <1>0, <2>2 DEF Publish, engine, TypeOK
  <2>3. CASE PublishFails(r)
    BY <1>0, <2>3 DEF PublishFails, engine, TypeOK
  <2>4. CASE Record(r)
    BY <1>0, <2>4 DEF Record, engine, TypeOK
  <2>5. CASE RecordFails(r)
    BY <1>0, <2>5 DEF RecordFails, engine, TypeOK
  <2>6. QED BY <1>5, <2>1, <2>2, <2>3, <2>4, <2>5 DEF HandlerStep
<1>6. CASE ControlPlaneRestart
  BY <1>0, <1>6 DEF ControlPlaneRestart, InProgress, engine, TypeOK
<1>7. ASSUME NEW n \in Node, AgentStep(n)
      PROVE  EngineInv'
  BY <1>0, <1>7 DEF AgentStep, Deliver, Lose, Expire, Kill, engine, plane
<1>8. CASE UNCHANGED vars
  BY <1>0, <1>8 DEF vars, engine, plane
<1>9. QED BY <1>1, <1>2, <1>3, <1>4, <1>5, <1>6, <1>7, <1>8 DEF Next

(* What the engine reports of an execution is true of the control-plane:    *)
(* executed was published, off and skipped were never sent, and the engine  *)
(* and the control-plane agree on what is approved (main.py:218-225).       *)
THEOREM AnswersTrue == Spec => []AnswerTruth
<1>1. EngineInv => AnswerTruth
  BY DEF EngineInv
<1>2. QED BY <1>1, EngineInit, EngineStepInv, PTL DEF Spec

(* A caller told "executed" can verify the action, and only published       *)
(* actions can be verified (main.py:225-243).                               *)
THEOREM ExecutedVerifiable == Spec => []AnsweredIsVerifiable
<1>1. EngineInv => AnsweredIsVerifiable
  BY DEF EngineInv
<1>2. QED BY <1>1, EngineInit, EngineStepInv, PTL DEF Spec

-----------------------------------------------------------------------------
(* Nothing acts without approval.                                           *)

(* Whatever is on the wire to a node or in force on it was published for    *)
(* that node; with EngineInv, it was approved.                              *)
AgentInv ==
    \A n \in Node :
        /\ \A i \in 1..Len(queue[n]) : queue[n][i] \in published /\ body[queue[n][i]].node = n
        /\ cap[n] # None => /\ cap[n] \in published
                            /\ body[cap[n]].node = n
                            /\ body[cap[n]].kind = CapKind

LEMMA PublishedBodiesFixed ==
    ASSUME EngineInv, [Next]_vars
    PROVE  /\ published \subseteq published'
           /\ \A r \in published : body'[r] = body[r]
<1>0. TypeOK
  BY DEF EngineInv
<1> USE DEF EngineInv, HandlerInv, CallInv
<1>1. ASSUME NEW v \in Verdict, Diagnose(v)
      PROVE  \A r \in published : body'[r] = body[r]
  BY <1>0, <1>1 DEF Diagnose, TypeOK
<1>2. ASSUME NEW r \in Direct, PostDirect(r)
      PROVE  \A s \in published : body'[s] = body[s]
  BY <1>0, <1>2 DEF PostDirect, TypeOK
<1>3. published \subseteq published'
  BY <1>0 DEF Next, EngineStep, HandlerStep, AgentStep, Diagnose, SkipExecution, CallExecute,
       GetReply, CallFails, Register, Answer, Verify, EngineRestart, PostDirect, Reject, Publish,
       PublishFails, Record, RecordFails, ControlPlaneRestart, Deliver, Lose, Expire, Kill,
       vars, engine, plane, agents
<1>4. \/ \E v \in Verdict : Diagnose(v)
      \/ \E r \in Direct : PostDirect(r)
      \/ body' = body
  BY DEF Next, EngineStep, HandlerStep, AgentStep, SkipExecution, CallExecute,
       GetReply, CallFails, Register, Answer, Verify, EngineRestart, Reject, Publish,
       PublishFails, Record, RecordFails, ControlPlaneRestart, Deliver, Lose, Expire, Kill, vars
<1>5. QED BY <1>1, <1>2, <1>3, <1>4

LEMMA AgentStepInv == EngineInv /\ AgentInv /\ [Next]_vars => AgentInv'
<1> SUFFICES ASSUME EngineInv, AgentInv, [Next]_vars
             PROVE  AgentInv'
  OBVIOUS
<1>0. TypeOK
  BY DEF EngineInv
<1>a. /\ published \subseteq published'
      /\ \A r \in published : body'[r] = body[r]
  BY PublishedBodiesFixed
<1>1. CASE queue' = queue /\ cap' = cap
  BY <1>a, <1>1 DEF AgentInv
<1>2. ASSUME NEW r \in Request, Publish(r)
      PROVE  AgentInv'
  <2>1. /\ body' = body /\ r \in published' /\ cap' = cap
        /\ queue' = IF up[body[r].node] THEN [queue EXCEPT ![body[r].node] = Append(@, r)] ELSE queue
    BY <1>2 DEF Publish
  <2>2. SUFFICES ASSUME NEW n \in Node
                 PROVE  \A i \in 1..Len(queue'[n]) :
                          queue'[n][i] \in published' /\ body'[queue'[n][i]].node = n
    BY <1>a, <2>1 DEF AgentInv
  <2>3. queue[n] \in Seq(Request)
    BY <1>0 DEF TypeOK
  <2>4. CASE queue'[n] = queue[n]
    BY <1>a, <2>1, <2>4 DEF AgentInv
  <2>5. CASE queue'[n] = Append(queue[n], r) /\ body[r].node = n
    <3>1. ASSUME NEW i \in 1..Len(queue'[n])
          PROVE  queue'[n][i] = r \/ (i \in 1..Len(queue[n]) /\ queue'[n][i] = queue[n][i])
      BY <2>3, <2>5, AppendProperties
    <3>2. QED BY <1>a, <2>1, <2>5, <3>1 DEF AgentInv
  <2>6. QED BY <1>0, <2>1, <2>4, <2>5 DEF TypeOK
<1>3. ASSUME NEW m \in Node, AgentStep(m)
      PROVE  AgentInv'
  <2>0. queue[m] \in Seq(Request) /\ body' = body /\ published' = published
    BY <1>0, <1>3 DEF TypeOK, AgentStep, Deliver, Lose, Expire, Kill, plane
  <2>1. ASSUME queue[m] # <<>>, queue' = [queue EXCEPT ![m] = Tail(@)]
        PROVE  \A n \in Node : \A i \in 1..Len(queue'[n]) :
                 queue'[n][i] \in published /\ body[queue'[n][i]].node = n
    <3>1. ASSUME NEW i \in 1..Len(Tail(queue[m]))
          PROVE  i + 1 \in 1..Len(queue[m]) /\ Tail(queue[m])[i] = queue[m][i + 1]
      BY <2>0, <2>1, HeadTailProperties
    <3>2. QED BY <1>0, <2>1, <3>1 DEF AgentInv, TypeOK
  <2>2. CASE Deliver(m)
    <3>1. queue[m][1] \in published /\ body[queue[m][1]].node = m
      <4>1. 1 \in 1..Len(queue[m])
        BY <2>0, <2>2, EmptySeq, LenProperties DEF Deliver
      <4>2. QED BY <4>1 DEF AgentInv
    <3>2. Head(queue[m]) = queue[m][1]
      BY <2>0, <2>2, HeadTailProperties DEF Deliver
    <3>3. cap' = cap \/ (cap' = [cap EXCEPT ![m] = queue[m][1]] /\ body[queue[m][1]].kind = CapKind)
      BY <2>2, <3>2 DEF Deliver, Enforces
    <3>4. QED BY <1>0, <2>0, <2>1, <2>2, <3>1, <3>3 DEF Deliver, AgentInv, TypeOK
  <2>3. CASE Lose(m)
    BY <1>0, <2>0, <2>1, <2>3 DEF Lose, AgentInv
  <2>4. CASE Expire(m)
    BY <1>0, <2>0, <2>4 DEF Expire, AgentInv, TypeOK
  <2>5. CASE Kill(m)
    BY <1>0, <2>0, <2>5 DEF Kill, AgentInv, TypeOK
  <2>6. QED BY <1>3, <2>2, <2>3, <2>4, <2>5 DEF AgentStep
<1>4. \/ queue' = queue /\ cap' = cap
      \/ \E r \in Request : Publish(r)
      \/ \E m \in Node : AgentStep(m)
  BY DEF Next, EngineStep, HandlerStep, Diagnose, SkipExecution, CallExecute,
       GetReply, CallFails, Register, Answer, Verify, EngineRestart, PostDirect, Reject,
       PublishFails, Record, RecordFails, ControlPlaneRestart, vars, agents
<1>5. QED BY <1>1, <1>2, <1>3, <1>4

(* Whatever clients post, whatever is lost and whichever process dies, an   *)
(* agent receives and enforces only approved actions for itself             *)
(* (control-plane/execute.go:1-6, 138-156).                                 *)
THEOREM ApprovalEnforced == Spec => []ActsOnlyOnApproval
<1>1. Init => AgentInv
  BY DEF Init, AgentInv
<1>2. EngineInv /\ AgentInv => ActsOnlyOnApproval
  BY DEF EngineInv, HandlerInv, CallInv, AgentInv, ActsOnlyOnApproval, InFlight, MayExecute, TypeOK
<1>3. QED BY <1>1, <1>2, EngineInit, EngineStepInv, AgentStepInv, PTL DEF Spec

-----------------------------------------------------------------------------
(* The log reads in order.                                                  *)

IsLine(l, e, r) == l.event = e /\ l.action = r

(* SettledInv: the engine registers only actions whose handler has got past *)
(* the record, written or not, from where it never moves again.  RecordedInv *)
(* ties the executed lines to the handlers that wrote them.                 *)
Settled == {"recorded", "unrecorded"}

SettledInv == \A r \in known : handler[r] \in Settled

RecordedInv ==
    /\ \A i \in 1..Len(log) : log[i].event = "executed" => handler[log[i].action] = "recorded"
    /\ \A r \in Request : handler[r] = "recorded" =>
         \E i \in 1..Len(log) : IsLine(log[i], "executed", r)

(* What LogOrder asks of a verification or an escalation at i.              *)
Grounded(s, h, i) ==
    /\ s[i].event = "verified" =>
         h[s[i].action] = "unrecorded" \/ \E j \in 1..(i - 1) : IsLine(s[j], "executed", s[i].action)
    /\ s[i].event = "escalation" => i > 1 /\ IsLine(s[i - 1], "verified", s[i].action)

Once(s) ==
    \A i, j \in 1..Len(s) :
        s[i].event = "executed" /\ s[j].event = "executed" /\ s[i].action = s[j].action => i = j

LogInv ==
    SettledInv /\ RecordedInv /\ Once(log) /\ \A i \in 1..Len(log) : Grounded(log, handler, i)

LEMMA LogLines ==
    ASSUME TypeOK
    PROVE  /\ log \in Seq(Line) /\ Len(log) \in Nat
           /\ \A i \in 1..Len(log) : log[i] \in Line /\ log[i].action \in Request
<1>1. log \in Seq(Line) /\ Len(log) \in Nat
  BY LenProperties DEF TypeOK
<1>2. \A i \in 1..Len(log) : log[i] \in Line
  BY <1>1, ElementOfSeq
<1>3. \A l \in Line : l.action \in Request
  BY DEF Line
<1>4. QED BY <1>1, <1>2, <1>3

LEMMA LogOrderParts ==
    ASSUME TypeOK
    PROVE  LogOrder <=> Once(log) /\ \A i \in 1..Len(log) : Grounded(log, handler, i)
<1>0. /\ Len(log) \in Nat
      /\ \A i \in 1..Len(log) : log[i] \in Line
      /\ \A i \in 1..Len(log) : i > 1 => i - 1 \in 1..Len(log)
  BY LogLines
<1>1. \A i \in 1..Len(log) : i > 1 =>
        (log[i - 1] = [event |-> "verified", action |-> log[i].action]
           <=> IsLine(log[i - 1], "verified", log[i].action))
  BY <1>0 DEF IsLine, Line
<1>2. \A i \in 1..Len(log), r \in Request :
        (\E j \in LinesOf("executed") : j < i /\ log[j].action = r)
          <=> \E j \in 1..(i - 1) : IsLine(log[j], "executed", r)
  <2>1. \A i \in 1..Len(log) : \A j \in 1..Len(log) : j < i <=> j \in 1..(i - 1)
    BY <1>0
  <2>2. \A i \in 1..Len(log) : \A j \in 1..(i - 1) : j \in 1..Len(log)
    BY <1>0
  <2>3. QED BY <2>1, <2>2 DEF LinesOf, IsLine
<1>3. \A i \in 1..Len(log) : log[i].action \in Request
  BY LogLines
<1>4. Once(log) <=> \A i, j \in LinesOf("executed") : log[i].action = log[j].action => i = j
  BY DEF Once, LinesOf
<1>5. (\A i \in 1..Len(log) : log[i].event = "verified" =>
         handler[log[i].action] = "unrecorded"
         \/ \E j \in 1..(i - 1) : IsLine(log[j], "executed", log[i].action))
      <=> \A i \in LinesOf("verified") :
         handler[log[i].action] = "unrecorded"
         \/ \E j \in LinesOf("executed") : j < i /\ log[j].action = log[i].action
  BY <1>2, <1>3 DEF LinesOf
<1>6. (\A i \in 1..Len(log) : log[i].event = "escalation" =>
         i > 1 /\ IsLine(log[i - 1], "verified", log[i].action))
      <=> \A i \in LinesOf("escalation") :
         i > 1 /\ log[i - 1] = [event |-> "verified", action |-> log[i].action]
  BY <1>1 DEF LinesOf
<1>7. QED BY <1>4, <1>5, <1>6 DEF LogOrder, Grounded

(* The new lines of a step are at the end; the older ones keep their ground *)
(* as long as the handlers that could not write stay as they are.           *)
LEMMA LogGrows ==
    ASSUME NEW s \in Seq(Line), NEW t \in Seq(Line), NEW h, NEW g,
           \A r \in Request : h[r] = "unrecorded" => g[r] = "unrecorded",
           \A i \in 1..Len(s) : Grounded(s, h, i)
    PROVE  \A i \in 1..Len(s) : Grounded(s \o t, g, i)
<1>1. /\ Len(s) \in Nat /\ Len(t) \in Nat
      /\ \A i \in 1..Len(s) : (s \o t)[i] = s[i]
      /\ \A i \in 1..Len(s) : s[i] \in Line
  BY ConcatProperties, ElementOfSeq, LenProperties
<1>2. TAKE i \in 1..Len(s)
<1>3. /\ \A j \in 1..(i - 1) : j \in 1..Len(s)
      /\ i > 1 => i - 1 \in 1..Len(s)
  BY <1>1
<1>4. s[i].action \in Request
  BY <1>1 DEF Line
<1>5. QED BY <1>1, <1>3, <1>4 DEF Grounded

LEMMA HandlersSettle ==
    ASSUME EngineInv, [Next]_vars
    PROVE  \A r \in Request : handler[r] \in Settled => handler'[r] = handler[r]
<1>0. TypeOK /\ CallInv
  BY DEF EngineInv
<1>1. TAKE r \in Request
<1>2. HAVE handler[r] \in Settled
<1>3. ASSUME NEW v \in Verdict, CallExecute(v) PROVE handler'[r] = handler[r]
  BY <1>0, <1>2, <1>3 DEF CallExecute, CallInv, Settled, TypeOK
<1>4. ASSUME NEW s \in Direct, PostDirect(s) PROVE handler'[r] = handler[r]
  BY <1>0, <1>2, <1>4 DEF PostDirect, Settled, TypeOK
<1>5. ASSUME NEW s \in Request, HandlerStep(s) PROVE handler'[r] = handler[r]
  BY <1>0, <1>2, <1>5 DEF HandlerStep, Reject, Publish, PublishFails, Record, RecordFails, Settled, TypeOK
<1>6. CASE ControlPlaneRestart
  BY <1>0, <1>2, <1>6 DEF ControlPlaneRestart, InProgress, Settled, TypeOK
<1>7. CASE handler' = handler
  BY <1>7
<1>8. QED
  BY <1>3, <1>4, <1>5, <1>6, <1>7 DEF Next, EngineStep, AgentStep, Diagnose, SkipExecution, GetReply,
     CallFails, Register, Answer, Verify, EngineRestart, Deliver, Lose, Expire, Kill, vars, plane

LEMMA KnownSettled == EngineInv /\ SettledInv /\ [Next]_vars => SettledInv'
<1> SUFFICES ASSUME EngineInv, SettledInv, [Next]_vars PROVE SettledInv'
  OBVIOUS
<1>0. TypeOK /\ ReplyInv
  BY DEF EngineInv
<1>1. \A r \in known : r \in Request /\ handler'[r] = handler[r]
  BY <1>0, HandlersSettle DEF SettledInv, TypeOK
<1>2. ASSUME NEW v \in Verdict, Register(v) PROVE SettledInv'
  <2>1. handler[v] \in Settled /\ handler'[v] = handler[v]
    BY <1>0, <1>2, HandlersSettle DEF Register, ReplyInv, Settled
  <2>2. QED BY <1>1, <1>2, <2>1 DEF Register, SettledInv
<1>3. CASE known' \subseteq known
  BY <1>1, <1>3 DEF SettledInv
<1>4. known' \subseteq known \/ \E v \in Verdict : Register(v)
  BY DEF Next, EngineStep, HandlerStep, AgentStep, Diagnose, SkipExecution, CallExecute,
       GetReply, CallFails, Answer, Verify, EngineRestart, PostDirect, Reject, Publish,
       PublishFails, Record, RecordFails, ControlPlaneRestart, Deliver, Lose, Expire, Kill,
       vars, engine, plane, agents
<1>5. QED BY <1>2, <1>3, <1>4

LEMMA RecordKeepsLog ==
    ASSUME EngineInv, LogInv, [Next]_vars, NEW r \in Request, Record(r)
    PROVE  RecordedInv' /\ Once(log)' /\ (\A i \in 1..Len(log) : Grounded(log, handler, i))'
<1>0. TypeOK
  BY DEF EngineInv
<1> DEFINE n == Len(log)
<1>1. /\ n \in Nat /\ Len(log') = n + 1
      /\ log' = log \o <<Executed(r)>>
      /\ log'[n + 1] = Executed(r)
      /\ \A i \in 1..n : log'[i] = log[i]
      /\ \A i \in 1..n : log[i] \in Line /\ log[i].action \in Request
  <2>1. log \in Seq(Line) /\ n \in Nat /\ \A i \in 1..n : log[i] \in Line /\ log[i].action \in Request
    BY <1>0, LogLines
  <2>2. log' = Append(log, Executed(r)) /\ Executed(r) \in Line
    BY DEF Record, Executed, Line
  <2>3. QED BY <2>1, <2>2, AppendProperties
<1>2. /\ handler[r] = "published" /\ handler'[r] = "recorded"
      /\ \A s \in Request : s # r => handler'[s] = handler[s]
  BY <1>0 DEF Record, TypeOK
<1>3. Executed(r).event = "executed" /\ Executed(r).action = r /\ <<Executed(r)>> \in Seq(Line)
  BY DEF Executed, Line
<1>4. \A i \in 1..n : log[i].event = "executed" => log[i].action # r
  BY <1>1, <1>2 DEF LogInv, RecordedInv
<1>5. \A i \in 1..(n + 1) : i \in 1..n \/ i = n + 1
  BY <1>1
<1>6. RecordedInv'
  <2>1. ASSUME NEW i \in 1..(n + 1), log'[i].event = "executed" PROVE handler'[log'[i].action] = "recorded"
    BY <1>1, <1>2, <1>3, <1>5, <2>1 DEF LogInv, RecordedInv
  <2>2. ASSUME NEW s \in Request, handler'[s] = "recorded"
        PROVE  \E i \in 1..(n + 1) : IsLine(log'[i], "executed", s)
    <3>1. CASE s = r
      BY <1>1, <1>3, <3>1 DEF IsLine
    <3>2. CASE s # r
      <4>1. PICK i \in 1..n : IsLine(log[i], "executed", s)
        BY <1>2, <2>2, <3>2 DEF LogInv, RecordedInv
      <4>2. i \in 1..(n + 1)
        BY <1>1
      <4>3. QED BY <1>1, <4>1, <4>2
    <3>3. QED BY <3>1, <3>2
  <2>3. QED BY <1>1, <2>1, <2>2 DEF RecordedInv
<1>7. Once(log)'
  <2>1. ASSUME NEW i \in 1..(n + 1), NEW j \in 1..(n + 1), log'[i].event = "executed",
               log'[j].event = "executed", log'[i].action = log'[j].action
        PROVE  i = j
    BY <1>1, <1>3, <1>4, <1>5, <2>1 DEF LogInv, Once
  <2>2. QED BY <1>1, <2>1 DEF Once
<1>8. \A i \in 1..n : Grounded(log', handler', i)
  <2>1. \A s \in Request : handler[s] = "unrecorded" => handler'[s] = "unrecorded"
    BY <1>2
  <2>2. \A i \in 1..n : Grounded(log \o <<Executed(r)>>, handler', i)
    BY <1>0, <1>3, <2>1, LogGrows DEF LogInv, TypeOK
  <2>3. QED BY <1>1, <2>2
<1>9. Grounded(log', handler', n + 1)
  BY <1>1, <1>3 DEF Grounded
<1>10. QED BY <1>1, <1>5, <1>6, <1>7, <1>8, <1>9

LEMMA VerifyKeepsLog ==
    ASSUME EngineInv, LogInv, [Next]_vars, NEW r \in Request, Verify(r)
    PROVE  RecordedInv' /\ Once(log)' /\ (\A i \in 1..Len(log) : Grounded(log, handler, i))'
<1>0. TypeOK
  BY DEF EngineInv
<1>1. PICK o \in Outcome : log' = log \o Report(r, o)
  BY DEF Verify
<1> DEFINE n == Len(log)
           t == Report(r, o)
<1>2. /\ n \in Nat /\ log \in Seq(Line) /\ t \in Seq(Line)
      /\ \A i \in 1..n : log[i].action \in Request
  BY <1>0, LogLines, ReportType
<1>3. handler' = handler
  BY DEF Verify, plane
<1>4. /\ Len(t) \in {1, 2}
      /\ IsLine(t[1], "verified", r)
      /\ Len(t) = 2 => IsLine(t[2], "escalation", r)
  BY DEF Report, IsLine
<1> HIDE DEF t
<1>5. /\ Len(log') = n + Len(t)
      /\ \A i \in 1..n : log'[i] = log[i]
      /\ log'[n + 1] = t[1]
      /\ Len(t) = 2 => log'[n + 2] = t[2]
  <2>1. /\ log' = log \o t
        /\ Len(log \o t) = n + Len(t)
        /\ \A i \in 1..(n + Len(t)) : (log \o t)[i] = IF i <= n THEN log[i] ELSE t[i - n]
    BY <1>1, <1>2, ConcatProperties DEF t
  <2>2. /\ n + 1 \in 1..(n + Len(t)) /\ (n + 1) - n = 1 /\ ~(n + 1 <= n)
        /\ Len(t) = 2 => n + 2 \in 1..(n + Len(t)) /\ (n + 2) - n = 2 /\ ~(n + 2 <= n)
        /\ \A i \in 1..n : i \in 1..(n + Len(t)) /\ i <= n
    BY <1>2, <1>4
  <2>3. QED BY <2>1, <2>2
<1>6. \A i \in 1..(n + Len(t)) : i \in 1..n \/ i = n + 1 \/ (Len(t) = 2 /\ i = n + 2)
  <2>1. n \in Nat
    BY <1>2
  <2>2. Len(t) = 1 \/ Len(t) = 2
    BY <1>4
  <2> HIDE DEF n
  <2>3. CASE Len(t) = 1
    BY <2>1, <2>3
  <2>4. CASE Len(t) = 2
    BY <2>1, <2>4
  <2>5. QED BY <2>2, <2>3, <2>4
<1>7. \A i \in 1..(n + Len(t)) : log'[i].event = "executed" => i \in 1..n /\ log[i].event = "executed"
  BY <1>4, <1>5, <1>6 DEF IsLine
<1>8. RecordedInv'
  <2>1. ASSUME NEW i \in 1..(n + Len(t)), log'[i].event = "executed" PROVE handler'[log'[i].action] = "recorded"
    BY <1>3, <1>5, <1>7, <2>1 DEF LogInv, RecordedInv
  <2>2. ASSUME NEW s \in Request, handler'[s] = "recorded"
        PROVE  \E i \in 1..(n + Len(t)) : IsLine(log'[i], "executed", s)
    <3>1. PICK i \in 1..n : IsLine(log[i], "executed", s)
      BY <1>3, <2>2 DEF LogInv, RecordedInv
    <3>2. i \in 1..(n + Len(t))
      BY <1>2, <1>4
    <3>3. QED BY <1>5, <3>1, <3>2
  <2>3. QED BY <1>5, <2>1, <2>2 DEF RecordedInv
<1>9. Once(log)'
  <2>1. ASSUME NEW i \in 1..(n + Len(t)), NEW j \in 1..(n + Len(t)), log'[i].event = "executed",
               log'[j].event = "executed", log'[i].action = log'[j].action
        PROVE  i = j
    BY <1>5, <1>7, <2>1 DEF LogInv, Once
  <2>2. QED BY <1>5, <2>1 DEF Once
<1>10. \A i \in 1..n : Grounded(log', handler', i)
  <2>1. \A i \in 1..n : Grounded(log \o t, handler, i)
    BY <1>2, LogGrows DEF LogInv
  <2>2. QED BY <1>1, <1>3, <2>1 DEF t
<1>11. Grounded(log', handler', n + 1)
  <2>1. handler[r] \in Settled
    BY DEF Verify, Verifiable, LogInv, SettledInv
  <2>2. handler[r] = "recorded" => \E i \in 1..n : IsLine(log'[i], "executed", r)
    BY <1>5 DEF LogInv, RecordedInv
  <2>3. (n + 1) - 1 = n
    BY <1>2
  <2>4. QED BY <1>3, <1>4, <1>5, <2>1, <2>2, <2>3 DEF Grounded, Settled, IsLine
<1>12. Len(t) = 2 => Grounded(log', handler', n + 2)
  <2>1. (n + 2) - 1 = n + 1 /\ n + 2 > 1
    BY <1>2
  <2>2. QED BY <1>4, <1>5, <2>1 DEF Grounded, IsLine
<1>13. QED BY <1>5, <1>6, <1>8, <1>9, <1>10, <1>11, <1>12

LEMMA LogStep == EngineInv /\ LogInv /\ [Next]_vars => LogInv'
<1> SUFFICES ASSUME EngineInv, LogInv, [Next]_vars PROVE LogInv'
  OBVIOUS
<1>0. TypeOK /\ SettledInv'
  BY KnownSettled DEF EngineInv, LogInv
<1>1. CASE \E r \in Request : Record(r)
  BY <1>0, <1>1, RecordKeepsLog DEF LogInv
<1>2. CASE \E r \in Request : Verify(r)
  BY <1>0, <1>2, VerifyKeepsLog DEF LogInv
<1>3. CASE log' = log /\ \A r \in Request : handler'[r] = "recorded" => handler[r] = "recorded"
  <2>1. \A r \in Request : handler[r] \in Settled => handler'[r] = handler[r]
    BY HandlersSettle
  <2>2. \A i \in 1..Len(log) : log[i].action \in Request
    BY <1>0, LogLines
  <2>3. RecordedInv'
    BY <1>3, <2>1, <2>2 DEF LogInv, RecordedInv, Settled
  <2>4. \A i \in 1..Len(log) : Grounded(log, handler, i) => Grounded(log, handler', i)
    BY <2>1, <2>2 DEF Grounded, Settled
  <2>5. QED BY <1>0, <1>3, <2>3, <2>4 DEF LogInv, Once
<1>4. \/ \E r \in Request : Record(r)
      \/ \E r \in Request : Verify(r)
      \/ log' = log /\ \A r \in Request : handler'[r] = "recorded" => handler[r] = "recorded"
  <2>1. ASSUME NEW v \in Verdict, EngineStep(v)
        PROVE  log' = log /\ \A r \in Request : handler'[r] = "recorded" => handler[r] = "recorded"
    BY <1>0, <2>1 DEF EngineStep, Diagnose, SkipExecution, CallExecute, GetReply, CallFails, Register, Answer,
       plane, TypeOK
  <2>2. ASSUME NEW r \in Request, HandlerStep(r)
        PROVE  \/ Record(r)
               \/ log' = log /\ \A s \in Request : handler'[s] = "recorded" => handler[s] = "recorded"
    BY <1>0, <2>2 DEF HandlerStep, Reject, Publish, PublishFails, RecordFails, TypeOK
  <2>3. ASSUME NEW r \in Direct, PostDirect(r)
        PROVE  log' = log /\ \A s \in Request : handler'[s] = "recorded" => handler[s] = "recorded"
    BY <1>0, <2>3 DEF PostDirect, TypeOK
  <2>4. CASE EngineRestart \/ ControlPlaneRestart \/ UNCHANGED vars \/ \E n \in Node : AgentStep(n)
    BY <1>0, <2>4 DEF EngineRestart, ControlPlaneRestart, AgentStep, Deliver, Lose, Expire, Kill, vars,
       plane, TypeOK
  <2>5. QED BY <2>1, <2>2, <2>3, <2>4 DEF Next
<1>5. QED BY <1>1, <1>2, <1>3, <1>4

(* The log that two processes append to reads in order: one execution per   *)
(* action, its verifications after it, each escalation right after its      *)
(* verification (control-plane/execute.go:81-100, verify.py:86-99).         *)
THEOREM LogReadsInOrder == Spec => []LogOrder
<1>1. Init => LogInv
  BY DEF Init, LogInv, SettledInv, RecordedInv, Once
<1>2. EngineInv /\ LogInv => LogOrder
  BY LogOrderParts DEF EngineInv, LogInv
<1>3. QED BY <1>1, <1>2, EngineInit, EngineStepInv, LogStep, PTL DEF Spec

-----------------------------------------------------------------------------
(* The records in memory.                                                   *)

ExecutedIn(s) == {m \in 1..Len(s) : s[m].event = "executed"}
LaterIn(s, l) == {m \in ExecutedIn(s) : m > l}

(* recent lists the last executed lines of s: each has as many of them      *)
(* behind it as there are records after its own.                            *)
Tails(q, s) ==
    \A i \in 1..Len(q) : \E l \in ExecutedIn(s) :
        s[l].action = q[i] /\ Cardinality(LaterIn(s, l)) = Len(q) - i

Full(q, s) == Len(q) = RecentMax \/ Len(q) = Cardinality(ExecutedIn(s))

LEMMA RecentParts == RecentIsLogTail <=> Tails(recent, log) /\ (restarts = 0 => Full(recent, log))
BY DEF RecentIsLogTail, Tails, Full, LinesOf, ExecutedIn, LaterIn

LEMMA ExecutedFinite ==
    ASSUME NEW s \in Seq(Line)
    PROVE  /\ IsFiniteSet(ExecutedIn(s)) /\ Cardinality(ExecutedIn(s)) \in Nat
           /\ \A l : IsFiniteSet(LaterIn(s, l)) /\ Cardinality(LaterIn(s, l)) \in Nat
<1>1. IsFiniteSet(1..Len(s))
  BY LenProperties, FS_Interval
<1>2. IsFiniteSet(ExecutedIn(s))
  BY <1>1, FS_Subset DEF ExecutedIn
<1>3. \A l : IsFiniteSet(LaterIn(s, l))
  BY <1>2, FS_Subset DEF LaterIn
<1>4. QED BY <1>2, <1>3, FS_CardinalityType

(* A record that is written joins both at their ends.                       *)
LEMMA RecordJoins ==
    ASSUME NEW s \in Seq(Line), NEW q \in Seq(Request), NEW r \in Request, Tails(q, s)
    PROVE  LET t == Append(s, Executed(r))
               p == Append(q, r)
           IN  /\ Tails(p, t) /\ Len(p) = Len(q) + 1
               /\ Cardinality(ExecutedIn(t)) = Cardinality(ExecutedIn(s)) + 1
<1> DEFINE t == Append(s, Executed(r))
           p == Append(q, r)
           n == Len(s)
           k == Len(q)
<1>1. /\ n \in Nat /\ Len(t) = n + 1 /\ t[n + 1] = Executed(r)
      /\ \A m \in 1..n : t[m] = s[m]
  <2>1. Executed(r) \in Line
    BY DEF Executed, Line
  <2>2. QED BY <2>1, AppendProperties, LenProperties
<1>2. /\ k \in Nat /\ Len(p) = k + 1 /\ p[k + 1] = r
      /\ \A i \in 1..k : p[i] = q[i]
  BY AppendProperties, LenProperties
<1>3. Executed(r).event = "executed" /\ Executed(r).action = r
  BY DEF Executed
<1> HIDE DEF t, p, n, k
<1>4. /\ ExecutedIn(t) = ExecutedIn(s) \cup {n + 1} /\ n + 1 \notin ExecutedIn(s)
      /\ \A l \in ExecutedIn(s) : l \in 1..n /\ LaterIn(t, l) = LaterIn(s, l) \cup {n + 1}
      /\ LaterIn(t, n + 1) = {}
  <2>1. \A m \in 1..(n + 1) : m \in 1..n \/ m = n + 1
    BY <1>1
  <2>2. ExecutedIn(s) \in SUBSET (1..n)
    BY DEF ExecutedIn, n
  <2>3. ExecutedIn(t) = ExecutedIn(s) \cup {n + 1}
    <3>1. \A m \in 1..(n + 1) : m \in ExecutedIn(t) <=> m \in ExecutedIn(s) \cup {n + 1}
      BY <1>1, <1>3, <2>1 DEF ExecutedIn, n
    <3>2. ExecutedIn(t) \in SUBSET (1..(n + 1))
      BY <1>1 DEF ExecutedIn
    <3>3. ExecutedIn(s) \cup {n + 1} \in SUBSET (1..(n + 1))
      BY <1>1, <2>2
    <3>4. QED BY <3>1, <3>2, <3>3
  <2>4. \A l \in 1..n : n + 1 > l
    BY <1>1
  <2>5. \A m \in ExecutedIn(t) : ~(m > n + 1)
    BY <1>1, <2>2, <2>3
  <2>6. n + 1 \notin 1..n
    BY <1>1
  <2>7. QED BY <2>2, <2>3, <2>4, <2>5, <2>6 DEF LaterIn
<1>5. Cardinality(ExecutedIn(t)) = Cardinality(ExecutedIn(s)) + 1
  BY <1>4, ExecutedFinite, FS_AddElement
<1>6. \A l \in ExecutedIn(s) : Cardinality(LaterIn(t, l)) = Cardinality(LaterIn(s, l)) + 1
  <2>1. TAKE l \in ExecutedIn(s)
  <2>2. n + 1 \notin LaterIn(s, l)
    BY <1>4 DEF LaterIn
  <2>3. QED BY <1>4, <2>2, ExecutedFinite, FS_AddElement
<1>7. Tails(p, t)
  <2>1. SUFFICES ASSUME NEW i \in 1..(k + 1)
                 PROVE  \E l \in ExecutedIn(t) :
                          t[l].action = p[i] /\ Cardinality(LaterIn(t, l)) = k + 1 - i
    BY <1>2 DEF Tails
  <2>2. CASE i = k + 1
    <3>1. Cardinality(LaterIn(t, n + 1)) = 0
      BY <1>4, FS_EmptySet
    <3>2. k + 1 - i = 0
      BY <1>2, <2>2
    <3>3. QED BY <1>1, <1>2, <1>3, <1>4, <2>2, <3>1, <3>2
  <2>3. CASE i \in 1..k
    <3>1. PICK l \in ExecutedIn(s) : s[l].action = q[i] /\ Cardinality(LaterIn(s, l)) = k - i
      BY <2>3 DEF Tails, k
    <3>2. t[l].action = p[i]
      BY <1>1, <1>2, <1>4, <2>3, <3>1
    <3>3. Cardinality(LaterIn(t, l)) = k + 1 - i
      BY <1>2, <1>6, <2>3, <3>1
    <3>4. QED BY <1>4, <3>1, <3>2, <3>3
  <2>4. QED BY <1>2, <2>2, <2>3
<1>8. QED BY <1>2, <1>5, <1>7 DEF t, p, k

LEMMA TrimTails ==
    ASSUME NEW q \in Seq(Request), NEW s, Tails(q, s)
    PROVE  /\ Tails(Trim(q), s)
           /\ Len(Trim(q)) = IF Len(q) > RecentMax THEN RecentMax ELSE Len(q)
<1>1. CASE Len(q) > RecentMax
  <2> DEFINE d == Len(q) - RecentMax
             p == SubSeq(q, d + 1, Len(q))
  <2>1. Len(q) \in Nat /\ d \in Nat /\ d + 1 \in 1..Len(q)
    BY <1>1, LenProperties
  <2>2. Trim(q) = p
    BY <1>1 DEF Trim
  <2>3. /\ Len(p) = RecentMax
        /\ \A i \in 1..RecentMax : p[i] = q[d + i]
    <3>1. /\ Len(p) = Len(q) - (d + 1) + 1
          /\ \A i \in 1..(Len(q) - (d + 1) + 1) : p[i] = q[(d + 1) + i - 1]
      BY <2>1, SubSeqProperties
    <3>2. Len(q) - (d + 1) + 1 = RecentMax /\ \A i \in 1..RecentMax : (d + 1) + i - 1 = d + i
      BY <2>1
    <3> HIDE DEF d, p
    <3>3. QED BY <3>1, <3>2
  <2>4. \A i \in 1..RecentMax : d + i \in 1..Len(q) /\ Len(q) - (d + i) = RecentMax - i
    BY <2>1
  <2> HIDE DEF d, p
  <2>5. ASSUME NEW i \in 1..RecentMax
        PROVE  \E l \in ExecutedIn(s) : s[l].action = p[i] /\ Cardinality(LaterIn(s, l)) = RecentMax - i
    <3>1. PICK l \in ExecutedIn(s) :
            s[l].action = q[d + i] /\ Cardinality(LaterIn(s, l)) = Len(q) - (d + i)
      BY <2>4 DEF Tails
    <3>2. QED BY <2>3, <2>4, <3>1
  <2>6. QED BY <1>1, <2>2, <2>3, <2>5 DEF Tails
<1>2. CASE ~(Len(q) > RecentMax)
  BY <1>2 DEF Trim
<1>3. QED BY <1>1, <1>2

(* What is verified adds no executed line.                                  *)
LEMMA ReportAddsNone ==
    ASSUME NEW s \in Seq(Line), NEW r \in Request, NEW o \in Outcome
    PROVE  LET t == s \o Report(r, o)
           IN  ExecutedIn(t) = ExecutedIn(s) /\ \A l \in ExecutedIn(s) : t[l] = s[l]
<1> DEFINE u == Report(r, o)
           t == s \o u
           n == Len(s)
<1>1. n \in Nat /\ u \in Seq(Line) /\ Len(u) \in Nat
  BY ReportType, LenProperties
<1>2. \A j \in 1..Len(u) : u[j].event # "executed"
  BY DEF Report
<1>3. /\ Len(t) = n + Len(u)
      /\ \A i \in 1..(n + Len(u)) : t[i] = IF i <= n THEN s[i] ELSE u[i - n]
  BY <1>1, ConcatProperties
<1> HIDE DEF u, t, n
<1>4. \A i \in 1..n : i \in 1..(n + Len(u)) /\ i <= n
  BY <1>1
<1>5. \A i \in 1..(n + Len(u)) : i \in 1..n \/ (~(i <= n) /\ i - n \in 1..Len(u))
  BY <1>1
<1>6. \A i \in 1..n : i \in 1..Len(t) /\ t[i] = s[i]
  BY <1>3, <1>4
<1>7. \A i \in 1..Len(t) : i \in 1..n \/ t[i].event # "executed"
  BY <1>2, <1>3, <1>5
<1>8. ExecutedIn(t) = ExecutedIn(s) /\ ExecutedIn(s) \in SUBSET (1..n)
  BY <1>6, <1>7 DEF ExecutedIn, n
<1>9. QED BY <1>6, <1>8 DEF t, u

LEMMA RecentStep == TypeOK /\ RecentIsLogTail /\ [Next]_vars => RecentIsLogTail'
<1> SUFFICES ASSUME TypeOK, RecentIsLogTail, [Next]_vars PROVE RecentIsLogTail'
  OBVIOUS
<1>0. /\ log \in Seq(Line) /\ recent \in Seq(Request) /\ restarts \in Nat
      /\ Len(recent) \in Nat /\ Len(recent) <= RecentMax
  BY LenProperties DEF TypeOK
<1>1. Tails(recent, log) /\ (restarts = 0 => Full(recent, log))
  BY RecentParts
<1>2. SUFFICES Tails(recent', log') /\ (restarts' = 0 => Full(recent', log'))
  BY DEF RecentIsLogTail, Tails, Full, LinesOf, ExecutedIn, LaterIn
<1>3. ASSUME NEW r \in Request, Record(r)
      PROVE  Tails(recent', log') /\ (restarts' = 0 => Full(recent', log'))
  <2> DEFINE p == Append(recent, r)
  <2>1. log' = Append(log, Executed(r)) /\ recent' = Trim(p) /\ restarts' = restarts
    BY <1>3 DEF Record
  <2>2. /\ Tails(p, log') /\ Len(p) = Len(recent) + 1
        /\ Cardinality(ExecutedIn(log')) = Cardinality(ExecutedIn(log)) + 1
    BY <1>0, <1>1, <2>1, RecordJoins
  <2>3. p \in Seq(Request)
    BY <1>0, AppendProperties
  <2>4. /\ Tails(recent', log')
        /\ Len(recent') = IF Len(p) > RecentMax THEN RecentMax ELSE Len(p)
    BY <2>1, <2>2, <2>3, TrimTails
  <2>5. Full(recent, log) => Full(recent', log')
    BY <1>0, <2>2, <2>4, ExecutedFinite DEF Full
  <2>6. QED BY <1>1, <2>1, <2>4, <2>5
<1>4. ASSUME NEW r \in Request, Verify(r)
      PROVE  Tails(recent', log') /\ (restarts' = 0 => Full(recent', log'))
  <2>1. PICK o \in Outcome : log' = log \o Report(r, o)
    BY <1>4 DEF Verify
  <2>2. recent' = recent /\ restarts' = restarts
    BY <1>4 DEF Verify, plane
  <2>3. ExecutedIn(log') = ExecutedIn(log) /\ \A l \in ExecutedIn(log) : log'[l] = log[l]
    BY <1>0, <2>1, ReportAddsNone
  <2>4. \A l : LaterIn(log', l) = LaterIn(log, l)
    BY <2>3 DEF LaterIn
  <2>5. QED BY <1>1, <2>2, <2>3, <2>4 DEF Tails, Full
<1>5. CASE log' = log /\ recent' = recent /\ (restarts' = 0 => restarts = 0)
  BY <1>1, <1>5
<1>6. CASE ControlPlaneRestart
  <2>1. recent' = <<>> /\ restarts' = restarts + 1
    BY <1>6 DEF ControlPlaneRestart
  <2>2. Len(recent') = 0 /\ restarts' # 0
    BY <1>0, <2>1
  <2>3. QED BY <2>2 DEF Tails
<1>7. \/ \E r \in Request : Record(r) \/ Verify(r)
      \/ ControlPlaneRestart
      \/ log' = log /\ recent' = recent /\ (restarts' = 0 => restarts = 0)
  BY <1>0 DEF Next, EngineStep, HandlerStep, AgentStep, Diagnose, SkipExecution, CallExecute, GetReply,
     CallFails, Register, Answer, EngineRestart, PostDirect, Reject, Publish, PublishFails, RecordFails,
     Deliver, Lose, Expire, Kill, vars, engine, plane, agents
<1>8. QED BY <1>3, <1>4, <1>5, <1>6, <1>7

(* GET /actions shows the newest executed records in their order on file,   *)
(* however writes, restarts and verifications interleave                    *)
(* (execute.go:81-118).                                                     *)
THEOREM RecentTrue == Spec => []RecentIsLogTail
<1>1. Init => RecentIsLogTail
  <2> SUFFICES ASSUME Init PROVE RecentIsLogTail
    OBVIOUS
  <2>1. log = <<>> /\ recent = <<>> /\ Len(recent) = 0 /\ Len(log) = 0
    BY DEF Init
  <2>2. ExecutedIn(log) = {} /\ \A i \in 1..Len(recent) : FALSE
    BY <2>1 DEF ExecutedIn
  <2>3. Tails(recent, log) /\ Full(recent, log)
    BY <2>1, <2>2, FS_EmptySet DEF Tails, Full
  <2>4. QED BY <2>3, RecentParts
<1>2. QED BY <1>1, RecentStep, TypeCorrect, PTL DEF Spec

-----------------------------------------------------------------------------
(* Every action is one shot.                                                *)

Members(s) == {s[i] : i \in 1..Len(s)}
Distinct(s) == \A i, j \in 1..Len(s) : s[i] = s[j] => i = j

LEMMA FirstTaken ==
    ASSUME NEW s \in Seq(Request), s # <<>>, Distinct(s)
    PROVE  /\ Head(s) \in Members(s)
           /\ Members(Tail(s)) = Members(s) \ {Head(s)}
           /\ Distinct(Tail(s))
<1>1. /\ Len(s) \in Nat \ {0} /\ Head(s) = s[1] /\ 1 \in 1..Len(s)
  BY EmptySeq, LenProperties, HeadTailProperties
<1>2. /\ Tail(s) \in Seq(Request) /\ Len(Tail(s)) = Len(s) - 1
      /\ \A i \in 1..Len(Tail(s)) : Tail(s)[i] = s[i + 1]
  BY HeadTailProperties
<1>3. \A i \in 1..Len(Tail(s)) : i + 1 \in 1..Len(s) /\ i + 1 # 1
  BY <1>1, <1>2
<1>4. \A j \in 1..Len(s) : j # 1 => j - 1 \in 1..Len(Tail(s)) /\ Tail(s)[j - 1] = s[j]
  BY <1>1, <1>2
<1>5. Members(Tail(s)) \subseteq Members(s) \ {Head(s)}
  BY <1>1, <1>2, <1>3 DEF Members, Distinct
<1>6. Members(s) \ {Head(s)} \subseteq Members(Tail(s))
  BY <1>1, <1>4 DEF Members
<1>7. Distinct(Tail(s))
  <2> SUFFICES ASSUME NEW i \in 1..Len(Tail(s)), NEW j \in 1..Len(Tail(s)), Tail(s)[i] = Tail(s)[j]
               PROVE  i = j
    BY DEF Distinct
  <2>1. s[i + 1] = s[j + 1] /\ i + 1 \in 1..Len(s) /\ j + 1 \in 1..Len(s)
    BY <1>2, <1>3
  <2>2. i + 1 = j + 1
    BY <2>1 DEF Distinct
  <2>3. QED BY <1>1, <1>2, <2>2
<1>8. QED BY <1>1, <1>5, <1>6, <1>7 DEF Members

LEMMA LastJoined ==
    ASSUME NEW s \in Seq(Request), NEW r \in Request, r \notin Members(s), Distinct(s)
    PROVE  Members(Append(s, r)) = Members(s) \cup {r} /\ Distinct(Append(s, r))
<1>1. /\ Len(s) \in Nat /\ Len(Append(s, r)) = Len(s) + 1
      /\ Append(s, r)[Len(s) + 1] = r
      /\ \A i \in 1..Len(s) : Append(s, r)[i] = s[i]
  BY LenProperties, AppendProperties
<1>2. \A i \in 1..(Len(s) + 1) : i \in 1..Len(s) \/ i = Len(s) + 1
  BY <1>1
<1>3. 1..Len(s) \subseteq 1..(Len(s) + 1) /\ Len(s) + 1 \in 1..(Len(s) + 1)
  BY <1>1
<1>4. Members(Append(s, r)) = Members(s) \cup {r}
  BY <1>1, <1>2, <1>3 DEF Members
<1>5. Distinct(Append(s, r))
  BY <1>1, <1>2 DEF Members, Distinct
<1>6. QED BY <1>4, <1>5

(* What was published is not sent again, and is in a queue once.            *)
OneShotInv ==
    /\ \A r \in published : handler[r] # "sent"
    /\ \A n \in Node : Distinct(queue[n])

Coming == [n \in Node |-> InFlight(n)]

LEMMA OneShotInit == Init => OneShotInv /\ Promise!Init
<1> SUFFICES ASSUME Init PROVE OneShotInv /\ Promise!Init
  OBVIOUS
<1>1. \A n \in Node : queue[n] = <<>> /\ 1..Len(queue[n]) = {}
  BY DEF Init
<1>2. Distinct(<<>>)
  BY DEF Distinct
<1>3. \A n \in Node : InFlight(n) = {}
  BY <1>1 DEF InFlight
<1>4. OneShotInv
  BY <1>1, <1>2 DEF Init, OneShotInv
<1>5. QED BY <1>3, <1>4 DEF Init, Promise!Init

LEMMA OneShotStep ==
    EngineInv /\ AgentInv /\ OneShotInv /\ [Next]_vars => OneShotInv' /\ [Promise!Next]_(Promise!vars)
<1> SUFFICES ASSUME EngineInv, AgentInv, OneShotInv, [Next]_vars
             PROVE  OneShotInv' /\ [Promise!Next]_(Promise!vars)
  OBVIOUS
<1>0. TypeOK
  BY DEF EngineInv
<1>a. \A n \in Node : InFlight(n) = Members(queue[n]) /\ InFlight(n)' = Members(queue'[n])
  BY DEF InFlight, Members
<1>b. \A n \in Node : queue[n] \in Seq(Request)
  BY <1>0 DEF TypeOK
<1>1. ASSUME UNCHANGED <<published, queue, cap, up>>,
             \A r \in published : handler'[r] = "sent" => handler[r] = "sent"
      PROVE  OneShotInv' /\ [Promise!Next]_(Promise!vars)
  <2>1. OneShotInv'
    BY <1>1 DEF OneShotInv
  <2>2. UNCHANGED Promise!vars
    BY <1>1 DEF Promise!vars, InFlight
  <2>3. QED BY <2>1, <2>2
<1>2. ASSUME NEW r \in Request, Publish(r)
      PROVE  OneShotInv' /\ [Promise!Next]_(Promise!vars)
  <2> DEFINE m == body[r].node
  <2>1. /\ handler[r] = "sent" /\ MayExecute(body[r])
        /\ handler' = [handler EXCEPT ![r] = "published"]
        /\ published' = published \cup {r}
        /\ queue' = IF up[m] THEN [queue EXCEPT ![m] = Append(@, r)] ELSE queue
        /\ cap' = cap /\ up' = up
    BY <1>2 DEF Publish
  <2>2. m \in Node
    BY <1>0, <2>1 DEF MayExecute, TypeOK, Body
  <2>3. r \notin published
    BY <2>1 DEF OneShotInv
  <2>4. r \notin Members(queue[m])
    BY <2>2, <2>3 DEF AgentInv, Members
  <2>5. Distinct(Append(queue[m], r)) /\ Members(Append(queue[m], r)) = Members(queue[m]) \cup {r}
    BY <1>b, <2>2, <2>4, LastJoined DEF OneShotInv
  <2>6. \A n \in Node : queue'[n] = IF up[m] /\ n = m THEN Append(queue[m], r) ELSE queue[n]
    BY <1>0, <2>1, <2>2 DEF TypeOK
  <2>7. OneShotInv'
    BY <1>0, <2>1, <2>5, <2>6 DEF OneShotInv, TypeOK
  <2>8. Coming' = IF up[m] THEN [Coming EXCEPT ![m] = @ \cup {r}] ELSE Coming
    BY <1>a, <2>2, <2>5, <2>6 DEF Coming
  <2>9. Promise!Send(r, m)
    BY <2>1, <2>3, <2>8 DEF Promise!Send, Coming
  <2>10. QED BY <2>2, <2>7, <2>9 DEF Promise!Next
<1>3. ASSUME NEW m \in Node, AgentStep(m)
      PROVE  OneShotInv' /\ [Promise!Next]_(Promise!vars)
  <2>1. handler' = handler /\ published' = published
    BY <1>3 DEF AgentStep, Deliver, Lose, Expire, Kill, plane
  <2>2. ASSUME queue[m] # <<>>, queue' = [queue EXCEPT ![m] = Tail(@)]
        PROVE  /\ OneShotInv'
               /\ Head(queue[m]) \in Request /\ Head(queue[m]) \in InFlight(m)
               /\ Coming' = [Coming EXCEPT ![m] = @ \ {Head(queue[m])}]
    <3>1. /\ Head(queue[m]) \in Members(queue[m])
          /\ Members(Tail(queue[m])) = Members(queue[m]) \ {Head(queue[m])}
          /\ Distinct(Tail(queue[m]))
      BY <1>b, <2>2, FirstTaken DEF OneShotInv
    <3>2. \A n \in Node : queue'[n] = IF n = m THEN Tail(queue[m]) ELSE queue[n]
      BY <1>0, <2>2 DEF TypeOK
    <3>3. OneShotInv'
      BY <2>1, <3>1, <3>2 DEF OneShotInv
    <3>4. Coming' = [Coming EXCEPT ![m] = @ \ {Head(queue[m])}]
      BY <1>a, <3>1, <3>2 DEF Coming
    <3>5. Head(queue[m]) \in Request
      BY <1>b, <2>2, HeadTailProperties
    <3>6. QED BY <1>a, <3>1, <3>3, <3>4, <3>5
  <2>3. CASE Deliver(m)
    <3>1. /\ queue[m] # <<>> /\ queue' = [queue EXCEPT ![m] = Tail(@)] /\ up' = up
          /\ cap' = [cap EXCEPT ![m] = Head(queue[m])] \/ cap' = cap
      BY <2>3 DEF Deliver
    <3>2. Promise!Arrive(Head(queue[m]), m) \/ Promise!Vanish(Head(queue[m]), m)
      BY <2>1, <2>2, <3>1 DEF Promise!Arrive, Promise!Vanish, Coming
    <3>3. QED BY <2>2, <3>1, <3>2 DEF Promise!Next
  <2>4. CASE Lose(m)
    <3>1. queue[m] # <<>> /\ queue' = [queue EXCEPT ![m] = Tail(@)] /\ up' = up /\ cap' = cap
      BY <2>4 DEF Lose
    <3>2. Promise!Vanish(Head(queue[m]), m)
      BY <2>1, <2>2, <3>1 DEF Promise!Vanish, Coming
    <3>3. QED BY <2>2, <3>1, <3>2 DEF Promise!Next
  <2>5. CASE Expire(m)
    <3>1. queue' = queue /\ up' = up /\ cap' = [cap EXCEPT ![m] = None]
      BY <2>5 DEF Expire
    <3>2. Promise!End(m) /\ OneShotInv'
      BY <2>1, <3>1 DEF Promise!End, InFlight, OneShotInv
    <3>3. QED BY <3>2 DEF Promise!Next
  <2>6. CASE Kill(m)
    <3>1. /\ queue' = [queue EXCEPT ![m] = <<>>] /\ up' = [up EXCEPT ![m] = FALSE]
          /\ cap' = [cap EXCEPT ![m] = None]
      BY <2>6 DEF Kill
    <3>2. Distinct(<<>>) /\ Members(<<>>) = {}
      BY DEF Distinct, Members
    <3>3. \A n \in Node : queue'[n] = IF n = m THEN <<>> ELSE queue[n]
      BY <1>0, <3>1 DEF TypeOK
    <3>4. OneShotInv'
      BY <2>1, <3>2, <3>3 DEF OneShotInv
    <3>5. Coming' = [Coming EXCEPT ![m] = {}]
      BY <1>a, <3>2, <3>3 DEF Coming
    <3>6. Promise!Die(m)
      BY <2>1, <3>1, <3>5 DEF Promise!Die, Coming
    <3>7. QED BY <3>4, <3>6 DEF Promise!Next
  <2>7. QED BY <1>3, <2>3, <2>4, <2>5, <2>6 DEF AgentStep
<1>4. ASSUME NEW v \in Verdict, EngineStep(v)
      PROVE  OneShotInv' /\ [Promise!Next]_(Promise!vars)
  <2>1. UNCHANGED <<published, queue, cap, up>>
    BY <1>4 DEF EngineStep, Diagnose, SkipExecution, CallExecute, GetReply, CallFails, Register, Answer,
                plane, agents
  <2>2. CASE CallExecute(v)
    <3>1. v \notin published
      BY <2>2 DEF CallExecute, EngineInv, HandlerInv, CallInv
    <3>2. \A r \in published : handler'[r] = handler[r]
      BY <1>0, <2>2, <3>1 DEF CallExecute, TypeOK
    <3>3. QED BY <1>1, <2>1, <3>2
  <2>3. CASE ~CallExecute(v)
    <3>1. handler' = handler
      BY <1>4, <2>3 DEF EngineStep, Diagnose, SkipExecution, GetReply, CallFails, Register, Answer, plane
    <3>2. QED BY <1>1, <2>1, <3>1
  <2>4. QED BY <2>2, <2>3
<1>5. ASSUME NEW r \in Direct, PostDirect(r)
      PROVE  OneShotInv' /\ [Promise!Next]_(Promise!vars)
  <2>1. r \notin published /\ handler' = [handler EXCEPT ![r] = "sent"]
    BY <1>5 DEF PostDirect, EngineInv, HandlerInv
  <2>2. \A s \in published : handler'[s] = handler[s]
    BY <1>0, <2>1 DEF TypeOK
  <2>3. QED BY <1>1, <1>5, <2>2 DEF PostDirect, agents
<1>6. ASSUME NEW r \in Request, HandlerStep(r), ~Publish(r)
      PROVE  OneShotInv' /\ [Promise!Next]_(Promise!vars)
  <2>1. UNCHANGED <<published, queue, cap, up>>
    BY <1>6 DEF HandlerStep, Reject, PublishFails, Record, RecordFails, agents
  <2>2. \A s \in published : handler'[s] = "sent" => handler[s] = "sent"
    BY <1>0, <1>6 DEF HandlerStep, Reject, PublishFails, Record, RecordFails, TypeOK
  <2>3. QED BY <1>1, <2>1, <2>2
<1>7. CASE ControlPlaneRestart
  <2>1. \A s \in published : handler'[s] # "sent"
    BY <1>0, <1>7 DEF ControlPlaneRestart, InProgress, TypeOK
  <2>2. QED BY <1>1, <1>7, <2>1 DEF ControlPlaneRestart, agents
<1>8. CASE EngineRestart \/ (\E r \in Request : Verify(r)) \/ UNCHANGED vars
  BY <1>1, <1>8 DEF EngineRestart, Verify, vars, plane, agents
<1>9. QED BY <1>2, <1>3, <1>4, <1>5, <1>6, <1>7, <1>8 DEF Next, HandlerStep

(* Whatever times out, fails or restarts, the chain implements Remedy: an   *)
(* action is published once and comes into force once, on one node, and one *)
(* that has ended or was lost does not come back (execute_client.py:15-27,  *)
(* execute.go:159-170, action.go:47-53).                                    *)
THEOREM ExecutionIsOneShot == Spec => ActionsAreOneShot
<1>0. Init => AgentInv
  BY DEF Init, AgentInv
<1>1. Init => EngineInv /\ AgentInv /\ OneShotInv /\ Promise!Init
  BY <1>0, EngineInit, OneShotInit
<1>2. QED
  BY <1>1, EngineStepInv, AgentStepInv, OneShotStep, PTL DEF Spec, ActionsAreOneShot, Promise!Spec
=============================================================================
