-------------------------- MODULE HealingLoopProofs --------------------------
(* The waits of the self-healing loop fit together, for all waits that are  *)
(* calibrated and for any number of cycles, and the loop implements Remedy. *)
EXTENDS HealingLoop, TLAPS

USE Calibrated

(***************************************************************************)
(* The inductive invariant.                                                *)
(***************************************************************************)
\* Where the script, the engine and the current call can be together.
Phases ==
    /\ watch # "done" => Current \in Cycle
    /\ watch \in {"sleeping", "verifying", "done"} => engine = "idle"
    /\ watch = "sleeping" \/ engine = "diagnosing" => handler[Current] = "none"
    /\ engine = "calling" => handler[Current] # "none" /\ Current \notin failed
    /\ watch = "verifying" =>
         handler[Current] = "published" /\ Current \notin failed /\ timer <= Settle
    /\ engine # "idle" \/ watch \in {"waiting", "verifying"} => cooldown = 0
    /\ Current \in Cycle /\ handler[Current] # "none" => cooldown = 0

\* What has become of each call: later ones do not exist, and of earlier ones
\* only those that the engine gave up can still act.
Calls ==
    \A c \in Cycle :
        /\ c > Current => handler[c] = "none"
        /\ handler[c] = "none" => c \notin failed
        /\ flight[c] # "none" <=> handler[c] = "published"
        /\ c < Current /\ (handler[c] = "sent" \/ flight[c] = "moving") => c \in failed

CapReceived == cap.by # 0 => flight[cap.by] = "received"

\* The cap of an earlier cycle that the engine waited for ends before the
\* cooldown does.
PastCap ==
    cap.by \notin {0, Current} \cup failed =>
        cap.left + Settle + Cooldown <= Duration + Delay + cooldown

\* While the engine waits for the answer, the cap cannot run down further than
\* it has waited.
CallingCap ==
    engine = "calling" /\ flight[Current] = "received" =>
        /\ cap.by \in failed \cup {Current}
        /\ Duration + patience <= cap.left + CallTimeout

\* While the action is verified it arrives before the averaged samples, holds
\* to their end, and ends soon after.
VerifyingCap ==
    watch = "verifying" =>
        /\ flight[Current] = "moving" => due[Current] + Settle <= Delay + timer
        /\ flight[Current] = "received" => cap.by \in failed \cup {Current} /\ timer <= cap.left
        /\ cap.by = Current => cap.left + Settle <= Duration + Delay + timer

LoopInv == TypeOK /\ Phases /\ Calls /\ CapReceived /\ PastCap /\ CallingCap /\ VerifyingCap

-----------------------------------------------------------------------------
(* The initial state, and facts that every step uses.                       *)

LEMMA LoopInit == Init => LoopInv
<1> SUFFICES ASSUME Init PROVE LoopInv
  OBVIOUS
<1>1. TypeOK /\ 1 \in Cycle
  BY DEF Init, TypeOK, Cycle, NoCap
<1>2. Phases /\ Calls
  BY <1>1 DEF Init, Phases, Calls, Cycle, Current
<1>3. CapReceived /\ PastCap /\ CallingCap /\ VerifyingCap
  BY DEF Init, CapReceived, PastCap, CallingCap, VerifyingCap, NoCap
<1>4. QED BY <1>1, <1>2, <1>3 DEF LoopInv

LEMMA Numbers ==
    /\ \A c \in Cycle : c \in Nat /\ c # 0 /\ c <= MaxCycles
    /\ \A n \in 0..MaxCycles : n # 0 => n \in Cycle
    /\ TypeOK => /\ Current \in Nat \ {0}
                 /\ cap.by \in 0..MaxCycles /\ cap.left \in 0..Duration
<1>1. /\ \A c \in Cycle : c \in Nat /\ c # 0 /\ c <= MaxCycles
      /\ \A n \in 0..MaxCycles : n # 0 => n \in Cycle
  BY DEF Cycle
<1>2. TypeOK => Current \in Nat \ {0}
  BY DEF Current, TypeOK
<1>3. TypeOK => cap.by \in 0..MaxCycles /\ cap.left \in 0..Duration
  BY DEF TypeOK
<1>4. QED BY <1>1, <1>2, <1>3

(* A cap belongs to the current cycle or to an earlier one.                 *)
LEMMA CapOfPast ==
    ASSUME TypeOK, Calls, CapReceived
    PROVE  cap.by \in 0..MaxCycles /\ cap.left \in 0..Duration /\ cap.by <= Current
<1>1. cap.by \in 0..MaxCycles /\ cap.left \in 0..Duration /\ Current \in Nat \ {0}
  BY DEF TypeOK, Current
<1>2. CASE cap.by = 0
  BY <1>1, <1>2
<1>3. CASE cap.by # 0
  <2>1. cap.by \in Cycle /\ handler[cap.by] = "published"
    BY <1>1, <1>3 DEF Cycle, Calls, CapReceived
  <2>2. QED BY <2>1, <1>1 DEF Calls, Cycle
<1>4. QED BY <1>2, <1>3

(* The end of a cycle, however it came about: its call is given up or all   *)
(* over, and its cap leaves less than the cooldown, or was given up too.    *)
LEMMA CycleOver ==
    ASSUME LoopInv, EndCycle, Current \in Cycle, cooldown = 0, engine' = "idle",
           failed' \subseteq Cycle, failed \subseteq failed', failed' \subseteq failed \cup {Current},
           handler[Current] = "none" => Current \notin failed',
           handler[Current] = "sent" \/ flight[Current] = "moving" => Current \in failed',
           cap.by = Current => Current \in failed' \/ cap.left + Settle <= Duration + Delay,
           patience' = patience, UNCHANGED <<handler, flight, due, cap>>
    PROVE  LoopInv'
<1> USE DEF LoopInv
<1>1. /\ cycles' = Current /\ cooldown' = Cooldown /\ timer' = Interval
      /\ watch' \in {"sleeping", "done"} /\ (watch' = "done" <=> Current >= MaxCycles)
  BY DEF EndCycle
<1>2. Current \in 1..MaxCycles /\ Current' = Current + 1
  BY <1>1 DEF Current, Cycle
<1>3. TypeOK'
  BY <1>1, <1>2 DEF TypeOK
<1>4. Calls'
  BY <1>2 DEF Calls, Cycle
<1>5. Phases'
  <2>1. watch' # "done" => Current' \in Cycle
    BY <1>1, <1>2 DEF Cycle
  <2>2. Current' \in Cycle => handler'[Current'] = "none"
    BY <1>2 DEF Calls
  <2>3. QED BY <1>1, <2>1, <2>2 DEF Phases
<1>6. CapReceived'
  BY DEF CapReceived
<1>7. PastCap'
  <2> SUFFICES ASSUME cap.by \notin {0, Current'} \cup failed'
               PROVE  cap.left + Settle + Cooldown <= Duration + Delay + Cooldown
    BY <1>1 DEF PastCap
  <2>1. cap.left \in 0..Duration
    BY CapOfPast
  <2>2. CASE cap.by = Current
    BY <2>1, <2>2
  <2>3. CASE cap.by # Current
    BY <2>1, <2>3 DEF PastCap
  <2>4. QED BY <2>2, <2>3
<1>8. CallingCap' /\ VerifyingCap'
  BY <1>1 DEF CallingCap, VerifyingCap
<1>9. QED BY <1>3, <1>4, <1>5, <1>6, <1>7, <1>8

-----------------------------------------------------------------------------
(* Every step preserves the invariant: the script's and the engine's.       *)

LEMMA PollKeeps == LoopInv /\ (PollNothing \/ PollDegraded \/ Crash) => LoopInv'
<1> SUFFICES ASSUME LoopInv, PollNothing \/ PollDegraded \/ Crash PROVE LoopInv'
  OBVIOUS
<1> USE DEF LoopInv
<1>1. /\ UNCHANGED <<cooldown, cycles, patience, failed, handler, flight, due, cap>>
      /\ Current' = Current
  BY DEF PollNothing, PollDegraded, Crash, action, thread, Current
<1>2. TypeOK'
  BY <1>1 DEF TypeOK, PollNothing, PollDegraded, Crash, thread
<1>3. Phases'
  <2>1. CASE PollNothing
    BY <1>1, <2>1 DEF Phases, PollNothing, thread
  <2>2. CASE PollDegraded
    <3>1. handler[Current] = "none" /\ cooldown = 0 /\ engine' = "diagnosing" /\ watch' = "waiting"
      BY <2>2 DEF Phases, PollDegraded, Cooled
    <3>2. QED BY <1>1, <2>2, <3>1 DEF Phases, PollDegraded
  <2>3. CASE Crash
    BY <1>1, <2>3 DEF Phases, Crash, thread
  <2>4. QED BY <2>1, <2>2, <2>3
<1>4. Calls' /\ CapReceived' /\ PastCap'
  BY <1>1 DEF Calls, CapReceived, PastCap
<1>5. CallingCap'
  BY <1>1 DEF CallingCap, PollNothing, PollDegraded, Crash, thread
<1>6. VerifyingCap'
  BY <1>1 DEF VerifyingCap, PollNothing, PollDegraded, Crash
<1>7. QED BY <1>2, <1>3, <1>4, <1>5, <1>6

LEMMA MeasureKeeps == LoopInv /\ Measure => LoopInv'
<1> SUFFICES ASSUME LoopInv, Measure PROVE LoopInv'
  OBVIOUS
<1> USE DEF LoopInv
<1>1. /\ watch = "verifying" /\ timer = 0 /\ EndCycle
      /\ UNCHANGED <<engine, patience, failed, handler, flight, due, cap>>
  BY DEF Measure, thread, action
<1>2. /\ Current \in Cycle /\ cooldown = 0 /\ engine = "idle"
      /\ handler[Current] = "published" /\ Current \notin failed
  BY <1>1 DEF Phases
<1>3. flight[Current] # "moving"
  <2>1. due[Current] \in Nat
    BY <1>2 DEF TypeOK
  <2>2. QED BY <1>1, <2>1 DEF VerifyingCap
<1>4. cap.by = Current => cap.left + Settle <= Duration + Delay
  BY <1>1 DEF VerifyingCap
<1>5. failed \subseteq Cycle
  BY DEF TypeOK
<1>6. QED BY <1>1, <1>2, <1>3, <1>4, <1>5, CycleOver

(* Without an execution the answer ends the cycle, if the script waits.     *)
LEMMA NotApprovedKeeps == LoopInv /\ NotApproved => LoopInv'
<1> SUFFICES ASSUME LoopInv, NotApproved PROVE LoopInv'
  OBVIOUS
<1> USE DEF LoopInv
<1>1. /\ engine = "diagnosing" /\ engine' = "idle"
      /\ UNCHANGED <<patience, failed, handler, flight, due, cap>>
  BY DEF NotApproved, Answered, action
<1>2. /\ Current \in Cycle /\ cooldown = 0 /\ handler[Current] = "none"
      /\ watch \in {"waiting", "crashed"}
  BY <1>1 DEF Phases, TypeOK
<1>3. Current \notin failed /\ flight[Current] = "none" /\ failed \subseteq Cycle
  BY <1>2 DEF Calls, TypeOK
<1>4. cap.by # Current
  BY <1>2, <1>3 DEF CapReceived, Cycle
<1>5. CASE watch = "waiting"
  <2>1. EndCycle
    BY <1>5 DEF NotApproved, Answered
  <2>2. QED BY <1>1, <1>2, <1>3, <1>4, <2>1, CycleOver
<1>6. CASE watch = "crashed"
  <2>1. UNCHANGED <<watch, timer, cooldown, cycles>> /\ Current' = Current
    BY <1>6 DEF NotApproved, Answered, script, Current
  <2>2. TypeOK'
    BY <1>1, <2>1 DEF TypeOK
  <2>3. Phases' /\ Calls'
    BY <1>1, <1>6, <2>1 DEF Phases, Calls
  <2>4. CapReceived' /\ PastCap' /\ CallingCap' /\ VerifyingCap'
    BY <1>1, <1>6, <2>1 DEF CapReceived, PastCap, CallingCap, VerifyingCap
  <2>5. QED BY <2>2, <2>3, <2>4
<1>7. QED BY <1>2, <1>5, <1>6

LEMMA ApprovedKeeps == LoopInv /\ Approved => LoopInv'
<1> SUFFICES ASSUME LoopInv, Approved PROVE LoopInv'
  OBVIOUS
<1> USE DEF LoopInv
<1>1. /\ engine = "diagnosing" /\ engine' = "calling" /\ patience' = CallTimeout
      /\ handler' = [handler EXCEPT ![Current] = "sent"]
      /\ UNCHANGED <<watch, timer, cooldown, cycles, failed, flight, due, cap>>
      /\ Current' = Current
  BY DEF Approved, script, Current
<1>2. /\ Current \in Cycle /\ cooldown = 0 /\ handler[Current] = "none"
      /\ watch \in {"waiting", "crashed"}
  BY <1>1 DEF Phases, TypeOK
<1>3. Current \notin failed /\ flight[Current] = "none"
  BY <1>2 DEF Calls
<1>4. /\ handler'[Current] = "sent"
      /\ \A c \in Cycle : c # Current => handler'[c] = handler[c]
  BY <1>1, <1>2 DEF TypeOK
<1>5. TypeOK'
  <2>1. handler' \in [Cycle -> {"none", "sent", "published", "dead"}]
    BY <1>1 DEF TypeOK
  <2>2. QED BY <1>1, <2>1 DEF TypeOK
<1>6. Phases'
  BY <1>1, <1>2, <1>3, <1>4 DEF Phases
<1>7. Calls'
  BY <1>1, <1>2, <1>3, <1>4 DEF Calls, Current, TypeOK
<1>8. CapReceived' /\ PastCap'
  BY <1>1 DEF CapReceived, PastCap
<1>9. CallingCap' /\ VerifyingCap'
  BY <1>1, <1>2, <1>3 DEF CallingCap, VerifyingCap
<1>10. QED BY <1>5, <1>6, <1>7, <1>8, <1>9

(* The answer comes within CallTimeout, so the cap it is about still holds  *)
(* for the time to settle.                                                  *)
LEMMA ExecutedKeeps == LoopInv /\ Executed => LoopInv'
<1> SUFFICES ASSUME LoopInv, Executed PROVE LoopInv'
  OBVIOUS
<1> USE DEF LoopInv
<1>1. /\ engine = "calling" /\ engine' = "idle" /\ handler[Current] = "published"
      /\ UNCHANGED <<cooldown, cycles, patience, failed, handler, flight, due, cap>>
      /\ Current' = Current
      /\ IF watch = "waiting" THEN watch' = "verifying" /\ timer' = Settle
         ELSE watch' = watch /\ timer' = timer
  BY DEF Executed, Answered, action, script, Current
<1>2. /\ Current \in Cycle /\ cooldown = 0 /\ Current \notin failed
      /\ watch \in {"waiting", "crashed"}
  BY <1>1 DEF Phases, TypeOK
<1>3. TypeOK'
  BY <1>1 DEF TypeOK
<1>4. Phases' /\ Calls'
  BY <1>1, <1>2 DEF Phases, Calls
<1>5. CapReceived' /\ PastCap' /\ CallingCap'
  BY <1>1 DEF CapReceived, PastCap, CallingCap
<1>6. VerifyingCap'
  <2> SUFFICES ASSUME watch' = "verifying" PROVE VerifyingCap'
    BY DEF VerifyingCap
  <2>1. timer' = Settle
    BY <1>1, <1>2
  <2>2. due[Current] \in 0..Delay /\ cap.left \in 0..Duration /\ patience \in Nat
    BY <1>2 DEF TypeOK
  <2>3. flight[Current] = "received" => cap.by \in failed \cup {Current} /\ Settle <= cap.left
    BY <1>1, <2>2 DEF CallingCap
  <2>4. QED BY <1>1, <2>1, <2>2, <2>3 DEF VerifyingCap
<1>7. QED BY <1>3, <1>4, <1>5, <1>6

LEMMA CallFailsKeeps == LoopInv /\ CallFails => LoopInv'
<1> SUFFICES ASSUME LoopInv, CallFails PROVE LoopInv'
  OBVIOUS
<1> USE DEF LoopInv
<1>1. /\ engine = "calling" /\ engine' = "idle" /\ failed' = failed \cup {Current}
      /\ UNCHANGED <<patience, handler, flight, due, cap>>
  BY DEF CallFails, Answered, action
<1>2. /\ Current \in Cycle /\ cooldown = 0 /\ handler[Current] # "none"
      /\ watch \in {"waiting", "crashed"} /\ failed \subseteq Cycle
  BY <1>1 DEF Phases, TypeOK
<1>3. CASE watch = "waiting"
  <2>1. EndCycle
    BY <1>3 DEF CallFails, Answered
  <2>2. QED BY <1>1, <1>2, <2>1, CycleOver
<1>4. CASE watch = "crashed"
  <2>1. UNCHANGED <<watch, timer, cooldown, cycles>> /\ Current' = Current
    BY <1>4 DEF CallFails, Answered, script, Current
  <2>2. TypeOK'
    BY <1>1, <1>2, <2>1 DEF TypeOK
  <2>3. Phases' /\ Calls'
    BY <1>1, <1>2, <1>4, <2>1 DEF Phases, Calls
  <2>4. CapReceived' /\ PastCap' /\ CallingCap' /\ VerifyingCap'
    BY <1>1, <1>4, <2>1 DEF CapReceived, PastCap, CallingCap, VerifyingCap
  <2>5. QED BY <2>2, <2>3, <2>4
<1>5. QED BY <1>2, <1>3, <1>4

-----------------------------------------------------------------------------
(* ... the control-plane's, the network's and the agent's.                  *)

LEMMA HandlerKeeps == ASSUME NEW c \in Cycle, LoopInv, Publish(c) \/ HandlerDies(c) PROVE LoopInv'
<1> USE DEF LoopInv
<1>1. /\ handler[c] = "sent" /\ handler' = [handler EXCEPT ![c] = handler'[c]]
      /\ UNCHANGED <<watch, timer, cooldown, cycles, engine, patience, failed, cap>>
      /\ Current' = Current
  BY DEF Publish, HandlerDies, script, thread, Current, TypeOK
<1>2. \/ handler'[c] = "published" /\ flight' = [flight EXCEPT ![c] = "moving"]
                                   /\ due' = [due EXCEPT ![c] = Delay]
      \/ handler'[c] = "dead" /\ UNCHANGED <<flight, due>>
  BY DEF Publish, HandlerDies, TypeOK
<1>3. /\ flight[c] = "none" /\ c <= Current /\ (c < Current => c \in failed)
      /\ cap.by # c
  BY <1>1, Numbers DEF Calls, CapReceived
<1>4. /\ \A d \in Cycle : d # c => handler'[d] = handler[d] /\ flight'[d] = flight[d] /\ due'[d] = due[d]
      /\ \/ handler'[c] = "published" /\ flight'[c] = "moving" /\ due'[c] = Delay
         \/ handler'[c] = "dead" /\ flight'[c] = "none"
  BY <1>1, <1>2, <1>3 DEF TypeOK
<1>5. TypeOK'
  <2>1. handler' \in [Cycle -> {"none", "sent", "published", "dead"}]
    BY <1>1, <1>4 DEF TypeOK
  <2>2. /\ flight' \in [Cycle -> {"none", "moving", "received", "lost"}]
        /\ due' \in [Cycle -> 0..Delay]
    BY <1>2 DEF TypeOK
  <2>3. QED BY <1>1, <2>1, <2>2 DEF TypeOK
<1>6. Phases'
  BY <1>1, <1>3, <1>4 DEF Phases, Current, TypeOK, Cycle
<1>7. Calls'
  BY <1>1, <1>3, <1>4 DEF Calls
<1>8. CapReceived' /\ PastCap'
  BY <1>1, <1>3, <1>4, Numbers DEF CapReceived, PastCap
<1>9. CallingCap'
  BY <1>1, <1>3, <1>4 DEF CallingCap, Phases, TypeOK
<1>10. VerifyingCap'
  BY <1>1, <1>3, <1>4 DEF VerifyingCap, Phases, TypeOK
<1>11. QED BY <1>5, <1>6, <1>7, <1>8, <1>9, <1>10

LEMMA LoseKeeps == ASSUME NEW c \in Cycle, LoopInv, Lose(c) PROVE LoopInv'
<1> USE DEF LoopInv
<1>1. /\ flight[c] = "moving" /\ flight' = [flight EXCEPT ![c] = "lost"]
      /\ UNCHANGED <<watch, timer, cooldown, cycles, engine, patience, failed, handler, due, cap>>
      /\ Current' = Current
  BY DEF Lose, script, thread, Current
<1>2. flight'[c] = "lost" /\ \A d \in Cycle : d # c => flight'[d] = flight[d]
  BY <1>1 DEF TypeOK
<1>3. TypeOK'
  BY <1>1 DEF TypeOK
<1>4. Phases' /\ Calls'
  BY <1>1, <1>2 DEF Phases, Calls
<1>5. CapReceived' /\ PastCap'
  BY <1>1, <1>2, Numbers DEF CapReceived, PastCap
<1>6. CallingCap' /\ VerifyingCap'
  BY <1>1, <1>2 DEF CallingCap, VerifyingCap, Phases
<1>7. QED BY <1>3, <1>4, <1>5, <1>6

(* An action that arrives is the current one or was given up.               *)
LEMMA ArrivesFor ==
    ASSUME LoopInv, NEW c \in Cycle, flight[c] = "moving"
    PROVE  /\ c <= Current /\ (c < Current => c \in failed)
           /\ c = Current => cooldown = 0
<1>1. handler[c] = "published"
  BY DEF LoopInv, Calls
<1>2. c <= Current
  BY <1>1, Numbers DEF LoopInv, Calls
<1>3. QED BY <1>1, <1>2 DEF LoopInv, Calls, Phases

LEMMA ReceiveKeeps == ASSUME NEW c \in Cycle, LoopInv, Receive(c) PROVE LoopInv'
<1> USE DEF LoopInv
<1>1. /\ flight[c] = "moving" /\ flight' = [flight EXCEPT ![c] = "received"]
      /\ cap' = [by |-> c, left |-> Duration]
      /\ UNCHANGED <<watch, timer, cooldown, cycles, engine, patience, failed, handler, due>>
      /\ Current' = Current
  BY DEF Receive, Granted, script, thread, Current
<1>2. flight'[c] = "received" /\ \A d \in Cycle : d # c => flight'[d] = flight[d]
  BY <1>1 DEF TypeOK
<1>3. c \in failed \cup {Current}
  BY <1>1, ArrivesFor, Numbers
<1>4. TypeOK'
  <2>1. cap' \in [by : 0..MaxCycles, left : 0..Duration]
    BY <1>1, Numbers
  <2>2. flight' \in [Cycle -> {"none", "moving", "received", "lost"}]
    BY <1>1 DEF TypeOK
  <2>3. QED BY <1>1, <2>1, <2>2 DEF TypeOK
<1>5. Phases' /\ Calls'
  BY <1>1, <1>2 DEF Phases, Calls
<1>6. CapReceived' /\ PastCap'
  BY <1>1, <1>2, <1>3 DEF CapReceived, PastCap
<1>7. CallingCap'
  BY <1>1, <1>3 DEF CallingCap, TypeOK
<1>8. VerifyingCap'
  <2> SUFFICES ASSUME watch = "verifying" PROVE VerifyingCap'
    BY <1>1 DEF VerifyingCap
  <2>1. timer \in 0..Settle /\ Current \in Cycle
    BY DEF Phases, TypeOK
  <2>2. flight'[Current] = "moving" => flight[Current] = "moving"
    BY <1>2, <2>1
  <2>3. c = Current => Settle <= Delay + timer
    <3>1. due[Current] \in Nat
      BY <2>1 DEF TypeOK
    <3>2. QED BY <1>1, <2>1, <3>1 DEF VerifyingCap
  <2>4. QED BY <1>1, <1>3, <2>1, <2>2, <2>3 DEF VerifyingCap
<1>9. QED BY <1>4, <1>5, <1>6, <1>7, <1>8

-----------------------------------------------------------------------------
(* ... and time's.                                                          *)

LEMMA PassKeeps == LoopInv /\ Pass => LoopInv'
<1> SUFFICES ASSUME LoopInv, Pass PROVE LoopInv'
  OBVIOUS
<1> USE DEF LoopInv
<1>1. /\ timer' = Less(timer) /\ cooldown' = Less(cooldown) /\ patience' = Less(patience)
      /\ due' = [c \in Cycle |-> Less(due[c])] /\ cap' = Aged
      /\ UNCHANGED <<watch, cycles, engine, failed, handler, flight>>
      /\ Current' = Current
  BY DEF Pass, Current
<1>2. \A t \in Nat : Less(t) \in Nat /\ Less(t) <= t /\ (t > 0 => Less(t) = t - 1) /\ Less(0) = 0
  BY DEF Less
<1>3. cap \in [by : 0..MaxCycles, left : 0..Duration]
  BY DEF TypeOK
<1>4. IF cap.left = 0 THEN cap'.by = 0 /\ cap'.left = 0
      ELSE cap'.by = cap.by /\ cap'.left = cap.left - 1
  BY <1>1, <1>3 DEF Aged, NoCap
<1>5. TypeOK'
  <2>1. due' \in [Cycle -> 0..Delay]
    BY <1>1, <1>2 DEF TypeOK
  <2>2. cap' \in [by : 0..MaxCycles, left : 0..Duration]
    BY <1>1, <1>3 DEF Aged, NoCap
  <2>3. timer' \in Nat /\ cooldown' \in 0..Cooldown /\ patience' \in 0..CallTimeout
    BY <1>1, <1>2 DEF TypeOK
  <2>4. QED BY <1>1, <2>1, <2>2, <2>3 DEF TypeOK
<1>6. Phases'
  <2>1. /\ timer <= Settle => timer' <= Settle
        /\ cooldown = 0 => cooldown' = 0
    BY <1>1, <1>2 DEF TypeOK
  <2>2. QED BY <1>1, <2>1 DEF Phases
<1>7. Calls'
  BY <1>1 DEF Calls
<1>8. CapReceived'
  BY <1>1, <1>4 DEF CapReceived
<1>9. PastCap'
  <2> SUFFICES ASSUME cap'.by \notin {0, Current} \cup failed
               PROVE  cap'.left + Settle + Cooldown <= Duration + Delay + cooldown'
    BY <1>1 DEF PastCap
  <2>1. cap'.by = cap.by /\ cap'.left = cap.left - 1
    BY <1>4
  <2>2. cap.left + Settle + Cooldown <= Duration + Delay + cooldown
    BY <2>1 DEF PastCap
  <2>3. cooldown > 0 /\ cooldown' = cooldown - 1
    BY <1>1, <1>2, <1>3, <2>2 DEF TypeOK
  <2>4. QED BY <1>3, <2>1, <2>2, <2>3 DEF TypeOK
<1>10. CallingCap'
  <2> SUFFICES ASSUME engine = "calling", flight[Current] = "received"
               PROVE  /\ cap'.by \in failed \cup {Current}
                      /\ Duration + patience' <= cap'.left + CallTimeout
    BY <1>1 DEF CallingCap
  <2>1. patience > 0 /\ patience \in Nat /\ patience' = patience - 1
    BY <1>1, <1>2 DEF Pass, NothingDue, TypeOK
  <2>2. cap.by \in failed \cup {Current} /\ Duration + patience <= cap.left + CallTimeout
    BY DEF CallingCap
  <2>3. cap.left > 0
    BY <1>3, <2>1, <2>2
  <2>4. QED BY <1>3, <1>4, <2>1, <2>2, <2>3
<1>11. VerifyingCap'
  <2> SUFFICES ASSUME watch = "verifying" PROVE VerifyingCap'
    BY <1>1 DEF VerifyingCap
  <2>1. /\ timer > 0 /\ timer \in Nat /\ timer' = timer - 1 /\ Current \in Cycle /\ Current > 0
        /\ \A c \in Cycle : due[c] \in Nat /\ (flight[c] = "moving" => due[c] > 0)
    BY <1>1, <1>2, Numbers DEF Pass, NothingDue, TypeOK, Phases
  <2>2. flight[Current] = "moving" => due'[Current] + Settle <= Delay + timer'
    <3>1. due'[Current] = Less(due[Current])
      BY <1>1, <2>1
    <3>2. QED BY <1>2, <2>1, <3>1 DEF VerifyingCap
  <2>3. flight[Current] = "received" => cap'.by \in failed \cup {Current} /\ timer' <= cap'.left
    BY <1>3, <1>4, <2>1 DEF VerifyingCap
  <2>4. cap'.by = Current => cap'.left + Settle <= Duration + Delay + timer'
    BY <1>3, <1>4, <2>1 DEF VerifyingCap
  <2>5. QED BY <1>1, <2>2, <2>3, <2>4 DEF VerifyingCap
<1>12. QED BY <1>5, <1>6, <1>7, <1>8, <1>9, <1>10, <1>11

-----------------------------------------------------------------------------
(* The theorems.                                                            *)

LEMMA LoopStep == LoopInv /\ [Next]_vars => LoopInv'
<1> SUFFICES ASSUME LoopInv, [Next]_vars PROVE LoopInv'
  OBVIOUS
<1>1. CASE Watch
  BY <1>1, PollKeeps, MeasureKeeps DEF Watch
<1>2. CASE Crash
  BY <1>2, PollKeeps
<1>3. CASE Engine
  BY <1>3, NotApprovedKeeps, ApprovedKeeps, ExecutedKeeps, CallFailsKeeps DEF Engine
<1>4. ASSUME NEW c \in Cycle, Publish(c) \/ HandlerDies(c) \/ Receive(c) \/ Lose(c) PROVE LoopInv'
  BY <1>4, HandlerKeeps, ReceiveKeeps, LoseKeeps
<1>5. CASE Pass
  BY <1>5, PassKeeps
<1>6. CASE UNCHANGED vars
  BY <1>6 DEF vars, LoopInv, TypeOK, Phases, Calls, CapReceived, PastCap, CallingCap, VerifyingCap, Current
<1>7. QED BY <1>1, <1>2, <1>3, <1>4, <1>5, <1>6 DEF Next

LEMMA LoopInvariant == Spec => []LoopInv
BY LoopInit, LoopStep, PTL DEF Spec

(* Type correctness: no script goes beyond --max-cycles (watch.py:119-130). *)
THEOREM TypeCorrect == Spec => []TypeOK
<1>1. LoopInv => TypeOK
  BY DEF LoopInv
<1>2. QED BY <1>1, LoopInvariant, PTL

(* Cycles do not overlap: when the script begins one, no engine of an       *)
(* earlier one still waits, and verification is of a published action       *)
(* (watch.py:82-94, 121-130).                                               *)
THEOREM CyclesDoNotOverlap == Spec => []OneCycleAtATime
<1>1. LoopInv => OneCycleAtATime
  BY DEF LoopInv, OneCycleAtATime, Phases, Calls
<1>2. QED BY <1>1, LoopInvariant, PTL

(* Calibrated waits make verification measure under the cap it judges       *)
(* (verify.py:54-76, config.py:72-75).                                      *)
THEOREM VerificationMeasuresCap == Spec => []MeasuredUnderCap
<1>1. LoopInv => MeasuredUnderCap
  <2> SUFFICES ASSUME LoopInv, watch = "verifying", timer <= Averaged,
                      flight[Current] # "lost"
               PROVE  cap.by \in failed \cup {Current}
    BY DEF MeasuredUnderCap
  <2>1. Current \in Cycle /\ handler[Current] = "published" /\ timer \in Nat
    BY DEF LoopInv, Phases, TypeOK
  <2>2. flight[Current] \in {"moving", "received"} /\ due[Current] \in Nat
    BY <2>1 DEF LoopInv, Calls, TypeOK
  <2>3. flight[Current] # "moving"
    BY <2>1, <2>2 DEF LoopInv, VerifyingCap
  <2>4. QED BY <2>2, <2>3 DEF LoopInv, VerifyingCap
<1>2. QED BY <1>1, LoopInvariant, PTL

(* Calibrated waits keep actions apart: an action meets a cap in force only *)
(* if the engine gave up one of the two calls (config.py:74).               *)
THEOREM ActionsKeptApart == Spec => OneCapAtATime
<1> DEFINE Apart == \A c \in Cycle :
             cap.by # 0 /\ cap'.by = c /\ cap.by # c => {c, cap.by} \cap failed # {}
<1>1. LoopInv /\ [Next]_vars => Apart
  <2> SUFFICES ASSUME LoopInv, [Next]_vars, NEW c \in Cycle,
                      cap.by # 0, cap'.by = c, cap.by # c
               PROVE  {c, cap.by} \cap failed # {}
    OBVIOUS
  <2>1. cap.by \in 0..MaxCycles /\ cap.left \in 0..Duration /\ cap.by <= Current
    BY CapOfPast DEF LoopInv
  <2>2. PICK d \in Cycle : Receive(d)
    <3>1. CASE Pass
      BY <3>1 DEF Pass, Aged, NoCap, Cycle
    <3>2. ASSUME cap' = cap PROVE FALSE
      BY <3>2
    <3>3. QED BY <3>1, <3>2 DEF Next, Watch, Engine, PollNothing, PollDegraded, Measure, Crash,
                    NotApproved, Approved, Executed, CallFails, Publish, HandlerDies, Lose,
                    action, vars
  <2>3. d = c /\ flight[c] = "moving"
    BY <2>2 DEF Receive, Granted
  <2>4. CASE c < Current
    BY <2>3, <2>4, ArrivesFor
  <2>5. CASE c = Current
    <3>1. cooldown = 0
      BY <2>3, <2>5, ArrivesFor
    <3>2. ~(cap.left + Settle + Cooldown <= Duration + Delay + cooldown)
      BY <2>1, <3>1
    <3>3. QED BY <2>5, <3>2 DEF LoopInv, PastCap
  <2>6. QED BY <2>3, <2>4, <2>5, ArrivesFor, Numbers DEF LoopInv
<1>2. QED BY <1>1, LoopInvariant, PTL DEF Spec, OneCapAtATime

-----------------------------------------------------------------------------
(* Every action is one shot.                                                *)

Sent == {c \in Cycle : flight[c] # "none"}
Moving == {c \in Cycle : flight[c] = "moving"}
Coming == [n \in Target |-> Moving]
Acting == [n \in Target |-> cap.by]

LEMMA OneShotStep == LoopInv /\ [Next]_vars => [Promise!Next]_(Promise!vars)
<1> SUFFICES ASSUME LoopInv, [Next]_vars PROVE [Promise!Next]_(Promise!vars)
  OBVIOUS
<1> DEFINE n == "target"
<1>0. TypeOK /\ Calls /\ n \in Target /\ \A m \in Target : m = n
  BY DEF LoopInv, Target
<1>1. ASSUME UNCHANGED <<flight, cap>> PROVE UNCHANGED Promise!vars
  BY <1>1 DEF Promise!vars
<1>2. ASSUME NEW c \in Cycle, Publish(c) PROVE Promise!Next
  <2>1. handler[c] = "sent" /\ flight' = [flight EXCEPT ![c] = "moving"] /\ cap' = cap
    BY <1>2 DEF Publish
  <2>2. flight[c] = "none"
    BY <1>0, <2>1 DEF Calls
  <2>3. c \notin Sent /\ Sent' = Sent \cup {c} /\ Moving' = Moving \cup {c}
    BY <1>0, <2>1, <2>2 DEF TypeOK, Sent, Moving
  <2>4. Coming' = [Coming EXCEPT ![n] = @ \cup {c}] /\ Acting' = Acting
    BY <1>0, <2>1, <2>3 DEF Coming, Acting
  <2>5. Promise!Send(c, n)
    BY <1>0, <2>3, <2>4 DEF Promise!Send, Sent, Coming, Acting, Moving
  <2>6. QED BY <1>0, <2>5 DEF Promise!Next
<1>3. ASSUME NEW c \in Cycle, Receive(c) PROVE Promise!Next
  <2>1. flight[c] = "moving" /\ flight' = [flight EXCEPT ![c] = "received"] /\ cap'.by = c
    BY <1>3 DEF Receive, Granted
  <2>2. c \in Moving /\ Sent' = Sent /\ Moving' = Moving \ {c}
    BY <1>0, <2>1 DEF TypeOK, Sent, Moving
  <2>3. Coming' = [Coming EXCEPT ![n] = @ \ {c}] /\ Acting' = [Acting EXCEPT ![n] = c]
    BY <1>0, <2>1, <2>2 DEF Coming, Acting
  <2>4. Promise!Arrive(c, n)
    BY <1>0, <2>2, <2>3 DEF Promise!Arrive, Sent, Coming, Acting, Moving
  <2>5. QED BY <1>0, <2>4 DEF Promise!Next
<1>4. ASSUME NEW c \in Cycle, Lose(c) PROVE Promise!Next
  <2>1. flight[c] = "moving" /\ flight' = [flight EXCEPT ![c] = "lost"] /\ cap' = cap
    BY <1>4 DEF Lose
  <2>2. c \in Moving /\ Sent' = Sent /\ Moving' = Moving \ {c}
    BY <1>0, <2>1 DEF TypeOK, Sent, Moving
  <2>3. Coming' = [Coming EXCEPT ![n] = @ \ {c}] /\ Acting' = Acting
    BY <1>0, <2>1, <2>2 DEF Coming, Acting
  <2>4. Promise!Vanish(c, n)
    BY <1>0, <2>2, <2>3 DEF Promise!Vanish, Sent, Coming, Acting, Moving
  <2>5. QED BY <1>0, <2>4 DEF Promise!Next
<1>5. ASSUME Pass PROVE [Promise!Next]_(Promise!vars)
  <2>1. flight' = flight /\ cap' = IF cap.left = 0 THEN NoCap ELSE [cap EXCEPT !.left = cap.left - 1]
    BY <1>5 DEF Pass, Aged
  <2>2. CASE cap.left = 0
    <3>1. cap'.by = 0
      BY <2>1, <2>2 DEF NoCap
    <3>2. Acting' = [Acting EXCEPT ![n] = 0]
      BY <1>0, <3>1 DEF Acting
    <3>3. Promise!End(n)
      BY <2>1, <3>2 DEF Promise!End, Acting
    <3>4. QED BY <1>0, <3>3 DEF Promise!Next
  <2>3. CASE cap.left # 0
    <3>1. cap'.by = cap.by
      BY <1>0, <2>1, <2>3 DEF TypeOK
    <3>2. UNCHANGED Promise!vars
      BY <2>1, <3>1 DEF Promise!vars
    <3>3. QED BY <3>2
  <2>4. QED BY <2>2, <2>3
<1>6. CASE Watch \/ Crash \/ Engine \/ UNCHANGED vars
  <2>1. UNCHANGED <<flight, cap>>
    BY <1>6 DEF Watch, PollNothing, PollDegraded, Measure, Crash, Engine, NotApproved, Approved,
                Executed, CallFails, vars, action
  <2>2. QED BY <1>1, <2>1
<1>7. ASSUME NEW c \in Cycle, HandlerDies(c) PROVE UNCHANGED Promise!vars
  BY <1>1, <1>7 DEF HandlerDies
<1>8. QED BY <1>2, <1>3, <1>4, <1>5, <1>6, <1>7 DEF Next

(* With or without clocks the chain keeps the same promise: the action of a *)
(* cycle is sent once and in force once, however late it arrives and        *)
(* whatever became of the cycle meanwhile (watch.py:58-101,                 *)
(* execute.go:159-170, action.go:47-53).                                    *)
THEOREM LoopIsOneShot == Spec => ActionsAreOneShot
<1>1. Init => Promise!Init
  BY DEF Init, NoCap, Promise!Init
<1>2. QED
  BY <1>1, LoopInvariant, OneShotStep, PTL DEF Spec, ActionsAreOneShot, Promise!Spec
=============================================================================
