----------------------------- MODULE AgentProofs -----------------------------
(* Agent implements Lease, reports the losses it applies, and keeps its     *)
(* types, for every set of neighbors, values, durations and staleness       *)
(* limits.                                                                  *)
EXTENDS Agent, FiniteSetTheorems, WellFoundedInduction, TLAPS

USE AgentAssumption

SlotInv == slot \in [Key -> Slot]

-----------------------------------------------------------------------------
(* The keys of the effects.                                                 *)

LEMMA KeysAre ==
    /\ LoadKey \in Key /\ CapKey \in Key /\ LatencyKey \in Key
    /\ \A n \in Neighbor : LossKey(n) \in Key /\ FlowKey(n) \in Key
BY DEF Key

LEMMA DurationsAre ==
    /\ DurationsOf(LoadKey) = {LoadStale}
    /\ DurationsOf(CapKey) = Duration
    /\ DurationsOf(LatencyKey) = Duration
    /\ \A n \in Neighbor : DurationsOf(LossKey(n)) = Duration /\ DurationsOf(FlowKey(n)) = {FlowStale}
<1>1. CapKey # LoadKey /\ LatencyKey # LoadKey
  BY DEF CapKey, LatencyKey, LoadKey
<1>2. \A n \in Neighbor : /\ FlowKey(n) # LoadKey /\ LossKey(n) # LoadKey
                          /\ FlowKey(n) # CapKey /\ FlowKey(n) # LatencyKey
  BY DEF FlowKey, LossKey, LoadKey, CapKey, LatencyKey
<1>3. \A m, n \in Neighbor : LossKey(m) # FlowKey(n)
  BY DEF LossKey, FlowKey
<1>4. QED BY <1>1, <1>2, <1>3 DEF DurationsOf

-----------------------------------------------------------------------------
(* What each change of a slot does to what is in force.                     *)

LEMMA SetGrants ==
    ASSUME SlotInv, NEW k \in Key, NEW v \in Value, NEW d \in Nat, slot' = SetTo(k, v, d)
    PROVE  SlotInv' /\ Promise!Grant(k, v, d)
<1>1. /\ slot'[k] = [on |-> TRUE, value |-> v, left |-> d]
      /\ \A j \in Key : j # k => slot'[j] = slot[j]
      /\ SlotInv'
  BY DEF SlotInv, SetTo, Slot
<1>2. InForce(slot'[k]) /\ slot'[k].value = v /\ slot'[k].left = d
  BY <1>1 DEF InForce
<1>3. inForce' = [inForce EXCEPT ![k] = v]
  BY <1>1, <1>2 DEF inForce
<1>4. remaining' = [remaining EXCEPT ![k] = d]
  BY <1>1, <1>2 DEF remaining
<1>5. QED BY <1>1, <1>3, <1>4 DEF Promise!Grant

(* Clearing what has expired changes nothing a reader can see.              *)
LEMMA ClearingUnseen ==
    ASSUME SlotInv, NEW k \in Key, slot' = [slot EXCEPT ![k] = Cleared(@)]
    PROVE  SlotInv' /\ UNCHANGED <<inForce, remaining>>
<1>1. /\ slot'[k] = Cleared(slot[k])
      /\ \A j \in Key : j # k => slot'[j] = slot[j]
      /\ SlotInv'
  BY DEF SlotInv, Slot, Cleared, Off
<1>2. \A j \in Key : IF InForce(slot[j]) THEN slot'[j] = slot[j] ELSE ~InForce(slot'[j])
  BY <1>1 DEF Cleared, InForce, Off
<1>3. inForce' = inForce /\ remaining' = remaining
  BY <1>2 DEF inForce, remaining
<1>4. QED BY <1>1, <1>3

LEMMA TimePasses ==
    ASSUME SlotInv, Pass
    PROVE  SlotInv' /\ Promise!Pass
<1>1. \A k \in Key : slot'[k] = Older(slot[k])
  BY DEF Pass
<1>2. \A k \in Key : slot[k] \in Slot
  BY DEF SlotInv
<1>3. \A s \in Slot :
        /\ Older(s) \in Slot /\ Older(s).value = s.value
        /\ InForce(s) /\ s.left # 0 => InForce(Older(s)) /\ Older(s).left = s.left - 1
        /\ ~InForce(s) \/ s.left = 0 => ~InForce(Older(s))
  BY DEF Older, InForce, Slot
<1>4. SlotInv'
  BY <1>2, <1>3 DEF Pass, SlotInv
<1>5. inForce' = [k \in Key |-> IF remaining[k] = 0 THEN None ELSE inForce[k]]
  BY <1>1, <1>2, <1>3 DEF inForce, remaining, InForce
<1>6. remaining' = [k \in Key |-> IF remaining[k] = 0 THEN 0 ELSE remaining[k] - 1]
  BY <1>1, <1>2, <1>3 DEF remaining, InForce
<1>7. QED BY <1>4, <1>5, <1>6 DEF Promise!Pass

LEMMA KillRevokes ==
    ASSUME SlotInv, OnKill
    PROVE  SlotInv' /\ Promise!Revoke
<1>1. SlotInv' /\ \A k \in Key : ~InForce(slot'[k])
  BY DEF OnKill, SlotInv, Slot, Off, InForce
<1>2. QED BY <1>1 DEF Promise!Revoke, inForce, remaining

-----------------------------------------------------------------------------

LEMMA ValuesAre ==
    /\ LoadValue \subseteq Value /\ CapValue \subseteq Value /\ FlowValue \subseteq Value
    /\ LossValue \subseteq Value /\ LatencyValue \subseteq Value
    /\ Duration \subseteq Nat /\ LoadStale \in Nat /\ FlowStale \in Nat
BY DEF Value

LEMMA ActionGrants ==
    ASSUME SlotInv, NEW v \in CapValue, NEW d \in Duration, OnAction(v, d)
    PROVE  SlotInv' /\ Promise!Grant(CapKey, v, d)
<1> DEFINE set == SetTo(CapKey, v, d)
<1>0. CapKey \in Key /\ LoadKey \in Key /\ v \in Value /\ d \in Nat
  BY KeysAre, ValuesAre
<1>1. /\ set \in [Key -> Slot]
      /\ set[CapKey] = [on |-> TRUE, value |-> v, left |-> d]
      /\ \A j \in Key : j # CapKey => set[j] = slot[j]
  BY <1>0 DEF SlotInv, SetTo, Slot
<1>2. slot' = [set EXCEPT ![LoadKey] = Cleared(@)]
  BY DEF OnAction
<1>3. \A s \in Slot : Cleared(s) \in Slot /\ (InForce(s) => Cleared(s) = s)
                      /\ (~InForce(s) => ~InForce(Cleared(s)))
  BY DEF Cleared, InForce, Off, Slot
<1>4. LoadKey # CapKey
  BY DEF LoadKey, CapKey
<1>5. /\ SlotInv' /\ slot'[CapKey] = set[CapKey]
      /\ \A j \in Key : j # CapKey =>
           IF InForce(slot[j]) THEN slot'[j] = slot[j] ELSE ~InForce(slot'[j])
  BY <1>0, <1>1, <1>2, <1>3, <1>4 DEF SlotInv
<1>6. InForce(slot'[CapKey]) /\ slot'[CapKey].value = v /\ slot'[CapKey].left = d
  BY <1>0, <1>1, <1>5 DEF InForce
<1>7. inForce' = [inForce EXCEPT ![CapKey] = v]
  BY <1>0, <1>5, <1>6 DEF inForce
<1>8. remaining' = [remaining EXCEPT ![CapKey] = d]
  BY <1>0, <1>5, <1>6 DEF remaining
<1>9. QED BY <1>5, <1>7, <1>8 DEF Promise!Grant

LEMMA TickUnseen ==
    ASSUME SlotInv, Tick
    PROVE  SlotInv' /\ UNCHANGED <<inForce, remaining>>
<1>1. CASE ReadLoad
  BY <1>1, KeysAre, ClearingUnseen DEF ReadLoad
<1>2. CASE ApplyCap
  BY <1>2, KeysAre, ClearingUnseen DEF ApplyCap
<1>3. CASE ReadLatency
  BY <1>3, KeysAre, ClearingUnseen DEF ReadLatency
<1>4. ASSUME NEW n \in Neighbor, Forward(n)
      PROVE  SlotInv' /\ UNCHANGED <<inForce, remaining>>
  BY <1>4, KeysAre, ClearingUnseen DEF Forward
<1>5. CASE SumInbound \/ Publish
  <2>1. UNCHANGED slot
    BY <1>5 DEF SumInbound, Publish
  <2>2. QED BY <2>1 DEF SlotInv, inForce, remaining
<1>6. QED BY <1>1, <1>2, <1>3, <1>4, <1>5 DEF Tick

LEMMA StepIsLease == SlotInv /\ [Next]_vars => SlotInv' /\ [Promise!Next]_<<inForce, remaining>>
<1> SUFFICES ASSUME SlotInv, [Next]_vars
             PROVE  SlotInv' /\ [Promise!Next]_<<inForce, remaining>>
  OBVIOUS
<1>0. ASSUME NEW k \in Key, NEW v \in Value, NEW d \in DurationsOf(k), SlotInv', Promise!Grant(k, v, d)
      PROVE  SlotInv' /\ Promise!Next
  BY <1>0 DEF Promise!Next
<1>1. ASSUME NEW v \in LoadValue, OnLoad(v)
      PROVE  SlotInv' /\ Promise!Next
  <2>1. SlotInv' /\ Promise!Grant(LoadKey, v, LoadStale)
    BY <1>1, SetGrants, KeysAre, ValuesAre DEF OnLoad
  <2>2. QED BY <1>0, <2>1, KeysAre, ValuesAre, DurationsAre
<1>2. ASSUME NEW n \in Neighbor, NEW v \in FlowValue, OnFlow(n, v)
      PROVE  SlotInv' /\ Promise!Next
  <2>1. SlotInv' /\ Promise!Grant(FlowKey(n), v, FlowStale)
    BY <1>2, SetGrants, KeysAre, ValuesAre DEF OnFlow
  <2>2. QED BY <1>0, <2>1, KeysAre, ValuesAre, DurationsAre
<1>3. ASSUME NEW v \in CapValue, NEW d \in Duration, OnAction(v, d)
      PROVE  SlotInv' /\ Promise!Next
  BY <1>0, <1>3, ActionGrants, KeysAre, ValuesAre, DurationsAre
<1>4. ASSUME NEW v \in LatencyValue, NEW d \in Duration, OnLatency(v, d)
      PROVE  SlotInv' /\ Promise!Next
  <2>1. SlotInv' /\ Promise!Grant(LatencyKey, v, d)
    BY <1>4, SetGrants, KeysAre, ValuesAre DEF OnLatency
  <2>2. QED BY <1>0, <2>1, KeysAre, ValuesAre, DurationsAre
<1>5. ASSUME NEW n \in Neighbor, NEW v \in LossValue, NEW d \in Duration, OnLoss(n, v, d)
      PROVE  SlotInv' /\ Promise!Next
  <2>1. SlotInv' /\ Promise!Grant(LossKey(n), v, d)
    BY <1>5, SetGrants, KeysAre, ValuesAre DEF OnLoss
  <2>2. QED BY <1>0, <2>1, KeysAre, ValuesAre, DurationsAre
<1>6. CASE OnKill
  BY <1>6, KillRevokes DEF Promise!Next
<1>7. CASE Tick
  BY <1>7, TickUnseen
<1>8. CASE Pass
  BY <1>8, TimePasses DEF Promise!Next
<1>9. CASE UNCHANGED vars
  BY <1>9 DEF vars, SlotInv, inForce, remaining
<1>10. QED BY <1>1, <1>2, <1>3, <1>4, <1>5, <1>6, <1>7, <1>8, <1>9 DEF Next

(* Whatever order callbacks, seconds and reads come in, each timed effect   *)
(* of an agent behaves as a lease that ends by itself: an expired one never *)
(* shows again, and clearing it late is not observable (action.go:31-53,    *)
(* chaos.go:30-70, simulate.go:129-182).                                    *)
THEOREM AgentImplementsLease == Spec => EffectsAreLeases
<1>1. Init => SlotInv /\ Promise!Init
  BY DEF Init, SlotInv, Slot, Off, Promise!Init, inForce, remaining, InForce
<1>2. QED BY <1>1, StepIsLease, PTL DEF Spec, EffectsAreLeases, Promise!Spec

-----------------------------------------------------------------------------
(* The loss that is reported.                                               *)

(* An element with the fewest elements above it has none above it.          *)
LEMMA MaxIs ==
    ASSUME NEW S, IsFiniteSet(S), S # {}, \A s \in S : s \in Nat
    PROVE  Max(S) \in S /\ \A n \in S : Max(S) >= n
<1> DEFINE above(x) == {y \in S : y > x}
<1>1. \A x \in S : IsFiniteSet(above(x)) /\ Cardinality(above(x)) \in Nat
  BY FS_Subset, FS_CardinalityType
<1>2. PICK k \in {Cardinality(above(x)) : x \in S} : \A l \in {Cardinality(above(x)) : x \in S} : ~(l < k)
  <2> DEFINE counts == {Cardinality(above(x)) : x \in S}
  <2>1. counts \in SUBSET Nat /\ counts # {}
    BY <1>1
  <2>2. PICK m \in counts : \A l \in counts : ~(<<l, m>> \in OpToRel(<, Nat))
    <3> HIDE DEF counts
    <3>1. QED BY <2>1, WFMin, NatLessThanWellFounded
  <2>3. \A l \in counts : ~(l < m)
    BY <2>1, <2>2 DEF OpToRel
  <2>4. QED BY <2>2, <2>3
<1>3. PICK x \in S : k = Cardinality(above(x))
  OBVIOUS
<1>4. ASSUME NEW y \in above(x) PROVE FALSE
  <2>1. y \in S /\ above(y) \in SUBSET above(x) /\ y \notin above(y)
    BY <1>4
  <2>2. /\ Cardinality(above(y)) <= Cardinality(above(x))
        /\ Cardinality(above(x)) # Cardinality(above(y))
    BY <1>1, <1>4, <2>1, FS_Subset
  <2>3. ~(Cardinality(above(y)) < k)
    BY <1>2, <2>1
  <2>4. Cardinality(above(y)) \in Nat /\ k \in Nat
    BY <1>1, <1>3, <2>1
  <2> HIDE DEF above
  <2>5. QED BY <1>3, <2>2, <2>3, <2>4
<1>5. \A y \in S : x >= y
  BY <1>4
<1>6. QED BY <1>5 DEF Max

LEMMA LossesFinite ==
    ASSUME SlotInv
    PROVE  /\ IsFiniteSet(ActiveLosses \cup {0})
           /\ \A v \in ActiveLosses \cup {0} : v \in Nat
<1> DEFINE S == {m \in Neighbor : InForce(slot[LossKey(m)])}
           f == [n \in S |-> slot[LossKey(n)].value]
<1>1. IsFiniteSet(S)
  BY FS_Subset
<1>2. f \in Surjection(S, ActiveLosses)
  BY DEF Surjection, ActiveLosses
<1> HIDE DEF S, f
<1>3. IsFiniteSet(ActiveLosses)
  BY <1>1, <1>2, FS_Surjection
<1>4. IsFiniteSet(ActiveLosses \cup {0})
  BY <1>3, FS_AddElement
<1>5. \A n \in Neighbor : slot[LossKey(n)].value \in Nat
  <2>1. \A n \in Neighbor : slot[LossKey(n)].value \in Value \cup {0}
    BY KeysAre DEF SlotInv, Slot
  <2>2. \A v \in Value \cup {0} : v \in Nat
    OBVIOUS
  <2>3. QED BY <2>1, <2>2
<1>6. QED BY <1>4, <1>5 DEF ActiveLosses

LEMMA LossKeysDiffer ==
    \A n \in Neighbor : /\ LossKey(n) \notin {LoadKey, CapKey, LatencyKey}
                        /\ \A m \in Neighbor : LossKey(n) # FlowKey(m) /\ (LossKey(n) = LossKey(m) => n = m)
BY DEF LossKey, LoadKey, CapKey, LatencyKey, FlowKey

(* What may happen to the loss of a link between the report and forwarding. *)
Fades(n) ==
    InForce(slot'[LossKey(n)]) =>
        InForce(slot[LossKey(n)]) /\ slot'[LossKey(n)].value = slot[LossKey(n)].value

LEMMA OthersFade ==
    ASSUME SlotInv, NEW k \in Key, NEW v, slot' = [slot EXCEPT ![k] = v],
           NEW n \in Neighbor, LossKey(n) # k
    PROVE  Fades(n)
BY KeysAre DEF SlotInv, Fades

LEMMA ClearingFades ==
    ASSUME SlotInv, NEW k \in Key, slot' = [slot EXCEPT ![k] = Cleared(@)], NEW n \in Neighbor
    PROVE  Fades(n)
BY KeysAre DEF SlotInv, Fades, Cleared, InForce, Off

ReportInv == SlotInv /\ todo \subseteq Neighbor /\ LossReported

LEMMA FadingKeeps ==
    ASSUME ReportInv, report' = report, todo' \subseteq todo,
           \A n \in todo' \ struck' : n \notin struck /\ Fades(n)
    PROVE  LossReported'
BY DEF ReportInv, LossReported, Fades

LEMMA ReportStep == ReportInv /\ [Next]_vars => ReportInv'
<1> SUFFICES ASSUME ReportInv, [Next]_vars PROVE ReportInv'
  OBVIOUS
<1>0. SlotInv /\ SlotInv' /\ todo \subseteq Neighbor
  BY StepIsLease DEF ReportInv
<1>1. ASSUME NEW k \in Key, NEW v, slot' = [slot EXCEPT ![k] = v],
             \A n \in todo \ struck : LossKey(n) # k,
             UNCHANGED <<report, todo, struck>>
      PROVE  ReportInv'
  <2>1. \A n \in todo \ struck : Fades(n)
    BY <1>0, <1>1, OthersFade
  <2>2. QED BY <1>0, <1>1, <2>1, FadingKeeps DEF ReportInv
<1>2. ASSUME NEW k \in Key, slot' = [slot EXCEPT ![k] = Cleared(@)],
             report' = report, struck' = struck, todo' \subseteq todo
      PROVE  ReportInv'
  <2>1. \A n \in todo : Fades(n)
    BY <1>0, <1>2, ClearingFades
  <2>2. QED BY <1>0, <1>2, <2>1, FadingKeeps DEF ReportInv
<1>3. ASSUME UNCHANGED <<slot, report, todo, struck>> PROVE ReportInv'
  BY <1>3 DEF ReportInv, LossReported, SlotInv
<1>4. ASSUME NEW v \in LoadValue, OnLoad(v) PROVE ReportInv'
  <2>1. /\ slot' = [slot EXCEPT ![LoadKey] = [on |-> TRUE, value |-> v, left |-> LoadStale]]
        /\ UNCHANGED <<report, todo, struck>>
    BY <1>4 DEF OnLoad, SetTo
  <2>2. LoadKey \in Key /\ \A m \in todo \ struck : LossKey(m) # LoadKey
    BY <1>0, KeysAre, LossKeysDiffer
  <2>3. QED BY <1>1, <2>1, <2>2
<1>5. ASSUME NEW n \in Neighbor, NEW v \in FlowValue, OnFlow(n, v) PROVE ReportInv'
  <2>1. /\ slot' = [slot EXCEPT ![FlowKey(n)] = [on |-> TRUE, value |-> v, left |-> FlowStale]]
        /\ UNCHANGED <<report, todo, struck>>
    BY <1>5 DEF OnFlow, SetTo
  <2>2. FlowKey(n) \in Key /\ \A m \in todo \ struck : LossKey(m) # FlowKey(n)
    BY <1>0, KeysAre, LossKeysDiffer
  <2>3. QED BY <1>1, <2>1, <2>2
<1>6. ASSUME NEW v \in LatencyValue, NEW d \in Duration, OnLatency(v, d) PROVE ReportInv'
  <2>1. /\ slot' = [slot EXCEPT ![LatencyKey] = [on |-> TRUE, value |-> v, left |-> d]]
        /\ UNCHANGED <<report, todo, struck>>
    BY <1>6 DEF OnLatency, SetTo
  <2>2. LatencyKey \in Key /\ \A m \in todo \ struck : LossKey(m) # LatencyKey
    BY <1>0, KeysAre, LossKeysDiffer
  <2>3. QED BY <1>1, <2>1, <2>2
<1>7. ASSUME NEW v \in CapValue, NEW d \in Duration, OnAction(v, d) PROVE ReportInv'
  <2>1. \A n \in Neighbor : slot'[LossKey(n)] = slot[LossKey(n)]
    BY <1>0, <1>7, KeysAre, LossKeysDiffer DEF OnAction, SetTo, SlotInv
  <2>2. \A n \in todo : Fades(n)
    BY <1>0, <2>1 DEF Fades
  <2>3. QED BY <1>0, <1>7, <2>2, FadingKeeps DEF OnAction, ReportInv
<1>8. ASSUME NEW n \in Neighbor, NEW v \in LossValue, NEW d \in Duration, OnLoss(n, v, d)
      PROVE  ReportInv'
  <2>1. \A m \in todo \ struck' : m # n /\ Fades(m)
    BY <1>0, <1>8, KeysAre, LossKeysDiffer, OthersFade DEF OnLoss, SetTo
  <2>2. QED BY <1>0, <1>8, <2>1, FadingKeeps DEF OnLoss, ReportInv
<1>9. CASE OnKill
  BY <1>0, <1>9 DEF OnKill, ReportInv, LossReported
<1>10. CASE ReadLoad \/ ApplyCap \/ ReadLatency
  BY <1>2, <1>10, KeysAre DEF ReadLoad, ApplyCap, ReadLatency
<1>11. CASE SumInbound
  BY <1>3, <1>11 DEF SumInbound
<1>12. CASE Publish
  <2>1. MaxActiveLoss = Max(ActiveLosses \cup {0})
    BY DEF MaxActiveLoss
  <2>2. \A v \in ActiveLosses \cup {0} : MaxActiveLoss >= v
    BY <1>0, <2>1, LossesFinite, MaxIs
  <2>3. report'.loss = MaxActiveLoss /\ todo' = Neighbor /\ struck' = {} /\ slot' = slot
    BY <1>12 DEF Publish
  <2>4. \A n \in Neighbor : InForce(slot[LossKey(n)]) => slot[LossKey(n)].value \in ActiveLosses
    BY DEF ActiveLosses
  <2>5. LossReported'
    BY <2>2, <2>3, <2>4 DEF LossReported
  <2>6. QED BY <1>0, <2>3, <2>5 DEF ReportInv
<1>13. ASSUME NEW n \in Neighbor, Forward(n) PROVE ReportInv'
  BY <1>2, <1>13, KeysAre DEF Forward
<1>14. CASE Pass
  <2>1. \A n \in Neighbor : slot'[LossKey(n)] = Older(slot[LossKey(n)]) /\ slot[LossKey(n)] \in Slot
    BY <1>0, <1>14, KeysAre DEF Pass, SlotInv
  <2>2. \A s \in Slot : Older(s).value = s.value /\ (InForce(Older(s)) => InForce(s))
    BY DEF Older, InForce, Slot
  <2>3. \A n \in todo : Fades(n)
    BY <1>0, <2>1, <2>2 DEF Fades
  <2>4. QED BY <1>0, <1>14, <2>3, FadingKeeps DEF Pass, ReportInv
<1>15. CASE UNCHANGED vars
  BY <1>3, <1>15 DEF vars
<1>16. QED
  BY <1>4, <1>5, <1>6, <1>7, <1>8, <1>9, <1>10, <1>11, <1>12, <1>13, <1>14, <1>15 DEF Next, Tick

(* The tick reports the losses at one moment and applies them, link by      *)
(* link, later; what is reported covers what is applied unless the loss was *)
(* set in between (simulate.go:70, chaos.go:72-88, main.go:105-115).        *)
THEOREM ReportCoversLoss == Spec => []LossReported
<1>1. Init => ReportInv
  BY DEF Init, ReportInv, SlotInv, Slot, Off, LossReported
<1>2. ReportInv => LossReported
  BY DEF ReportInv
<1>3. QED BY <1>1, <1>2, ReportStep, PTL DEF Spec
-----------------------------------------------------------------------------
(* The types of what a tick reads and publishes.  The sum of the flows is a *)
(* fold over the neighbors: the function it is computed by exists because   *)
(* no size of subset is the least one it cannot be continued to, and its    *)
(* values are numbers because no subset is a least one where they are not.  *)

PickOf(s) == CHOOSE x \in s : TRUE
Added(f, sum, s) == IF s = {} THEN 0 ELSE f[PickOf(s)] + sum[s \ {PickOf(s)}]

SumUpTo(f, S, k) ==
    {sum \in [SUBSET S -> Nat] :
        \A s \in SUBSET S : Cardinality(s) <= k => sum[s] = Added(f, sum, s)}

LEMMA LeastNumber ==
    ASSUME NEW S \in SUBSET Nat, S # {}
    PROVE  \E m \in S : \A l \in S : ~(l < m)
<1>1. PICK m \in S : \A l \in S : ~(<<l, m>> \in OpToRel(<, Nat))
  BY WFMin, NatLessThanWellFounded
<1>2. \A l \in S : ~(l < m)
  BY <1>1 DEF OpToRel
<1>3. QED BY <1>2

LEMMA SmallerWithoutOne ==
    ASSUME NEW S, IsFiniteSet(S), NEW s \in SUBSET S, s # {}
    PROVE  /\ PickOf(s) \in s /\ PickOf(s) \in S
           /\ s \ {PickOf(s)} \in SUBSET S
           /\ Cardinality(s) \in Nat
           /\ Cardinality(s \ {PickOf(s)}) = Cardinality(s) - 1
<1>1. PickOf(s) \in s
  BY DEF PickOf
<1>2. IsFiniteSet(s)
  BY FS_Subset
<1>3. QED BY <1>1, <1>2, FS_RemoveElement, FS_CardinalityType

LEMMA SumAtZero ==
    ASSUME NEW S, IsFiniteSet(S), NEW f \in [S -> Nat]
    PROVE  SumUpTo(f, S, 0) # {}
<1> DEFINE zero == [s \in SUBSET S |-> 0]
<1>1. zero \in [SUBSET S -> Nat]
  OBVIOUS
<1>2. ASSUME NEW s \in SUBSET S, Cardinality(s) <= 0 PROVE s = {}
  <2>1. IsFiniteSet(s) /\ Cardinality(s) \in Nat
    BY FS_Subset, FS_CardinalityType
  <2>2. Cardinality(s) = 0
    BY <1>2, <2>1
  <2>3. QED BY <2>1, <2>2, FS_EmptySet
<1>3. \A s \in SUBSET S : Cardinality(s) <= 0 => zero[s] = Added(f, zero, s)
  BY <1>2 DEF Added
<1>4. QED BY <1>1, <1>3 DEF SumUpTo

LEMMA SumOneMore ==
    ASSUME NEW S, IsFiniteSet(S), NEW f \in [S -> Nat], NEW k \in Nat,
           NEW sum \in SumUpTo(f, S, k)
    PROVE  SumUpTo(f, S, k + 1) # {}
<1> DEFINE more == [s \in SUBSET S |-> IF Cardinality(s) <= k THEN sum[s] ELSE Added(f, sum, s)]
<1>0. /\ sum \in [SUBSET S -> Nat]
      /\ \A s \in SUBSET S : Cardinality(s) <= k => sum[s] = Added(f, sum, s)
  BY DEF SumUpTo
<1>1. \A s \in SUBSET S : Added(f, sum, s) \in Nat
  BY <1>0, SmallerWithoutOne DEF Added
<1>2. more \in [SUBSET S -> Nat]
  BY <1>0, <1>1
<1>3. \A s \in SUBSET S : more[s] = Added(f, sum, s)
  BY <1>0
<1>4. \A s \in SUBSET S : Cardinality(s) <= k => more[s] = sum[s]
  OBVIOUS
<1> HIDE DEF more
<1>5. ASSUME NEW s \in SUBSET S, Cardinality(s) <= k + 1
      PROVE  more[s] = Added(f, more, s)
  <2>1. CASE s = {}
    BY <1>3, <2>1 DEF Added
  <2>2. CASE s # {}
    <3>1. /\ s \ {PickOf(s)} \in SUBSET S
          /\ Cardinality(s) \in Nat
          /\ Cardinality(s \ {PickOf(s)}) = Cardinality(s) - 1
      BY <2>2, SmallerWithoutOne
    <3>2. Cardinality(s \ {PickOf(s)}) <= k
      BY <1>5, <3>1
    <3>3. more[s \ {PickOf(s)}] = sum[s \ {PickOf(s)}]
      BY <1>4, <3>1, <3>2
    <3>4. QED BY <1>3, <2>2, <3>3 DEF Added
  <2>3. QED BY <2>1, <2>2
<1>6. QED BY <1>2, <1>5 DEF SumUpTo

LEMMA SumExists ==
    ASSUME NEW S, IsFiniteSet(S), NEW f \in [S -> Nat]
    PROVE  \E sum : sum = [s \in SUBSET S |-> Added(f, sum, s)]
<1> DEFINE stuck == {k \in Nat : SumUpTo(f, S, k) = {}}
<1>1. stuck = {}
  <2> SUFFICES ASSUME stuck # {} PROVE FALSE
    OBVIOUS
  <2>1. PICK k \in stuck : \A l \in stuck : ~(l < k)
    <3>1. stuck \in SUBSET Nat
      OBVIOUS
    <3> HIDE DEF stuck
    <3>2. QED BY <3>1, LeastNumber
  <2>2. k \in Nat /\ SumUpTo(f, S, k) = {}
    OBVIOUS
  <2>3. k # 0
    BY <2>2, SumAtZero
  <2>4. k - 1 \in Nat /\ k - 1 \notin stuck
    BY <2>1, <2>2, <2>3
  <2>5. PICK sum : sum \in SumUpTo(f, S, k - 1)
    BY <2>4
  <2>6. SumUpTo(f, S, (k - 1) + 1) # {}
    BY <2>4, <2>5, SumOneMore
  <2>7. (k - 1) + 1 = k
    BY <2>2
  <2>8. QED BY <2>2, <2>6, <2>7
<1>2. Cardinality(S) \in Nat
  BY FS_CardinalityType
<1>3. PICK sum : sum \in SumUpTo(f, S, Cardinality(S))
  BY <1>1, <1>2
<1>4. \A s \in SUBSET S : Cardinality(s) <= Cardinality(S)
  BY FS_Subset
<1>5. sum \in [SUBSET S -> Nat] /\ \A s \in SUBSET S : sum[s] = Added(f, sum, s)
  BY <1>3, <1>4 DEF SumUpTo
<1>6. sum = [s \in SUBSET S |-> Added(f, sum, s)]
  BY <1>5
<1>7. QED BY <1>6

LEMMA SumsAreNumbers ==
    ASSUME NEW S, IsFiniteSet(S), NEW f \in [S -> Nat],
           NEW sum, sum = [s \in SUBSET S |-> Added(f, sum, s)]
    PROVE  sum[S] \in Nat
<1> DEFINE bad == {s \in SUBSET S : sum[s] \notin Nat}
           sizes == {Cardinality(s) : s \in bad}
<1>0. \A s \in SUBSET S : sum[s] = Added(f, sum, s)
  OBVIOUS
<1>1. bad = {}
  <2> SUFFICES ASSUME bad # {} PROVE FALSE
    OBVIOUS
  <2>1. sizes \in SUBSET Nat /\ sizes # {}
    <3>1. \A s \in bad : IsFiniteSet(s)
      BY FS_Subset
    <3>2. \A s \in bad : Cardinality(s) \in Nat
      BY <3>1, FS_CardinalityType
    <3>3. \A k \in sizes : k \in Nat
      <4> HIDE DEF bad
      <4>1. QED BY <3>2
    <3>4. sizes # {}
      <4> HIDE DEF bad
      <4>1. QED OBVIOUS
    <3> HIDE DEF sizes
    <3>5. QED BY <3>3, <3>4
  <2>2. PICK k \in sizes : \A l \in sizes : ~(l < k)
    <3> HIDE DEF sizes
    <3>1. QED BY <2>1, LeastNumber
  <2>3. PICK s \in bad : k = Cardinality(s)
    OBVIOUS
  <2>4. s \in SUBSET S /\ sum[s] \notin Nat
    OBVIOUS
  <2>5. s # {}
    BY <1>0, <2>4 DEF Added
  <2>6. /\ PickOf(s) \in S
        /\ s \ {PickOf(s)} \in SUBSET S
        /\ Cardinality(s) \in Nat
        /\ Cardinality(s \ {PickOf(s)}) = Cardinality(s) - 1
    BY <2>4, <2>5, SmallerWithoutOne
  <2>7. s \ {PickOf(s)} \notin bad
    <3>1. Cardinality(s \ {PickOf(s)}) < k
      BY <2>3, <2>6
    <3>2. QED BY <2>2, <3>1
  <2>8. sum[s \ {PickOf(s)}] \in Nat
    BY <2>6, <2>7
  <2>9. sum[s] = f[PickOf(s)] + sum[s \ {PickOf(s)}]
    BY <1>0, <2>4, <2>5 DEF Added
  <2>10. QED BY <2>4, <2>6, <2>8, <2>9
<1>2. QED BY <1>1

LEMMA ReadingsAre ==
    ASSUME SlotInv
    PROVE  /\ \A k \in Key, default \in Nat : Reading(k, default) \in Nat
           /\ \A v \in Nat : Capped(v) \in Nat
<1>1. \A k \in Key : slot[k].value \in Nat
  <2>1. \A k \in Key : slot[k].value \in Value \cup {0}
    BY DEF SlotInv, Slot
  <2>2. \A v \in Value \cup {0} : v \in Nat
    OBVIOUS
  <2>3. QED BY <2>1, <2>2
<1>2. QED BY <1>1, KeysAre DEF Reading, Capped

LEMMA InboundIsNumber ==
    ASSUME SlotInv
    PROVE  Inbound \in Nat
<1> DEFINE f == [n \in Neighbor |-> Reading(FlowKey(n), 0)]
           step(sum, s) == IF s = {} THEN 0
                           ELSE Reading(FlowKey(CHOOSE n \in s : TRUE), 0)
                                + sum[s \ {CHOOSE n \in s : TRUE}]
           sum == CHOOSE sum : sum = [s \in SUBSET Neighbor |-> step(sum, s)]
<1>1. f \in [Neighbor -> Nat]
  BY ReadingsAre, KeysAre
<1>2. ASSUME NEW any PROVE \A s \in SUBSET Neighbor : step(any, s) = Added(f, any, s)
  <2>1. \A s \in SUBSET Neighbor : s # {} => (CHOOSE n \in s : TRUE) \in Neighbor
    OBVIOUS
  <2>2. QED BY <2>1 DEF Added, PickOf
<1>3. Inbound = sum[Neighbor]
  BY DEF Inbound, MapThenSumSet, MapThenFoldSet
<1>4. sum = [s \in SUBSET Neighbor |-> step(sum, s)]
  <2>1. PICK any : any = [s \in SUBSET Neighbor |-> Added(f, any, s)]
    <3> HIDE DEF f
    <3>1. QED BY <1>1, SumExists
  <2>2. any = [s \in SUBSET Neighbor |-> step(any, s)]
    <3> HIDE DEF f, step
    <3>1. QED BY <1>2, <2>1
  <2> HIDE DEF step
  <2>3. QED BY <2>2
<1>5. sum = [s \in SUBSET Neighbor |-> Added(f, sum, s)]
  <2> HIDE DEF f, step, sum
  <2>1. QED BY <1>2, <1>4
<1>6. sum[Neighbor] \in Nat
  <2> HIDE DEF f, sum
  <2>1. QED BY <1>1, <1>5, SumsAreNumbers
<1>7. QED BY <1>3, <1>6

LEMMA LossIsNumber ==
    ASSUME SlotInv
    PROVE  MaxActiveLoss \in Nat
<1>1. MaxActiveLoss = Max(ActiveLosses \cup {0})
  BY DEF MaxActiveLoss
<1>2. QED BY <1>1, LossesFinite, MaxIs

(* All but the slots, which TickUnseen and its companions take care of.     *)
DraftInv ==
    /\ pc \in {"load", "cap", "inbound", "latency", "publish", "forward", "dead"}
    /\ draft \in [offered : Nat, latency : Nat]
    /\ report \in [offered : Nat, latency : Nat, loss : Nat]
    /\ todo \subseteq Neighbor /\ struck \subseteq Neighbor
    /\ commands \in 0..MaxCommands

LEMMA CommandCounted == Command /\ DraftInv => commands' \in 0..MaxCommands
BY DEF Command, DraftInv

LEMMA DraftStep == SlotInv /\ DraftInv /\ [Next]_vars => DraftInv'
<1> SUFFICES ASSUME SlotInv, DraftInv, [Next]_vars PROVE DraftInv'
  OBVIOUS
<1>1. ASSUME NEW v \in LoadValue, OnLoad(v) PROVE DraftInv'
  BY <1>1, CommandCounted DEF OnLoad, DraftInv
<1>2. ASSUME NEW n \in Neighbor, NEW v \in FlowValue, OnFlow(n, v) PROVE DraftInv'
  BY <1>2, CommandCounted DEF OnFlow, DraftInv
<1>3. ASSUME NEW v \in CapValue, NEW d \in Duration, OnAction(v, d) PROVE DraftInv'
  BY <1>3, CommandCounted DEF OnAction, DraftInv
<1>4. ASSUME NEW v \in LatencyValue, NEW d \in Duration, OnLatency(v, d) PROVE DraftInv'
  BY <1>4, CommandCounted DEF OnLatency, DraftInv
<1>5. ASSUME NEW n \in Neighbor, NEW v \in LossValue, NEW d \in Duration, OnLoss(n, v, d)
      PROVE  DraftInv'
  BY <1>5, CommandCounted DEF OnLoss, DraftInv
<1>6. CASE OnKill
  BY <1>6, CommandCounted DEF OnKill, DraftInv
<1>7. CASE ReadLoad
  <2>1. Reading(LoadKey, Baseline) \in Nat
    BY ReadingsAre, KeysAre
  <2>2. QED BY <1>7, <2>1 DEF ReadLoad, DraftInv
<1>8. CASE ApplyCap
  <2>1. Capped(draft.offered) \in Nat
    BY ReadingsAre DEF DraftInv
  <2>2. draft' = [draft EXCEPT !.offered = Capped(draft.offered)]
    BY <1>8 DEF ApplyCap
  <2>3. QED BY <1>8, <2>1, <2>2 DEF ApplyCap, DraftInv
<1>9. CASE SumInbound
  <2>1. draft' = [draft EXCEPT !.offered = draft.offered + Inbound] /\ Inbound \in Nat
    BY <1>9, InboundIsNumber DEF SumInbound
  <2>2. QED BY <1>9, <2>1 DEF SumInbound, DraftInv
<1>10. CASE ReadLatency
  <2>1. Reading(LatencyKey, 0) \in Nat
    BY ReadingsAre, KeysAre
  <2>2. QED BY <1>10, <2>1 DEF ReadLatency, DraftInv
<1>11. CASE Publish
  BY <1>11, LossIsNumber DEF Publish, DraftInv
<1>12. ASSUME NEW n \in Neighbor, Forward(n) PROVE DraftInv'
  BY <1>12 DEF Forward, DraftInv
<1>13. CASE Pass \/ UNCHANGED vars
  BY <1>13 DEF Pass, vars, DraftInv
<1>14. QED
  BY <1>1, <1>2, <1>3, <1>4, <1>5, <1>6, <1>7, <1>8, <1>9, <1>10, <1>11, <1>12, <1>13 DEF Next, Tick

(* The tick of an agent keeps its types: what is read, capped, summed over  *)
(* the neighbors and published is a number whatever the callbacks do in     *)
(* between, and no effect's time left falls below "expired"                 *)
(* (action.go:37, chaos.go:49, simulate.go:125, main.go:96-115).            *)
THEOREM AgentTypeCorrect == Spec => []TypeOK
<1>1. Init => SlotInv /\ DraftInv
  BY DEF Init, SlotInv, Slot, Off, DraftInv
<1>2. SlotInv /\ DraftInv /\ [Next]_vars => (SlotInv /\ DraftInv)'
  BY StepIsLease, DraftStep
<1>3. SlotInv /\ DraftInv => TypeOK
  BY DEF SlotInv, DraftInv, TypeOK
<1>4. QED BY <1>1, <1>2, <1>3, PTL DEF Spec
=============================================================================
