------------------------- MODULE VerdictStoreProofs -------------------------
(* Theorems about VerdictStore for every number of threads up to MaxStored: *)
(* what the unlocked check-then-pop of POST /diagnose keeps and drops, and  *)
(* what a GET that races a re-run answers.                                  *)
EXTENDS VerdictStore, FiniteSetTheorems, SequenceTheorems, TLAPS

USE StoreAssumption

-----------------------------------------------------------------------------
(* The sets of threads at each place.                                       *)

LEMMA AtFinite ==
    ASSUME NEW place
    PROVE  /\ IsFiniteSet(At(place))
           /\ Cardinality(At(place)) \in Nat
           /\ Cardinality(At(place)) <= Cardinality(Worker)
           /\ Cardinality(Worker) \in Nat
<1>1. At(place) \in SUBSET Worker
  BY DEF At
<1>2. QED BY <1>1, FS_Subset, FS_CardinalityType

LEMMA AtFinitePrime ==
    ASSUME NEW place
    PROVE  /\ IsFiniteSet(At(place)')
           /\ Cardinality(At(place)') \in Nat
           /\ Cardinality(At(place)') <= Cardinality(Worker)
<1>1. At(place)' \in SUBSET Worker
  BY DEF At
<1>2. QED BY <1>1, FS_Subset, FS_CardinalityType

(* A thread that goes from one place to another changes the two sets by     *)
(* itself, and no other.                                                    *)
LEMMA GoMoves ==
    ASSUME TypeOK, NEW w \in Worker, NEW from, NEW to, from # to, Go(w, from, to)
    PROVE  /\ At(to)' = At(to) \cup {w} /\ Cardinality(At(to)') = Cardinality(At(to)) + 1
           /\ At(from)' = At(from) \ {w} /\ Cardinality(At(from)') = Cardinality(At(from)) - 1
           /\ w \in At(from) /\ Cardinality(At(from)) >= 1
           /\ \A place : place # from /\ place # to => At(place)' = At(place)
<1>1. /\ At(to)' = At(to) \cup {w} /\ w \notin At(to)
      /\ At(from)' = At(from) \ {w} /\ w \in At(from)
      /\ \A place : place # from /\ place # to => At(place)' = At(place)
  BY DEF At, Go, TypeOK
<1>2. /\ Cardinality(At(to)') = Cardinality(At(to)) + 1
      /\ Cardinality(At(from)') = Cardinality(At(from)) - 1
  <2>1. IsFiniteSet(At(to)) /\ IsFiniteSet(At(from))
    BY AtFinite
  <2>2. Cardinality(At(to) \cup {w}) = Cardinality(At(to)) + 1
    BY <1>1, <2>1, FS_AddElement
  <2>3. Cardinality(At(from) \ {w}) = Cardinality(At(from)) - 1
    BY <1>1, <2>1, FS_RemoveElement
  <2>4. QED BY <1>1, <2>2, <2>3
<1>3. Cardinality(At(from)) >= 1
  BY <1>1, AtFinite, FS_EmptySet
<1>4. QED BY <1>1, <1>2, <1>3

-----------------------------------------------------------------------------
(* The inductive invariant.  EvictingInv is why an eviction never finds the *)
(* list empty: a thread decides to evict when the list is over its limit,   *)
(* and since then only threads that also decided can have shortened it.     *)
(* VictimInv: what threads hold to drop is older than the order, and no two *)
(* threads hold the same verdict.                                           *)
EvictingInv ==
    At("evicting") # {} =>
        Len(order) - Cardinality(At("evicting")) >= MaxStored + 1 - Cardinality(Worker)

Retained == Len(order) >= Smaller(nextId - 1, MaxStored + 1 - Cardinality(Worker))

VictimInv ==
    /\ \A w \in At("dropping") : victim[w] \in Id /\ victim[w] < nextId - Len(order)
    /\ \A u, w \in At("dropping") : u # w => victim[u] # victim[w]

StoreInv ==
    /\ TypeOK /\ SizeBounded /\ EvictingInv /\ Retained
    /\ OrderIsNewest /\ VictimInv /\ StoreMatchesOrder

LEMMA InvInit == Init => StoreInv
<1> SUFFICES ASSUME Init PROVE StoreInv
  OBVIOUS
<1>1. /\ TypeOK /\ order = <<>> /\ Len(order) = 0 /\ nextId = 1 /\ stored = {}
      /\ At("evicting") = {} /\ At("dropping") = {} /\ At("checking") = {}
  BY DEF Init, TypeOK, Fields, Fresh, At, Id
<1>2. SizeBounded /\ EvictingInv /\ Retained
  BY <1>1, AtFinite DEF SizeBounded, EvictingInv, Retained, Smaller
<1>3. OrderIsNewest /\ VictimInv /\ StoreMatchesOrder
  BY <1>1 DEF OrderIsNewest, VictimInv, StoreMatchesOrder
<1>4. QED BY <1>1, <1>2, <1>3 DEF StoreInv

(* A thread that evicts finds a verdict to evict.                           *)
LEMMA EvictingNonempty ==
    ASSUME StoreInv, NEW w \in At("evicting")
    PROVE  order # <<>> /\ Len(order) \in Nat /\ Len(order) >= 1
           /\ Len(order) - 1 >= MaxStored + 1 - Cardinality(Worker)
<1>1. Cardinality(At("evicting")) >= 1 /\ Cardinality(At("evicting")) \in Nat
  BY AtFinite, FS_EmptySet
<1>2. order \in Seq(Id) /\ Len(order) \in Nat
  BY LenProperties DEF StoreInv, TypeOK
<1>3. Len(order) >= 1 /\ Len(order) - 1 >= MaxStored + 1 - Cardinality(Worker)
  BY <1>1, <1>2, AtFinite DEF StoreInv, EvictingInv
<1>4. QED BY <1>2, <1>3

RefineState == {"none", "queued", "running", "done", "failed", "dropped"}

LEMMA TypeStep == StoreInv /\ [Next]_vars => TypeOK'
<1> SUFFICES ASSUME StoreInv, [Next]_vars PROVE TypeOK'
  OBVIOUS
<1>0. TypeOK
  BY DEF StoreInv
<1> USE <1>0 DEF TypeOK, Go, Finish, store
<1>1. ASSUME NEW w \in Worker, Store(w) PROVE TypeOK'
  <2>1. nextId \in Id
    BY <1>1 DEF Store, Id
  <2>2. order' \in Seq(Id)
    BY <1>1, <2>1, AppendProperties DEF Store
  <2>3. QED BY <1>1, <2>1, <2>2 DEF Store, Fresh, Fields, Id
<1>2. ASSUME NEW w \in Worker, PopOldest(w) PROVE TypeOK'
  <2>1. order # <<>>
    BY <1>2, EvictingNonempty DEF PopOldest, At
  <2>2. Head(order) \in Id /\ order' \in Seq(Id)
    BY <1>2, <2>1, HeadTailProperties DEF PopOldest
  <2>3. QED BY <1>2, <2>2 DEF PopOldest, Id
<1>3. ASSUME NEW w \in Worker, Diagnosis(w), ~PopOldest(w) PROVE TypeOK'
  <2>1. CASE CheckSize(w)
    BY <2>1 DEF CheckSize
  <2>2. CASE DropVictim(w)
    BY <2>2 DEF DropVictim
  <2>3. CASE SetExecution(w)
    BY <2>3 DEF SetExecution, Fields
  <2>4. CASE Answer(w)
    <3>1. refine' \in [Id -> RefineState]
      BY <2>4 DEF Answer, RefineState
    <3>2. QED BY <2>4, <3>1 DEF Answer, RefineState
  <2>5. QED BY <1>3, <2>1, <2>2, <2>3, <2>4 DEF Diagnosis
<1>4. ASSUME NEW w \in Worker, NEW i \in Id, RefineStart(w, i) \/ RefineDropped(w, i) \/ GetStart(w, i)
      PROVE  TypeOK'
  <2>1. CASE RefineStart(w, i)
    <3>1. refine' \in [Id -> RefineState]
      BY <2>1 DEF RefineStart, RefineState
    <3>2. QED BY <2>1, <3>1 DEF RefineStart, RefineState, Id
  <2>2. CASE RefineDropped(w, i)
    <3>1. refine' \in [Id -> RefineState]
      BY <2>2 DEF RefineDropped, RefineState
    <3>2. QED BY <2>2, <3>1 DEF RefineDropped, RefineState
  <2>3. CASE GetStart(w, i)
    BY <2>3 DEF GetStart, Id
  <2>4. QED BY <1>4, <2>1, <2>2, <2>3
<1>5. ASSUME NEW w \in Worker, Refinement(w) PROVE TypeOK'
  <2>1. CASE RefineFails(w)
    <3>1. refine' \in [Id -> RefineState]
      BY <2>1 DEF RefineFails, RefineState
    <3>2. QED BY <2>1, <3>1 DEF RefineFails, RefineState
  <2>2. CASE RefineDone(w)
    <3>1. refine' \in [Id -> RefineState]
      BY <2>2 DEF RefineDone, RefineState
    <3>2. verdict' \in [Id -> Fields]
      <4>1. PICK b \in BOOLEAN : verdict' = [verdict EXCEPT ![cur[w]] =
                [@ EXCEPT !.checked = TRUE, !.revised = b, !.revision = b]]
        BY <2>2 DEF RefineDone
      <4>2. \A f \in Fields : [f EXCEPT !.checked = TRUE, !.revised = b, !.revision = b] \in Fields
        BY DEF Fields
      <4>3. QED BY <4>1, <4>2
    <3>3. QED BY <2>2, <3>1, <3>2 DEF RefineDone, RefineState
  <2>3. QED BY <1>5, <2>1, <2>2 DEF Refinement
<1>6. ASSUME NEW w \in Worker, GetEnd(w) PROVE TypeOK'
  BY <1>6 DEF GetEnd, Fresh, Fields
<1>7. CASE UNCHANGED vars
  BY <1>7 DEF vars
<1>8. QED BY <1>1, <1>2, <1>3, <1>4, <1>5, <1>6, <1>7 DEF Next

(* A step that leaves the store and the three places alone keeps the rest.  *)
LEMMA StoreUntouched ==
    ASSUME StoreInv, TypeOK', UNCHANGED store,
           \A place \in {"checking", "evicting", "dropping"} : At(place)' = At(place)
    PROVE  StoreInv'
<1>1. /\ At("checking")' = At("checking") /\ At("evicting")' = At("evicting")
      /\ At("dropping")' = At("dropping")
  OBVIOUS
<1>2. /\ SizeBounded' /\ EvictingInv' /\ Retained'
  BY <1>1 DEF StoreInv, SizeBounded, EvictingInv, Retained, store
<1>3. OrderIsNewest' /\ VictimInv' /\ StoreMatchesOrder'
  BY <1>1 DEF StoreInv, OrderIsNewest, VictimInv, StoreMatchesOrder, store
<1>4. QED BY <1>2, <1>3 DEF StoreInv

LEMMA InvStep == StoreInv /\ [Next]_vars => StoreInv'
<1> SUFFICES ASSUME StoreInv, [Next]_vars PROVE StoreInv'
  OBVIOUS
<1>0. TypeOK /\ TypeOK' /\ order \in Seq(Id) /\ Len(order) \in Nat /\ nextId \in Nat
  BY TypeStep, LenProperties DEF StoreInv, TypeOK
<1>a. Cardinality(Worker) \in Nat
  BY FS_CardinalityType
<1>1. ASSUME NEW w \in Worker, Store(w) PROVE StoreInv'
  <2>1. /\ Cardinality(At("checking")') = Cardinality(At("checking")) + 1
        /\ At("evicting")' = At("evicting") /\ At("dropping")' = At("dropping")
    BY <1>0, <1>1, GoMoves DEF Store
  <2>2. /\ nextId \in Id /\ nextId' = nextId + 1 /\ victim' = victim
        /\ stored' = stored \cup {nextId} /\ order' = Append(order, nextId)
    BY <1>0, <1>1 DEF Store, Id, TypeOK
  <2>3. /\ Len(order') = Len(order) + 1
        /\ \A k \in 1..Len(order) : order'[k] = order[k]
        /\ order'[Len(order) + 1] = nextId
    BY <1>0, <2>2, AppendProperties
  <2>4. SizeBounded' /\ EvictingInv' /\ Retained'
    <3>1. SizeBounded'
      BY <1>0, <2>1, <2>3, AtFinite DEF StoreInv, SizeBounded
    <3>2. EvictingInv'
      BY <1>0, <2>1, <2>3, AtFinite DEF StoreInv, EvictingInv
    <3>3. Retained'
      BY <1>0, <1>a, <2>2, <2>3 DEF StoreInv, Retained, Smaller
    <3>4. QED BY <3>1, <3>2, <3>3
  <2>5. OrderIsNewest'
    BY <1>0, <2>2, <2>3 DEF StoreInv, OrderIsNewest
  <2>6. VictimInv'
    BY <1>0, <2>1, <2>2, <2>3 DEF StoreInv, VictimInv
  <2>7. {order'[k] : k \in 1..Len(order')} = {order[k] : k \in 1..Len(order)} \cup {nextId}
    BY <1>0, <2>3
  <2>8. StoreMatchesOrder'
    BY <2>1, <2>2, <2>7 DEF StoreInv, StoreMatchesOrder
  <2>9. QED BY <1>0, <2>4, <2>5, <2>6, <2>8 DEF StoreInv
<1>2. ASSUME NEW w \in Worker, CheckSize(w) PROVE StoreInv'
  <2>1. UNCHANGED store /\ nextId' = nextId /\ order' = order
    BY <1>2 DEF CheckSize, store
  <2>2. CASE Overfull
    <3>1. /\ Cardinality(At("evicting")') = Cardinality(At("evicting")) + 1
          /\ Cardinality(At("checking")') = Cardinality(At("checking")) - 1
          /\ At("dropping")' = At("dropping")
      BY <1>0, <1>2, <2>2, GoMoves DEF CheckSize
    <3>2. SizeBounded'
      BY <1>0, <2>1, <3>1, AtFinite DEF StoreInv, SizeBounded
    <3>3. EvictingInv'
      BY <1>0, <2>1, <2>2, <3>1, AtFinite, AtFinitePrime DEF EvictingInv, Overfull
    <3>4. Retained' /\ OrderIsNewest' /\ VictimInv' /\ StoreMatchesOrder'
      BY <2>1, <3>1 DEF StoreInv, Retained, OrderIsNewest, VictimInv, StoreMatchesOrder, store
    <3>5. QED BY <1>0, <3>2, <3>3, <3>4 DEF StoreInv
  <2>3. CASE ~Overfull
    <3>1. /\ At("evicting")' = At("evicting") /\ At("dropping")' = At("dropping")
      BY <1>0, <1>2, <2>3, GoMoves DEF CheckSize
    <3>2. SizeBounded'
      BY <1>0, <2>1, <2>3, <3>1, AtFinite, AtFinitePrime DEF SizeBounded, Overfull
    <3>3. EvictingInv' /\ Retained' /\ OrderIsNewest' /\ VictimInv' /\ StoreMatchesOrder'
      BY <2>1, <3>1 DEF StoreInv, EvictingInv, Retained, OrderIsNewest, VictimInv,
                        StoreMatchesOrder, store
    <3>4. QED BY <1>0, <3>2, <3>3 DEF StoreInv
  <2>4. QED BY <2>2, <2>3
<1>3. ASSUME NEW w \in Worker, PopOldest(w) PROVE StoreInv'
  <2>1. /\ Cardinality(At("evicting")') = Cardinality(At("evicting")) - 1
        /\ At("checking")' = At("checking") /\ w \in At("evicting")
        /\ At("dropping")' = At("dropping") \cup {w} /\ w \notin At("dropping")
    <3>1. Go(w, "evicting", "dropping")
      BY <1>3 DEF PopOldest
    <3>2. w \notin At("dropping")
      BY <1>0, <3>1 DEF Go, At
    <3>3. QED BY <1>0, <3>1, <3>2, GoMoves
  <2>2. /\ order # <<>> /\ Len(order) >= 1
        /\ Len(order) - 1 >= MaxStored + 1 - Cardinality(Worker)
    BY <2>1, EvictingNonempty
  <2>3. /\ order' = Tail(order) /\ Len(order') = Len(order) - 1
        /\ \A k \in 1..Len(order') : order'[k] = order[k + 1]
        /\ order[1] = nextId - Len(order) /\ Head(order) = order[1] /\ order[1] \in Id
    <3>1. order' = Tail(order)
      BY <1>3 DEF PopOldest
    <3>2. Len(order') = Len(order) - 1 /\ \A k \in 1..Len(order') : order'[k] = order[k + 1]
      BY <1>0, <2>2, <3>1, HeadTailProperties
    <3>3. 1 \in 1..Len(order)
      BY <1>0, <2>2
    <3>4. order[1] = nextId - Len(order)
      BY <1>0, <3>3 DEF StoreInv, OrderIsNewest
    <3>5. order[1] \in Id
      BY <1>0, <3>3, ElementOfSeq
    <3>6. Head(order) = order[1]
      BY <1>0, <2>2
    <3>7. QED BY <3>1, <3>2, <3>4, <3>5, <3>6
  <2>4. /\ nextId' = nextId /\ stored' = stored
        /\ victim' = [victim EXCEPT ![w] = nextId - Len(order)]
    BY <1>3, <2>3 DEF PopOldest
  <2>5. SizeBounded' /\ EvictingInv' /\ Retained'
    <3>1. SizeBounded'
      BY <1>0, <2>1, <2>3, AtFinite DEF StoreInv, SizeBounded
    <3>2. EvictingInv'
      BY <1>0, <2>1, <2>3, AtFinite DEF StoreInv, EvictingInv
    <3>3. Retained'
      BY <1>0, <1>a, <2>2, <2>3, <2>4 DEF Retained, Smaller
    <3>4. QED BY <3>1, <3>2, <3>3
  <2>6. OrderIsNewest'
    BY <1>0, <2>2, <2>3, <2>4 DEF StoreInv, OrderIsNewest
  <2>7. /\ victim'[w] = nextId - Len(order) /\ victim'[w] \in Id
        /\ \A u \in At("dropping") : victim'[u] = victim[u] /\ victim[u] < nextId - Len(order)
    BY <1>0, <2>1, <2>3, <2>4 DEF StoreInv, VictimInv, TypeOK, At
  <2>8. VictimInv'
    BY <1>0, <2>1, <2>3, <2>4, <2>7 DEF StoreInv, VictimInv, Id
  <2>9. {order[k] : k \in 1..Len(order)} = {order'[k] : k \in 1..Len(order')} \cup {order[1]}
    <3>1. \A k \in 1..Len(order) : k # 1 => k - 1 \in 1..Len(order') /\ order'[k - 1] = order[k]
      BY <1>0, <2>2, <2>3
    <3>2. \A k \in 1..Len(order') : k + 1 \in 1..Len(order)
      BY <1>0, <2>2, <2>3
    <3>3. 1 \in 1..Len(order)
      BY <1>0, <2>2
    <3>4. ASSUME NEW x \in {order[k] : k \in 1..Len(order)}
          PROVE  x \in {order'[k] : k \in 1..Len(order')} \cup {order[1]}
      BY <3>1
    <3>5. ASSUME NEW x \in {order'[k] : k \in 1..Len(order')} \cup {order[1]}
          PROVE  x \in {order[k] : k \in 1..Len(order)}
      BY <2>3, <3>2, <3>3
    <3>6. QED BY <3>4, <3>5
  <2>10. {victim'[u] : u \in At("dropping")'} = {victim[u] : u \in At("dropping")} \cup {order[1]}
    BY <2>1, <2>3, <2>7
  <2>11. StoreMatchesOrder'
    BY <2>4, <2>9, <2>10 DEF StoreInv, StoreMatchesOrder
  <2>12. QED BY <1>0, <2>5, <2>6, <2>8, <2>11 DEF StoreInv
<1>4. ASSUME NEW w \in Worker, DropVictim(w) PROVE StoreInv'
  <2>1. /\ At("evicting")' = At("evicting") /\ At("checking")' = At("checking")
        /\ At("dropping")' = At("dropping") \ {w} /\ w \in At("dropping")
    BY <1>0, <1>4, GoMoves DEF DropVictim
  <2>2. /\ order' = order /\ nextId' = nextId /\ stored' = stored \ {victim[w]}
        /\ \A u \in At("dropping") : u # w => victim'[u] = victim[u]
    BY <1>0, <1>4 DEF DropVictim, TypeOK, At
  <2>3. SizeBounded' /\ EvictingInv' /\ Retained' /\ OrderIsNewest'
    BY <2>1, <2>2 DEF StoreInv, SizeBounded, EvictingInv, Retained, OrderIsNewest
  <2>4. VictimInv'
    BY <2>1, <2>2 DEF StoreInv, VictimInv
  <2>5. victim[w] \notin {order[k] : k \in 1..Len(order)}
    BY <1>0, <2>1 DEF StoreInv, VictimInv, OrderIsNewest, Id
  <2>6. {victim'[u] : u \in At("dropping")'} = {victim[u] : u \in At("dropping")} \ {victim[w]}
    BY <2>1, <2>2 DEF StoreInv, VictimInv
  <2>7. StoreMatchesOrder'
    BY <2>2, <2>5, <2>6 DEF StoreInv, StoreMatchesOrder
  <2>8. QED BY <1>0, <2>3, <2>4, <2>7 DEF StoreInv
<1>5. ASSUME NEW w \in Worker, NEW from, NEW to, Go(w, from, to), UNCHANGED store,
             from \notin {"checking", "evicting", "dropping"},
             to \notin {"checking", "evicting", "dropping"}
      PROVE  StoreInv'
  <2>1. \A place \in {"checking", "evicting", "dropping"} : At(place)' = At(place)
    BY <1>0, <1>5 DEF At, TypeOK, Go
  <2>2. QED BY <1>0, <1>5, <2>1, StoreUntouched
<1>7. ASSUME NEW w \in Worker, SetExecution(w) \/ Answer(w) \/ Refinement(w) \/ GetEnd(w)
      PROVE  StoreInv'
  <2>1. UNCHANGED store
    BY <1>7 DEF SetExecution, Answer, Refinement, RefineFails, RefineDone, GetEnd
  <2>2. \/ Go(w, "deciding", "answering") \/ Go(w, "answering", "idle")
        \/ Go(w, "refining", "idle") \/ Go(w, "encoding", "idle")
    BY <1>7 DEF SetExecution, Answer, Refinement, RefineFails, RefineDone, GetEnd, Finish
  <2>3. QED BY <1>5, <2>1, <2>2
<1>8. ASSUME NEW w \in Worker, NEW i \in Id, RefineStart(w, i) \/ GetStart(w, i)
      PROVE  StoreInv'
  <2>1. UNCHANGED store /\ (Go(w, "idle", "refining") \/ Go(w, "idle", "encoding"))
    BY <1>8 DEF RefineStart, GetStart
  <2>2. QED BY <1>5, <2>1
<1>9. ASSUME NEW w \in Worker, NEW i \in Id, RefineDropped(w, i)
      PROVE  StoreInv'
  <2>1. UNCHANGED store /\ \A place \in {"checking", "evicting", "dropping"} : At(place)' = At(place)
    BY <1>9 DEF RefineDropped, At
  <2>2. QED BY <1>0, <2>1, StoreUntouched
<1>6. CASE UNCHANGED vars
  <2>1. UNCHANGED store /\ \A place \in {"checking", "evicting", "dropping"} : At(place)' = At(place)
    BY <1>6 DEF vars, store, At
  <2>2. QED BY <1>0, <2>1, StoreUntouched
<1>10. QED BY <1>1, <1>2, <1>3, <1>4, <1>6, <1>7, <1>8, <1>9 DEF Next, Diagnosis

-----------------------------------------------------------------------------

(* Every state is well typed; above all, no thread pops an empty order.     *)
THEOREM TypeCorrect == Spec => []TypeOK
<1>1. StoreInv => TypeOK
  BY DEF StoreInv
<1>2. QED BY <1>1, InvInit, InvStep, PTL DEF Spec

(* The order always holds the newest verdicts, oldest first                 *)
(* (main.py:211-214).                                                       *)
THEOREM NewestInOrder == Spec => []OrderIsNewest
<1>1. StoreInv => OrderIsNewest
  BY DEF StoreInv
<1>2. QED BY <1>1, InvInit, InvStep, PTL DEF Spec

(* Between them the order and the threads that drop account for every key   *)
(* of _verdicts: eviction neither leaks a verdict nor loses a listed one.   *)
THEOREM NothingLeaks == Spec => []StoreMatchesOrder
<1>1. StoreInv => StoreMatchesOrder
  BY DEF StoreInv
<1>2. QED BY <1>1, InvInit, InvStep, PTL DEF Spec

(* The store exceeds _MAX_STORED only by the diagnoses still evicting.      *)
THEOREM StoreBounded == Spec => []SizeBounded
<1>1. StoreInv => SizeBounded
  BY DEF StoreInv
<1>2. QED BY <1>1, InvInit, InvStep, PTL DEF Spec

(* However many threads decide to evict at once, the newest MaxStored + 1 - *)
(* |Worker| verdicts stay, and no thread pops an empty list: FastAPI's 40   *)
(* threads are fewer than _MAX_STORED = 50 (main.py:213-214).               *)
THEOREM EvictionBounded == Spec => []NewestRetained
<1>1. StoreInv => NewestRetained
  BY EvictingNonempty DEF StoreInv, NewestRetained, Retained, At
<1>2. QED BY <1>1, InvInit, InvStep, PTL DEF Spec

-----------------------------------------------------------------------------
(* A verdict and what a GET has seen of it agree in themselves; and whoever *)
(* encodes has a verdict to encode.                                         *)
Agrees(f) == f.revised = f.revision

WholeInv ==
    /\ \A i \in Id : Agrees(verdict[i])
    /\ \A w \in Worker : Agrees(seen[w])
    /\ \A w \in Worker : pc[w] = "encoding" => cur[w] \in Id

LEMMA FreshAgrees == \A fast \in BOOLEAN : Fresh(fast) \in Fields /\ Agrees(Fresh(fast))
BY DEF Fresh, Fields, Agrees

LEMMA WholeStep == TypeOK /\ WholeInv /\ [Next]_vars => WholeInv'
<1> SUFFICES ASSUME TypeOK, WholeInv, [Next]_vars PROVE WholeInv'
  OBVIOUS
<1> USE DEF TypeOK, WholeInv, Go, Finish, store
<1>1. ASSUME NEW w \in Worker, Store(w) PROVE WholeInv'
  <2>1. PICK fast \in BOOLEAN : verdict' = [verdict EXCEPT ![nextId] = Fresh(fast)]
    BY <1>1 DEF Store
  <2>2. \A i \in Id : Agrees(verdict'[i])
    BY <2>1, FreshAgrees
  <2>3. UNCHANGED seen /\ \A u \in Worker : pc'[u] = "encoding" => pc[u] = "encoding" /\ cur'[u] = cur[u]
    BY <1>1 DEF Store
  <2>4. QED BY <2>2, <2>3
<1>2. ASSUME NEW w \in Worker, CheckSize(w) \/ PopOldest(w) \/ DropVictim(w) \/ Answer(w)
      PROVE  WholeInv'
  <2>1. UNCHANGED <<verdict, seen>>
    BY <1>2 DEF CheckSize, PopOldest, DropVictim, Answer
  <2>2. \A u \in Worker : pc'[u] = "encoding" => pc[u] = "encoding" /\ cur'[u] = cur[u]
    BY <1>2 DEF CheckSize, PopOldest, DropVictim, Answer
  <2>3. QED BY <2>1, <2>2
<1>3. ASSUME NEW w \in Worker, SetExecution(w) PROVE WholeInv'
  <2>1. \A i \in Id : verdict'[i].revised = verdict[i].revised /\ verdict'[i].revision = verdict[i].revision
    BY <1>3 DEF SetExecution, Fields
  <2>2. UNCHANGED seen /\ \A u \in Worker : pc'[u] = "encoding" => pc[u] = "encoding" /\ cur'[u] = cur[u]
    BY <1>3 DEF SetExecution
  <2>3. QED BY <2>1, <2>2 DEF Agrees
<1>4. ASSUME NEW w \in Worker, NEW i \in Id, RefineStart(w, i) \/ RefineDropped(w, i)
      PROVE  WholeInv'
  <2>1. UNCHANGED <<verdict, seen>>
    BY <1>4 DEF RefineStart, RefineDropped
  <2>2. \A u \in Worker : pc'[u] = "encoding" => pc[u] = "encoding" /\ cur'[u] = cur[u]
    BY <1>4 DEF RefineStart, RefineDropped
  <2>3. QED BY <2>1, <2>2
<1>5. ASSUME NEW w \in Worker, NEW i \in Id, GetStart(w, i) PROVE WholeInv'
  <2>1. UNCHANGED verdict /\ seen' = [seen EXCEPT ![w] = verdict[i]]
    BY <1>5 DEF GetStart
  <2>2. \A u \in Worker : pc'[u] = "encoding" => cur'[u] \in Id
    BY <1>5 DEF GetStart
  <2>3. QED BY <2>1, <2>2
<1>6. ASSUME NEW w \in Worker, RefineFails(w) PROVE WholeInv'
  <2>1. UNCHANGED <<verdict, seen>>
    BY <1>6 DEF RefineFails
  <2>2. \A u \in Worker : pc'[u] = "encoding" => pc[u] = "encoding" /\ cur'[u] = cur[u]
    BY <1>6 DEF RefineFails
  <2>3. QED BY <2>1, <2>2
<1>7. ASSUME NEW w \in Worker, RefineDone(w) PROVE WholeInv'
  <2>1. PICK revise \in BOOLEAN :
          verdict' = [verdict EXCEPT ![cur[w]] =
                        [@ EXCEPT !.checked = TRUE, !.revised = revise, !.revision = revise]]
    BY <1>7 DEF RefineDone
  <2>2. \A f \in Fields :
          Agrees([f EXCEPT !.checked = TRUE, !.revised = revise, !.revision = revise])
    BY DEF Agrees, Fields
  <2>3. \A i \in Id : Agrees(verdict'[i])
    BY <2>1, <2>2
  <2>4. UNCHANGED seen /\ \A u \in Worker : pc'[u] = "encoding" => pc[u] = "encoding" /\ cur'[u] = cur[u]
    BY <1>7 DEF RefineDone
  <2>5. QED BY <2>3, <2>4
<1>8. ASSUME NEW w \in Worker, GetEnd(w) PROVE WholeInv'
  <2>1. UNCHANGED verdict /\ seen' = [seen EXCEPT ![w] = Fresh(FALSE)]
    BY <1>8 DEF GetEnd
  <2>2. \A u \in Worker : pc'[u] = "encoding" => pc[u] = "encoding" /\ cur'[u] = cur[u]
    BY <1>8 DEF GetEnd
  <2>3. QED BY <2>1, <2>2, FreshAgrees
<1>9. CASE UNCHANGED vars
  BY <1>9 DEF vars
<1>10. QED
  BY <1>1, <1>2, <1>3, <1>4, <1>5, <1>6, <1>7, <1>8, <1>9 DEF Next, Diagnosis, Refinement

(* Whatever a re-run does while a verdict is encoded, an answer that gets   *)
(* out at all says revised exactly when it carries the revision.            *)
THEOREM AnswersWhole == Spec => []AnswerWhole
<1>1. Init => WholeInv
  <2> SUFFICES ASSUME Init PROVE WholeInv
    OBVIOUS
  <2>1. /\ \A i \in Id : verdict[i] = Fresh(FALSE)
        /\ \A w \in Worker : seen[w] = Fresh(FALSE) /\ pc[w] = "idle"
    BY DEF Init
  <2>2. Agrees(Fresh(FALSE))
    BY FreshAgrees
  <2>3. QED BY <2>1, <2>2 DEF WholeInv
<1>2. TypeOK /\ WholeInv => AnswerWhole
  <2> SUFFICES ASSUME TypeOK, WholeInv, NEW w \in At("encoding"),
                      Readable(seen[w], verdict[cur[w]])
               PROVE  seen[w].revised = verdict[cur[w]].revision
    BY DEF AnswerWhole
  <2>1. Agrees(seen[w]) /\ Agrees(verdict[cur[w]])
    BY DEF WholeInv, At
  <2>2. QED BY <2>1 DEF Agrees, Readable, Keys
<1>3. QED BY <1>1, <1>2, WholeStep, TypeCorrect, PTL DEF Spec
=============================================================================
