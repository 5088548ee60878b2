-------------------------- MODULE ValidationProofs ---------------------------
(* The ordering of validate.py places each column once, what it keeps has   *)
(* no cycle and at least half of the edges, a graph without cycles stays as *)
(* it was, and the path check tells the truth about what was kept, for      *)
(* every graph and every set of columns.                                    *)
EXTENDS Validation, TLAPS, FiniteSetTheorems, SequenceTheorems

USE ValidationAssumption

-----------------------------------------------------------------------------
(* Lemmas on sequences and numbers.                                         *)

(* A set of natural numbers has a least member.                             *)
LEMMA Least ==
    ASSUME NEW S, S \subseteq Nat, S # {}
    PROVE  \E m \in S : \A n \in S : m <= n
<1>1. PICK m \in S : \A n \in S : ~ (<<n, m>> \in OpToRel(<, Nat))
  BY WFMin, NatLessThanWellFounded
<1>2. \A n \in S : ~ (n < m)
  BY <1>1 DEF OpToRel
<1>3. QED BY <1>2

(* What SetToSeqs(S) holds lists the members of S, each once.               *)
LEMMA ListsSet ==
    ASSUME NEW S, IsFiniteSet(S), NEW s \in SetToSeqs(S)
    PROVE  /\ s \in Seq(S) /\ Range(s) = S
           /\ \A i, j \in 1..Len(s) : s[i] = s[j] => i = j
<1> DEFINE n == Cardinality(S)
<1>1. n \in Nat
  BY FS_CardinalityType
<1>2. s \in [1..n -> S] /\ \A i, j \in 1..n : i # j => s[i] # s[j]
  BY DEF SetToSeqs
<1>3. s \in Seq(S) /\ Len(s) = n /\ DOMAIN s = 1..n
  BY <1>1, <1>2
<1>4. IsFiniteSet(1..n) /\ Cardinality(1..n) = n
  BY <1>1, FS_Interval
<1>5. s \in Injection(1..n, S)
  BY <1>2 DEF Injection, IsInjective
<1>6. s \in Surjection(1..n, S)
  BY <1>4, <1>5, FS_Injection
<1>7. Range(s) = S
  BY <1>3, <1>6 DEF Surjection, Range
<1>8. QED BY <1>2, <1>3, <1>7

Injective(s) == \A i, j \in 1..Len(s) : s[i] = s[j] => i = j

LEMMA Concatenated ==
    ASSUME NEW f \in Seq(Node), NEW s \in Seq(Node)
    PROVE  /\ f \o s \in Seq(Node) /\ Len(f \o s) = Len(f) + Len(s)
           /\ Len(f) \in Nat /\ Len(s) \in Nat
           /\ \A i \in 1..Len(f) : (f \o s)[i] = f[i]
           /\ \A i \in 1..Len(s) : (f \o s)[Len(f) + i] = s[i]
           /\ \A i \in 1..Len(f \o s) : i \in 1..Len(f) \/ i - Len(f) \in 1..Len(s)
OBVIOUS

LEMMA RangeOf ==
    ASSUME NEW s \in Seq(Node)
    PROVE  Range(s) = {s[i] : i \in 1..Len(s)} /\ Range(s) \subseteq Node
BY DEF Range

LEMMA ConcatenatedRange ==
    ASSUME NEW f \in Seq(Node), NEW s \in Seq(Node)
    PROVE  Range(f \o s) = Range(f) \cup Range(s)
<1> DEFINE c == f \o s
<1>1. /\ Range(f) = {f[i] : i \in 1..Len(f)} /\ Range(s) = {s[i] : i \in 1..Len(s)}
      /\ Range(c) = {c[i] : i \in 1..Len(c)}
  BY RangeOf, Concatenated
<1>2. ASSUME NEW i \in 1..Len(c) PROVE c[i] \in Range(f) \cup Range(s)
  <2>1. CASE i \in 1..Len(f)
    BY <1>1, <2>1, Concatenated
  <2>2. CASE i - Len(f) \in 1..Len(s)
    <3>1. c[Len(f) + (i - Len(f))] = s[i - Len(f)]
      BY <2>2, Concatenated
    <3>2. Len(f) + (i - Len(f)) = i
      BY Concatenated
    <3>3. QED BY <1>1, <2>2, <3>1, <3>2
  <2>3. QED BY <2>1, <2>2, Concatenated
<1>3. ASSUME NEW i \in 1..Len(f) PROVE f[i] \in Range(c)
  <2>1. i \in 1..Len(c) /\ c[i] = f[i]
    BY Concatenated
  <2>2. QED BY <1>1, <2>1
<1>4. ASSUME NEW i \in 1..Len(s) PROVE s[i] \in Range(c)
  <2>1. Len(f) + i \in 1..Len(c) /\ c[Len(f) + i] = s[i]
    BY Concatenated
  <2>2. QED BY <1>1, <2>1
<1>5. QED BY <1>1, <1>2, <1>3, <1>4

LEMMA ConcatenatedInjective ==
    ASSUME NEW f \in Seq(Node), NEW s \in Seq(Node), Injective(f), Injective(s),
           Range(f) \cap Range(s) = {}
    PROVE  Injective(f \o s)
<1> DEFINE c == f \o s
<1> SUFFICES ASSUME NEW i \in 1..Len(c), NEW j \in 1..Len(c), c[i] = c[j] PROVE i = j
  BY DEF Injective
<1>1. ASSUME NEW k \in 1..Len(c)
      PROVE  \/ k \in 1..Len(f) /\ c[k] = f[k] /\ c[k] \in Range(f)
             \/ k - Len(f) \in 1..Len(s) /\ c[k] = s[k - Len(f)] /\ c[k] \in Range(s)
  <2>1. CASE k \in 1..Len(f)
    BY <2>1, Concatenated, RangeOf
  <2>2. CASE k - Len(f) \in 1..Len(s)
    <3>1. c[Len(f) + (k - Len(f))] = s[k - Len(f)] /\ Len(f) + (k - Len(f)) = k
      BY <2>2, Concatenated
    <3>2. QED BY <2>2, <3>1, RangeOf
  <2>3. QED BY <2>1, <2>2, Concatenated
<1>2. CASE c[i] \in Range(f)
  <2>1. c[i] = f[i] /\ c[j] = f[j] /\ i \in 1..Len(f) /\ j \in 1..Len(f)
    BY <1>1, <1>2
  <2>2. QED BY <2>1 DEF Injective
<1>3. CASE c[i] \in Range(s)
  <2>1. /\ c[i] = s[i - Len(f)] /\ c[j] = s[j - Len(f)]
        /\ i - Len(f) \in 1..Len(s) /\ j - Len(f) \in 1..Len(s)
    BY <1>1, <1>3
  <2>2. i - Len(f) = j - Len(f)
    BY <2>1 DEF Injective
  <2>3. QED BY <2>2, Concatenated
<1>4. QED BY <1>1, <1>2, <1>3

\* In the sequence every node comes after its predecessors in the relation.
AfterPredecessors(s, rel) ==
    \A i \in 1..Len(s) : \A n \in Node :
        <<n, s[i]>> \in rel => \E j \in 1..(i-1) : s[j] = n

LEMMA ConcatenatedAfter ==
    ASSUME NEW f \in Seq(Node), NEW s \in Seq(Node), NEW rel,
           AfterPredecessors(f, rel),
           \A m \in Range(s), n \in Node : <<n, m>> \in rel => n \in Range(f)
    PROVE  AfterPredecessors(f \o s, rel)
<1> DEFINE c == f \o s
<1> SUFFICES ASSUME NEW i \in 1..Len(c), NEW n \in Node, <<n, c[i]>> \in rel
             PROVE  \E j \in 1..(i-1) : c[j] = n
  BY DEF AfterPredecessors
<1>1. CASE i \in 1..Len(f)
  <2>1. c[i] = f[i]
    BY <1>1, Concatenated
  <2>2. PICK j \in 1..(i-1) : f[j] = n
    BY <1>1, <2>1 DEF AfterPredecessors
  <2>3. j \in 1..Len(f)
    BY <1>1, <2>2, Concatenated
  <2>4. QED BY <2>2, <2>3, Concatenated
<1>2. CASE i - Len(f) \in 1..Len(s)
  <2>1. c[Len(f) + (i - Len(f))] = s[i - Len(f)] /\ Len(f) + (i - Len(f)) = i
    BY <1>2, Concatenated
  <2>2. c[i] \in Range(s)
    BY <1>2, <2>1, RangeOf
  <2>3. PICK j \in 1..Len(f) : f[j] = n
    BY <2>2, RangeOf
  <2>4. c[j] = n /\ j \in 1..(i-1)
    BY <1>2, <2>3, Concatenated
  <2>5. QED BY <2>4
<1>3. QED BY <1>1, <1>2, Concatenated

-----------------------------------------------------------------------------
(* The inductive invariant.                                                 *)

ShapeInv ==
    /\ graph \subseteq Node \X Node /\ \A e \in graph : e[1] # e[2]
    /\ weight \in [graph -> 1..MaxWeight]
    /\ pc \in {"sinks", "sources", "best", "check", "done"}
    /\ removed \in BOOLEAN
    /\ decision \in {"none", "no_path", "low_gain", "placebo", "approved", "raised"}

\* Every column is at the front, at the back, or still to be ordered, once.
PlacedInv ==
    /\ work \in SUBSET Node
    /\ front \in Seq(Node) /\ back \in Seq(Node)
    /\ Injective(front) /\ Injective(back)
    /\ Range(front) \cap Range(back) = {}
    /\ (Range(front) \cup Range(back)) \cap work = {}
    /\ Range(front) \cup Range(back) \cup work = Node
    /\ Resolved => work = {}

Reversed == {e \in Node \X Node : <<e[2], e[1]>> \in graph}

\* Without cycles the front grows by sources and the back by sinks alone, and
\* no column is ever taken for its degrees.
SortedInv ==
    AlreadyDag =>
        /\ AfterPredecessors(front, graph)
        /\ AfterPredecessors(back, Reversed)
        /\ pc = "best" => work = {}

OrderInv == ShapeInv /\ PlacedInv /\ SortedInv

LEMMA OrderInit == Init => OrderInv
<1> SUFFICES ASSUME Init PROVE OrderInv
  OBVIOUS
<1>1. ShapeInv
  BY DEF Init, ShapeInv, Edges
<1>2. /\ front = <<>> /\ back = <<>> /\ front \in Seq(Node) /\ back \in Seq(Node)
      /\ Range(front) = {} /\ Range(back) = {} /\ work = Node
  <2>1. front = <<>> /\ back = <<>> /\ work = Node
    BY DEF Init
  <2>2. <<>> \in Seq(Node) /\ Len(<<>>) = 0
    OBVIOUS
  <2>3. Range(<<>>) = {}
    BY DEF Range
  <2>4. QED BY <2>1, <2>2, <2>3
<1>3. PlacedInv
  BY <1>2 DEF Init, PlacedInv, Injective, Resolved
<1>4. SortedInv
  BY <1>2 DEF Init, SortedInv, AfterPredecessors
<1>5. QED BY <1>1, <1>3, <1>4 DEF OrderInv

(* Without cycles, any columns that are left have a source among them.      *)
LEMMA SourceExists ==
    ASSUME graph \subseteq Node \X Node, work \subseteq Node, AlreadyDag, work # {}
    PROVE  Sources # {}
<1>1. PICK rank \in [Node -> 1..Cardinality(Node)] : \A e \in graph : rank[e[1]] < rank[e[2]]
  BY DEF AlreadyDag
<1> DEFINE ranks == {rank[n] : n \in work}
<1>2. /\ ranks \subseteq Nat /\ ranks # {}
      /\ \A n \in Node : rank[n] \in Nat
  BY <1>1, FS_CardinalityType
<1>3. PICK least \in ranks : \A r \in ranks : least <= r
  BY <1>2, Least
<1>4. PICK n \in work : rank[n] = least
  OBVIOUS
<1>5. ASSUME NEW m \in work, <<m, n>> \in graph PROVE FALSE
  <2>1. rank[m] < rank[n]
    BY <1>1, <1>5
  <2>2. least <= rank[m]
    BY <1>3
  <2>3. QED BY <1>2, <1>4, <2>1, <2>2
<1>6. n \in Sources
  BY <1>5 DEF Sources, In
<1>7. QED BY <1>6

(* Taking nodes out of work and placing them, each once, at one end.        *)
LEMMA Placing ==
    ASSUME PlacedInv, NEW S, S \subseteq work, NEW s \in Seq(S), Range(s) = S, Injective(s),
           work' = work \ S, pc' \in {"sinks", "sources", "best"},
           \/ front' = front \o s /\ back' = back
           \/ back' = back \o s /\ front' = front
    PROVE  PlacedInv'
<1> USE DEF PlacedInv
<1>1. s \in Seq(Node)
  BY SeqDef
<1>2. Range(s) \cap (Range(front) \cup Range(back)) = {}
  OBVIOUS
<1>3. CASE front' = front \o s /\ back' = back
  <2>1. front' \in Seq(Node) /\ Range(front') = Range(front) \cup S /\ Injective(front')
    BY <1>1, <1>2, <1>3, Concatenated, ConcatenatedRange, ConcatenatedInjective
  <2>2. back' \in Seq(Node) /\ Range(back') = Range(back) /\ Injective(back')
    BY <1>3
  <2>3. ~Resolved'
    BY DEF Resolved
  <2>4. QED BY <2>1, <2>2, <2>3
<1>4. CASE back' = back \o s /\ front' = front
  <2>1. back' \in Seq(Node) /\ Range(back') = Range(back) \cup S /\ Injective(back')
    BY <1>1, <1>2, <1>4, Concatenated, ConcatenatedRange, ConcatenatedInjective
  <2>2. front' \in Seq(Node) /\ Range(front') = Range(front) /\ Injective(front')
    BY <1>4
  <2>3. ~Resolved'
    BY DEF Resolved
  <2>4. QED BY <2>1, <2>2, <2>3
<1>5. QED BY <1>3, <1>4

-----------------------------------------------------------------------------
(* Every step preserves it.                                                 *)

LEMMA PeelSinksKeeps == OrderInv /\ PeelSinks => OrderInv'
<1> SUFFICES ASSUME OrderInv, PeelSinks PROVE OrderInv'
  OBVIOUS
<1> USE DEF OrderInv
<1>1. /\ pc' = "sources" /\ work' = work \ Sinks /\ removed' = (Sinks # {})
      /\ graph' = graph /\ weight' = weight /\ front' = front /\ decision' = decision
  BY DEF PeelSinks
<1>2. Sinks \subseteq work /\ IsFiniteSet(Sinks) /\ work \subseteq Node
  <2>1. Sinks \subseteq work /\ work \subseteq Node
    BY DEF Sinks, PlacedInv
  <2>2. QED BY <2>1, FS_Subset
<1>3. PICK s \in SetToSeqs(Sinks) : back' = back \o s
  BY DEF PeelSinks
<1>4. s \in Seq(Sinks) /\ Range(s) = Sinks /\ Injective(s)
  BY <1>2, ListsSet DEF Injective
<1>5. ShapeInv'
  BY <1>1 DEF ShapeInv
<1>6. PlacedInv'
  BY <1>1, <1>2, <1>3, <1>4, Placing
<1>7. SortedInv'
  <2> SUFFICES ASSUME AlreadyDag PROVE AfterPredecessors(back \o s, Reversed)
    BY <1>1, <1>3 DEF SortedInv, AlreadyDag, Reversed
  <2>1. ASSUME NEW m \in Sinks, NEW n \in Node, <<n, m>> \in Reversed PROVE n \in Range(back)
    <3>1. <<m, n>> \in graph /\ m \in work
      BY <1>2, <2>1 DEF Reversed
    <3>2. n \notin work
      BY <2>1, <3>1 DEF Sinks, Out
    <3>3. n \notin Range(front)
      <4> SUFFICES ASSUME n \in Range(front) PROVE FALSE
        OBVIOUS
      <4>1. PICK i \in 1..Len(front) : front[i] = n
        BY RangeOf DEF PlacedInv
      <4>2. PICK j \in 1..(i-1) : front[j] = m
        BY <1>2, <3>1, <4>1 DEF SortedInv, AfterPredecessors
      <4>3. j \in 1..Len(front)
        BY <4>1, <4>2 DEF PlacedInv
      <4>4. m \in Range(front)
        BY <4>2, <4>3, RangeOf DEF PlacedInv
      <4>5. QED BY <3>1, <4>4 DEF PlacedInv
    <3>4. QED BY <3>2, <3>3 DEF PlacedInv
  <2>2. s \in Seq(Node) /\ back \in Seq(Node) /\ AfterPredecessors(back, Reversed)
    BY <1>2, <1>4, SeqDef DEF PlacedInv, SortedInv
  <2>3. QED BY <1>4, <2>1, <2>2, ConcatenatedAfter
<1>8. QED BY <1>5, <1>6, <1>7

LEMMA PeelSourcesKeeps == OrderInv /\ PeelSources => OrderInv'
<1> SUFFICES ASSUME OrderInv, PeelSources PROVE OrderInv'
  OBVIOUS
<1> USE DEF OrderInv
<1>1. /\ pc' \in {"sinks", "best"} /\ (pc' = "best" => Sources = {}) /\ work' = work \ Sources
      /\ graph' = graph /\ weight' = weight /\ removed' = removed
      /\ back' = back /\ decision' = decision
  BY DEF PeelSources
<1>2. Sources \subseteq work /\ IsFiniteSet(Sources) /\ work \subseteq Node
  <2>1. Sources \subseteq work /\ work \subseteq Node
    BY DEF Sources, PlacedInv
  <2>2. QED BY <2>1, FS_Subset
<1>3. PICK s \in SetToSeqs(Sources) : front' = front \o s
  BY DEF PeelSources
<1>4. s \in Seq(Sources) /\ Range(s) = Sources /\ Injective(s)
  BY <1>2, ListsSet DEF Injective
<1>5. ShapeInv'
  BY <1>1 DEF ShapeInv
<1>6. PlacedInv'
  BY <1>1, <1>2, <1>3, <1>4, Placing
<1>7. SortedInv'
  <2> SUFFICES ASSUME AlreadyDag
               PROVE  AfterPredecessors(front \o s, graph) /\ (pc' = "best" => work' = {})
    BY <1>1, <1>3 DEF SortedInv, AlreadyDag, Reversed
  <2>1. ASSUME NEW m \in Sources, NEW n \in Node, <<n, m>> \in graph PROVE n \in Range(front)
    <3>1. n \notin work
      BY <2>1 DEF Sources, In
    <3>2. n \notin Range(back)
      <4> SUFFICES ASSUME n \in Range(back) PROVE FALSE
        OBVIOUS
      <4>1. PICK i \in 1..Len(back) : back[i] = n
        BY RangeOf DEF PlacedInv
      <4>2. <<m, back[i]>> \in Reversed /\ m \in Node
        BY <1>2, <2>1, <4>1 DEF Reversed
      <4>3. PICK j \in 1..(i-1) : back[j] = m
        BY <4>2 DEF SortedInv, AfterPredecessors
      <4>4. j \in 1..Len(back)
        BY <4>1, <4>3 DEF PlacedInv
      <4>5. m \in Range(back) /\ m \in work
        BY <1>2, <4>3, <4>4, RangeOf DEF PlacedInv
      <4>6. QED BY <4>5 DEF PlacedInv
    <3>3. QED BY <3>1, <3>2 DEF PlacedInv
  <2>2. s \in Seq(Node) /\ front \in Seq(Node) /\ AfterPredecessors(front, graph)
    BY <1>2, <1>4, SeqDef DEF PlacedInv, SortedInv
  <2>3. AfterPredecessors(front \o s, graph)
    BY <1>4, <2>1, <2>2, ConcatenatedAfter
  <2>4. pc' = "best" => work = {}
    BY <1>1, <1>2, SourceExists DEF ShapeInv
  <2>5. QED BY <1>1, <2>3, <2>4
<1>8. QED BY <1>5, <1>6, <1>7

\* Only a cyclic graph gets here: without cycles no column is left.
LEMMA TakeBestKeeps == OrderInv /\ TakeBest => OrderInv'
<1> SUFFICES ASSUME OrderInv, TakeBest PROVE OrderInv'
  OBVIOUS
<1> USE DEF OrderInv
<1>1. PICK n \in work : front' = Append(front, n) /\ work' = work \ {n}
  BY DEF TakeBest
<1>2. /\ pc = "best" /\ work # {} /\ pc' = "sinks" /\ n \in Node
      /\ graph' = graph /\ weight' = weight /\ removed' = removed
      /\ back' = back /\ decision' = decision
  BY DEF TakeBest, PlacedInv
<1>3. ShapeInv'
  BY <1>2 DEF ShapeInv
<1>4. PlacedInv'
  <2>1. <<n>> \in Seq({n}) /\ Range(<<n>>) = {n} /\ Injective(<<n>>)
    BY DEF Range, Injective
  <2>2. front' = front \o <<n>>
    BY <1>1, <1>2 DEF PlacedInv
  <2>3. QED BY <1>1, <1>2, <2>1, <2>2, Placing
<1>5. ~AlreadyDag
  BY <1>2 DEF SortedInv
<1>6. SortedInv'
  BY <1>2, <1>5 DEF SortedInv, AlreadyDag
<1>7. QED BY <1>3, <1>4, <1>6

LEMMA DecidingKeeps == OrderInv /\ (Ordered \/ Reject \/ Estimate \/ Raise) => OrderInv'
<1> SUFFICES ASSUME OrderInv, Ordered \/ Reject \/ Estimate \/ Raise PROVE OrderInv'
  OBVIOUS
<1> USE DEF OrderInv
<1>1. /\ pc' \in {"check", "done"} /\ work = {}
      /\ UNCHANGED <<graph, weight, work, front, back, removed>>
      /\ decision' \in {"none", "no_path", "low_gain", "placebo", "approved", "raised"}
  <2>1. CASE Ordered
    BY <2>1 DEF Ordered, ShapeInv
  <2>2. CASE Reject
    BY <2>2 DEF Reject, PlacedInv, Resolved
  <2>3. CASE Estimate
    BY <2>3 DEF Estimate, Judge, PlacedInv, Resolved
  <2>4. CASE Raise
    BY <2>4 DEF Raise, PlacedInv, Resolved
  <2>5. QED BY <2>1, <2>2, <2>3, <2>4
<1>2. ShapeInv'
  BY <1>1 DEF ShapeInv
<1>3. PlacedInv'
  BY <1>1 DEF PlacedInv, Resolved
<1>4. SortedInv'
  BY <1>1 DEF SortedInv, AlreadyDag, Reversed
<1>5. QED BY <1>2, <1>3, <1>4

LEMMA OrderStep == OrderInv /\ [Next]_vars => OrderInv'
<1> SUFFICES ASSUME OrderInv, [Next]_vars PROVE OrderInv'
  OBVIOUS
<1>1. CASE Next
  BY <1>1, PeelSinksKeeps, PeelSourcesKeeps, TakeBestKeeps, DecidingKeeps DEF Next
<1>2. CASE UNCHANGED vars
  <2>1. ShapeInv' /\ PlacedInv'
    BY <1>2 DEF vars, OrderInv, ShapeInv, PlacedInv, Resolved
  <2>2. SortedInv'
    BY <1>2 DEF vars, OrderInv, SortedInv, AlreadyDag, Reversed
  <2>3. QED BY <2>1, <2>2 DEF OrderInv
<1>3. QED BY <1>1, <1>2

LEMMA OrderInvariant == Spec => []OrderInv
BY OrderInit, OrderStep, PTL DEF Spec

-----------------------------------------------------------------------------
(* The theorems.                                                            *)

(* Type correctness of the ordering and of the decision.                    *)
THEOREM TypeCorrect == Spec => []TypeOK
<1>1. OrderInv => TypeOK
  BY DEF OrderInv, ShapeInv, PlacedInv, TypeOK
<1>2. QED BY <1>1, OrderInvariant, PTL

(* position[u] exists and is unique for every column (validate.py:70-103).  *)
THEOREM ColumnsOrderedOnce == Spec => []OrderedOnce
<1>1. OrderInv => OrderedOnce
  <2> SUFFICES ASSUME OrderInv PROVE OrderedOnce
    OBVIOUS
  <2> USE DEF OrderInv, PlacedInv
  <2>1. Range(front \o back) = Range(front) \cup Range(back)
    BY ConcatenatedRange
  <2>2. Injective(front \o back) /\ front \o back \in Seq(Node)
    BY ConcatenatedInjective, Concatenated
  <2>3. IsInjective(front \o back)
    BY <2>2 DEF Injective, IsInjective
  <2>4. QED BY <2>1, <2>3 DEF OrderedOnce
<1>2. QED BY <1>1, OrderInvariant, PTL

(* In the order, a column of the front has its place in front, and one of   *)
(* the back has its place counted from the end.                             *)
LEMMA Positions ==
    ASSUME PlacedInv
    PROVE  /\ \A i \in 1..Len(front) : Position(front[i]) = i
           /\ \A i \in 1..Len(back) : Position(back[i]) = Len(front) + Len(back) + 1 - i
<1> USE DEF PlacedInv
<1> DEFINE r == Reverse(back)
<1>1. /\ r \in Seq(Node) /\ Len(r) = Len(back) /\ Len(back) \in Nat
      /\ \A i \in 1..Len(back) : r[i] = back[Len(back) - i + 1]
  BY DEF Reverse
<1>2. Injective(r)
  <2> SUFFICES ASSUME NEW i \in 1..Len(back), NEW j \in 1..Len(back), r[i] = r[j] PROVE i = j
    BY <1>1 DEF Injective
  <2>1. back[Len(back) - i + 1] = back[Len(back) - j + 1]
    BY <1>1
  <2>2. Len(back) - i + 1 \in 1..Len(back) /\ Len(back) - j + 1 \in 1..Len(back)
    BY <1>1
  <2>3. Len(back) - i + 1 = Len(back) - j + 1
    BY <2>1, <2>2 DEF Injective
  <2>4. QED BY <1>1, <2>3
<1>3. Range(r) \subseteq Range(back)
  <2> SUFFICES ASSUME NEW i \in 1..Len(r) PROVE r[i] \in Range(back)
    BY <1>1, RangeOf
  <2>1. r[i] = back[Len(back) - i + 1] /\ Len(back) - i + 1 \in 1..Len(back)
    BY <1>1
  <2>2. QED BY <2>1, RangeOf
<1>4. Injective(Order) /\ Order = front \o r
  BY <1>1, <1>2, <1>3, ConcatenatedInjective DEF Order
<1>5. ASSUME NEW k \in 1..Len(Order) PROVE Position(Order[k]) = k
  BY <1>4 DEF Position, Injective
<1>6. ASSUME NEW i \in 1..Len(front) PROVE Position(front[i]) = i
  <2>1. i \in 1..Len(Order) /\ Order[i] = front[i]
    BY <1>1, <1>4, Concatenated
  <2>2. QED BY <2>1, <1>5
<1>7. ASSUME NEW i \in 1..Len(back) PROVE Position(back[i]) = Len(front) + Len(back) + 1 - i
  <2> DEFINE k == Len(back) - i + 1
  <2>1. k \in 1..Len(r) /\ r[k] = back[i]
    <3>1. k \in 1..Len(back) /\ Len(back) - k + 1 = i
      BY <1>1
    <3>2. QED BY <1>1, <3>1
  <2>2. Len(front) + k \in 1..Len(Order) /\ Order[Len(front) + k] = r[k]
    BY <1>1, <1>4, <2>1, Concatenated
  <2>3. Len(front) + k = Len(front) + Len(back) + 1 - i
    BY <1>1, Concatenated
  <2>4. QED BY <1>5, <2>1, <2>2, <2>3
<1>8. QED BY <1>6, <1>7

(* In a discovered graph without cycles every edge runs forward.            *)
LEMMA DagKept == OrderInv => DagUntouched
<1> SUFFICES ASSUME OrderInv, Resolved, AlreadyDag PROVE Kept = graph
  BY DEF DagUntouched
<1>1. /\ Range(front) \cup Range(back) = Node /\ graph \subseteq Node \X Node
      /\ front \in Seq(Node) /\ back \in Seq(Node) /\ Range(front) \cap Range(back) = {}
      /\ AfterPredecessors(front, graph) /\ AfterPredecessors(back, Reversed)
  BY DEF OrderInv, ShapeInv, PlacedInv, SortedInv
<1>2. ASSUME NEW u \in Node, NEW v \in Node, <<u, v>> \in graph
      PROVE  Position(u) < Position(v)
  <2>1. CASE v \in Range(front)
    <3>1. PICK i \in 1..Len(front) : front[i] = v
      BY <1>1, <2>1, RangeOf
    <3>2. PICK j \in 1..(i-1) : front[j] = u
      BY <1>1, <1>2, <3>1 DEF AfterPredecessors
    <3>3. j \in 1..Len(front)
      BY <1>1, <3>1, <3>2
    <3>4. Position(v) = i /\ Position(u) = j
      BY <3>1, <3>2, <3>3, Positions DEF OrderInv
    <3>5. QED BY <3>2, <3>4
  <2>2. CASE v \in Range(back) /\ u \in Range(front)
    <3>1. PICK i \in 1..Len(back) : back[i] = v
      BY <1>1, <2>2, RangeOf
    <3>2. PICK j \in 1..Len(front) : front[j] = u
      BY <1>1, <2>2, RangeOf
    <3>3. Position(u) = j /\ Position(v) = Len(front) + Len(back) + 1 - i
      BY <3>1, <3>2, Positions DEF OrderInv
    <3>4. QED BY <1>1, <3>1, <3>2, <3>3
  <2>3. CASE v \in Range(back) /\ u \in Range(back)
    <3>1. PICK i \in 1..Len(back) : back[i] = u
      BY <1>1, <2>3, RangeOf
    <3>2. <<v, back[i]>> \in Reversed
      BY <1>2, <3>1 DEF Reversed
    <3>3. PICK j \in 1..(i-1) : back[j] = v
      BY <1>1, <3>2 DEF AfterPredecessors
    <3>4. j \in 1..Len(back)
      BY <1>1, <3>1, <3>3
    <3>5. /\ Position(u) = Len(front) + Len(back) + 1 - i
          /\ Position(v) = Len(front) + Len(back) + 1 - j
      BY <3>1, <3>3, <3>4, Positions DEF OrderInv
    <3>6. QED BY <1>1, <3>1, <3>3, <3>5
  <2>4. QED BY <1>1, <2>1, <2>2, <2>3
<1>3. \A e \in graph : Forward(e[1], e[2])
  BY <1>1, <1>2 DEF Forward
<1>4. QED BY <1>3 DEF Kept

(* A discovered graph without cycles reaches the estimator as it is         *)
(* (validate.py:79-103): no ranking of the columns is known to the code.    *)
THEOREM DagsUntouched == Spec => []DagUntouched
BY DagKept, OrderInvariant, PTL

-----------------------------------------------------------------------------
(* Paths.                                                                   *)

(* Once all are placed, every column has its place.                         *)
LEMMA EveryPosition ==
    ASSUME PlacedInv, Resolved, NEW n \in Node
    PROVE  Position(n) \in Nat
<1> USE DEF PlacedInv
<1>1. Len(front) \in Nat /\ Len(back) \in Nat
  OBVIOUS
<1>2. CASE n \in Range(front)
  <2>1. PICK i \in 1..Len(front) : front[i] = n
    BY <1>2, RangeOf
  <2>2. QED BY <1>1, <2>1, Positions
<1>3. CASE n \in Range(back)
  <2>1. PICK i \in 1..Len(back) : back[i] = n
    BY <1>3, RangeOf
  <2>2. Position(n) = Len(front) + Len(back) + 1 - i
    BY <2>1, Positions
  <2>3. QED BY <1>1, <2>1, <2>2
<1>4. QED BY <1>2, <1>3

(* A path along kept edges never runs backwards: the columns placed no      *)
(* earlier than its first are closed under them.                            *)
LEMMA PathsRunForward ==
    ASSUME OrderInv, Resolved, NEW u \in Node, NEW v \in Node, HasPath(Kept, u, v)
    PROVE  Position(u) <= Position(v)
<1> DEFINE later == {n \in Node : Position(u) <= Position(n)}
<1>1. \A n \in Node : Position(n) \in Nat
  BY EveryPosition DEF OrderInv
<1>2. ASSUME NEW e \in Kept, e[1] \in later PROVE e[2] \in later
  <2>1. Position(e[1]) < Position(e[2]) /\ e[2] \in Node /\ e[1] \in Node
    BY DEF Kept, Forward, OrderInv, ShapeInv
  <2>2. QED BY <1>1, <1>2, <2>1
<1>3. u \in later /\ later \in SUBSET Node
  BY <1>1
<1>4. v \in later
  BY <1>2, <1>3 DEF HasPath
<1>5. QED BY <1>4

(* What DoWhy is given has no cycle (validate.py:45-48).                    *)
THEOREM NoCycleKept == Spec => []KeptAcyclic
<1>1. OrderInv => KeptAcyclic
  <2> SUFFICES ASSUME OrderInv, Resolved, NEW e \in Kept, HasPath(Kept, e[2], e[1])
               PROVE  FALSE
    BY DEF KeptAcyclic
  <2>1. Position(e[1]) < Position(e[2]) /\ e[1] \in Node /\ e[2] \in Node
    BY DEF Kept, Forward, OrderInv, ShapeInv
  <2>2. Position(e[2]) <= Position(e[1])
    BY <2>1, PathsRunForward
  <2>3. Position(e[1]) \in Nat /\ Position(e[2]) \in Nat
    BY <2>1, EveryPosition DEF OrderInv
  <2>4. QED BY <2>1, <2>2, <2>3
<1>2. QED BY <1>1, OrderInvariant, PTL

(* More edges, no fewer paths.                                              *)
LEMMA PathsGrow ==
    ASSUME NEW fewer, NEW more, fewer \subseteq more, NEW u, NEW v, HasPath(fewer, u, v)
    PROVE  HasPath(more, u, v)
BY DEF HasPath

\* The answer is the one the path check asked for.
AnswerInv ==
    /\ decision = "no_path" => ~FoundPath
    /\ decision \in {"low_gain", "placebo", "approved"} => FoundPath
    /\ decision # "none" => pc = "done"

LEMMA AnswerStep == AnswerInv /\ [Next]_vars => AnswerInv'
<1> SUFFICES ASSUME AnswerInv, [Next]_vars PROVE AnswerInv'
  OBVIOUS
<1> USE DEF AnswerInv
<1>1. CASE PeelSinks \/ PeelSources \/ TakeBest \/ Ordered
  <2>1. decision' = decision /\ pc # "done"
    BY <1>1 DEF PeelSinks, PeelSources, TakeBest, Ordered
  <2>2. QED BY <2>1
<1>2. ASSUME UNCHANGED <<graph, front, back>> PROVE FoundPath' = FoundPath
  BY <1>2 DEF FoundPath, HasPath, Kept, Forward, Position, Order
<1>3. CASE Reject
  <2>1. ~FoundPath /\ decision' = "no_path" /\ pc' = "done" /\ FoundPath' = FoundPath
    BY <1>2, <1>3 DEF Reject
  <2>2. QED BY <2>1
<1>4. CASE Estimate
  <2>1. /\ FoundPath /\ FoundPath' = FoundPath /\ pc' = "done"
        /\ decision' \in {"low_gain", "placebo", "approved"}
    BY <1>2, <1>4 DEF Estimate, Judge
  <2>2. QED BY <2>1
<1>5. CASE Raise
  BY <1>5 DEF Raise
<1>6. CASE UNCHANGED vars
  BY <1>2, <1>6 DEF vars
<1>7. QED BY <1>1, <1>3, <1>4, <1>5, <1>6 DEF Next

LEMMA AnswerInvariant == Spec => []AnswerInv
<1>1. Init => AnswerInv
  BY DEF Init, AnswerInv
<1>2. QED BY <1>1, AnswerStep, PTL DEF Spec

(* An approved action has a causal path in the discovered graph, and in a   *)
(* graph without cycles no action that has one is refused for want of it    *)
(* (validate.py:134-139).                                                   *)
THEOREM PathsDecided == Spec => []PathDecided
<1>1. OrderInv /\ AnswerInv => PathDecided
  <2> SUFFICES ASSUME OrderInv, AnswerInv PROVE PathDecided
    OBVIOUS
  <2>1. ASSUME FoundPath PROVE HasPath(graph, Treatment, Outcome)
    <3>1. Kept \subseteq graph
      BY DEF Kept
    <3>2. QED BY <2>1, <3>1, PathsGrow DEF FoundPath
  <2>2. ASSUME decision = "no_path", AlreadyDag PROVE ~HasPath(graph, Treatment, Outcome)
    <3>1. Resolved /\ ~FoundPath
      BY <2>2 DEF AnswerInv, Resolved
    <3>2. Kept = graph
      BY <2>2, <3>1, DagKept DEF DagUntouched
    <3>3. QED BY <3>1, <3>2 DEF FoundPath
  <2>3. QED BY <2>1, <2>2 DEF AnswerInv, PathDecided
<1>2. QED BY <1>1, OrderInvariant, AnswerInvariant, PTL

-----------------------------------------------------------------------------
(* Counting edges.                                                          *)

(* Of some subsets of a finite set, one has none of the others inside.      *)
LEMMA LeastSet ==
    ASSUME NEW S, IsFiniteSet(S), NEW bad \in SUBSET SUBSET S, bad # {}
    PROVE  \E A \in bad : \A B \in bad : B \subseteq A => B = A
<1>1. bad \subseteq FiniteSubsetsOf(S)
  BY FS_FiniteSubsetsOfFinite
<1>2. PICK A \in bad : \A B \in bad : ~ (<<B, A>> \in StrictSubsetOrdering(S))
  BY <1>1, WFMin, FS_StrictSubsetOrderingWellFounded
<1>3. ASSUME NEW B \in bad, B \subseteq A PROVE B = A
  BY <1>2, <1>3 DEF StrictSubsetOrdering
<1>4. QED BY <1>3

(* Two finite sets without a common member are counted one by one.          *)
LEMMA Counted ==
    ASSUME NEW S, NEW T, IsFiniteSet(S), IsFiniteSet(T), S \cap T = {}
    PROVE  /\ IsFiniteSet(S \cup T)
           /\ Cardinality(S \cup T) = Cardinality(S) + Cardinality(T)
           /\ Cardinality(S) \in Nat /\ Cardinality(T) \in Nat
<1>1. Cardinality(S) \in Nat /\ Cardinality(T) \in Nat
  BY FS_CardinalityType
<1>2. Cardinality(S \cap T) = 0
  BY FS_EmptySet
<1>3. /\ IsFiniteSet(S \cup T)
      /\ Cardinality(S \cup T) = Cardinality(S) + Cardinality(T) - Cardinality(S \cap T)
  BY FS_Union
<1>4. QED BY <1>1, <1>2, <1>3

(* A node has as many edges to some nodes as there are such nodes.          *)
LEMMA EdgesFrom ==
    ASSUME NEW n, NEW S, IsFiniteSet(S)
    PROVE  /\ IsFiniteSet({<<n, m>> : m \in S}) /\ Cardinality({<<n, m>> : m \in S}) = Cardinality(S)
           /\ IsFiniteSet({<<m, n>> : m \in S}) /\ Cardinality({<<m, n>> : m \in S}) = Cardinality(S)
<1> DEFINE f == [m \in S |-> <<n, m>>]
           g == [m \in S |-> <<m, n>>]
<1>1. f \in Bijection(S, {<<n, m>> : m \in S})
  BY DEF Bijection, Injection, Surjection, IsInjective
<1>2. g \in Bijection(S, {<<m, n>> : m \in S})
  BY DEF Bijection, Injection, Surjection, IsInjective
<1> HIDE DEF f, g
<1>3. QED BY <1>1, <1>2, FS_Bijection DEF ExistsBijection

From(A) == {e \in graph : e[1] \in A /\ e[2] \in work}
To(A) == {e \in graph : e[2] \in A /\ e[1] \in work}

LEMMA FiniteGraph ==
    ASSUME graph \subseteq Node \X Node, NEW T \in SUBSET graph
    PROVE  IsFiniteSet(T) /\ Cardinality(T) \in Nat
<1>1. IsFiniteSet(Node \X Node) /\ T \in SUBSET (Node \X Node)
  BY FS_Product
<1>2. IsFiniteSet(T)
  BY <1>1, FS_Subset
<1>3. QED BY <1>2, FS_CardinalityType

(* The edges of a set of nodes are those of one of them and those of the    *)
(* others.                                                                  *)
LEMMA OneNode ==
    ASSUME graph \subseteq Node \X Node, work \subseteq Node,
           NEW A \in SUBSET work, NEW n \in A
    PROVE  /\ Cardinality(From(A)) = Cardinality(From(A \ {n})) + Cardinality(Out(n))
           /\ Cardinality(To(A)) = Cardinality(To(A \ {n})) + Cardinality(In(n))
<1>1. IsFiniteSet(Out(n)) /\ IsFiniteSet(In(n))
  <2>1. Out(n) \in SUBSET Node /\ In(n) \in SUBSET Node
    BY DEF Out, In
  <2>2. QED BY <2>1, FS_Subset
<1> DEFINE out == {<<n, m>> : m \in Out(n)}
           in == {<<m, n>> : m \in In(n)}
<1> DEFINE pairs == \A e \in graph : e = <<e[1], e[2]>>
<1>0. pairs
  OBVIOUS
<1>2. From(A) = From(A \ {n}) \cup out
  <2>1. ASSUME NEW e \in From(A) PROVE e \in From(A \ {n}) \cup out
    <3>1. CASE e[1] = n
      <4>1. e = <<n, e[2]>> /\ e[2] \in Out(n)
        BY <1>0, <3>1 DEF From, Out
      <4>2. QED BY <4>1
    <3>2. QED BY <3>1 DEF From
  <2>2. ASSUME NEW m \in Out(n) PROVE <<n, m>> \in From(A)
    BY DEF From, Out
  <2>3. QED BY <2>1, <2>2 DEF From
<1>3. To(A) = To(A \ {n}) \cup in
  <2>1. ASSUME NEW e \in To(A) PROVE e \in To(A \ {n}) \cup in
    <3>1. CASE e[2] = n
      <4>1. e = <<e[1], n>> /\ e[1] \in In(n)
        BY <1>0, <3>1 DEF To, In
      <4>2. QED BY <4>1
    <3>2. QED BY <3>1 DEF To
  <2>2. ASSUME NEW m \in In(n) PROVE <<m, n>> \in To(A)
    BY DEF To, In
  <2>3. QED BY <2>1, <2>2 DEF To
<1>4. From(A \ {n}) \cap out = {} /\ To(A \ {n}) \cap in = {}
  BY DEF From, To
<1>5. IsFiniteSet(From(A \ {n})) /\ IsFiniteSet(To(A \ {n}))
  BY FiniteGraph DEF From, To
<1>6. /\ IsFiniteSet(out) /\ Cardinality(out) = Cardinality(Out(n))
      /\ IsFiniteSet(in) /\ Cardinality(in) = Cardinality(In(n))
  <2>1. \A S : IsFiniteSet(S) =>
           /\ IsFiniteSet({<<n, m>> : m \in S}) /\ Cardinality({<<n, m>> : m \in S}) = Cardinality(S)
           /\ IsFiniteSet({<<m, n>> : m \in S}) /\ Cardinality({<<m, n>> : m \in S}) = Cardinality(S)
    BY EdgesFrom
  <2>2. QED BY <1>1, <2>1, Zenon
<1> HIDE DEF out, in
<1>7. Cardinality(From(A)) = Cardinality(From(A \ {n})) + Cardinality(out)
  BY <1>2, <1>4, <1>5, <1>6, Counted
<1>8. Cardinality(To(A)) = Cardinality(To(A \ {n})) + Cardinality(in)
  BY <1>3, <1>4, <1>5, <1>6, Counted
<1>9. QED BY <1>6, <1>7, <1>8

LEMMA Degrees ==
    ASSUME work \subseteq Node, NEW n
    PROVE  /\ IsFiniteSet(Out(n)) /\ Cardinality(Out(n)) \in Nat
           /\ IsFiniteSet(In(n)) /\ Cardinality(In(n)) \in Nat
<1>1. Out(n) \in SUBSET Node /\ In(n) \in SUBSET Node
  BY DEF Out, In
<1>2. QED BY <1>1, FS_Subset, FS_CardinalityType

(* Some node has no more edges in than out: all edges in are edges out.     *)
LEMMA SomeBalanced ==
    ASSUME graph \subseteq Node \X Node, work \subseteq Node, work # {}
    PROVE  \E n \in work : Cardinality(In(n)) <= Cardinality(Out(n))
<1> SUFFICES ASSUME \A n \in work : ~ (Cardinality(In(n)) <= Cardinality(Out(n))) PROVE FALSE
  OBVIOUS
<1> DEFINE bad == {A \in SUBSET work : A # {} /\ ~ (Cardinality(From(A)) < Cardinality(To(A)))}
<1>1. bad = {}
  <2> SUFFICES ASSUME bad # {} PROVE FALSE
    OBVIOUS
  <2>1. IsFiniteSet(work) /\ bad \in SUBSET SUBSET work
    BY FS_Subset
  <2>2. PICK A \in bad : \A B \in bad : B \subseteq A => B = A
    <3> HIDE DEF bad
    <3>1. QED BY <2>1, LeastSet
  <2>3. PICK n \in A : TRUE
    OBVIOUS
  <2>4. /\ Cardinality(From(A)) = Cardinality(From(A \ {n})) + Cardinality(Out(n))
        /\ Cardinality(To(A)) = Cardinality(To(A \ {n})) + Cardinality(In(n))
    BY OneNode
  <2>5. Cardinality(Out(n)) < Cardinality(In(n)) /\ Cardinality(Out(n)) \in Nat /\ Cardinality(In(n)) \in Nat
    BY Degrees
  <2>6. /\ Cardinality(From(A \ {n})) \in Nat /\ Cardinality(To(A \ {n})) \in Nat
        /\ Cardinality(From(A \ {n})) <= Cardinality(To(A \ {n}))
    <3>1. Cardinality(From(A \ {n})) \in Nat /\ Cardinality(To(A \ {n})) \in Nat
      BY FiniteGraph DEF From, To
    <3>2. CASE A \ {n} = {}
      <4>1. From(A \ {n}) = {} /\ To(A \ {n}) = {}
        BY <3>2 DEF From, To
      <4>2. QED BY <3>1, <4>1
    <3>3. CASE A \ {n} # {}
      <4>1. A \ {n} \notin bad
        BY <2>2
      <4>2. QED BY <3>1, <3>3, <4>1
    <3>4. QED BY <3>1, <3>2, <3>3
  <2>7. Cardinality(From(A)) < Cardinality(To(A))
    BY <2>4, <2>5, <2>6
  <2>8. QED BY <2>7
<1>2. From(work) = To(work) /\ Cardinality(From(work)) \in Nat
  BY FiniteGraph DEF From, To
<1>3. QED BY <1>1, <1>2

-----------------------------------------------------------------------------
(* Half of the edges.                                                       *)

\* In the sequence u comes, and v not before it.
Ahead(s, u, v) == \E i \in 1..Len(s) : s[i] = u /\ \A j \in 1..i : s[j] # v

\* The edges that run forward however the rest is ordered, and all those that
\* are decided: at least one of their ends is placed.
Forwards == {e \in graph : Ahead(front, e[1], e[2]) \/ Ahead(back, e[2], e[1])}
Settled == {e \in graph : e[1] \notin work \/ e[2] \notin work}

HalfInv == 2 * Cardinality(Forwards) >= Cardinality(Settled)

(* What is ahead stays ahead, and what is appended is ahead of what is not  *)
(* there yet.                                                               *)
LEMMA AheadKept ==
    ASSUME NEW f \in Seq(Node), NEW s \in Seq(Node), NEW u, NEW v, Ahead(f, u, v)
    PROVE  Ahead(f \o s, u, v)
<1>1. PICK i \in 1..Len(f) : f[i] = u /\ \A j \in 1..i : f[j] # v
  BY DEF Ahead
<1>2. i \in 1..Len(f \o s) /\ \A j \in 1..i : (f \o s)[j] = f[j]
  BY Concatenated
<1>3. QED BY <1>1, <1>2 DEF Ahead

LEMMA AheadPlaced ==
    ASSUME NEW f \in Seq(Node), NEW s \in Seq(Node), NEW u \in Range(s), NEW v,
           v \notin Range(f), v \notin Range(s)
    PROVE  Ahead(f \o s, u, v)
<1>1. PICK k \in 1..Len(s) : s[k] = u
  BY RangeOf
<1>2. Len(f) + k \in 1..Len(f \o s) /\ (f \o s)[Len(f) + k] = u
  BY <1>1, Concatenated
<1>3. v \notin Range(f \o s) /\ f \o s \in Seq(Node)
  BY ConcatenatedRange, Concatenated
<1>4. \A j \in 1..Len(f \o s) : (f \o s)[j] # v
  BY <1>3, RangeOf
<1>5. QED BY <1>2, <1>4 DEF Ahead

LEMMA AheadIn ==
    ASSUME NEW s \in Seq(Node), NEW u, NEW v, Ahead(s, u, v)
    PROVE  u \in Range(s)
BY RangeOf DEF Ahead

(* A step that decides some more edges, at least half of them forward.      *)
LEMMA HalfKeeps ==
    ASSUME OrderInv, HalfInv, graph' = graph, Forwards \subseteq Forwards',
           NEW new \in SUBSET graph, Settled' \subseteq Settled \cup new,
           NEW forward \in SUBSET new, forward \subseteq Forwards', forward \cap Forwards = {},
           2 * Cardinality(forward) >= Cardinality(new)
    PROVE  HalfInv'
<1>1. \A T \in SUBSET graph : IsFiniteSet(T) /\ Cardinality(T) \in Nat
  BY FiniteGraph DEF OrderInv, ShapeInv
<1>2. Cardinality(Settled') <= Cardinality(Settled) + Cardinality(new)
  <2> DEFINE rest == new \ Settled
  <2>1. Settled' \subseteq Settled \cup rest /\ Settled \cap rest = {}
    OBVIOUS
  <2>2. rest \in SUBSET new /\ rest \in SUBSET graph /\ Settled \in SUBSET graph
    BY DEF Settled
  <2> HIDE DEF rest
  <2>3. Cardinality(Settled \cup rest) = Cardinality(Settled) + Cardinality(rest)
    BY <1>1, <2>1, <2>2, Counted
  <2>4. IsFiniteSet(Settled \cup rest) /\ Settled' \in SUBSET (Settled \cup rest)
    BY <1>1, <2>1, <2>2
  <2>5. Cardinality(Settled') <= Cardinality(Settled \cup rest)
    BY <2>4, FS_Subset
  <2>6. Cardinality(rest) <= Cardinality(new)
    BY <1>1, <2>2, FS_Subset
  <2>7. Settled' \in SUBSET graph
    BY DEF Settled
  <2>8. QED BY <1>1, <2>2, <2>3, <2>5, <2>6, <2>7
<1>3. Cardinality(Forwards') >= Cardinality(Forwards) + Cardinality(forward)
  <2>1. Forwards \in SUBSET graph /\ Forwards' \in SUBSET graph /\ forward \in SUBSET graph
    BY DEF Forwards
  <2>2. Cardinality(Forwards \cup forward) = Cardinality(Forwards) + Cardinality(forward)
    BY <1>1, <2>1, Counted
  <2>3. Forwards \cup forward \in SUBSET Forwards' /\ IsFiniteSet(Forwards')
    BY <1>1, <2>1
  <2>4. Cardinality(Forwards \cup forward) <= Cardinality(Forwards')
    BY <2>3, FS_Subset
  <2>5. QED BY <1>1, <2>1, <2>2, <2>4
<1>4. /\ Cardinality(Settled) \in Nat /\ Cardinality(Settled') \in Nat /\ Cardinality(new) \in Nat
      /\ Cardinality(Forwards) \in Nat /\ Cardinality(Forwards') \in Nat
      /\ Cardinality(forward) \in Nat
  <2>1. /\ Settled \in SUBSET graph /\ Settled' \in SUBSET graph /\ forward \in SUBSET graph
        /\ Forwards \in SUBSET graph /\ Forwards' \in SUBSET graph
    BY DEF Settled, Forwards
  <2>2. QED BY <1>1, <2>1
<1>5. QED BY <1>2, <1>3, <1>4 DEF HalfInv

(* The edges of unplaced nodes are not decided.                             *)
LEMMA Undecided ==
    ASSUME OrderInv, NEW e \in graph, e[1] \in work, e[2] \in work
    PROVE  e \notin Forwards
<1>1. e[1] \notin Range(front) /\ e[2] \notin Range(back)
  BY DEF OrderInv, PlacedInv
<1>2. QED BY <1>1, AheadIn DEF Forwards, OrderInv, PlacedInv

LEMMA HalfPeelSinks == OrderInv /\ HalfInv /\ PeelSinks => HalfInv'
<1> SUFFICES ASSUME OrderInv, HalfInv, PeelSinks PROVE HalfInv'
  OBVIOUS
<1> USE DEF OrderInv
<1>1. graph' = graph /\ front' = front /\ work' = work \ Sinks
  BY DEF PeelSinks
<1>2. /\ Sinks \subseteq work /\ work \subseteq Node /\ IsFiniteSet(Sinks)
      /\ graph \subseteq Node \X Node /\ front \in Seq(Node) /\ back \in Seq(Node)
      /\ work \cap Range(back) = {}
  <2>1. Sinks \subseteq work /\ work \subseteq Node
    BY DEF Sinks, PlacedInv
  <2>2. QED BY <2>1, FS_Subset DEF ShapeInv, PlacedInv
<1>3. PICK s \in SetToSeqs(Sinks) : back' = back \o s
  BY DEF PeelSinks
<1>4. s \in Seq(Node) /\ Range(s) = Sinks
  <2>1. s \in Seq(Sinks) /\ Range(s) = Sinks
    BY <1>2, ListsSet
  <2>2. QED BY <1>2, <2>1, SeqDef
<1>5. Forwards \subseteq Forwards'
  BY <1>1, <1>2, <1>3, <1>4, AheadKept DEF Forwards
<1> DEFINE new == {e \in graph : e[1] \in work /\ e[2] \in Sinks}
<1>6. Settled' \subseteq Settled \cup new
  <2> SUFFICES ASSUME NEW e \in graph, e[1] \in work, e[2] \in work,
                      e[1] \in Sinks \/ e[2] \in Sinks
               PROVE  e[2] \in Sinks
    BY <1>1, <1>2 DEF Settled
  <2>1. e = <<e[1], e[2]>>
    BY <1>2
  <2>2. e[1] \notin Sinks
    BY <2>1 DEF Sinks, Out
  <2>3. QED BY <2>2
<1>7. new \subseteq Forwards'
  <2> SUFFICES ASSUME NEW e \in graph, e[1] \in work, e[2] \in Sinks
               PROVE  Ahead(back \o s, e[2], e[1])
    BY <1>1, <1>3 DEF Forwards
  <2>1. e = <<e[1], e[2]>> /\ e[2] \in work
    BY <1>2
  <2>2. e[1] \notin Sinks /\ e[1] \notin Range(back)
    BY <1>2, <2>1 DEF Sinks, Out
  <2>3. QED BY <1>2, <1>4, <2>2, AheadPlaced
<1>8. new \cap Forwards = {}
  BY <1>2, Undecided
<1>9. Cardinality(new) \in Nat /\ new \in SUBSET graph
  BY <1>2, FiniteGraph
<1> HIDE DEF new
<1>10. 2 * Cardinality(new) >= Cardinality(new)
  BY <1>9
<1>11. QED BY <1>1, <1>5, <1>6, <1>7, <1>8, <1>9, <1>10, HalfKeeps

LEMMA HalfPeelSources == OrderInv /\ HalfInv /\ PeelSources => HalfInv'
<1> SUFFICES ASSUME OrderInv, HalfInv, PeelSources PROVE HalfInv'
  OBVIOUS
<1> USE DEF OrderInv
<1>1. graph' = graph /\ back' = back /\ work' = work \ Sources
  BY DEF PeelSources
<1>2. /\ Sources \subseteq work /\ work \subseteq Node /\ IsFiniteSet(Sources)
      /\ graph \subseteq Node \X Node /\ front \in Seq(Node) /\ back \in Seq(Node)
      /\ work \cap Range(front) = {}
  <2>1. Sources \subseteq work /\ work \subseteq Node
    BY DEF Sources, PlacedInv
  <2>2. QED BY <2>1, FS_Subset DEF ShapeInv, PlacedInv
<1>3. PICK s \in SetToSeqs(Sources) : front' = front \o s
  BY DEF PeelSources
<1>4. s \in Seq(Node) /\ Range(s) = Sources
  <2>1. s \in Seq(Sources) /\ Range(s) = Sources
    BY <1>2, ListsSet
  <2>2. QED BY <1>2, <2>1, SeqDef
<1>5. Forwards \subseteq Forwards'
  BY <1>1, <1>2, <1>3, <1>4, AheadKept DEF Forwards
<1> DEFINE new == {e \in graph : e[1] \in Sources /\ e[2] \in work}
<1>6. Settled' \subseteq Settled \cup new
  <2> SUFFICES ASSUME NEW e \in graph, e[1] \in work, e[2] \in work,
                      e[1] \in Sources \/ e[2] \in Sources
               PROVE  e[1] \in Sources
    BY <1>1, <1>2 DEF Settled
  <2>1. e = <<e[1], e[2]>>
    BY <1>2
  <2>2. e[2] \notin Sources
    BY <2>1 DEF Sources, In
  <2>3. QED BY <2>2
<1>7. new \subseteq Forwards'
  <2> SUFFICES ASSUME NEW e \in graph, e[1] \in Sources, e[2] \in work
               PROVE  Ahead(front \o s, e[1], e[2])
    BY <1>1, <1>3 DEF Forwards
  <2>1. e = <<e[1], e[2]>> /\ e[1] \in work
    BY <1>2
  <2>2. e[2] \notin Sources /\ e[2] \notin Range(front)
    BY <1>2, <2>1 DEF Sources, In
  <2>3. QED BY <1>2, <1>4, <2>2, AheadPlaced
<1>8. new \cap Forwards = {}
  BY <1>2, Undecided
<1>9. Cardinality(new) \in Nat /\ new \in SUBSET graph
  BY <1>2, FiniteGraph
<1> HIDE DEF new
<1>10. 2 * Cardinality(new) >= Cardinality(new)
  BY <1>9
<1>11. QED BY <1>1, <1>5, <1>6, <1>7, <1>8, <1>9, <1>10, HalfKeeps

(* The column of the greatest pull has no more edges in than out.           *)
LEMMA HalfTakeBest == OrderInv /\ HalfInv /\ TakeBest => HalfInv'
<1> SUFFICES ASSUME OrderInv, HalfInv, TakeBest PROVE HalfInv'
  OBVIOUS
<1> USE DEF OrderInv
<1>1. PICK n \in work : /\ \A m \in work : Pull(n, m)
                        /\ front' = Append(front, n) /\ work' = work \ {n}
  BY DEF TakeBest
<1>2. /\ graph' = graph /\ back' = back /\ work \subseteq Node /\ n \in Node
      /\ graph \subseteq Node \X Node /\ front \in Seq(Node) /\ back \in Seq(Node)
      /\ work \cap Range(front) = {} /\ \A e \in graph : e[1] # e[2]
  BY DEF TakeBest, PlacedInv, ShapeInv
<1>3. front' = front \o <<n>> /\ <<n>> \in Seq(Node) /\ Range(<<n>>) = {n}
  BY <1>1, <1>2 DEF Range
<1>4. Cardinality(In(n)) <= Cardinality(Out(n))
  <2>1. PICK m \in work : Cardinality(In(m)) <= Cardinality(Out(m))
    BY <1>1, <1>2, SomeBalanced
  <2>2. Cardinality(Out(n)) + Cardinality(In(m)) >= Cardinality(Out(m)) + Cardinality(In(n))
    BY <1>1 DEF Pull
  <2>3. /\ Cardinality(Out(n)) \in Nat /\ Cardinality(In(n)) \in Nat
        /\ Cardinality(Out(m)) \in Nat /\ Cardinality(In(m)) \in Nat
    BY <1>2, Degrees
  <2>4. QED BY <2>1, <2>2, <2>3
<1>5. Forwards \subseteq Forwards'
  BY <1>2, <1>3, AheadKept DEF Forwards
<1> DEFINE out == {<<n, m>> : m \in Out(n)}
           in == {<<m, n>> : m \in In(n)}
<1>6. Settled' \subseteq Settled \cup (out \cup in)
  <2> SUFFICES ASSUME NEW e \in graph, e[1] \in work, e[2] \in work, e[1] = n \/ e[2] = n
               PROVE  e \in out \cup in
    BY <1>1, <1>2 DEF Settled
  <2>1. e = <<e[1], e[2]>>
    BY <1>2
  <2>2. CASE e[1] = n
    <3>1. e[2] \in Out(n) /\ e = <<n, e[2]>>
      BY <2>1, <2>2 DEF Out
    <3>2. QED BY <3>1
  <2>3. CASE e[2] = n
    <3>1. e[1] \in In(n) /\ e = <<e[1], n>>
      BY <2>1, <2>3 DEF In
    <3>2. QED BY <3>1
  <2>4. QED BY <2>2, <2>3
<1>7. out \subseteq Forwards'
  <2> SUFFICES ASSUME NEW m \in Out(n) PROVE <<n, m>> \in graph /\ Ahead(front \o <<n>>, n, m)
    BY <1>2, <1>3 DEF Forwards
  <2>1. <<n, m>> \in graph /\ m \in work /\ m # n
    <3>1. <<n, m>> \in graph /\ m \in work
      BY DEF Out
    <3>2. <<n, m>>[1] # <<n, m>>[2]
      BY <1>2, <3>1
    <3>3. QED BY <3>1, <3>2
  <2>2. m \notin Range(front)
    BY <1>2, <2>1
  <2>3. QED BY <1>2, <1>3, <2>1, <2>2, AheadPlaced
<1>8. out \cap Forwards = {} /\ out \cap in = {} /\ out \cup in \in SUBSET graph
  <2>1. ASSUME NEW m \in Out(n) PROVE <<n, m>> \in graph /\ <<n, m>> \notin Forwards
    <3>1. <<n, m>> \in graph /\ <<n, m>>[1] \in work /\ <<n, m>>[2] \in work
      BY DEF Out
    <3>2. QED BY <3>1, Undecided
  <2>2. ASSUME NEW m \in In(n) PROVE <<m, n>> \in graph
    BY DEF In
  <2>3. ASSUME NEW m \in In(n), NEW k \in Out(n) PROVE <<m, n>> # <<n, k>>
    <3>1. <<m, n>>[1] # <<m, n>>[2]
      BY <1>2, <2>2
    <3>2. QED BY <3>1
  <2>4. QED BY <2>1, <2>2, <2>3
<1>9. /\ IsFiniteSet(Out(n)) /\ Cardinality(Out(n)) \in Nat
      /\ IsFiniteSet(In(n)) /\ Cardinality(In(n)) \in Nat
  BY <1>2, Degrees
<1>10. /\ IsFiniteSet(out) /\ Cardinality(out) = Cardinality(Out(n))
       /\ IsFiniteSet(in) /\ Cardinality(in) = Cardinality(In(n))
  <2>1. \A S : IsFiniteSet(S) =>
           /\ IsFiniteSet({<<n, m>> : m \in S}) /\ Cardinality({<<n, m>> : m \in S}) = Cardinality(S)
           /\ IsFiniteSet({<<m, n>> : m \in S}) /\ Cardinality({<<m, n>> : m \in S}) = Cardinality(S)
    BY EdgesFrom
  <2>2. QED BY <1>9, <2>1, Zenon
<1> HIDE DEF out, in
<1>11. Cardinality(out \cup in) = Cardinality(out) + Cardinality(in)
  BY <1>8, <1>10, Counted
<1>12. 2 * Cardinality(out) >= Cardinality(out \cup in)
  BY <1>4, <1>9, <1>10, <1>11
<1>13. QED BY <1>2, <1>5, <1>6, <1>7, <1>8, <1>12, HalfKeeps

LEMMA HalfStep == OrderInv /\ HalfInv /\ [Next]_vars => HalfInv'
<1> SUFFICES ASSUME OrderInv, HalfInv, Ordered \/ Reject \/ Estimate \/ Raise \/ UNCHANGED vars PROVE HalfInv'
  BY HalfPeelSinks, HalfPeelSources, HalfTakeBest DEF Next
<1>1. UNCHANGED <<graph, work, front, back>>
  BY DEF Ordered, Reject, Estimate, Raise, vars
<1>2. Forwards' = Forwards /\ Settled' = Settled
  BY <1>1 DEF Forwards, Settled, Ahead
<1>3. QED BY <1>2 DEF HalfInv

LEMMA HalfInvariant == Spec => []HalfInv
<1>1. Init => HalfInv
  <2> SUFFICES ASSUME Init PROVE HalfInv
    OBVIOUS
  <2>1. Settled = {}
    BY DEF Init, Settled, Edges
  <2>2. Cardinality(Settled) = 0
    BY <2>1, FS_EmptySet
  <2>3. Cardinality(Forwards) \in Nat
    BY FiniteGraph DEF Forwards, Init, Edges
  <2>4. QED BY <2>2, <2>3 DEF HalfInv
<1>2. QED BY <1>1, HalfStep, OrderInvariant, PTL DEF Spec

(* Breaking the cycles costs at most half of the edges (validate.py:56-62). *)
THEOREM HalfOfEdgesKept == Spec => []HalfKept
<1>1. OrderInv /\ HalfInv => HalfKept
  <2> SUFFICES ASSUME OrderInv, HalfInv, Resolved PROVE 2 * Cardinality(Kept) >= Cardinality(graph)
    BY DEF HalfKept
  <2> USE DEF OrderInv
  <2>1. /\ work = {} /\ graph \subseteq Node \X Node /\ Range(front) \cup Range(back) = Node
        /\ front \in Seq(Node) /\ back \in Seq(Node) /\ Range(front) \cap Range(back) = {}
        /\ Len(front) \in Nat /\ Len(back) \in Nat
    BY DEF PlacedInv, ShapeInv
  <2>2. Settled = graph
    BY <2>1 DEF Settled
  <2>3. ASSUME NEW e \in graph, Ahead(front, e[1], e[2]) PROVE Position(e[1]) < Position(e[2])
    <3>1. PICK i \in 1..Len(front) : front[i] = e[1] /\ \A j \in 1..i : front[j] # e[2]
      BY <2>3 DEF Ahead
    <3>2. Position(e[1]) = i
      BY <3>1, Positions
    <3>3. CASE e[2] \in Range(front)
      <4>1. PICK k \in 1..Len(front) : front[k] = e[2]
        BY <2>1, <3>3, RangeOf
      <4>2. Position(e[2]) = k /\ k \notin 1..i
        BY <3>1, <4>1, Positions
      <4>3. QED BY <2>1, <3>2, <4>2
    <3>4. CASE e[2] \in Range(back)
      <4>1. PICK k \in 1..Len(back) : back[k] = e[2]
        BY <2>1, <3>4, RangeOf
      <4>2. Position(e[2]) = Len(front) + Len(back) + 1 - k
        BY <4>1, Positions
      <4>3. QED BY <2>1, <3>2, <4>2
    <3>5. QED BY <2>1, <3>3, <3>4
  <2>4. ASSUME NEW e \in graph, Ahead(back, e[2], e[1]) PROVE Position(e[1]) < Position(e[2])
    <3>1. PICK i \in 1..Len(back) : back[i] = e[2] /\ \A j \in 1..i : back[j] # e[1]
      BY <2>4 DEF Ahead
    <3>2. Position(e[2]) = Len(front) + Len(back) + 1 - i
      BY <3>1, Positions
    <3>3. CASE e[1] \in Range(front)
      <4>1. PICK k \in 1..Len(front) : front[k] = e[1]
        BY <2>1, <3>3, RangeOf
      <4>2. Position(e[1]) = k
        BY <4>1, Positions
      <4>3. QED BY <2>1, <3>2, <4>2
    <3>4. CASE e[1] \in Range(back)
      <4>1. PICK k \in 1..Len(back) : back[k] = e[1]
        BY <2>1, <3>4, RangeOf
      <4>2. Position(e[1]) = Len(front) + Len(back) + 1 - k /\ k \notin 1..i
        BY <3>1, <4>1, Positions
      <4>3. QED BY <2>1, <3>2, <4>2
    <3>5. QED BY <2>1, <3>3, <3>4
  <2>5. Forwards \in SUBSET Kept /\ Kept \in SUBSET graph
    BY <2>3, <2>4 DEF Forwards, Kept, Forward
  <2>6. /\ IsFiniteSet(Kept) /\ Cardinality(Kept) \in Nat
        /\ Cardinality(Forwards) \in Nat /\ Cardinality(graph) \in Nat
    BY <2>1, <2>5, FiniteGraph
  <2>7. Cardinality(Forwards) <= Cardinality(Kept)
    BY <2>5, <2>6, FS_Subset
  <2>8. QED BY <2>2, <2>6, <2>7 DEF HalfInv
<1>2. QED BY <1>1, OrderInvariant, HalfInvariant, PTL
=============================================================================
