--------------------------- MODULE DiagnosisProofs ---------------------------
(* Which path a request takes and for how long, which action its verdict    *)
(* carries, what its verification calls recovered, and its types, for any   *)
(* window, any graph and any topology.                                      *)
EXTENDS Diagnosis, TLAPS, FiniteSetTheorems, SequenceTheorems, WellFoundedInduction

-----------------------------------------------------------------------------
(* Hysteresis.                                                              *)

Crossed(ls, i) == \E j \in 1..i : ls[j] = "above" /\ \A k \in j..i : ls[k] # "below"

ModeInv ==
    /\ levels \in Seq({"above", "band", "below"})
    /\ modes \in Seq({"slow", "fast"})
    /\ Len(levels) = Len(modes)
    /\ \A i \in 1..Len(modes) : modes[i] = "fast" <=> Crossed(levels, i)

LEMMA ScanKeepsMode == ModeInv /\ Scan => ModeInv'
<1> SUFFICES ASSUME ModeInv, Scan PROVE ModeInv'
  OBVIOUS
<1> DEFINE n == Len(modes)
           level == Level(ema', Base * unit')
           mode1 == Switch(Mode, level)
<1>1. n \in Nat /\ n = Len(levels)
  BY DEF ModeInv
<1>2. level \in {"above", "band", "below"}
  BY DEF Level
<1>3. levels' = Append(levels, level)
  BY DEF Scan
<1>4. /\ levels' \in Seq({"above", "band", "below"}) /\ Len(levels') = n + 1
      /\ levels'[n + 1] = level
      /\ \A i \in 1..n : levels'[i] = levels[i]
  BY <1>1, <1>2, <1>3 DEF ModeInv
<1>5. modes' = Append(modes, mode1)
  BY <1>3, <1>4, <1>1 DEF Scan
<1>6. Mode \in {"slow", "fast"}
  BY <1>1 DEF Mode, ModeInv
<1>7. mode1 \in {"slow", "fast"}
  BY <1>6 DEF Switch
<1>8. /\ modes' \in Seq({"slow", "fast"}) /\ Len(modes') = n + 1
      /\ modes'[n + 1] = mode1
      /\ \A i \in 1..n : modes'[i] = modes[i]
  BY <1>1, <1>5, <1>7 DEF ModeInv
<1>9. \A i \in 1..n : Crossed(levels', i) <=> Crossed(levels, i)
  <2> HIDE DEF n
  <2>1. TAKE i \in 1..n
  <2>2. \A j \in 1..i : j \in 1..n /\ \A k \in j..i : k \in 1..n
    BY <1>1
  <2>3. \A j \in 1..i : levels'[j] = levels[j] /\ \A k \in j..i : levels'[k] = levels[k]
    BY <1>4, <2>2
  <2>4. QED BY <2>3 DEF Crossed
<1>10. Crossed(levels', n + 1) <=> level = "above" \/ (level = "band" /\ n > 0 /\ Crossed(levels, n))
  <2>1. Crossed(levels', n + 1) <=> \E j \in 1..(n + 1) :
           levels'[j] = "above" /\ \A k \in j..(n + 1) : levels'[k] # "below"
    BY DEF Crossed
  <2> HIDE DEF level, n
  <2>2. CASE level = "above"
    <3>1. n + 1 \in 1..(n + 1) /\ \A k \in (n + 1)..(n + 1) : k = n + 1
      BY <1>1
    <3>2. QED BY <1>4, <2>1, <2>2, <3>1
  <2>3. CASE level = "below"
    <3>1. \A j \in 1..(n + 1) : n + 1 \in j..(n + 1)
      BY <1>1
    <3>2. QED BY <1>4, <2>1, <2>3, <3>1
  <2>4. CASE level = "band"
    <3>1. ASSUME NEW j \in 1..(n + 1), levels'[j] = "above", \A k \in j..(n + 1) : levels'[k] # "below"
          PROVE  n > 0 /\ Crossed(levels, n)
      <4>1. j # n + 1
        BY <1>4, <2>4, <3>1
      <4>2. j \in 1..n /\ n > 0 /\ \A k \in j..n : k \in j..(n + 1) /\ k \in 1..n
        BY <1>1, <4>1
      <4>3. QED BY <1>4, <3>1, <4>2 DEF Crossed
    <3>2. ASSUME n > 0, Crossed(levels, n) PROVE Crossed(levels', n + 1)
      <4>1. PICK j \in 1..n : levels[j] = "above" /\ \A k \in j..n : levels[k] # "below"
        BY <3>2 DEF Crossed
      <4>2. j \in 1..(n + 1) /\ \A k \in j..(n + 1) : k = n + 1 \/ (k \in j..n /\ k \in 1..n)
        BY <1>1
      <4>3. QED BY <1>4, <2>1, <2>4, <4>1, <4>2
    <3>3. QED BY <2>1, <2>4, <3>1, <3>2
  <2>5. QED BY <1>2, <2>2, <2>3, <2>4
<1>11. Mode = "fast" <=> n > 0 /\ Crossed(levels, n)
  <2>1. CASE n = 0
    BY <1>1, <2>1 DEF Mode, ModeInv
  <2>2. CASE n > 0
    <3>1. modes # <<>> /\ n \in 1..n
      BY <1>1, <2>2 DEF ModeInv
    <3>2. QED BY <2>2, <3>1 DEF Mode, ModeInv
  <2>3. QED BY <1>1, <2>1, <2>2
<1>12. mode1 = "fast" <=> Crossed(levels', n + 1)
  <2> HIDE DEF level
  <2>1. QED BY <1>2, <1>6, <1>10, <1>11 DEF Switch
<1> HIDE DEF mode1, level, n
<1>13. \A i \in 1..(n + 1) : modes'[i] = "fast" <=> Crossed(levels', i)
  <2>1. TAKE i \in 1..(n + 1)
  <2>2. CASE i \in 1..n
    BY <1>8, <1>9, <2>2 DEF ModeInv, n
  <2>3. CASE i = n + 1
    BY <1>8, <1>12, <2>3
  <2>4. QED BY <1>1, <2>2, <2>3
<1>14. QED BY <1>4, <1>8, <1>13 DEF ModeInv

LEMMA ModeStep == ModeInv /\ [Next]_vars => ModeInv'
<1> SUFFICES ASSUME ModeInv, [Next]_vars PROVE ModeInv'
  OBVIOUS
<1>1. CASE levels' = <<>> /\ modes' = <<>>
  BY <1>1 DEF ModeInv
<1>2. CASE UNCHANGED <<levels, modes>>
  BY <1>2 DEF ModeInv, Crossed
<1>3. CASE Receive \/ TakePath
  BY <1>1, <1>3 DEF Receive, TakeSeries, TakePath
<1>4. CASE ScanSample
  BY <1>4, ScanKeepsMode DEF ScanSample
<1>5. CASE Diagnose \/ Decide \/ VerifyUnknown \/ Verify \/ Finish \/ Raise \/ \E ok \in BOOLEAN : Try(ok)
  BY <1>2, <1>5 DEF Diagnose, Decide, VerifyUnknown, Verify, Finish, Raise, Forget, Try, velocity
<1>6. CASE UNCHANGED vars
  BY <1>2, <1>6 DEF vars, velocity
<1>7. QED BY <1>3, <1>4, <1>5, <1>6 DEF Next

(* The mode is fast exactly if the velocity has risen above V_HIGH and not  *)
(* been below V_LOW since, whatever the load and the thresholds are.        *)
THEOREM HysteresisHolds == Spec => []ModeByCrossings
<1>1. Init => ModeInv
  BY DEF Init, VelocityInit, ModeInv
<1>2. ModeInv => ModeByCrossings
  BY DEF ModeInv, ModeByCrossings, Crossed
<1>3. QED BY <1>1, <1>2, ModeStep, PTL DEF Spec

-----------------------------------------------------------------------------
(* Least and greatest elements, which Min and Max choose.                   *)

LEMMA Least ==
    ASSUME NEW S, \A s \in S : s \in Nat, S # {}
    PROVE  \E m \in S : \A n \in S : m <= n
<1>1. PICK m \in S : \A n \in S : ~ (<<n, m>> \in OpToRel(<, Nat))
  BY WFMin, NatLessThanWellFounded
<1>2. \A n \in S : ~ (n < m)
  BY <1>1 DEF OpToRel
<1>3. QED BY <1>2

LEMMA MinIs ==
    ASSUME NEW S, \A s \in S : s \in Nat, S # {}
    PROVE  Min(S) \in S /\ \A n \in S : Min(S) <= n
BY Least DEF Min

(* An element with the fewest elements above it has none above it.          *)
LEMMA MaxIs ==
    ASSUME NEW S, \A s \in S : s \in Int, IsFiniteSet(S), S # {}
    PROVE  Max(S) \in S /\ \A n \in S : Max(S) >= n
<1> DEFINE above(x) == {y \in S : y > x}
           counts == {Cardinality(above(x)) : x \in S}
<1>1. \A x \in S : IsFiniteSet(above(x)) /\ Cardinality(above(x)) \in Nat
  BY FS_Subset, FS_CardinalityType
<1>2. (\A k \in counts : k \in Nat) /\ counts # {}
  BY <1>1
<1>3. PICK k \in counts : \A l \in counts : k <= l
  <2> HIDE DEF counts
  <2>1. QED BY <1>2, Least
<1>4. PICK x \in S : k = Cardinality(above(x))
  OBVIOUS
<1>5. ASSUME NEW y \in above(x) PROVE FALSE
  <2>1. y \in S /\ above(y) \in SUBSET above(x) /\ y \notin above(y)
    BY <1>5
  <2>2. /\ Cardinality(above(y)) <= Cardinality(above(x))
        /\ Cardinality(above(x)) # Cardinality(above(y))
    BY <1>1, <1>5, <2>1, FS_Subset
  <2>3. k <= Cardinality(above(y))
    BY <1>3, <2>1
  <2>4. Cardinality(above(y)) \in Nat /\ k \in Nat
    BY <1>1, <1>2, <2>1
  <2> HIDE DEF above
  <2>5. QED BY <1>4, <2>2, <2>3, <2>4
<1>6. \A y \in S : x >= y
  BY <1>5
<1>7. QED BY <1>6 DEF Max

-----------------------------------------------------------------------------
(* The ranking.                                                             *)

(* Nodes that are ordered strictly have a place each, and each place up to  *)
(* their number has a node: counting those ahead is injective.              *)
LEMMA PlacesTaken ==
    ASSUME NEW L, IsFiniteSet(L), NEW best \in [L -> Int], NEW entered \in [L -> Int],
           IsInjective(entered)
    PROVE  /\ \A n \in L : Cardinality(Ahead(best, entered, n)) \in 0..(Cardinality(L) - 1)
           /\ \A m, n \in L : m \in Ahead(best, entered, n) =>
                Cardinality(Ahead(best, entered, m)) < Cardinality(Ahead(best, entered, n))
           /\ \A m, n \in L :
                Cardinality(Ahead(best, entered, m)) = Cardinality(Ahead(best, entered, n)) => m = n
           /\ \A k \in 0..(Cardinality(L) - 1) :
                \E n \in L : Cardinality(Ahead(best, entered, n)) = k
<1> DEFINE ahead(n) == Ahead(best, entered, n)
<1>1. \A n \in L : best[n] \in Int /\ entered[n] \in Int
  OBVIOUS
<1>2. \A n \in L : ahead(n) \in SUBSET (L \ {n})
  BY <1>1 DEF Ahead
<1>3. \A n \in L : /\ IsFiniteSet(ahead(n)) /\ Cardinality(ahead(n)) \in Nat
                   /\ Cardinality(ahead(n)) \in 0..(Cardinality(L) - 1)
  <2>1. TAKE n \in L
  <2>2. IsFiniteSet(L \ {n}) /\ Cardinality(L \ {n}) = Cardinality(L) - 1
    BY FS_RemoveElement
  <2>3. IsFiniteSet(ahead(n)) /\ Cardinality(ahead(n)) <= Cardinality(L \ {n})
    BY <1>2, <2>2, FS_Subset
  <2>4. Cardinality(ahead(n)) \in Nat /\ Cardinality(L) \in Nat
    BY <2>3, FS_CardinalityType
  <2> HIDE DEF ahead
  <2>5. QED BY <2>2, <2>3, <2>4
<1>4. \A m, n \in L : m \in ahead(n) => Cardinality(ahead(m)) < Cardinality(ahead(n))
  <2>1. TAKE m, n \in L
  <2>2. HAVE m \in ahead(n)
  <2>3. ahead(m) \in SUBSET ahead(n)
    BY <1>1, <2>2 DEF Ahead
  <2>4. m \notin ahead(m)
    BY <1>2
  <2>5. /\ Cardinality(ahead(m)) <= Cardinality(ahead(n))
        /\ Cardinality(ahead(n)) # Cardinality(ahead(m))
    BY <1>3, <2>2, <2>3, <2>4, FS_Subset
  <2>6. Cardinality(ahead(m)) \in Nat /\ Cardinality(ahead(n)) \in Nat
    BY <1>3
  <2> HIDE DEF ahead
  <2>7. QED BY <2>5, <2>6
<1>5. \A m, n \in L : m = n \/ m \in ahead(n) \/ n \in ahead(m)
  <2>1. \A m, n \in L : entered[m] = entered[n] => m = n
    BY DEF IsInjective
  <2>2. QED BY <1>1, <2>1 DEF Ahead
<1>6. \A m, n \in L : Cardinality(ahead(m)) = Cardinality(ahead(n)) => m = n
  <2>1. \A m \in L : Cardinality(ahead(m)) \in Nat
    BY <1>3
  <2> HIDE DEF ahead
  <2>2. QED BY <1>4, <1>5, <2>1
<1>7. \A k \in 0..(Cardinality(L) - 1) : \E n \in L : Cardinality(ahead(n)) = k
  <2> DEFINE places == 0..(Cardinality(L) - 1)
             f == [n \in L |-> Cardinality(ahead(n))]
  <2>1. Cardinality(L) \in Nat
    BY FS_CardinalityType
  <2>2. IsFiniteSet(places) /\ Cardinality(places) = Cardinality(L)
    <3>1. 0 \in Int /\ Cardinality(L) - 1 \in Int
      BY <2>1
    <3>2. /\ IsFiniteSet(places)
          /\ Cardinality(places) = IF 0 > Cardinality(L) - 1 THEN 0 ELSE Cardinality(L) - 1 - 0 + 1
      BY <3>1, FS_Interval
    <3> HIDE DEF places
    <3>3. QED BY <2>1, <3>2
  <2>3. f \in [L -> places]
    BY <1>3
  <2>4. \A m, n \in L : f[m] = f[n] => m = n
    BY <1>6
  <2>5. f \in Injection(L, places)
    <3> HIDE DEF f, places
    <3>1. QED BY <2>3, <2>4 DEF Injection, IsInjective
  <2>6. f \in Surjection(L, places)
    <3> HIDE DEF f, places
    <3>1. QED BY <2>2, <2>5, FS_Injection
  <2>7. \A k \in places : \E n \in L : f[n] = k
    <3> HIDE DEF f, places
    <3>1. QED BY <2>6 DEF Surjection
  <2>8. QED BY <2>7
<1>8. QED BY <1>3, <1>4, <1>6, <1>7

LEMMA LeadingIs ==
    ASSUME NEW L, IsFiniteSet(L), NEW best \in [L -> Int], NEW entered \in [L -> Int],
           IsInjective(entered)
    PROVE  LET s == Leading(best, entered)
           IN  /\ s \in Seq(L) /\ IsInjective(s)
               /\ Len(s) <= Cardinality(L)
               /\ L # {} => s # <<>>
               /\ \A i \in 1..Len(s) : Cardinality(Ahead(best, entered, s[i])) = i - 1
<1> DEFINE s == Leading(best, entered)
           k == Min({TopN, Cardinality(L)})
<1>1. Cardinality(L) \in Nat /\ TopN \in Nat \ {0} /\ (L # {} => Cardinality(L) # 0)
  BY FS_CardinalityType, FS_EmptySet, DiagnosisAssumption
<1>2. k \in Nat /\ k <= Cardinality(L) /\ (L # {} => k # 0)
  <2>1. k \in {TopN, Cardinality(L)} /\ \A n \in {TopN, Cardinality(L)} : k <= n
    BY <1>1, MinIs
  <2> HIDE DEF k
  <2>2. QED BY <1>1, <2>1
<1>3. DOMAIN best = L
  OBVIOUS
<1>4. s = [i \in 1..k |-> CHOOSE n \in L : Cardinality(Ahead(best, entered, n)) = i - 1]
  BY <1>3 DEF Leading
<1> HIDE DEF s, k
<1>5. \A i \in 1..k : s[i] \in L /\ Cardinality(Ahead(best, entered, s[i])) = i - 1
  <2>1. TAKE i \in 1..k
  <2>2. i - 1 \in 0..(Cardinality(L) - 1)
    BY <1>1, <1>2
  <2>3. \E n \in L : Cardinality(Ahead(best, entered, n)) = i - 1
    BY <2>2, PlacesTaken
  <2>4. QED BY <1>4, <2>3
<1>6. s \in Seq(L) /\ Len(s) = k /\ DOMAIN s = 1..k
  BY <1>2, <1>4, <1>5
<1>7. \A i, j \in 1..k : s[i] = s[j] => i = j
  BY <1>2, <1>5
<1>8. QED BY <1>2, <1>5, <1>6, <1>7 DEF IsInjective, s

LEMMA ImageFinite ==
    ASSUME NEW S, IsFiniteSet(S), NEW f, \A x \in S : x \in DOMAIN f
    PROVE  IsFiniteSet({f[x] : x \in S})
<1> DEFINE T == {f[x] : x \in S}
           h == [x \in S |-> f[x]]
<1>1. h \in Surjection(S, T)
  BY DEF Surjection
<1> HIDE DEF h, T
<1>2. IsFiniteSet(T)
  BY <1>1, FS_Surjection
<1>3. QED BY <1>2 DEF T

LEMMA ColumnsFinite ==
    /\ IsFiniteSet(Column)
    /\ \A c \in Column : Position(c) \in Nat /\ Columns[Position(c)] = c
<1>1. Columns \in Seq(Column)
  BY DiagnosisAssumption
<1>2. /\ Len(Columns) \in Nat /\ DOMAIN Columns = 1..Len(Columns)
  BY <1>1, LenProperties
<1>3. IsFiniteSet(1..Len(Columns))
  BY <1>2, FS_Interval
<1>4. IsFiniteSet({Columns[i] : i \in 1..Len(Columns)})
  BY <1>2, <1>3, ImageFinite
<1>5. \A c \in Column : Position(c) \in DOMAIN Columns /\ Columns[Position(c)] = c
  BY DEF Position, Column
<1>6. {Columns[i] : i \in 1..Len(Columns)} = Column
  BY <1>2 DEF Column
<1>7. \A c \in Column : Position(c) \in Nat
  BY <1>2, <1>5
<1>8. QED BY <1>4, <1>5, <1>6, <1>7

Readings == [Degradable -> Reading]

LEMMA DegradedFinite ==
    ASSUME NEW r \in Readings
    PROVE  /\ Degraded(r) \in SUBSET Column /\ Degraded(r) \in SUBSET Degradable
           /\ IsFiniteSet(Degraded(r)) /\ Cardinality(Degraded(r)) \in Nat
<1>1. Degraded(r) \in SUBSET Degradable /\ Degradable \in SUBSET Column
  BY DiagnosisAssumption DEF Degraded
<1>2. IsFiniteSet(Degraded(r))
  BY <1>1, ColumnsFinite, FS_Subset
<1>3. QED BY <1>1, <1>2, FS_CardinalityType

LEMMA WorstIs ==
    ASSUME NEW r \in Readings, NEW n \in Node
    PROVE  /\ Worst(r, n) \in Recent \cup {0} /\ Worst(r, n) \in Nat
           /\ Severity[Worst(r, n)] \in Nat
           /\ Worst(r, n) > 0 => \E c \in Degraded(r) : NodeOf[c] = n
<1> DEFINE own == {c \in Degraded(r) : NodeOf[c] = n}
           recents == {r[c].recent : c \in own}
<1>1. own \in SUBSET Degradable /\ IsFiniteSet(own)
  BY DegradedFinite, FS_Subset
<1>2. \A c \in own : r[c].recent \in Recent
  BY <1>1 DEF Readings, Reading
<1>3. IsFiniteSet(recents)
  <2> DEFINE f == [c \in own |-> r[c].recent]
  <2>1. IsFiniteSet({f[c] : c \in own})
    <3>1. \A c \in own : c \in DOMAIN f
      OBVIOUS
    <3> HIDE DEF own, f
    <3>2. QED BY <1>1, <3>1, ImageFinite
  <2>2. {f[c] : c \in own} = recents
    OBVIOUS
  <2>3. QED BY <2>1, <2>2
<1>4. Recent \subseteq Nat /\ Severity \in [Recent \cup {0} -> Nat]
  BY DiagnosisAssumption
<1>5. /\ IsFiniteSet(recents \cup {0}) /\ recents \cup {0} # {}
      /\ \A x \in recents \cup {0} : x \in Recent \cup {0} /\ x \in Int
  <2>1. \A x \in recents : x \in Recent
    BY <1>2
  <2>2. \A x \in Recent \cup {0} : x \in Int
    BY <1>4
  <2> HIDE DEF recents
  <2>3. IsFiniteSet(recents \cup {0})
    BY <1>3, FS_AddElement
  <2>4. QED BY <2>1, <2>2, <2>3
<1>6. Worst(r, n) \in recents \cup {0}
  <2>1. Worst(r, n) = Max(recents \cup {0})
    BY DEF Worst
  <2> HIDE DEF recents
  <2>2. QED BY <1>5, <2>1, MaxIs
<1>7. Worst(r, n) \in recents => \E c \in own : TRUE
  OBVIOUS
<1>8. QED BY <1>4, <1>5, <1>6, <1>7

(* What edges and onsets can add to the severity of a column's node, among  *)
(* K degraded columns.                                                      *)
LEMMA ScoreIs ==
    ASSUME NEW g, NEW r \in Readings, NEW c \in Column
    PROVE  LET K == Cardinality(Degraded(r))
               severity == Severity[Worst(r, NodeOf[c])]
           IN  /\ Score(g, r, c) \in Int
               /\ c \in Degraded(r) =>
                    /\ Score(g, r, c) >= severity - 2 * K + 3
                    /\ Score(g, r, c) <= severity + 3 * K - 2
               /\ c \notin Degraded(r) => Score(g, r, c) <= severity + 2 * K
<1> DEFINE D == Degraded(r)
           K == Cardinality(D)
           out == Cardinality(Outgoing(g, r, c))
           in == Cardinality(Incoming(g, r, c))
           severity == Severity[Worst(r, NodeOf[c])]
           early == Earliness(r, c)
<1>1. IsFiniteSet(D) /\ K \in Nat
  BY DegradedFinite
<1>2. /\ IsFiniteSet(D \ {c}) /\ Cardinality(D \ {c}) \in Nat
      /\ Cardinality(D \ {c}) = IF c \in D THEN K - 1 ELSE K
  BY <1>1, FS_RemoveElement, FS_CardinalityType
<1>3. /\ out \in Nat /\ out <= Cardinality(D \ {c})
      /\ in \in Nat /\ in <= Cardinality(D \ {c})
  <2>1. Outgoing(g, r, c) \in SUBSET (D \ {c}) /\ Incoming(g, r, c) \in SUBSET (D \ {c})
    BY DEF Outgoing, Incoming
  <2>2. QED BY <1>2, <2>1, FS_Subset, FS_CardinalityType
<1>4. severity \in Nat
  <2>1. NodeOf[c] \in Node
    BY DEF Node
  <2>2. QED BY <2>1, WorstIs
<1>5. /\ c \in D => early \in Int /\ early >= 1 /\ early <= K
      /\ c \notin D => early = 0
  <2>1. CASE c \in D
    <3>1. /\ r[c].onset \in Nat /\ Position(c) \in Nat
      BY <2>1, DegradedFinite, ColumnsFinite, DiagnosisAssumption DEF Readings, Reading
    <3> DEFINE before == {d \in D : \/ r[d].onset < r[c].onset
                                    \/ r[d].onset = r[c].onset /\ Position(d) < Position(c)}
    <3>2. before \in SUBSET (D \ {c})
      BY <3>1
    <3>3. Cardinality(before) \in Nat /\ Cardinality(before) <= K - 1
      BY <1>2, <2>1, <3>2, FS_Subset, FS_CardinalityType
    <3>4. early = K - Cardinality(before)
      BY <2>1 DEF Earliness, OnsetRank
    <3> HIDE DEF before, K, early
    <3>5. QED BY <1>1, <2>1, <3>3, <3>4
  <2>2. CASE c \notin D
    BY <2>2 DEF Earliness
  <2>3. QED BY <2>1, <2>2
<1>6. Score(g, r, c) = 2 * (out - in) + severity + early
  BY DEF Score
<1> HIDE DEF D, K, out, in, severity, early
<1>7. QED
  <2>1. CASE c \in D
    <3>1. out <= K - 1 /\ in <= K - 1 /\ early \in Int /\ early >= 1 /\ early <= K
      BY <1>2, <1>3, <1>5, <2>1
    <3>2. /\ Score(g, r, c) \in Int
          /\ Score(g, r, c) >= severity - 2 * K + 3
          /\ Score(g, r, c) <= severity + 3 * K - 2
      BY <1>1, <1>3, <1>4, <1>6, <3>1
    <3>3. QED BY <2>1, <3>2 DEF D, K, severity
  <2>2. CASE c \notin D
    <3>1. out <= K /\ early = 0
      BY <1>2, <1>3, <1>5, <2>2
    <3>2. Score(g, r, c) \in Int /\ Score(g, r, c) <= severity + 2 * K
      BY <1>1, <1>3, <1>4, <1>6, <3>1
    <3>3. QED BY <2>2, <3>2 DEF D, K, severity
  <2>3. QED BY <2>1, <2>2

(* The best column of each node, and the order of their first columns.      *)
LEMMA BestIs ==
    ASSUME NEW C, C \in SUBSET Column, NEW score \in [C -> Int]
    PROVE  LET L == {NodeOf[c] : c \in C}
           IN  /\ IsFiniteSet(L) /\ L \in SUBSET Node
               /\ Best(score) \in [L -> Int]
               /\ \A c \in C : Best(score)[NodeOf[c]] >= score[c]
               /\ \A n \in L : \E c \in C : NodeOf[c] = n /\ Best(score)[n] = score[c]
               /\ Entered(score) \in [L -> Int] /\ IsInjective(Entered(score))
<1> DEFINE L == {NodeOf[c] : c \in C}
<1>1. IsFiniteSet(C) /\ DOMAIN score = C
  BY ColumnsFinite, FS_Subset
<1>2. NodeOf \in [Column -> Node]
  BY DiagnosisAssumption
<1>3. IsFiniteSet(L) /\ L \in SUBSET Node
  BY <1>1, <1>2, ImageFinite
<1>4. \A n \in L : /\ ColumnsOf(score, n) \in SUBSET C /\ ColumnsOf(score, n) # {}
                   /\ \A c \in C : c \in ColumnsOf(score, n) <=> NodeOf[c] = n
  BY <1>1 DEF ColumnsOf
<1>5. Best(score) = [n \in L |-> Max({score[c] : c \in ColumnsOf(score, n)})]
  BY <1>1 DEF Best
<1>6. Entered(score) = [n \in L |-> Min({Position(c) : c \in ColumnsOf(score, n)})]
  BY <1>1 DEF Entered
<1> HIDE DEF L
<1>7. ASSUME NEW n \in L
      PROVE  /\ Best(score)[n] \in {score[c] : c \in ColumnsOf(score, n)}
             /\ \A c \in ColumnsOf(score, n) : Best(score)[n] >= score[c]
  <2> DEFINE S == {score[c] : c \in ColumnsOf(score, n)}
  <2>1. ColumnsOf(score, n) \in SUBSET C /\ ColumnsOf(score, n) # {}
    BY <1>4
  <2>2. IsFiniteSet(S) /\ S # {} /\ \A x \in S : x \in Int
    <3>1. IsFiniteSet(ColumnsOf(score, n)) /\ \A c \in ColumnsOf(score, n) : c \in DOMAIN score
      BY <1>1, <2>1, FS_Subset
    <3>2. IsFiniteSet(S)
      BY <3>1, ImageFinite
    <3>3. QED BY <2>1, <3>2
  <2>3. Best(score)[n] = Max(S)
    BY <1>5
  <2>4. Max(S) \in S /\ \A x \in S : Max(S) >= x
    <3> HIDE DEF S
    <3>1. QED BY <2>2, MaxIs
  <2>5. QED BY <2>3, <2>4
<1>8. ASSUME NEW n \in L
      PROVE  /\ Entered(score)[n] \in Int
             /\ \E c \in ColumnsOf(score, n) : Entered(score)[n] = Position(c)
  <2> DEFINE S == {Position(c) : c \in ColumnsOf(score, n)}
  <2>1. ColumnsOf(score, n) \in SUBSET C /\ ColumnsOf(score, n) # {}
    BY <1>4
  <2>2. S # {} /\ \A x \in S : x \in Nat
    BY <2>1, ColumnsFinite
  <2>3. Entered(score)[n] = Min(S)
    BY <1>6
  <2>4. Min(S) \in S
    <3> HIDE DEF S
    <3>1. QED BY <2>2, MinIs
  <2>5. QED BY <2>2, <2>3, <2>4
<1>9. Best(score) \in [L -> Int]
  <2>1. \A n \in L : Best(score)[n] \in Int
    BY <1>4, <1>7
  <2>2. QED BY <1>5, <2>1
<1>10. Entered(score) \in [L -> Int]
  BY <1>6, <1>8
<1>11. IsInjective(Entered(score))
  <2>1. ASSUME NEW m \in L, NEW n \in L, Entered(score)[m] = Entered(score)[n] PROVE m = n
    <3>1. PICK c \in ColumnsOf(score, m) : Entered(score)[m] = Position(c)
      BY <1>8
    <3>2. PICK d \in ColumnsOf(score, n) : Entered(score)[n] = Position(d)
      BY <1>8
    <3>3. c \in C /\ d \in C /\ NodeOf[c] = m /\ NodeOf[d] = n
      BY <1>4
    <3>4. c = d
      BY <2>1, <3>1, <3>2, <3>3, ColumnsFinite
    <3>5. QED BY <3>3, <3>4
  <2>2. DOMAIN Entered(score) = L
    BY <1>10
  <2>3. QED BY <2>1, <2>2 DEF IsInjective
<1>12. \A c \in C : NodeOf[c] \in L /\ Best(score)[NodeOf[c]] >= score[c]
  <2>1. \A c \in C : NodeOf[c] \in L
    BY DEF L
  <2>2. QED BY <1>4, <1>7, <2>1
<1>13. \A n \in L : \E c \in C : NodeOf[c] = n /\ Best(score)[n] = score[c]
  <2>1. TAKE n \in L
  <2>2. PICK c \in ColumnsOf(score, n) : Best(score)[n] = score[c]
    BY <1>7
  <2>3. QED BY <1>4, <2>2
<1>14. QED BY <1>3, <1>9, <1>10, <1>11, <1>12, <1>13 DEF L

Bound(r) ==
    LET K == Cardinality(Degraded(r)) IN Max({4 * K - 3, 5 * K - 5})

LEMMA BoundIs ==
    ASSUME NEW r \in Readings
    PROVE  LET K == Cardinality(Degraded(r))
           IN  K \in Nat /\ Bound(r) \in Int /\ Bound(r) >= 4 * K - 3 /\ Bound(r) >= 5 * K - 5
<1> DEFINE K == Cardinality(Degraded(r))
           S == {4 * K - 3, 5 * K - 5}
<1>1. K \in Nat
  BY DegradedFinite
<1>2. Bound(r) = Max(S)
  BY DEF Bound
<1> HIDE DEF K
<1>3. S # {} /\ 4 * K - 3 \in S /\ 5 * K - 5 \in S /\ \A x \in S : x \in Int
  BY <1>1
<1>4. IsFiniteSet(S)
  <2>1. IsFiniteSet({4 * K - 3}) /\ S = {4 * K - 3} \cup {5 * K - 5}
    BY FS_Singleton
  <2> HIDE DEF S
  <2>2. QED BY <2>1, FS_AddElement
<1> HIDE DEF S
<1>5. Max(S) \in S /\ \A x \in S : Max(S) >= x
  BY <1>3, <1>4, MaxIs
<1>6. QED BY <1>1, <1>2, <1>3, <1>5 DEF K

LEMMA Outscores ==
    ASSUME NEW bm \in Int, NEW bn \in Int, NEW pc1 \in Int, NEW sm \in Nat, NEW sn \in Nat,
           NEW K \in Nat, NEW bound \in Int,
           bm >= pc1, pc1 >= sm - 2 * K + 3, bn <= sn + 3 * K - 2 \/ bn <= sn + 2 * K,
           bound >= 4 * K - 3, bound >= 5 * K - 5, sm - sn > bound
    PROVE  bm > bn
<1>1. CASE bn <= sn + 3 * K - 2
  BY <1>1
<1>2. CASE bn <= sn + 2 * K
  BY <1>2
<1>3. QED BY <1>1, <1>2

(* A ranking is a list of nodes without repetition, not empty when a column *)
(* is degraded, and severe nodes come first.                                *)
LEMMA RankingIs ==
    ASSUME NEW g, NEW r \in Readings
    PROVE  LET s == Ranking(g, r)
           IN  /\ s \in Seq(Node) /\ IsInjective(s)
               /\ Degraded(r) # {} => s # <<>>
               /\ \A m \in Node, i \in 1..Len(s) :
                    /\ Worst(r, m) > 0
                    /\ Severity[Worst(r, m)] - Severity[Worst(r, s[i])] > Bound(r)
                    => \E j \in 1..(i - 1) : s[j] = m
<1> DEFINE C == Implicated(g, r)
           score == [c \in C |-> Score(g, r, c)]
           L == {NodeOf[c] : c \in C}
           best == Best(score)
           entered == Entered(score)
           s == Ranking(g, r)
<1>1. C \in SUBSET Column /\ Degraded(r) \in SUBSET C
  BY DegradedFinite DEF Implicated
<1>2. score \in [C -> Int]
  BY <1>1, ScoreIs
<1>3. /\ IsFiniteSet(L) /\ L \in SUBSET Node
      /\ best \in [L -> Int]
      /\ \A c \in C : best[NodeOf[c]] >= score[c]
      /\ \A n \in L : \E c \in C : NodeOf[c] = n /\ best[n] = score[c]
      /\ entered \in [L -> Int] /\ IsInjective(entered)
  <2> HIDE DEF score, C
  <2>1. QED BY <1>1, <1>2, BestIs
<1>4. s = Leading(best, entered)
  BY DEF Ranking
<1>5. \A c \in C : NodeOf[c] \in L
  OBVIOUS
<1>6. \A c \in C : score[c] = Score(g, r, c)
  OBVIOUS
<1> HIDE DEF C, score, L, best, entered, s
<1>7. /\ s \in Seq(L) /\ IsInjective(s) /\ Len(s) <= Cardinality(L)
      /\ L # {} => s # <<>>
      /\ \A i \in 1..Len(s) : Cardinality(Ahead(best, entered, s[i])) = i - 1
  BY <1>3, <1>4, LeadingIs
<1>8. \A i \in 1..Len(s) : s[i] \in L
  BY <1>7
<1>9. ASSUME NEW m \in Node, NEW i \in 1..Len(s), Worst(r, m) > 0,
             Severity[Worst(r, m)] - Severity[Worst(r, s[i])] > Bound(r)
      PROVE  \E j \in 1..(i - 1) : s[j] = m
  <2> DEFINE K == Cardinality(Degraded(r))
             sm == Severity[Worst(r, m)]
             sn == Severity[Worst(r, s[i])]
  <2>1. PICK c \in Degraded(r) : NodeOf[c] = m
    BY <1>9, WorstIs
  <2>2. PICK d \in C : NodeOf[d] = s[i] /\ best[s[i]] = score[d]
    BY <1>3, <1>8
  <2>3. s[i] \in L /\ s[i] \in Node /\ m \in L /\ c \in C /\ c \in Column /\ d \in Column
    BY <1>1, <1>3, <1>5, <1>8, <2>1
  <2>4. sm \in Nat /\ sn \in Nat
    BY <2>3, WorstIs
  <2>5. best[m] >= score[c] /\ score[c] \in Int /\ score[c] >= sm - 2 * K + 3
    BY <1>2, <1>3, <1>6, <2>1, <2>3, ScoreIs
  <2>6. score[d] \in Int /\ (score[d] <= sn + 3 * K - 2 \/ score[d] <= sn + 2 * K)
    BY <1>2, <1>6, <2>2, <2>3, ScoreIs
  <2>7. K \in Nat /\ Bound(r) \in Int /\ Bound(r) >= 4 * K - 3 /\ Bound(r) >= 5 * K - 5
    BY BoundIs
  <2>8. sm - sn > Bound(r)
    BY <1>9
  <2>9. best[m] \in Int /\ best[s[i]] \in Int
    BY <1>3, <2>3
  <2> HIDE DEF K, sm, sn
  <2>10. best[m] > best[s[i]]
    <3>1. best[s[i]] <= sn + 3 * K - 2 \/ best[s[i]] <= sn + 2 * K
      BY <2>2, <2>6
    <3>2. QED BY <2>4, <2>5, <2>7, <2>8, <2>9, <3>1, Outscores
  <2>11. m \in Ahead(best, entered, s[i])
    BY <1>3, <2>3, <2>10 DEF Ahead
  <2> DEFINE k == Cardinality(Ahead(best, entered, m))
  <2>12. k \in 0..(Cardinality(L) - 1) /\ k < i - 1
    <3>1. k \in 0..(Cardinality(L) - 1)
      BY <1>3, <2>3, PlacesTaken
    <3>2. k < Cardinality(Ahead(best, entered, s[i]))
      BY <1>3, <2>3, <2>11, PlacesTaken
    <3>3. Cardinality(Ahead(best, entered, s[i])) = i - 1
      BY <1>7
    <3> HIDE DEF k
    <3>4. QED BY <3>1, <3>2, <3>3
  <2>13. Len(s) \in Nat /\ Cardinality(L) \in Nat
    BY <1>3, <1>7, FS_CardinalityType
  <2>14. k + 1 \in 1..(i - 1) /\ k + 1 \in 1..Len(s) /\ (k + 1) - 1 = k
    <3> HIDE DEF k
    <3>1. QED BY <2>12, <2>13
  <2>15. Cardinality(Ahead(best, entered, s[k + 1])) = k
    BY <1>7, <2>14
  <2>16. s[k + 1] = m
    <3>1. s[k + 1] \in L
      BY <1>8, <2>14
    <3> DEFINE n == s[k + 1]
    <3>2. Cardinality(Ahead(best, entered, n)) = Cardinality(Ahead(best, entered, m)) /\ n \in L
      BY <2>15, <3>1
    <3> HIDE DEF n, k
    <3>3. n = m
      BY <1>3, <2>3, <3>2, PlacesTaken
    <3>4. QED BY <3>3 DEF n
  <2>17. QED BY <2>14, <2>16
<1>10. s \in Seq(Node)
  BY <1>3, <1>7
<1>11. Degraded(r) # {} => s # <<>>
  BY <1>1, <1>5, <1>7
<1>12. QED BY <1>7, <1>9, <1>10, <1>11 DEF s

-----------------------------------------------------------------------------
(* The verdict of a request.                                                *)

Ended == {"validate", "answered"}

RankedInv ==
    /\ pc \notin Ended => ranked = <<>>
    /\ pc \in Ended =>
         /\ reading \in Readings
         /\ \E g \in Discovered :
              ranked = IF Degraded(reading) = {} THEN <<>> ELSE Ranking(g, reading)

(* How far the loop over the candidates has got says what it has found.     *)
CandidatesInv ==
    /\ tried \in 0..Len(ranked)
    /\ approved \in BOOLEAN /\ (approved => tried > 0)
    /\ judged \in [Node -> {"untried", "approved", "rejected"}]
    /\ pc \notin Ended => judged = [n \in Node |-> "untried"]
    /\ \A j \in 1..Len(ranked) :
         judged[ranked[j]] = IF j > tried THEN "untried"
                             ELSE IF j = tried /\ approved THEN "approved" ELSE "rejected"
    /\ fallback = IF tried = 0 THEN None ELSE ranked[1]
    /\ action = IF approved THEN ranked[tried]
                ELSE IF pc = "answered" THEN fallback ELSE None
    /\ pc = "answered" => ~More

VerdictInv == RankedInv /\ CandidatesInv

LEMMA RankedIs ==
    ASSUME RankedInv
    PROVE  /\ ranked \in Seq(Node) /\ IsInjective(ranked)
           /\ pc \in Ended => (ranked = <<>> <=> Degraded(reading) = {})
<1>1. CASE ranked = <<>> /\ (pc \in Ended => Degraded(reading) = {})
  BY <1>1 DEF IsInjective
<1>2. CASE pc \in Ended /\ Degraded(reading) # {}
  <2>1. PICK g \in Discovered : ranked = Ranking(g, reading)
    BY <1>2 DEF RankedInv
  <2>2. reading \in Readings
    BY <1>2 DEF RankedInv
  <2>3. ranked \in Seq(Node) /\ IsInjective(ranked) /\ ranked # <<>>
    BY <1>2, <2>1, <2>2, RankingIs
  <2>4. QED BY <1>2, <2>3
<1>3. QED BY <1>1, <1>2 DEF RankedInv

(* The nodes of a ranking, and None is none of them.                        *)
LEMMA RankedNodes ==
    ASSUME NEW s \in Seq(Node)
    PROVE  Len(s) \in Nat /\ \A j \in 1..Len(s) : s[j] \in Node /\ s[j] # None
BY DiagnosisAssumption

LEMMA TryKeeps ==
    ASSUME VerdictInv, NEW ok \in BOOLEAN, Try(ok)
    PROVE  CandidatesInv'
<1> DEFINE t == tried + 1
           candidate == ranked[t]
<1>1. ranked \in Seq(Node) /\ IsInjective(ranked)
  BY RankedIs DEF VerdictInv
<1>2. /\ pc = "validate" /\ tried < Len(ranked) /\ ~approved
      /\ tried' = t
      /\ judged' = [judged EXCEPT ![candidate] = IF ok THEN "approved" ELSE "rejected"]
      /\ fallback' = IF fallback = None THEN candidate ELSE fallback
      /\ action' = IF ok THEN candidate ELSE action
      /\ approved' = (approved \/ ok)
      /\ pc' = pc /\ ranked' = ranked
  BY DEF Try, More, request
<1>3. /\ Len(ranked) \in Nat /\ tried \in Nat
      /\ t \in 1..Len(ranked) /\ t > 0
  BY <1>1, <1>2 DEF VerdictInv, CandidatesInv
<1>4. \A j \in 1..Len(ranked) : ranked[j] \in Node /\ ranked[j] # None
  BY <1>1, RankedNodes
<1>5. \A j \in 1..Len(ranked) : ranked[j] = candidate => j = t
  BY <1>1, <1>3 DEF IsInjective
<1>6. /\ judged \in [Node -> {"untried", "approved", "rejected"}]
      /\ fallback = IF tried = 0 THEN None ELSE ranked[1]
      /\ action = None
      /\ \A j \in 1..Len(ranked) : judged[ranked[j]] = IF j > tried THEN "untried" ELSE "rejected"
  BY <1>2 DEF VerdictInv, CandidatesInv
<1>7. \A j \in 1..Len(ranked) :
         judged'[ranked[j]] = IF j > t THEN "untried"
                              ELSE IF j = t /\ ok THEN "approved" ELSE "rejected"
  <2>1. TAKE j \in 1..Len(ranked)
  <2>2. CASE j = t
    BY <1>2, <1>3, <1>4, <1>6, <2>2
  <2>3. CASE j # t
    <3>1. judged'[ranked[j]] = judged[ranked[j]]
      BY <1>2, <1>4, <1>5, <1>6, <2>3
    <3>2. j > t <=> j > tried
      BY <1>3, <2>3
    <3>3. QED BY <1>6, <2>3, <3>1, <3>2
  <2>4. QED BY <2>2, <2>3
<1>8. fallback' = ranked[1]
  <2>1. CASE tried = 0
    BY <1>2, <1>6, <2>1
  <2>2. CASE tried # 0
    <3>1. 1 \in 1..Len(ranked)
      BY <1>3
    <3>2. QED BY <1>2, <1>4, <1>6, <2>2, <3>1
  <2>3. QED BY <2>1, <2>2
<1>9. judged' \in [Node -> {"untried", "approved", "rejected"}]
  BY <1>2, <1>3, <1>4, <1>6
<1>10. approved' = ok /\ action' = IF ok THEN ranked[t] ELSE None
  BY <1>2, <1>6
<1>11. /\ tried' \in 0..Len(ranked') /\ approved' \in BOOLEAN /\ (approved' => tried' > 0)
       /\ fallback' = IF tried' = 0 THEN None ELSE ranked'[1]
       /\ action' = IF approved' THEN ranked'[tried'] ELSE None
       /\ pc' \in Ended /\ pc' # "answered"
  BY <1>2, <1>3, <1>8, <1>10 DEF Ended
<1> HIDE DEF t
<1>12. \A j \in 1..Len(ranked') :
         judged'[ranked'[j]] = IF j > tried' THEN "untried"
                               ELSE IF j = tried' /\ approved' THEN "approved" ELSE "rejected"
  BY <1>2, <1>7, <1>10
<1>13. QED BY <1>9, <1>11, <1>12 DEF CandidatesInv

LEMMA DecideKeeps ==
    ASSUME VerdictInv, Decide
    PROVE  CandidatesInv'
<1>1. /\ pc = "validate" /\ ~More /\ pc' = "answered"
      /\ action' = IF action = None THEN fallback ELSE action
      /\ UNCHANGED <<ranked, tried, judged, fallback, approved>>
  BY DEF Decide
<1>2. \A j \in 1..Len(ranked) : ranked[j] # None
  BY RankedIs, RankedNodes DEF VerdictInv
<1>3. Len(ranked) \in Nat
  BY RankedIs DEF VerdictInv
<1>4. /\ tried \in 0..Len(ranked) /\ (approved => tried > 0)
      /\ action = IF approved THEN ranked[tried] ELSE None
  BY <1>1 DEF VerdictInv, CandidatesInv
<1>5. approved => ranked[tried] # None
  BY <1>2, <1>3, <1>4
<1>6. action' = IF approved THEN ranked[tried] ELSE fallback
  BY <1>1, <1>4, <1>5
<1>7. ~More'
  BY <1>1 DEF More
<1>8. QED BY <1>1, <1>6, <1>7 DEF VerdictInv, CandidatesInv, Ended

LEMMA VerdictStep == VerdictInv /\ [Next]_vars => VerdictInv'
<1> SUFFICES ASSUME VerdictInv, [Next]_vars PROVE VerdictInv'
  OBVIOUS
<1>1. CASE /\ UNCHANGED <<ranked, candidates>> /\ pc \notin Ended /\ pc' \notin Ended
  BY <1>1 DEF VerdictInv, RankedInv, CandidatesInv, candidates, Ended
<1>2. CASE UNCHANGED <<pc, reading, ranked, candidates>>
  BY <1>2 DEF VerdictInv, RankedInv, CandidatesInv, candidates, More
<1>3. CASE Receive \/ ScanSample \/ TakePath
  BY <1>1, <1>3 DEF Receive, ScanSample, TakePath, request, Ended
<1>4. CASE Diagnose
  <2>1. PICK g \in Discovered :
          ranked' = IF Degraded(reading') = {} THEN <<>> ELSE Ranking(g, reading')
    BY <1>4 DEF Diagnose
  <2>2. reading' \in Readings /\ pc = "discover" /\ pc' = "validate" /\ UNCHANGED candidates
    BY <1>4 DEF Diagnose, Readings
  <2>3. RankedInv'
    BY <2>1, <2>2 DEF RankedInv, Ended
  <2>4. ranked' \in Seq(Node)
    <3>1. CASE Degraded(reading') = {}
      BY <2>1, <3>1
    <3>2. CASE Degraded(reading') # {}
      BY <2>1, <2>2, <3>2, RankingIs
    <3>3. QED BY <3>1, <3>2
  <2>5. Len(ranked') \in Nat /\ \A j \in 1..Len(ranked') : ranked'[j] \in Node
    BY <2>4, RankedNodes
  <2>6. ranked = <<>> /\ judged = [n \in Node |-> "untried"]
    BY <2>2 DEF VerdictInv, RankedInv, CandidatesInv, Ended
  <2>7. tried = 0 /\ ~approved /\ approved \in BOOLEAN
    BY <2>6 DEF VerdictInv, CandidatesInv
  <2>8. fallback = None /\ action = None
    BY <2>2, <2>7 DEF VerdictInv, CandidatesInv
  <2>9. UNCHANGED <<tried, judged, fallback, action, approved>>
    BY <2>2 DEF candidates
  <2>10. \A j \in 1..Len(ranked') : judged'[ranked'[j]] = "untried" /\ j > tried'
    BY <2>5, <2>6, <2>7, <2>9
  <2>11. tried' \in 0..Len(ranked') /\ judged' \in [Node -> {"untried", "approved", "rejected"}]
    BY <2>5, <2>6, <2>7, <2>9
  <2>12. CandidatesInv'
    BY <2>2, <2>7, <2>8, <2>9, <2>10, <2>11 DEF CandidatesInv, Ended
  <2>13. QED BY <2>3, <2>12 DEF VerdictInv
<1>5. ASSUME NEW ok \in BOOLEAN, Try(ok) PROVE VerdictInv'
  <2>1. UNCHANGED <<pc, reading, ranked>>
    BY <1>5 DEF Try, request
  <2>2. RankedInv'
    BY <2>1 DEF VerdictInv, RankedInv
  <2>3. QED BY <1>5, <2>2, TryKeeps DEF VerdictInv
<1>6. CASE Decide
  <2>1. UNCHANGED <<reading, ranked>> /\ pc = "validate" /\ pc' = "answered"
    BY <1>6 DEF Decide
  <2>2. RankedInv'
    BY <2>1 DEF VerdictInv, RankedInv, Ended
  <2>3. QED BY <1>6, <2>2, DecideKeeps DEF VerdictInv
<1>7. CASE VerifyUnknown \/ Verify
  BY <1>2, <1>7 DEF VerifyUnknown, Verify, request
<1>8. CASE Finish \/ Raise
  <2>1. /\ pc' \notin Ended /\ ranked' = <<>> /\ tried' = 0 /\ ~approved' /\ approved' \in BOOLEAN
        /\ judged' = [n \in Node |-> "untried"] /\ fallback' = None /\ action' = None
    BY <1>8 DEF Finish, Raise, Forget, Ended
  <2>2. Len(ranked') = 0 /\ pc' # "answered"
    BY <2>1 DEF Ended
  <2>3. judged' \in [Node -> {"untried", "approved", "rejected"}]
    BY <2>1
  <2>4. CandidatesInv'
    BY <2>1, <2>2, <2>3 DEF CandidatesInv
  <2>5. RankedInv'
    BY <2>1 DEF RankedInv
  <2>6. QED BY <2>4, <2>5 DEF VerdictInv
<1>9. CASE UNCHANGED vars
  BY <1>2, <1>9 DEF vars, request
<1>10. QED BY <1>3, <1>4, <1>5, <1>6, <1>7, <1>8, <1>9 DEF Next

LEMMA VerdictInit == Init => VerdictInv
<1> SUFFICES ASSUME Init PROVE VerdictInv
  OBVIOUS
<1>1. /\ pc \notin Ended /\ ranked = <<>> /\ tried = 0 /\ approved = FALSE
      /\ judged = [n \in Node |-> "untried"] /\ fallback = None /\ action = None
  BY DEF Init, Ended
<1>2. judged \in [Node -> {"untried", "approved", "rejected"}]
  BY <1>1
<1>3. Len(ranked) = 0 /\ pc # "answered"
  <2>1. Len(ranked) = 0
    BY <1>1
  <2>2. QED BY <1>1, <2>1 DEF Ended
<1>4. tried \in 0..Len(ranked) /\ \A j \in 1..Len(ranked) : FALSE
  BY <1>1, <1>3
<1>5. CandidatesInv
  BY <1>1, <1>2, <1>3, <1>4 DEF CandidatesInv
<1>6. QED BY <1>1, <1>5 DEF VerdictInv, RankedInv

(* However a window and a graph may look, no degraded node is ranked behind *)
(* one whose worst reading is milder by more than edges and onsets weigh.   *)
THEOREM SeverityDecides == Spec => []SevereFirst
<1>1. VerdictInv => SevereFirst
  <2> SUFFICES ASSUME VerdictInv PROVE SevereFirst
    OBVIOUS
  <2>1. CASE ranked = <<>>
    BY <2>1 DEF SevereFirst
  <2>2. CASE ranked # <<>>
    <3>1. reading \in Readings
      BY <2>2 DEF VerdictInv, RankedInv
    <3>2. PICK g \in Discovered : ranked = Ranking(g, reading)
      BY <2>2 DEF VerdictInv, RankedInv
    <3>3. DOMAIN ranked = 1..Len(ranked)
      BY RankedIs DEF VerdictInv
    <3>4. \A m \in Node, i \in 1..Len(ranked) :
            /\ Worst(reading, m) > 0
            /\ Severity[Worst(reading, m)] - Severity[Worst(reading, ranked[i])] > Bound(reading)
            => \E j \in 1..(i - 1) : ranked[j] = m
      BY <3>1, <3>2, RankingIs
    <3>5. QED BY <3>3, <3>4 DEF SevereFirst, Bound
  <2>3. QED BY <2>1, <2>2
<1>2. QED BY <1>1, VerdictInit, VerdictStep, PTL DEF Spec

(* The loop over the candidates ends with the first approved one, or with   *)
(* the top one when there is none, for any ranking.                         *)
THEOREM FirstApproved == Spec => []FirstApprovedWins
<1>1. VerdictInv => FirstApprovedWins
  <2> SUFFICES ASSUME VerdictInv, pc = "answered"
               PROVE  FirstApprovedWins
    BY DEF FirstApprovedWins
  <2>1. /\ ranked \in Seq(Node) /\ DOMAIN ranked = 1..Len(ranked) /\ Len(ranked) \in Nat
        /\ (ranked = <<>> <=> Degraded(reading) = {})
    BY RankedIs DEF VerdictInv, Ended
  <2>2. \A j \in 1..Len(ranked) : ranked[j] # None
    BY <2>1, RankedNodes
  <2>3. /\ tried \in 0..Len(ranked) /\ (approved => tried > 0)
        /\ fallback = IF tried = 0 THEN None ELSE ranked[1]
        /\ action = IF approved THEN ranked[tried] ELSE fallback
        /\ approved \/ tried = Len(ranked)
        /\ \A j \in 1..Len(ranked) :
             judged[ranked[j]] = IF j > tried THEN "untried"
                                 ELSE IF j = tried /\ approved THEN "approved" ELSE "rejected"
    <3>1. tried \in 0..Len(ranked) /\ (pc = "answered" => ~More)
      BY DEF VerdictInv, CandidatesInv
    <3>2. ASSUME ~approved PROVE tried = Len(ranked)
      <4>1. ~(tried < Len(ranked))
        BY <3>1, <3>2 DEF More
      <4>2. tried \in 0..Len(ranked) /\ Len(ranked) \in Nat
        BY <2>1, <3>1
      <4>3. QED BY <4>1, <4>2
    <3>3. QED BY <3>1, <3>2 DEF VerdictInv, CandidatesInv
  <2>4. CASE approved
    <3>1. tried \in 1..Len(ranked) /\ ranked # <<>> /\ action = ranked[tried]
      BY <2>1, <2>3, <2>4
    <3>2. \A j \in 1..Len(ranked) :
            judged[ranked[j]] = IF j < tried THEN "rejected"
                                ELSE IF j = tried THEN "approved" ELSE "untried"
      BY <2>1, <2>3, <2>4
    <3>3. action # None
      BY <2>2, <3>1
    <3>4. QED BY <2>1, <2>4, <3>1, <3>2, <3>3 DEF FirstApprovedWins
  <2>5. CASE ~approved /\ ranked = <<>>
    <3>1. Len(ranked) = 0 /\ DOMAIN ranked = {} /\ Degraded(reading) = {}
      BY <2>1, <2>5
    <3>2. tried = 0
      BY <2>3, <3>1
    <3>3. action = None
      BY <2>3, <2>5, <3>2
    <3>4. QED BY <2>5, <3>1, <3>3 DEF FirstApprovedWins
  <2>6. CASE ~approved /\ ranked # <<>>
    <3>1. Len(ranked) > 0 /\ tried = Len(ranked)
      <4>1. Len(ranked) # 0
        BY <2>1, <2>6, EmptySeq
      <4>2. tried = Len(ranked)
        BY <2>3, <2>6
      <4>3. QED BY <2>1, <4>1, <4>2
    <3>2. action = ranked[1] /\ 1 \in 1..Len(ranked)
      BY <2>1, <2>3, <2>6, <3>1
    <3>3. \A j \in 1..Len(ranked) : judged[ranked[j]] = "rejected"
      BY <2>1, <2>3, <2>6, <3>1
    <3>4. QED BY <2>1, <2>2, <2>6, <3>2, <3>3 DEF FirstApprovedWins
  <2>7. QED BY <2>4, <2>5, <2>6
<1>2. QED BY <1>1, VerdictInit, VerdictStep, PTL DEF Spec

-----------------------------------------------------------------------------
(* The median of the calm samples exists.                                   *)

(* The least value with fewer than half of the samples above it has fewer   *)
(* than half below it: those are at most the next smaller value, which has  *)
(* not.                                                                     *)
LEMMA MedianIs ==
    ASSUME NEW s \in [Sample -> Load]
    PROVE  Median(s) \in Nat
<1> DEFINE calm == 1..Calm
           vals == {s[i] : i \in calm}
           good == {v \in vals : 2 * Cardinality(Above(s, v)) < Calm}
<1>1. /\ Calm \in Nat /\ Calm > 0 /\ Calm % 2 = 1
      /\ IsFiniteSet(calm) /\ Cardinality(calm) = Calm
  <2>1. Calm \in Nat /\ Calm > 0 /\ Calm % 2 = 1
    BY VelocityAssumption
  <2>2. IsFiniteSet(calm) /\ Cardinality(calm) = IF 1 > Calm THEN 0 ELSE Calm - 1 + 1
    BY <2>1, FS_Interval
  <2>3. Cardinality(calm) = Calm
    BY <2>1, <2>2
  <2>4. QED BY <2>1, <2>2, <2>3
<1>2. \A i \in calm : s[i] \in Nat
  <2>1. TAKE i \in calm
  <2>2. i \in Sample
    BY VelocityAssumption DEF Sample
  <2>3. s[i] \in Load
    BY <2>2
  <2>4. QED BY <2>3, VelocityAssumption
<1>3. IsFiniteSet(vals) /\ vals # {} /\ \A v \in vals : v \in Nat
  <2>1. \A i \in calm : i \in DOMAIN s
    BY VelocityAssumption DEF Sample
  <2>2. IsFiniteSet(vals)
    <3> HIDE DEF calm
    <3>1. QED BY <1>1, <2>1, ImageFinite
  <2>3. 1 \in calm
    BY <1>1
  <2>4. QED BY <1>2, <2>2, <2>3
<1>4. \A v \in vals : /\ IsFiniteSet(Above(s, v)) /\ Cardinality(Above(s, v)) \in 0..Calm
                      /\ IsFiniteSet(Below(s, v)) /\ Cardinality(Below(s, v)) \in 0..Calm
  <2>1. TAKE v \in vals
  <2>2. Above(s, v) \in SUBSET calm /\ Below(s, v) \in SUBSET calm
    BY DEF Above, Below
  <2> HIDE DEF calm, vals
  <2>3. QED BY <1>1, <2>2, FS_Subset, FS_CardinalityType
<1>5. good # {}
  <2> HIDE DEF vals
  <2>1. Max(vals) \in vals /\ \A v \in vals : Max(vals) >= v
    BY <1>3, MaxIs
  <2>2. Above(s, Max(vals)) = {}
    <3>1. ASSUME NEW i \in calm PROVE ~ (s[i] > Max(vals))
      <4>1. s[i] \in vals
        BY DEF vals
      <4>2. Max(vals) >= s[i] /\ s[i] \in Nat /\ Max(vals) \in Nat
        BY <1>3, <2>1, <4>1
      <4>3. QED BY <4>2
    <3>2. QED BY <3>1 DEF Above
  <2>3. 2 * Cardinality(Above(s, Max(vals))) < Calm
    BY <1>1, <2>2, FS_EmptySet
  <2>4. QED BY <2>1, <2>3
<1>6. PICK m \in good : \A v \in good : m <= v
  <2> HIDE DEF vals
  <2>1. \A v \in good : v \in Nat
    BY <1>3
  <2> HIDE DEF good
  <2>2. QED BY <1>5, <2>1, Least
<1>7. m \in vals /\ 2 * Cardinality(Above(s, m)) < Calm /\ m \in Nat
  BY <1>3, <1>6
<1>8. 2 * Cardinality(Below(s, m)) < Calm
  <2> DEFINE smaller == {v \in vals : v < m}
  <2>1. CASE smaller = {}
    <3>1. Below(s, m) = {}
      BY <2>1 DEF Below
    <3>2. QED BY <1>1, <3>1, FS_EmptySet
  <2>2. CASE smaller # {}
    <3>1. smaller \in SUBSET vals /\ \A v \in smaller : v \in Nat
      BY <1>3
    <3>2. IsFiniteSet(smaller)
      BY <1>3, <3>1, FS_Subset
    <3>3. Max(smaller) \in smaller /\ \A v \in smaller : Max(smaller) >= v
      <4> HIDE DEF smaller
      <4>1. QED BY <2>2, <3>1, <3>2, MaxIs
    <3> DEFINE p == Max(smaller)
    <3>4. p \in vals /\ p < m /\ p \in Nat
      BY <3>1, <3>3
    <3>5. \A i \in calm : s[i] < m => s[i] <= p
      <4>1. \A i \in calm : s[i] \in vals
        OBVIOUS
      <4> HIDE DEF vals
      <4>2. QED BY <3>3, <4>1
    <3> HIDE DEF p
    <3>6. 2 * Cardinality(Above(s, p)) >= Calm
      <4>1. p \notin good
        BY <1>6, <1>7, <3>4
      <4>2. QED BY <1>1, <1>4, <3>4, <4>1
    <3>7. Below(s, m) = calm \ Above(s, p)
      BY <1>2, <1>7, <3>4, <3>5 DEF Below, Above
    <3>8. calm \cap Above(s, p) = Above(s, p)
      BY DEF Above
    <3>9. Cardinality(Below(s, m)) = Calm - Cardinality(Above(s, p))
      BY <1>1, <3>7, <3>8, FS_Difference
    <3>10. /\ Cardinality(Above(s, p)) \in Nat /\ Cardinality(Below(s, m)) \in Nat
      BY <1>4, <1>7, <3>4
    <3>11. QED BY <1>1, <3>6, <3>9, <3>10
  <2>3. QED BY <2>1, <2>2
<1>9. \E v \in {s[i] : i \in 1..Calm} :
         2 * Cardinality(Above(s, v)) < Calm /\ 2 * Cardinality(Below(s, v)) < Calm
  BY <1>7, <1>8
<1>10. Median(s) \in vals
  BY <1>9 DEF Median
<1>11. QED BY <1>3, <1>10

-----------------------------------------------------------------------------
(* Types of the velocity, and how long the fast mode lasts.                 *)

LEMMA Times == ASSUME NEW a \in Nat, NEW b \in Nat PROVE a * b \in Nat
OBVIOUS

LEMMA BaseIs ==
    ASSUME series \in [Sample -> Load]
    PROVE  Base \in Nat
BY MedianIs DEF Base

LEMMA StepIs ==
    ASSUME series \in [Sample -> Load], NEW i \in Sample
    PROVE  Step(i) \in Nat
<1>1. CASE i = 1
  BY <1>1 DEF Step
<1>2. CASE i # 1
  <2>1. i - 1 \in Sample
    BY <1>2, VelocityAssumption DEF Sample
  <2>2. series[i] \in Load /\ series[i - 1] \in Load
    BY <2>1
  <2>3. series[i] \in Nat /\ series[i - 1] \in Nat
    BY <2>2, VelocityAssumption
  <2>4. QED BY <1>2, <2>3 DEF Step
<1>3. QED BY <1>1, <1>2

(* One sample more: the velocity keeps at least its share.                  *)
LEMMA ScanIs ==
    ASSUME VelocityTypeOK, Scan
    PROVE  /\ series \in [Sample -> Load] /\ series' = series /\ Base \in Nat /\ Base' = Base
           /\ unit' = Scale * unit /\ unit' \in Nat
           /\ ema' \in Nat /\ ema' >= (Scale - Alpha) * ema /\ (Scale - Alpha) * ema \in Nat
           /\ levels' = Append(levels, Level(ema', Base * unit'))
           /\ modes' = Append(modes, Switch(Mode, Level(ema', Base * unit')))
           /\ Len(modes) \in Nat /\ Len(modes) < Length
<1> DEFINE i == Len(modes) + 1
<1>1. series \in [Sample -> Load] /\ series' = series
  BY DEF Scan, VelocityTypeOK
<1>2. Base \in Nat /\ Base' = Base
  <2>1. Base \in Nat
    BY <1>1, BaseIs
  <2>2. Base' = Base
    BY <1>1 DEF Base
  <2>3. QED BY <2>1, <2>2
<1>3. /\ Len(modes) \in Nat /\ Len(modes) < Length /\ ema \in Nat /\ unit \in Nat
      /\ Scale \in Nat /\ Scale - Alpha \in Nat /\ Alpha \in Nat /\ Length \in Nat
  BY VelocityAssumption DEF Scan, VelocityTypeOK
<1>4. i \in Sample
  BY <1>3 DEF Sample
<1>5. unit' = Scale * unit /\ unit' \in Nat
  BY <1>3, Times DEF Scan
<1>6. ema' = Alpha * Step(i) * unit + (Scale - Alpha) * ema
  BY DEF Scan, Smoothed
<1>7. Alpha * Step(i) * unit \in Nat /\ (Scale - Alpha) * ema \in Nat
  <2>1. Step(i) \in Nat
    BY <1>1, <1>4, StepIs
  <2>2. Alpha * Step(i) \in Nat
    BY <1>3, <2>1, Times
  <2>3. QED BY <1>3, <2>2, Times
<1>8. ema' \in Nat /\ ema' >= (Scale - Alpha) * ema
  <2> DEFINE x == Alpha * Step(i) * unit
             y == (Scale - Alpha) * ema
  <2>1. ema' = x + y /\ x \in Nat /\ y \in Nat
    BY <1>6, <1>7
  <2> HIDE DEF x, y
  <2>2. ema' \in Nat /\ ema' >= y
    BY <2>1
  <2>3. QED BY <2>2 DEF y
<1>9. /\ levels' = Append(levels, Level(ema', Base * unit'))
      /\ modes' = Append(modes, Switch(Mode, levels'[Len(levels')]))
  BY DEF Scan
<1>10. levels'[Len(levels')] = Level(ema', Base * unit')
  BY <1>9, AppendProperties DEF VelocityTypeOK, Level
<1>11. QED BY <1>1, <1>2, <1>3, <1>5, <1>7, <1>8, <1>9, <1>10

LEMMA VelocityTypeStep == VelocityTypeOK /\ [Next]_vars => VelocityTypeOK'
<1> SUFFICES ASSUME VelocityTypeOK, [Next]_vars PROVE VelocityTypeOK'
  OBVIOUS
<1>1. CASE UNCHANGED velocity
  BY <1>1 DEF VelocityTypeOK, velocity
<1>2. CASE /\ series' = <<>> \/ series' \in [Sample -> Load]
           /\ ema' = 0 /\ unit' = 1 /\ levels' = <<>> /\ modes' = <<>>
  <2>1. Len(<<>>) = 0 /\ Length \in Nat
    BY VelocityAssumption
  <2>2. QED BY <1>2, <2>1 DEF VelocityTypeOK
<1>3. CASE Receive \/ TakePath
  BY <1>2, <1>3 DEF Receive, TakeSeries, TakePath
<1>4. CASE ScanSample
  <2> DEFINE level == Level(ema', Base * unit')
             mode1 == Switch(Mode, level)
  <2>1. Scan
    BY <1>4 DEF ScanSample
  <2>2. /\ series' \in [Sample -> Load] /\ ema' \in Nat /\ unit' \in Nat
        /\ levels' = Append(levels, level) /\ modes' = Append(modes, mode1)
        /\ Len(modes) \in Nat /\ Len(modes) < Length
    BY <2>1, ScanIs
  <2>3. level \in {"above", "band", "below"}
    BY DEF Level
  <2>4. modes = <<>> \/ modes[Len(modes)] \in {"slow", "fast"}
    BY DEF VelocityTypeOK
  <2>5. mode1 \in {"slow", "fast"}
    BY <2>4 DEF Mode, Switch
  <2> HIDE DEF level, mode1
  <2>6. /\ levels' \in Seq({"above", "band", "below"}) /\ Len(levels') = Len(levels) + 1
        /\ modes' \in Seq({"slow", "fast"}) /\ Len(modes') = Len(modes) + 1
    BY <2>2, <2>3, <2>5 DEF VelocityTypeOK
  <2>7. Len(modes) + 1 <= Length
    BY <2>2, VelocityAssumption
  <2>8. QED BY <2>2, <2>6, <2>7 DEF VelocityTypeOK
<1>5. CASE Diagnose \/ Decide \/ VerifyUnknown \/ Verify \/ Finish \/ Raise \/ \E ok \in BOOLEAN : Try(ok)
  BY <1>1, <1>5 DEF Diagnose, Decide, VerifyUnknown, Verify, Finish, Raise, Forget, Try
<1>6. CASE UNCHANGED vars
  BY <1>1, <1>6 DEF vars
<1>7. QED BY <1>3, <1>4, <1>5, <1>6 DEF Next

LEMMA VelocityTypeInit == Init => VelocityTypeOK
<1>1. Len(<<>>) = 0 /\ Length \in Nat
  BY VelocityAssumption
<1>2. QED BY <1>1 DEF Init, VelocityInit, VelocityTypeOK

(* The two thresholds are so far apart that a velocity above the upper one  *)
(* is not below the lower one for two samples, whatever the load does.      *)
Apart ==
    /\ Alpha < Scale
    /\ (Scale - Alpha) * (Scale - Alpha) * High >= Low * Scale * Scale

\* How far the velocity still is above the band after a switch to fast, in the
\* first and in the second sample; a third one suffices.
Tripped(ms, v, one) ==
    LET n == Len(ms)
    IN  /\ n >= 1 /\ ms[n] = "fast" /\ (n >= 2 => ms[n - 1] = "slow") => Grid * v > High * one
        /\ n >= 2 /\ ms[n] = "fast" /\ ms[n - 1] = "fast" /\ (n >= 3 => ms[n - 2] = "slow") =>
             Scale * (Grid * v) > (Scale - Alpha) * (High * one)

LastsOf(ms) ==
    \A i \in 2..Len(ms) :
        ms[i] = "slow" /\ ms[i - 1] = "fast" => i > 3 /\ ms[i - 2] = "fast" /\ ms[i - 3] = "fast"

FastInv == LastsOf(modes) /\ Tripped(modes, ema, Base * unit)

(* The arithmetic of a sample: with k = Scale - Alpha, a velocity keeps k of *)
(* Scale parts of itself.                                                   *)
LEMMA KeepsShare ==
    ASSUME NEW k \in Nat, k > 0, NEW g \in Nat, NEW h \in Nat, g > h
    PROVE  k * g > k * h
OBVIOUS

LEMMA KeepsOrder ==
    ASSUME NEW k \in Nat, NEW g \in Nat, NEW h \in Nat, g >= h
    PROVE  k * g >= k * h
OBVIOUS

(* Right after the switch the velocity cannot be below the band, and stays  *)
(* well above it.                                                           *)
LEMMA FirstDecay ==
    ASSUME NEW k \in Nat, k > 0, NEW scale \in Nat, k <= scale,
           NEW high \in Nat, NEW low \in Nat, NEW grid \in Nat,
           k * k * high >= low * scale * scale,
           NEW v \in Nat, NEW w \in Nat, NEW one \in Nat,
           w >= k * v, grid * v > high * one
    PROVE  /\ ~ (grid * w < low * (scale * one))
           /\ scale * (grid * w) > k * (high * (scale * one))
<1>1. grid * w >= grid * (k * v)
  BY KeepsOrder, Times
<1>2. grid * (k * v) = k * (grid * v)
  OBVIOUS
<1>3. k * (grid * v) > k * (high * one)
  BY KeepsShare, Times
<1>4. grid * w > k * (high * one)
  <2>1. grid * w \in Nat /\ grid * (k * v) \in Nat /\ k * (high * one) \in Nat
    BY Times
  <2>2. QED BY <1>1, <1>2, <1>3, <2>1
<1>5. scale * (grid * w) > scale * (k * (high * one))
  <2>1. scale > 0
    OBVIOUS
  <2>2. QED BY <1>4, <2>1, KeepsShare, Times
<1>6. scale * (k * (high * one)) = k * (high * (scale * one))
  OBVIOUS
<1>7. k * high >= low * scale
  <2>1. CASE k * high < low * scale
    <3>1. k * (k * high) <= k * (low * scale)
      BY <2>1, KeepsOrder, Times
    <3>2. k * (low * scale) <= scale * (low * scale)
      BY Times
    <3>3. k * (k * high) < k * (low * scale)
      BY <2>1, KeepsShare, Times
    <3>4. QED BY <3>2, <3>3, Times
  <2>2. QED BY <2>1, Times
<1>8. (k * high) * one >= (low * scale) * one
  BY <1>7, KeepsOrder, Times
<1>9. QED BY <1>4, <1>5, <1>6, <1>8, Times

LEMMA SecondDecay ==
    ASSUME NEW k \in Nat, k > 0, NEW scale \in Nat, k <= scale,
           NEW high \in Nat, NEW low \in Nat, NEW grid \in Nat,
           k * k * high >= low * scale * scale,
           NEW v \in Nat, NEW w \in Nat, NEW one \in Nat,
           w >= k * v, scale * (grid * v) > k * (high * one)
    PROVE  ~ (grid * w < low * (scale * one))
<1> SUFFICES ASSUME grid * w < low * (scale * one) PROVE FALSE
  OBVIOUS
<1>1. scale * (grid * w) < scale * (low * (scale * one))
  <2>1. scale > 0
    OBVIOUS
  <2>2. QED BY <2>1, KeepsShare, Times
<1>2. grid * w >= grid * (k * v)
  BY KeepsOrder, Times
<1>3. scale * (grid * w) >= scale * (grid * (k * v))
  BY <1>2, KeepsOrder, Times
<1>4. scale * (grid * (k * v)) = k * (scale * (grid * v))
  OBVIOUS
<1>5. k * (scale * (grid * v)) > k * (k * (high * one))
  BY KeepsShare, Times
<1>6. k * (k * (high * one)) = (k * k * high) * one
  OBVIOUS
<1>7. (k * k * high) * one >= (low * scale * scale) * one
  BY KeepsOrder, Times
<1>8. (low * scale * scale) * one = scale * (low * (scale * one))
  OBVIOUS
<1> DEFINE a == scale * (grid * w)
           b == scale * (low * (scale * one))
           c == k * (scale * (grid * v))
           d == (k * k * high) * one
<1>9. a \in Nat /\ b \in Nat /\ c \in Nat /\ d \in Nat
  BY Times
<1>10. a < b /\ a >= c /\ c > d /\ d >= b
  BY <1>1, <1>3, <1>4, <1>5, <1>6, <1>7, <1>8
<1> HIDE DEF a, b, c, d
<1>11. QED BY <1>9, <1>10

(* A sample more keeps the fast mode for three samples.                     *)
LEMMA FastGrows ==
    ASSUME Apart, NEW ms \in Seq({"slow", "fast"}), NEW m1 \in {"slow", "fast"},
           NEW v \in Nat, NEW w \in Nat, NEW one \in Nat,
           w >= (Scale - Alpha) * v,
           LastsOf(ms), Tripped(ms, v, one),
           m1 = "fast" /\ (ms = <<>> \/ ms[Len(ms)] = "slow") => Grid * w > High * (Scale * one),
           m1 = "slow" /\ ms # <<>> /\ ms[Len(ms)] = "fast" => Grid * w < Low * (Scale * one)
    PROVE  LastsOf(Append(ms, m1)) /\ Tripped(Append(ms, m1), w, Scale * one)
<1> DEFINE n == Len(ms)
           longer == Append(ms, m1)
           k == Scale - Alpha
<1>1. /\ n \in Nat /\ Len(longer) = n + 1 /\ longer[n + 1] = m1
      /\ \A i \in 1..n : longer[i] = ms[i] /\ ms[i] \in {"slow", "fast"}
      /\ (n >= 1 => ms # <<>>) /\ (n = 0 => ms = <<>>)
  OBVIOUS
<1>2. /\ k \in Nat /\ k > 0 /\ Scale \in Nat /\ k <= Scale /\ High \in Nat /\ Low \in Nat /\ Grid \in Nat
      /\ k * k * High >= Low * Scale * Scale
  BY VelocityAssumption DEF Apart
<1>3. ASSUME n >= 1, ms[n] = "fast", n >= 2 => ms[n - 1] = "slow"
      PROVE  /\ ~ (Grid * w < Low * (Scale * one))
             /\ Scale * (Grid * w) > k * (High * (Scale * one))
  <2>1. Grid * v > High * one
    BY <1>3 DEF Tripped
  <2> HIDE DEF k
  <2>2. w >= k * v
    BY DEF k
  <2>3. QED BY <1>2, <2>1, <2>2, FirstDecay
<1>4. ASSUME n >= 2, ms[n] = "fast", ms[n - 1] = "fast", n >= 3 => ms[n - 2] = "slow"
      PROVE  ~ (Grid * w < Low * (Scale * one))
  <2>1. Scale * (Grid * v) > k * (High * one)
    BY <1>4 DEF Tripped
  <2>2. w >= k * v
    OBVIOUS
  <2> HIDE DEF k
  <2>3. QED BY <1>2, <2>1, <2>2, SecondDecay
<1> HIDE DEF longer
<1>5. LastsOf(longer)
  <2> SUFFICES ASSUME NEW i \in 2..(n + 1), longer[i] = "slow", longer[i - 1] = "fast"
               PROVE  i > 3 /\ longer[i - 2] = "fast" /\ longer[i - 3] = "fast"
    BY <1>1 DEF LastsOf
  <2>1. CASE i \in 2..n
    <3>1. i \in 1..n /\ i - 1 \in 1..n
      BY <1>1, <2>1
    <3>2. ms[i] = "slow" /\ ms[i - 1] = "fast"
      BY <1>1, <3>1
    <3>3. i > 3 /\ ms[i - 2] = "fast" /\ ms[i - 3] = "fast"
      BY <2>1, <3>2 DEF LastsOf
    <3>4. i - 2 \in 1..n /\ i - 3 \in 1..n
      BY <1>1, <2>1, <3>3
    <3>5. QED BY <1>1, <3>3, <3>4
  <2>2. CASE i = n + 1
    <3>1. n >= 1 /\ n \in 1..n /\ m1 = "slow" /\ ms[n] = "fast"
      <4>1. n >= 1 /\ n \in 1..n /\ i - 1 = n
        BY <1>1, <2>2
      <4>2. QED BY <1>1, <2>2, <4>1
    <3>2. Grid * w < Low * (Scale * one)
      BY <1>1, <3>1
    <3>3. n >= 2 /\ ms[n - 1] = "fast"
      <4>1. ~ (n >= 2 => ms[n - 1] = "slow")
        BY <1>3, <3>1, <3>2
      <4>2. n >= 2 /\ n - 1 \in 1..n
        BY <1>1, <4>1
      <4>3. QED BY <1>1, <4>1, <4>2
    <3>4. n >= 3 /\ ms[n - 2] = "fast"
      <4>1. ~ (n >= 3 => ms[n - 2] = "slow")
        BY <1>4, <3>1, <3>2, <3>3
      <4>2. n >= 3 /\ n - 2 \in 1..n
        BY <1>1, <4>1
      <4>3. QED BY <1>1, <4>1, <4>2
    <3>5. i > 3 /\ i - 2 = n - 1 /\ i - 3 = n - 2 /\ n - 1 \in 1..n /\ n - 2 \in 1..n
      BY <1>1, <2>2, <3>4
    <3>6. QED BY <1>1, <3>3, <3>4, <3>5
  <2>3. QED BY <1>1, <2>1, <2>2
<1>6. ASSUME m1 = "fast", n + 1 >= 2 => longer[n] = "slow"
      PROVE  Grid * w > High * (Scale * one)
  <2>1. CASE n = 0
    BY <1>1, <1>6, <2>1
  <2>2. CASE n # 0
    <3>1. n + 1 >= 2 /\ n \in 1..n
      BY <1>1, <2>2
    <3>2. QED BY <1>1, <1>6, <3>1
  <2>3. QED BY <2>1, <2>2
<1>7. ASSUME n + 1 >= 2, m1 = "fast", longer[n] = "fast", n + 1 >= 3 => longer[n - 1] = "slow"
      PROVE  Scale * (Grid * w) > k * (High * (Scale * one))
  <2>1. n >= 1 /\ n \in 1..n
    BY <1>1, <1>7
  <2>2. ms[n] = "fast"
    BY <1>1, <1>7, <2>1
  <2>3. ASSUME n >= 2 PROVE ms[n - 1] = "slow"
    <3>1. n + 1 >= 3 /\ n - 1 \in 1..n
      BY <1>1, <2>3
    <3>2. QED BY <1>1, <1>7, <3>1
  <2>4. QED BY <1>3, <2>1, <2>2, <2>3
<1>8. Tripped(longer, w, Scale * one)
  <2>1. (n + 1) - 1 = n /\ (n + 1) - 2 = n - 1
    BY <1>1
  <2> HIDE DEF n
  <2>2. QED BY <1>1, <1>6, <1>7, <2>1 DEF Tripped
<1>9. QED BY <1>5, <1>8 DEF longer

LEMMA FastScan ==
    ASSUME Apart, VelocityTypeOK, FastInv, Scan
    PROVE  FastInv'
<1> DEFINE one == Base * unit
           level == Level(ema', Base * unit')
           m1 == Switch(Mode, level)
<1>1. /\ Base \in Nat /\ Base' = Base /\ unit' = Scale * unit /\ ema' \in Nat
      /\ ema' >= (Scale - Alpha) * ema /\ modes' = Append(modes, m1)
  BY ScanIs
<1>2. /\ ema \in Nat /\ unit \in Nat /\ Scale \in Nat /\ one \in Nat
      /\ modes \in Seq({"slow", "fast"})
  BY <1>1, Times, VelocityAssumption DEF VelocityTypeOK
<1>3. Base * unit' = Scale * one
  BY <1>1, <1>2
<1>4. modes = <<>> \/ modes[Len(modes)] \in {"slow", "fast"}
  BY <1>2
<1>5. m1 \in {"slow", "fast"}
  BY <1>4 DEF Mode, Switch
<1> HIDE DEF one
<1>6. /\ level = "above" => Grid * ema' > High * (Scale * one)
      /\ level = "below" => Grid * ema' < Low * (Scale * one)
  BY <1>3 DEF Level
<1> HIDE DEF level
<1>7. /\ m1 = "fast" /\ (modes = <<>> \/ modes[Len(modes)] = "slow") => level = "above"
      /\ m1 = "slow" /\ modes # <<>> /\ modes[Len(modes)] = "fast" => level = "below"
  BY DEF Mode, Switch
<1> HIDE DEF m1
<1>8. LastsOf(modes) /\ Tripped(modes, ema, one)
  BY DEF FastInv, one
<1>9. LastsOf(Append(modes, m1)) /\ Tripped(Append(modes, m1), ema', Scale * one)
  BY <1>1, <1>2, <1>5, <1>6, <1>7, <1>8, FastGrows
<1>10. QED BY <1>1, <1>3, <1>9 DEF FastInv

LEMMA FastStep ==
    ASSUME Apart
    PROVE  VelocityTypeOK /\ FastInv /\ [Next]_vars => FastInv'
<1> SUFFICES ASSUME VelocityTypeOK, FastInv, [Next]_vars PROVE FastInv'
  OBVIOUS
<1>1. CASE UNCHANGED velocity
  BY <1>1 DEF FastInv, LastsOf, Tripped, Base, velocity
<1>2. CASE modes' = <<>>
  <2>1. Len(modes') = 0
    BY <1>2
  <2>2. QED BY <2>1 DEF FastInv, LastsOf, Tripped
<1>3. CASE Receive \/ TakePath
  BY <1>2, <1>3 DEF Receive, TakeSeries, TakePath
<1>4. CASE ScanSample
  BY <1>4, FastScan DEF ScanSample
<1>5. CASE Diagnose \/ Decide \/ VerifyUnknown \/ Verify \/ Finish \/ Raise \/ \E ok \in BOOLEAN : Try(ok)
  BY <1>1, <1>5 DEF Diagnose, Decide, VerifyUnknown, Verify, Finish, Raise, Forget, Try
<1>6. CASE UNCHANGED vars
  BY <1>1, <1>6 DEF vars
<1>7. QED BY <1>3, <1>4, <1>5, <1>6 DEF Next

(* With thresholds as far apart as the code's (0.7 * 0.7 * 0.4 >= 0.15,     *)
(* config.py:24-26), a burst holds the fast mode for at least three         *)
(* samples, whatever the load does (velocity.py:36-62).                     *)
THEOREM FastModeLasts ==
    ASSUME Apart
    PROVE  Spec => []FastLasts
<1>1. Init => FastInv
  <2>1. Len(<<>>) = 0
    OBVIOUS
  <2>2. QED BY <2>1 DEF Init, VelocityInit, FastInv, LastsOf, Tripped
<1>2. FastInv => FastLasts
  BY DEF FastInv, LastsOf, FastLasts
<1>3. VelocityTypeOK /\ FastInv /\ [Next]_vars => FastInv'
  BY FastStep
<1>4. QED BY <1>1, <1>2, <1>3, VelocityTypeInit, VelocityTypeStep, PTL DEF Spec

(* The code's constants satisfy the hypothesis.                             *)
LEMMA CodeApart == Alpha = 3 /\ Scale = 10 /\ High = 8 /\ Low = 3 => Apart
BY DEF Apart

-----------------------------------------------------------------------------
(* The types of a request, and what is called recovered.                    *)

RequestInv ==
    /\ pc \in {"idle", "velocity", "discover", "validate", "answered", "failed"}
    /\ asked \in {"auto", "fast", "slow", "other"}
    /\ mode \in {"fast", "slow", "other"}
    /\ reading \in Readings
    /\ later \in Later \cup {NoData}
    /\ outcome \in {"none", "unknown", "recovered", "partial", "not_recovered"}

LEMMA CalmlyIs == Calmly \in Readings
<1>1. Min(Front) \in Front /\ Min(Recent) \in Recent /\ Min(Onset) \in Onset
  BY DiagnosisAssumption, MinIs
<1>2. QED BY <1>1 DEF Calmly, Readings, Reading

LEMMA RequestStep == VelocityTypeOK /\ RequestInv /\ [Next]_vars => RequestInv'
<1> SUFFICES ASSUME VelocityTypeOK, RequestInv, [Next]_vars PROVE RequestInv'
  OBVIOUS
<1> USE DEF RequestInv
<1>1. CASE Receive
  BY <1>1 DEF Receive, check
<1>2. CASE ScanSample
  BY <1>2 DEF ScanSample, request, check
<1>3. CASE TakePath
  <2>1. Mode \in {"slow", "fast"}
    BY DEF Mode, VelocityTypeOK
  <2>2. QED BY <1>3, <2>1 DEF TakePath, check
<1>4. CASE Diagnose
  BY <1>4 DEF Diagnose, check, Readings
<1>5. CASE (\E ok \in BOOLEAN : Try(ok)) \/ Decide
  BY <1>5 DEF Try, Decide, request, check
<1>6. CASE VerifyUnknown \/ Verify
  BY <1>6 DEF VerifyUnknown, Verify, Classify, request
<1>7. CASE Finish \/ Raise
  BY <1>7, CalmlyIs DEF Finish, Raise, Forget
<1>8. CASE UNCHANGED vars
  BY <1>8 DEF vars, request, check
<1>9. QED BY <1>1, <1>2, <1>3, <1>4, <1>5, <1>6, <1>7, <1>8 DEF Next

LEMMA RequestInvariant == Spec => [](VelocityTypeOK /\ VerdictInv /\ RequestInv)
<1>1. Init => RequestInv
  BY CalmlyIs DEF Init, RequestInv
<1>2. QED BY <1>1, VelocityTypeInit, VelocityTypeStep, VerdictInit, VerdictStep, RequestStep, PTL DEF Spec

(* Type correctness of a request, from its window to its verification.      *)
THEOREM DiagnosisTypeCorrect == Spec => []TypeOK
<1>1. VelocityTypeOK /\ VerdictInv /\ RequestInv => TypeOK
  <2> SUFFICES ASSUME VelocityTypeOK, VerdictInv, RequestInv PROVE TypeOK
    OBVIOUS
  <2>1. ranked \in Seq(Node) /\ IsInjective(ranked)
    BY RankedIs DEF VerdictInv
  <2>2. ranked # <<>> => pc \in {"validate", "answered"}
    BY DEF VerdictInv, RankedInv, Ended
  <2>3. /\ tried \in 0..Len(ranked) /\ approved \in BOOLEAN /\ (approved => tried > 0)
        /\ judged \in [Node -> {"untried", "approved", "rejected"}]
        /\ fallback = IF tried = 0 THEN None ELSE ranked[1]
        /\ action = IF approved THEN ranked[tried]
                    ELSE IF pc = "answered" THEN fallback ELSE None
    BY DEF VerdictInv, CandidatesInv
  <2>4. Len(ranked) \in Nat /\ \A j \in 1..Len(ranked) : ranked[j] \in Node
    BY <2>1, RankedNodes
  <2>5. fallback \in Node \cup {None}
    <3>1. CASE tried = 0
      BY <2>3, <3>1
    <3>2. CASE tried # 0
      <4>1. 1 \in 1..Len(ranked) /\ fallback = ranked[1]
        BY <2>3, <2>4, <3>2
      <4>2. QED BY <2>4, <4>1
    <3>3. QED BY <3>1, <3>2
  <2>6. action \in Node \cup {None}
    <3>1. CASE approved
      <4>1. tried \in 1..Len(ranked) /\ action = ranked[tried]
        BY <2>3, <2>4, <3>1
      <4>2. QED BY <2>4, <4>1
    <3>2. CASE ~approved
      BY <2>3, <2>5, <3>2
    <3>3. QED BY <3>1, <3>2
  <2>7. QED BY <2>1, <2>2, <2>3, <2>5, <2>6 DEF RequestInv, Readings, TypeOK
<1>2. QED BY <1>1, RequestInvariant, PTL

\* What is called recovered was measured, of the action that was carried out.
RecoveredInv ==
    outcome = "recovered" =>
        /\ pc = "answered" /\ approved /\ later \in Later
        /\ Classify(later, Peak(action)) = "recovered"

LEMMA RecoveredStep == RecoveredInv /\ [Next]_vars => RecoveredInv'
<1> SUFFICES ASSUME RecoveredInv, [Next]_vars PROVE RecoveredInv'
  OBVIOUS
<1> USE DEF RecoveredInv
<1>1. CASE Receive \/ ScanSample \/ TakePath \/ Diagnose \/ Decide \/ \E ok \in BOOLEAN : Try(ok)
  <2>1. pc # "answered" /\ outcome' = outcome
    BY <1>1 DEF Receive, ScanSample, TakePath, Diagnose, Decide, Try, check
  <2>2. QED BY <2>1
<1>2. CASE VerifyUnknown \/ Finish \/ Raise
  BY <1>2 DEF VerifyUnknown, Finish, Raise, Forget
<1>3. CASE Verify
  <2>1. /\ pc' = "answered" /\ approved' /\ later' \in Later
        /\ outcome' = Classify(later', Peak(action)) /\ UNCHANGED <<reading, action>>
    BY <1>3 DEF Verify, request, candidates
  <2>2. Peak(action') = Peak(action) /\ Peak(action)' = Peak(action)
    BY <2>1 DEF Peak
  <2>3. QED BY <2>1, <2>2
<1>4. CASE UNCHANGED vars
  <2>1. UNCHANGED <<pc, approved, reading, action, later, outcome>>
    BY <1>4 DEF vars, request, candidates, check
  <2>2. Peak(action)' = Peak(action)
    BY <2>1 DEF Peak
  <2>3. QED BY <2>1, <2>2
<1>5. QED BY <1>1, <1>2, <1>3, <1>4 DEF Next

(* Eight tenths of the way back from the peak is at most a fifth of it.     *)
LEMMA ClassifyIs ==
    ASSUME NEW mean \in Int, NEW peak \in Nat, NEW t \in Nat, mean > t,
           Classify(mean, peak) = "recovered"
    PROVE  peak > 5 * t \/ peak = 0
<1>1. peak <= 0 \/ 10 * (peak - mean) >= 8 * peak
  BY DEF Classify
<1>2. QED BY <1>1

LEMMA PeakIs ==
    ASSUME RequestInv, NEW n \in Node
    PROVE  Peak(n) \in Nat
<1> DEFINE r == reading[LatencyOf[n]]
<1>1. r \in Reading
  BY DiagnosisAssumption DEF RequestInv, Readings
<1>2. r.front \in Front /\ r.recent \in Recent
  BY <1>1 DEF Reading
<1>3. r.front \in Nat /\ r.recent \in Nat
  BY <1>2, DiagnosisAssumption
<1> DEFINE both == {r.front, r.recent}
<1>4. IsFiniteSet(both) /\ both # {} /\ (\A s \in both : s \in Nat)
  <2>1. IsFiniteSet({r.front}) /\ both = {r.front} \cup {r.recent}
    BY FS_Singleton
  <2>2. IsFiniteSet({r.front} \cup {r.recent})
    BY <2>1, FS_AddElement
  <2>3. QED BY <1>3, <2>1, <2>2
<1> HIDE DEF both
<1>5. Max(both) \in both
  BY <1>4, MaxIs
<1>6. Max(both) \in Nat
  BY <1>4, <1>5
<1>7. QED BY <1>3, <1>6 DEF Peak, both

(* What is called recovered while it still reads as degraded had risen to   *)
(* more than five times the threshold, or had never risen at all            *)
(* (verify.py:30-45), for any readings and any threshold.                   *)
THEOREM RecoveryIsRelative == Spec => []RecoveredIsRelative
<1>1. Init => RecoveredInv
  BY DEF Init, RecoveredInv
<1>2. VelocityTypeOK /\ VerdictInv /\ RequestInv /\ RecoveredInv => RecoveredIsRelative
  <2> SUFFICES ASSUME VerdictInv, RequestInv, RecoveredInv, outcome = "recovered", later > Threshold
               PROVE  Peak(action) > 5 * Threshold \/ Peak(action) = 0
    BY DEF RecoveredIsRelative
  <2>1. approved /\ later \in Int /\ Classify(later, Peak(action)) = "recovered"
    BY DiagnosisAssumption DEF RecoveredInv
  <2>2. ranked \in Seq(Node)
    BY RankedIs DEF VerdictInv
  <2>3. Len(ranked) \in Nat /\ \A j \in 1..Len(ranked) : ranked[j] \in Node
    BY <2>2, RankedNodes
  <2>4. tried \in 1..Len(ranked) /\ action = ranked[tried]
    BY <2>1, <2>3 DEF VerdictInv, CandidatesInv
  <2>5. Peak(action) \in Nat
    BY <2>3, <2>4, PeakIs
  <2>6. Threshold \in Nat
    BY DiagnosisAssumption
  <2>7. QED BY <2>1, <2>5, <2>6, ClassifyIs
<1>3. QED BY <1>1, <1>2, RecoveredStep, RequestInvariant, PTL DEF Spec
=============================================================================
