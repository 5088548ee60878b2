---------------------------- MODULE WindowProofs ----------------------------
(* What an accepted window holds, for every set of columns, every length    *)
(* and every limit.                                                         *)
EXTENDS Window, TLAPS, NaturalsInduction, WellFoundedInduction

USE WindowAssumption

-----------------------------------------------------------------------------
(* The nearest sample on one side exists.                                   *)

LEMMA Least ==
    ASSUME NEW S, S \subseteq Nat, S # {}
    PROVE  \E m \in S : \A n \in S : m <= n
<1>1. PICK m \in S : \A n \in S : ~ (<<n, m>> \in OpToRel(<, Nat))
  BY WFMin, NatLessThanWellFounded
<1>2. \A n \in S : ~ (n < m)
  BY <1>1 DEF OpToRel
<1>3. QED BY <1>2

LEMMA MinIs ==
    ASSUME NEW S \in SUBSET Second, S # {}
    PROVE  Min(S) \in S /\ \A n \in S : Min(S) <= n
<1>1. S \subseteq Nat
  BY DEF Second
<1>2. \E m \in S : \A n \in S : m <= n
  BY <1>1, Least
<1>3. QED BY <1>2 DEF Min

LEMMA MaxIs ==
    ASSUME NEW S \in SUBSET Second, S # {}
    PROVE  Max(S) \in S /\ \A n \in S : Max(S) >= n
<1> DEFINE T == {Length - n : n \in S}
<1>1. T \subseteq Nat /\ T # {}
  BY DEF Second
<1>2. PICK k \in T : \A l \in T : k <= l
  BY <1>1, Least
<1>3. PICK m \in S : k = Length - m
  OBVIOUS
<1>4. \A n \in S : k <= Length - n
  BY <1>2
<1>5. \A n \in S : m >= n
  BY <1>3, <1>4 DEF Second
<1>6. QED BY <1>5 DEF Max

-----------------------------------------------------------------------------
(* Both fills of one column.                                                *)

Values == [Second -> 0..Length]

Filled(s) == BackFill(ForwardFill(OnGrid(s)))

LEMMA GridIs ==
    ASSUME NEW s \in SUBSET Second
    PROVE  OnGrid(s) \in Values
BY DEF OnGrid, Values, Second

LEMMA BackFillIs ==
    ASSUME NEW v \in Values
    PROVE  BackFill(v) \in Values
<1>1. \A t \in Second : After(v, t) \in SUBSET Second
  BY DEF After
<1>2. \A t \in Second : After(v, t) # {} => Min(After(v, t)) \in Second
  BY <1>1, MinIs
<1>3. QED BY <1>2 DEF BackFill, Values

LEMMA ForwardFillIs ==
    ASSUME NEW v \in Values
    PROVE  ForwardFill(v) \in Values
<1>1. \A t \in Second : Before(v, t) \in SUBSET Second
  BY DEF Before
<1>2. \A t \in Second : Before(v, t) # {} => Max(Before(v, t)) \in Second
  BY <1>1, MaxIs
<1>3. QED BY <1>2 DEF ForwardFill, Values

(* ffill takes the newest sample that is near, and leaves the rest empty.   *)
LEMMA Forward ==
    ASSUME NEW s \in SUBSET Second, NEW t \in Second
    PROVE  LET w == ForwardFill(OnGrid(s))[t]
           IN  \/ /\ w = 0
                  /\ \A u \in s : u > t \/ t - u > Limit
               \/ /\ w \in s /\ w <= t /\ t - w <= Limit
                  /\ \A u \in s : u > t \/ u <= w
<1> DEFINE g == OnGrid(s)
           S == Before(g, t)
<1>a. t \in Nat /\ (\A u \in s : u \in Nat) /\ 0 \notin s /\ Limit \in Nat
  BY DEF Second
<1>0. \A u \in Second : g[u] = IF u \in s THEN u ELSE 0
  BY DEF OnGrid
<1>1. \A u : u \in S <=> u \in s /\ u < t /\ t - u <= Limit
  <2>1. \A u \in Second : u \in S <=> u < t /\ t - u <= Limit /\ g[u] # 0
    BY DEF Before
  <2>2. \A u \in Second : g[u] # 0 <=> u \in s
    BY <1>0, <1>a
  <2>3. S \subseteq Second
    BY DEF Before
  <2>4. QED BY <2>1, <2>2, <2>3
<1>2. ForwardFill(g)[t] = IF g[t] # 0 \/ S = {} THEN g[t] ELSE g[Max(S)]
  BY DEF ForwardFill
<1>b. S \in SUBSET Second
  BY DEF Before
<1> HIDE DEF S
<1>3. CASE t \in s
  <2>1. ForwardFill(g)[t] = t
    BY <1>0, <1>2, <1>3, <1>a
  <2>2. t <= t /\ t - t <= Limit /\ \A u \in s : u > t \/ u <= t
    BY <1>a
  <2>3. QED BY <1>3, <2>1, <2>2
<1>4. CASE t \notin s /\ S = {}
  <2>1. ForwardFill(g)[t] = 0
    BY <1>0, <1>2, <1>4
  <2>2. \A u \in s : u > t \/ t - u > Limit
    BY <1>1, <1>4 DEF Second
  <2>3. QED BY <2>1, <2>2
<1>5. CASE t \notin s /\ S # {}
  <2>1. PICK m \in S : m = Max(S) /\ \A n \in S : m >= n
    BY <1>b, <1>5, MaxIs
  <2>2. m \in s /\ m \in Nat /\ m < t /\ t - m <= Limit
    BY <1>1, <1>a, <2>1
  <2>3. ForwardFill(g)[t] = m
    <3>1. m \in Second /\ g[m] = m /\ g[t] = 0
      BY <1>0, <1>5, <2>2
    <3>2. QED BY <1>2, <1>5, <2>1, <3>1
  <2>4. \A u \in s : u > t \/ u <= m
    <3>1. TAKE u \in s
    <3>2. u \in Nat
      BY <1>a
    <3>3. CASE u \in S
      BY <2>1, <2>2, <3>2, <3>3
    <3>4. CASE u \notin S /\ u < t
      BY <1>1, <1>a, <2>2, <3>2, <3>4
    <3>5. CASE u >= t
      BY <1>5, <1>a, <3>2, <3>5
    <3>6. QED BY <1>a, <3>2, <3>3, <3>4, <3>5
  <2>5. m <= t
    BY <1>a, <2>2
  <2>6. QED BY <2>2, <2>3, <2>4, <2>5
<1>6. QED BY <1>3, <1>4, <1>5

(* bfill gives what is left the next sample, if that is near.               *)
LEMMA Both ==
    ASSUME NEW s \in SUBSET Second, NEW t \in Second
    PROVE  LET w == Filled(s)[t]
               f == ForwardFill(OnGrid(s))[t]
           IN  /\ f # 0 => w = f
               /\ f = 0 =>
                   \/ /\ w = 0
                      /\ \A u \in s : u <= t \/ u - t > Limit
                   \/ /\ w \in s /\ w > t /\ w - t <= Limit
                      /\ \A u \in s : u <= t \/ w <= u
<1> DEFINE f == ForwardFill(OnGrid(s))
           S == After(f, t)
<1>a. t \in Nat /\ (\A u \in s : u \in Nat) /\ 0 \notin s /\ Limit \in Nat
  BY DEF Second
<1>0. Filled(s)[t] = IF f[t] # 0 \/ S = {} THEN f[t] ELSE f[Min(S)]
  BY DEF Filled, BackFill
<1>b. \A u \in Second :
        \/ /\ f[u] = 0
           /\ \A v \in s : v > u \/ u - v > Limit
        \/ /\ f[u] \in s /\ f[u] <= u /\ u - f[u] <= Limit
           /\ \A v \in s : v > u \/ v <= f[u]
  BY Forward
<1>c. \A u \in Second : u \in Nat
  BY DEF Second
<1> DEFINE w == Filled(s)[t]
<1> SUFFICES /\ f[t] # 0 => w = f[t]
             /\ f[t] = 0 =>
                  \/ /\ w = 0
                     /\ \A u \in s : u <= t \/ u - t > Limit
                  \/ /\ w \in s /\ w > t /\ w - t <= Limit
                     /\ \A u \in s : u <= t \/ w <= u
  OBVIOUS
<1> HIDE DEF f
<1>1. \A u \in s : u \in Second /\ f[u] = u
  <2>1. TAKE u \in s
  <2>2. u \in Second /\ u \in Nat
    BY DEF Second
  <2>3. u >= u /\ ~ (u > u) /\ u - u <= Limit
    BY <2>2
  <2>4. \/ f[u] = 0 /\ (u > u \/ u - u > Limit)
        \/ f[u] \in s /\ f[u] <= u /\ (u > u \/ u <= f[u])
    BY <2>2, <1>b
  <2>5. f[u] \in s /\ f[u] <= u /\ u <= f[u]
    BY <2>3, <2>4, <2>2, <1>a
  <2>6. f[u] \in Nat
    BY <1>a, <2>5
  <2>7. f[u] = u
    BY <2>2, <2>5, <2>6
  <2>8. QED BY <2>2, <2>7
<1>2. \A u \in s : u > t /\ u - t <= Limit => u \in S
  BY <1>1 DEF After, Second
<1>3. CASE f[t] # 0
  BY <1>0, <1>3
<1>4. CASE f[t] = 0 /\ S = {}
  <2>1. Filled(s)[t] = 0
    BY <1>0, <1>4
  <2>2. \A u \in s : u <= t \/ u - t > Limit
    BY <1>2, <1>4 DEF Second
  <2>3. QED BY <2>1, <2>2, <1>4
<1>5. CASE f[t] = 0 /\ S # {}
  <2>0. S \in SUBSET Second
    BY DEF After
  <2>1. PICK m \in S : m = Min(S) /\ \A n \in S : m <= n
    BY <2>0, <1>5, MinIs
  <2>2. m \in Second /\ m > t /\ m - t <= Limit /\ f[m] # 0
    BY <2>1 DEF After
  <2>3. f[m] \in s /\ f[m] <= m /\ m - f[m] <= Limit
    BY <2>2, <1>b
  <2>4. f[m] > t
    <3>1. \A u \in s : u > t \/ t - u > Limit
      <4>1. \/ f[t] = 0 /\ \A u \in s : u > t \/ t - u > Limit
            \/ f[t] \in s
        BY <1>b
      <4>2. 0 \notin s
        BY DEF Second
      <4>3. QED BY <4>1, <4>2, <1>5
    <3>2. f[m] \in Nat /\ m \in Nat
      BY <1>a, <1>c, <2>2, <2>3
    <3>3. CASE f[m] <= t
      BY <3>1, <3>2, <3>3, <2>2, <2>3, <1>a
    <3>4. QED BY <3>2, <3>3, <1>a
  <2>5. f[m] = m
    <3>0. f[m] \in Nat /\ m \in Nat
      BY <1>a, <1>c, <2>2, <2>3
    <3>1. f[m] - t <= Limit
      BY <2>2, <2>3, <3>0, <1>a
    <3>2. f[m] \in S
      BY <3>1, <2>3, <2>4, <1>2
    <3>3. m <= f[m]
      BY <3>2, <2>1
    <3>4. QED BY <3>0, <3>3, <2>3
  <2>6. Filled(s)[t] = m
    BY <1>0, <1>5, <2>1, <2>5
  <2>7. \A u \in s : u <= t \/ m <= u
    <3>1. TAKE u \in s
    <3>2. CASE u > t /\ u - t <= Limit
      BY <3>2, <1>2, <2>1
    <3>3. CASE ~(u > t /\ u - t <= Limit)
      <4>1. m \in Nat /\ u \in Nat
        BY <2>2, <1>a DEF Second
      <4>2. QED BY <3>3, <2>2, <4>1, <1>a
    <3>4. QED BY <3>2, <3>3
  <2>8. QED BY <2>2, <2>3, <2>5, <2>6, <2>7, <1>5
<1>6. QED BY <1>3, <1>4, <1>5

(* What both fills make of a column's samples, in one place.                *)
LEMMA FilledIs ==
    ASSUME NEW s \in SUBSET Second, NEW t \in Second
    PROVE  LET w == Filled(s)[t]
           IN  \/ /\ w = 0
                  /\ \A u \in s : u - t > Limit \/ t - u > Limit
               \/ /\ w \in s /\ w <= t /\ t - w <= Limit
                  /\ \A u \in s : u > t \/ u <= w
               \/ /\ w \in s /\ w > t /\ w - t <= Limit
                  /\ \A u \in s : u > t \/ t - u > Limit
                  /\ \A u \in s : u <= t \/ w <= u
<1> DEFINE w == Filled(s)[t]
           f == ForwardFill(OnGrid(s))[t]
<1>1. t \in Nat /\ (\A u \in s : u \in Nat /\ u # 0) /\ Limit \in Nat
  BY DEF Second
<1>2. \/ f = 0 /\ \A u \in s : u > t \/ t - u > Limit
      \/ f \in s /\ f <= t /\ t - f <= Limit /\ \A u \in s : u > t \/ u <= f
  BY Forward
<1>3. /\ f # 0 => w = f
      /\ f = 0 => \/ w = 0 /\ \A u \in s : u <= t \/ u - t > Limit
                  \/ w \in s /\ w > t /\ w - t <= Limit /\ \A u \in s : u <= t \/ w <= u
  BY Both
<1> HIDE DEF f
<1>4. CASE f = 0
  BY <1>1, <1>2, <1>3, <1>4
<1>5. CASE f # 0
  BY <1>1, <1>2, <1>3, <1>5
<1>6. QED BY <1>4, <1>5

-----------------------------------------------------------------------------
(* The invariant: how far the fills are, in terms of the samples alone.     *)

Raw(c) == OnGrid(sampled[c])

Complete == value = [c \in Column |-> Filled(sampled[c])]

Progress ==
    /\ todo \subseteq Column /\ missing \subseteq Column
    /\ sampled \in [Column -> SUBSET Second]
    /\ pc \in {"query", "ffill", "bfill", "check", "done"}
    /\ outcome \in {"none", "window", "error"}
    /\ outcome # "none" => pc = "done"
    /\ value \in [Column -> Values]
    /\ pc \in {"query", "ffill"} => value = [c \in Column |-> Raw(c)]
    /\ pc = "bfill" => value = [c \in Column |-> ForwardFill(Raw(c))]
    /\ pc \in {"ffill", "bfill", "check"} => missing = {}
    /\ pc = "check" => Complete
    /\ outcome = "window" => Complete /\ StillBad = {}
    /\ pc = "done" /\ todo = {} /\ missing = {} => Complete
    /\ pc = "done" /\ todo = {} /\ missing = {} => (outcome = "error" <=> StillBad # {})

LEMMA ProgressInit == Init => Progress
<1> SUFFICES ASSUME Init PROVE Progress
  OBVIOUS
<1>1. OnGrid({}) = [t \in Second |-> 0]
  BY DEF OnGrid
<1>2. [t \in Second |-> 0] \in Values
  BY DEF Values
<1>3. sampled \in [Column -> SUBSET Second] /\ value = [c \in Column |-> Raw(c)]
  BY <1>1 DEF Init, Raw
<1>4. value \in [Column -> Values]
  BY <1>2 DEF Init
<1>5. QED BY <1>3, <1>4 DEF Init, Progress

LEMMA ProgressStep == Progress /\ [Next]_vars => Progress'
<1> SUFFICES ASSUME Progress, [Next]_vars PROVE Progress'
  OBVIOUS
<1>1. CASE QueryFails
  BY <1>1 DEF Progress, QueryFails, Finish, Complete, Raw
<1>2. CASE \E c \in Column : QueryEmpty(c)
  BY <1>2 DEF Progress, QueryEmpty, Raw
<1>3. ASSUME NEW c \in Column, QuerySeries(c)
      PROVE  Progress'
  <2>1. PICK s \in SUBSET Second :
          sampled' = [sampled EXCEPT ![c] = s] /\ value' = [value EXCEPT ![c] = OnGrid(s)]
    BY <1>3 DEF QuerySeries
  <2>2. pc = "query" /\ pc' = "query" /\ outcome' = outcome /\ missing' = missing /\ todo' = todo \ {c}
    BY <1>3 DEF QuerySeries
  <2>3. value = [d \in Column |-> Raw(d)]
    BY <2>2 DEF Progress
  <2>4. value' = [d \in Column |-> OnGrid(sampled'[d])]
    BY <2>1, <2>3 DEF Progress, Raw
  <2>5. value' \in [Column -> Values]
    BY <2>1, GridIs DEF Progress
  <2>6. sampled' \in [Column -> SUBSET Second]
    BY <2>1 DEF Progress
  <2>7. outcome = "none"
    BY <2>2 DEF Progress
  <2>8. QED BY <2>2, <2>4, <2>5, <2>6, <2>7 DEF Progress, Raw
<1>4. CASE Queried
  BY <1>4 DEF Progress, Queried, Finish, Raw
<1>5. CASE FillForward
  <2>1. value' = [c \in Column |-> ForwardFill(Raw(c))]
    BY <1>5 DEF FillForward, Progress
  <2>2. value' \in [Column -> Values]
    BY <2>1, GridIs, ForwardFillIs DEF Progress, Raw
  <2>3. missing = {}
    BY <1>5 DEF FillForward, Progress
  <2>4. QED BY <1>5, <2>1, <2>2, <2>3 DEF FillForward, Progress, Raw
<1>6. CASE FillBack
  <2>1. value' = [c \in Column |-> Filled(sampled[c])]
    BY <1>6 DEF FillBack, Progress, Filled, Raw
  <2>2. \A c \in Column : Filled(sampled[c]) \in Values
    BY GridIs, ForwardFillIs, BackFillIs DEF Progress, Filled
  <2>3. value' \in [Column -> Values]
    BY <2>1, <2>2
  <2>4. QED BY <1>6, <2>1, <2>3 DEF FillBack, Progress, Complete
<1>7. CASE Check
  BY <1>7 DEF Check, Finish, Progress, Complete, StillBad
<1>8. CASE UNCHANGED vars
  BY <1>8 DEF vars, Progress, Complete, StillBad, Raw
<1>9. QED BY <1>1, <1>2, <1>3, <1>4, <1>5, <1>6, <1>7, <1>8 DEF Next

THEOREM ProgressKept == Spec => []Progress
BY ProgressInit, ProgressStep, PTL DEF Spec

-----------------------------------------------------------------------------
(* The theorems.                                                            *)

(* Every variable has its type: a value is a sample of the grid or NaN.     *)
THEOREM TypeCorrect == Spec => []TypeOK
<1>1. Progress => TypeOK
  BY DEF Progress, TypeOK, Values
<1>2. QED BY <1>1, ProgressKept, PTL

(* What FilledIs says of a column of an accepted window.                    *)
LEMMA AcceptedIs ==
    ASSUME Progress, outcome = "window", NEW c \in Column, NEW t \in Second
    PROVE  LET w == value[c][t]
           IN  /\ w \in sampled[c]
               /\ \/ w <= t /\ t - w <= Limit /\ \A u \in sampled[c] : u > t \/ u <= w
                  \/ /\ w > t /\ w - t <= Limit
                     /\ \A u \in sampled[c] : u > t \/ t - u > Limit
                     /\ \A u \in sampled[c] : u <= t \/ w <= u
<1>1. value[c] = Filled(sampled[c]) /\ value[c][t] # 0
  BY DEF Progress, Complete, StillBad
<1>2. sampled[c] \in SUBSET Second
  BY DEF Progress
<1>3. QED BY <1>1, <1>2, FilledIs

(* No window holds a NaN or a value that is not a near sample of its column,*)
(* and no sample is overwritten (window.py:80-88).                          *)
THEOREM WindowTrue == Spec => []NothingInvented
<1>1. ASSUME Progress PROVE NothingInvented
  <2> SUFFICES ASSUME outcome = "window", NEW c \in Column, NEW t \in Second
               PROVE  /\ value[c][t] \in sampled[c]
                      /\ Distance(t, value[c][t]) <= Limit
                      /\ t \in sampled[c] => value[c][t] = t
    BY DEF NothingInvented
  <2> DEFINE w == value[c][t]
  <2>1. /\ w \in sampled[c]
        /\ \/ w <= t /\ t - w <= Limit /\ \A u \in sampled[c] : u > t \/ u <= w
           \/ /\ w > t /\ w - t <= Limit
              /\ \A u \in sampled[c] : u > t \/ t - u > Limit
              /\ \A u \in sampled[c] : u <= t \/ w <= u
    BY <1>1, AcceptedIs
  <2>2. t \in Nat /\ Limit \in Nat /\ \A u \in sampled[c] : u \in Nat
    BY <1>1 DEF Progress, Second
  <2> HIDE DEF w
  <2>3. Distance(t, w) <= Limit
    BY <2>1, <2>2 DEF Distance
  <2>4. t \in sampled[c] => w = t
    BY <2>1, <2>2
  <2>5. QED BY <2>1, <2>3, <2>4 DEF w
<1>2. QED BY <1>1, ProgressKept, PTL

(* Gaps are filled forwards first, and values never run back in time.       *)
THEOREM LooksBackFirst == Spec => []NoLookAhead
<1>1. ASSUME Progress PROVE NoLookAhead
  <2> SUFFICES ASSUME outcome = "window", NEW c \in Column, NEW t \in Second
               PROVE  /\ value[c][t] > t => \A u \in sampled[c] : u > t \/ t - u > Limit
                      /\ t < Length => value[c][t] <= value[c][t + 1]
    BY DEF NoLookAhead
  <2> DEFINE w(i) == value[c][i]
  <2>1. \A i \in Second :
          /\ w(i) \in sampled[c]
          /\ \/ w(i) <= i /\ i - w(i) <= Limit /\ \A u \in sampled[c] : u > i \/ u <= w(i)
             \/ /\ w(i) > i /\ w(i) - i <= Limit
                /\ \A u \in sampled[c] : u > i \/ i - u > Limit
                /\ \A u \in sampled[c] : u <= i \/ w(i) <= u
    BY <1>1, AcceptedIs
  <2>2. t \in Nat /\ Limit \in Nat /\ \A u \in sampled[c] : u \in Nat
    BY <1>1 DEF Progress, Second
  <2> HIDE DEF w
  <2>3. w(t) > t => \A u \in sampled[c] : u > t \/ t - u > Limit
    BY <2>1, <2>2
  <2>4. ASSUME t < Length PROVE w(t) <= w(t + 1)
    <3>1. t + 1 \in Second
      BY <2>4 DEF Second
    <3>2. w(t) \in sampled[c] /\ w(t + 1) \in sampled[c] /\ w(t) \in Nat /\ w(t + 1) \in Nat
      BY <2>1, <2>2, <3>1
    <3>3. CASE w(t) <= t
      BY <2>1, <2>2, <3>1, <3>2, <3>3
    <3>4. CASE w(t) > t
      <4>1. \A u \in sampled[c] : u <= t \/ w(t) <= u
        BY <2>1, <2>2, <3>2, <3>4
      <4>2. w(t + 1) > t
        <5>1. CASE w(t + 1) > t + 1
          BY <5>1, <2>2, <3>2
        <5>2. CASE w(t + 1) <= t + 1 /\ w(t + 1) <= t
          <6>1. t - w(t + 1) <= Limit
            BY <2>1, <2>2, <3>1, <3>2, <5>2
          <6>2. QED BY <2>3, <2>2, <3>2, <3>4, <5>2, <6>1
        <5>3. QED BY <5>1, <5>2, <2>2, <3>2
      <4>3. QED BY <4>1, <4>2, <2>2, <3>2
    <3>5. QED BY <3>2, <3>3, <3>4, <2>2
  <2>5. QED BY <2>3, <2>4 DEF w
<1>2. QED BY <1>1, ProgressKept, PTL

(* No sample is near a second exactly if it lies in a wide gap.             *)
Lonely(s, t) == \A u \in s : u - t > Limit \/ t - u > Limit

Wide(s, a, b) ==
    /\ \A t \in a..b : t \notin s
    /\ a = 1 \/ a - 1 \in s
    /\ b = Length \/ b + 1 \in s
    /\ b - a + 1 > IF a = 1 \/ b = Length THEN Limit ELSE 2 * Limit

LEMMA EmptyIsLonely ==
    ASSUME NEW s \in SUBSET Second, NEW t \in Second
    PROVE  Filled(s)[t] = 0 <=> Lonely(s, t)
<1> DEFINE w == Filled(s)[t]
<1>1. t \in Nat /\ (\A u \in s : u \in Nat /\ u # 0) /\ Limit \in Nat
  BY DEF Second
<1>2. \/ w = 0 /\ \A u \in s : u - t > Limit \/ t - u > Limit
      \/ w \in s /\ w <= t /\ t - w <= Limit
      \/ w \in s /\ w > t /\ w - t <= Limit
  BY FilledIs
<1> HIDE DEF w
<1>3. w \in s => ~Lonely(s, t) /\ w # 0
  BY <1>1, <1>2 DEF Lonely
<1>4. QED BY <1>2, <1>3 DEF Lonely, w

LEMMA LonelyInGap ==
    ASSUME Limit < Length, NEW s \in SUBSET Second, NEW t \in Second, Lonely(s, t)
    PROVE  \E a, b \in Second : Wide(s, a, b)
<1> DEFINE before == {u \in s : u < t}
           after == {u \in s : u > t}
           a == IF before = {} THEN 1 ELSE Max(before) + 1
           b == IF after = {} THEN Length ELSE Min(after) - 1
<1>1. t \in Nat /\ t >= 1 /\ t <= Length /\ Length \in Nat /\ Limit \in Nat
  BY DEF Second
<1>2. \A u \in s : u \in Nat /\ u >= 1 /\ u <= Length
  BY DEF Second
<1>3. t \notin s
  BY <1>1 DEF Lonely
<1>4. before \in SUBSET Second /\ after \in SUBSET Second
  OBVIOUS
<1>5. /\ a \in Nat /\ 1 <= a /\ a <= t
      /\ a = 1 \/ (a - 1 \in s /\ t - (a - 1) > Limit)
      /\ \A u \in s : u < t => u < a
  <2>1. CASE before = {}
    BY <1>1, <1>2, <2>1
  <2>2. CASE before # {}
    <3>1. PICK m \in before : m = Max(before) /\ \A u \in before : m >= u
      BY <1>4, <2>2, MaxIs
    <3>2. a = m + 1 /\ m \in s /\ m < t /\ m \in Nat /\ m >= 1
      BY <1>2, <2>2, <3>1
    <3>3. a - 1 = m
      BY <3>2
    <3>4. t - m > Limit
      BY <1>1, <3>2 DEF Lonely
    <3>5. \A u \in s : u < t => u < a
      BY <1>2, <3>1, <3>2
    <3> HIDE DEF a, before
    <3>6. QED BY <1>1, <3>2, <3>3, <3>4, <3>5
  <2>3. QED BY <2>1, <2>2
<1>6. /\ b \in Nat /\ t <= b /\ b <= Length
      /\ b = Length \/ (b + 1 \in s /\ b + 1 - t > Limit)
      /\ \A u \in s : u > t => u > b
  <2>1. CASE after = {}
    BY <1>1, <1>2, <2>1
  <2>2. CASE after # {}
    <3>1. PICK m \in after : m = Min(after) /\ \A u \in after : m <= u
      BY <1>4, <2>2, MinIs
    <3>2. b = m - 1 /\ m \in s /\ m > t /\ m \in Nat /\ m <= Length
      BY <1>2, <2>2, <3>1
    <3>3. b + 1 = m
      BY <3>2
    <3>4. m - t > Limit
      BY <1>1, <3>2 DEF Lonely
    <3>5. \A u \in s : u > t => u > b
      BY <1>2, <3>1, <3>2
    <3> HIDE DEF b, after
    <3>6. QED BY <1>1, <3>2, <3>3, <3>4, <3>5
  <2>3. QED BY <2>1, <2>2
<1> HIDE DEF a, b, before, after
<1>7. \A u \in a..b : u \notin s
  BY <1>1, <1>2, <1>3, <1>5, <1>6
<1>8. b - a + 1 > IF a = 1 \/ b = Length THEN Limit ELSE 2 * Limit
  BY <1>1, <1>5, <1>6
<1>9. a \in Second /\ b \in Second
  BY <1>1, <1>5, <1>6 DEF Second
<1>10. Wide(s, a, b)
  BY <1>5, <1>6, <1>7, <1>8 DEF Wide
<1>11. QED BY <1>9, <1>10

LEMMA GapIsLonely ==
    ASSUME NEW s \in SUBSET Second, NEW a \in Second, NEW b \in Second, Wide(s, a, b)
    PROVE  \E t \in Second : Lonely(s, t)
<1>1. /\ a \in Nat /\ a >= 1 /\ a <= Length /\ b \in Nat /\ b >= 1 /\ b <= Length
      /\ Length \in Nat /\ Limit \in Nat
      /\ \A u \in s : u \in Nat /\ u >= 1 /\ u <= Length
  BY DEF Second
<1>2. \A u \in s : u < a \/ u > b
  BY <1>1 DEF Wide
<1>3. CASE a = 1
  <2>1. \A u \in s : u - 1 > Limit
    BY <1>1, <1>2, <1>3 DEF Wide
  <2>2. 1 \in Second /\ Lonely(s, 1)
    BY <1>1, <2>1 DEF Lonely, Second
  <2>3. QED BY <2>2
<1>4. CASE a # 1 /\ b = Length
  <2>1. \A u \in s : Length - u > Limit
    BY <1>1, <1>2, <1>4 DEF Wide
  <2>2. Length \in Second /\ Lonely(s, Length)
    BY <1>1, <2>1 DEF Lonely, Second
  <2>3. QED BY <2>2
<1>5. CASE a # 1 /\ b # Length
  <2> DEFINE t == a + Limit
  <2>1. t \in Second /\ t <= b - Limit
    BY <1>1, <1>5 DEF Wide, Second
  <2>2. \A u \in s : u - t > Limit \/ t - u > Limit
    BY <1>1, <1>2, <2>1
  <2>3. QED BY <2>1, <2>2 DEF Lonely
<1>6. QED BY <1>3, <1>4, <1>5

(* Whether complete data is refused depends on the widest gaps alone, as    *)
(* long as the window is longer than what one fill covers.                  *)
THEOREM RefusalByGaps ==
    ASSUME Limit < Length
    PROVE  Spec => []RefusedForGaps
<1>1. ASSUME Progress PROVE RefusedForGaps
  <2> SUFFICES ASSUME pc = "done", todo = {}, missing = {}
               PROVE  outcome = "error" <=>
                        \E c \in Column : \E a, b \in Second : Wide(sampled[c], a, b)
    BY DEF RefusedForGaps, Gap, Wide
  <2>1. outcome = "error" <=> \E c \in Column : \E t \in Second : value[c][t] = 0
    BY <1>1 DEF Progress, StillBad
  <2>2. \A c \in Column : value[c] = Filled(sampled[c]) /\ sampled[c] \in SUBSET Second
    BY <1>1 DEF Progress, Complete
  <2>3. \A c \in Column, t \in Second : value[c][t] = 0 <=> Lonely(sampled[c], t)
    BY <2>2, EmptyIsLonely
  <2>4. \A c \in Column :
          (\E t \in Second : Lonely(sampled[c], t)) <=> \E a, b \in Second : Wide(sampled[c], a, b)
    BY <2>2, LonelyInGap, GapIsLonely
  <2>5. QED BY <2>1, <2>3, <2>4
<1>2. QED BY <1>1, ProgressKept, PTL
=============================================================================
