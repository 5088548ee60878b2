------------------------------- MODULE Window -------------------------------
(***************************************************************************)
(* The metrics window a diagnosis, a poll and a verification start from    *)
(* (causal_engine/window.py): one query per column, the samples put on a   *)
(* grid of seconds, short gaps filled from both sides, and an error rather *)
(* than made-up data.                                                      *)
(*                                                                         *)
(* A value is the index of the sample it was taken from, 0 for NaN, so that *)
(* one can see how far a filled value is from the sample it repeats.       *)
(***************************************************************************)
EXTENDS Integers, FiniteSetsExt

CONSTANTS
    Column,  \* node/metric pairs
    Length,  \* seconds on the grid (61)
    Limit    \* limit= of ffill and bfill (5)

ASSUME WindowAssumption == Length \in Nat \ {0} /\ Limit \in Nat

Second == 1..Length

VARIABLES
    todo,     \* columns not queried yet
    missing,  \* columns Prometheus knows nothing of
    sampled,  \* per column, the seconds it has a sample for
    value,    \* per column and second, the sample the value is from
    pc,       \* "query", "ffill", "bfill", "check", "done"
    outcome   \* "none", "window" or "error"

vars == <<todo, missing, sampled, value, pc, outcome>>

Init ==
    /\ todo = Column
    /\ missing = {}
    /\ sampled = [c \in Column |-> {}]
    /\ value = [c \in Column |-> [t \in Second |-> 0]]
    /\ pc = "query"
    /\ outcome = "none"

Finish(result) == pc' = "done" /\ outcome' = result

(***************************************************************************)
(* The queries, in turn.                                                   *)
(***************************************************************************)
\* An exception, or more than one series, ends them all.
QueryFails ==
    /\ pc = "query" /\ todo # {}
    /\ Finish("error")
    /\ UNCHANGED <<todo, missing, sampled, value>>

QueryEmpty(c) ==
    /\ pc = "query" /\ c \in todo
    /\ todo' = todo \ {c}
    /\ missing' = missing \cup {c}
    /\ UNCHANGED <<sampled, value, pc, outcome>>

OnGrid(s) == [t \in Second |-> IF t \in s THEN t ELSE 0]

\* reindex keeps the samples that fall on the grid, perhaps none.
QuerySeries(c) ==
    /\ pc = "query" /\ c \in todo
    /\ todo' = todo \ {c}
    /\ \E s \in SUBSET Second :
         /\ sampled' = [sampled EXCEPT ![c] = s]
         /\ value' = [value EXCEPT ![c] = OnGrid(s)]
    /\ UNCHANGED <<missing, pc, outcome>>

Queried ==
    /\ pc = "query" /\ todo = {}
    /\ IF missing # {} THEN Finish("error") ELSE pc' = "ffill" /\ UNCHANGED outcome
    /\ UNCHANGED <<todo, missing, sampled, value>>

(***************************************************************************)
(* df.ffill(limit).bfill(limit): each NaN with a value at most limit away  *)
(* on that side takes the nearest one.                                     *)
(***************************************************************************)
MutBefore(v, t) == {u \in Second : u < t /\ t - u < Limit /\ v[u] # 0}
Before(v, t) == {u \in Second : u < t /\ t - u <= Limit /\ v[u] # 0}
After(v, t) == {u \in Second : u > t /\ u - t <= Limit /\ v[u] # 0}

ForwardFill(v) ==
    [t \in Second |-> IF v[t] # 0 \/ Before(v, t) = {} THEN v[t] ELSE v[Max(Before(v, t))]]

BackFill(v) ==
    [t \in Second |-> IF v[t] # 0 \/ After(v, t) = {} THEN v[t] ELSE v[Min(After(v, t))]]

MutFillForward ==
    /\ pc = "ffill"
    /\ pc' = "bfill"
    /\ value' = [c \in Column |-> BackFill(value[c])]
    /\ UNCHANGED <<todo, missing, sampled, outcome>>

FillForward ==
    /\ pc = "ffill"
    /\ pc' = "bfill"
    /\ value' = [c \in Column |-> ForwardFill(value[c])]
    /\ UNCHANGED <<todo, missing, sampled, outcome>>

FillBack ==
    /\ pc = "bfill"
    /\ pc' = "check"
    /\ value' = [c \in Column |-> BackFill(value[c])]
    /\ UNCHANGED <<todo, missing, sampled, outcome>>

MutStillBad == {c \in Column : \A t \in Second : value[c][t] = 0}
StillBad == {c \in Column : \E t \in Second : value[c][t] = 0}

Check ==
    /\ pc = "check"
    /\ Finish(IF StillBad = {} THEN "window" ELSE "error")
    /\ UNCHANGED <<todo, missing, sampled, value>>

Next ==
    \/ QueryFails
    \/ \E c \in Column : QueryEmpty(c) \/ QuerySeries(c)
    \/ Queried
    \/ FillForward
    \/ FillBack
    \/ Check

Spec == Init /\ [][Next]_vars

(***************************************************************************)
(* Properties.                                                             *)
(***************************************************************************)
\* Every variable has its type: a value is a sample of this grid or NaN.
TypeOK ==
    /\ todo \subseteq Column /\ missing \subseteq Column
    /\ sampled \in [Column -> SUBSET Second]
    /\ value \in [Column -> [Second -> 0..Length]]
    /\ pc \in {"query", "ffill", "bfill", "check", "done"}
    /\ outcome \in {"none", "window", "error"}

Distance(t, u) == IF t < u THEN u - t ELSE t - u

\* No window has a NaN or an invented value: each value is a sample of the same
\* column at most limit seconds away, and a sample is never overwritten
\* ("raises WindowError rather than returning zeros", window.py:31-32, 82).
NothingInvented ==
    outcome = "window" =>
        \A c \in Column, t \in Second :
            LET u == value[c][t]
            IN  /\ u \in sampled[c]
                /\ Distance(t, u) <= Limit
                /\ t \in sampled[c] => u = t

\* A gap is filled forwards first: a value repeats a later sample only where no
\* earlier one is near, and values never run backwards in time.
NoLookAhead ==
    outcome = "window" =>
        \A c \in Column, t \in Second :
            /\ value[c][t] > t => \A u \in sampled[c] : u > t \/ t - u > Limit
            /\ t < Length => value[c][t] <= value[c][t + 1]

\* Seconds a..b are a gap of the column.
Gap(c, a, b) ==
    /\ \A t \in a..b : t \notin sampled[c]
    /\ a = 1 \/ a - 1 \in sampled[c]
    /\ b = Length \/ b + 1 \in sampled[c]

\* Whether data that has every column is refused depends only on its widest
\* gaps: wider than limit at an end, or than twice the limit in between.
RefusedForGaps ==
    pc = "done" /\ todo = {} /\ missing = {} =>
        (outcome = "error" <=>
            \E c \in Column : \E a, b \in Second :
                /\ Gap(c, a, b)
                /\ b - a + 1 > IF a = 1 \/ b = Length THEN Limit ELSE 2 * Limit)

\* The claim that a gap wider than the limit is "a real hole in the data, not
\* something to paper over" (window.py:80-81, 86).
WideGapRefused ==
    outcome = "window" =>
        \A c \in Column : \A a, b \in Second : Gap(c, a, b) /\ a <= b => b - a + 1 <= Limit
=============================================================================
