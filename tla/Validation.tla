----------------------------- MODULE Validation -----------------------------
(***************************************************************************)
(* Validating one proposed action (causal_engine/validate.py).             *)
(*                                                                         *)
(* The discovered graph has an edge for every pair of columns that passed  *)
(* a test, and cycles.  DoWhy needs a DAG, so validate_action first orders *)
(* the columns with the Eades-Lin-Smyth heuristic, keeps the edges that run *)
(* forward, and only then asks whether a causal path leads from the        *)
(* treatment to the outcome, what the action would gain, and whether a     *)
(* placebo does as well.                                                   *)
(*                                                                         *)
(* The heuristic goes through the columns in the graph's own order, which  *)
(* is any order: where the code takes the first of several, a step here    *)
(* takes any.  Each column is taken once, so every such run is the run of  *)
(* the order in which they were taken.                                     *)
(***************************************************************************)
EXTENDS Naturals, Sequences, FiniteSets, SequencesExt

CONSTANTS
    Node,       \* the columns of the window
    Treatment,  \* the load column of the node to cap
    Outcome,    \* the latency column of its target
    MaxWeight   \* evidence of an edge: 1..MaxWeight

ASSUME ValidationAssumption ==
    /\ IsFiniteSet(Node)
    /\ {Treatment, Outcome} \subseteq Node
    /\ Treatment # Outcome
    /\ MaxWeight \in Nat

VARIABLES
    graph,     \* the edges discovered
    weight,    \* the evidence for each
    work,      \* the nodes not ordered yet
    front,     \* nodes put at the front, in order
    back,      \* nodes put at the back, the last first
    pc,        \* the next step of the ordering, "check", or "done"
    removed,   \* removed_any
    decision   \* the validator's answer

vars == <<graph, weight, work, front, back, pc, removed, decision>>

\* The tests never pair a column with itself.
Edges == {e \in Node \X Node : e[1] # e[2]}

Init ==
    /\ graph \in SUBSET Edges
    /\ weight \in [graph -> 1..MaxWeight]
    /\ work = Node
    /\ front = <<>>
    /\ back = <<>>
    /\ pc = "sinks"
    /\ removed = FALSE
    /\ decision = "none"

(***************************************************************************)
(* _feedback_arc_set_ordering.                                             *)
(***************************************************************************)
Out(n) == {m \in work : <<n, m>> \in graph}
In(n) == {m \in work : <<m, n>> \in graph}

Sinks == {n \in work : Out(n) = {}}
Sources == {n \in work : In(n) = {}}

\* The list of sinks is made before the first of them is removed.
MutPeelSinks ==
    /\ pc = "sinks"
    /\ pc' = "sources"
    /\ removed' = (Sinks # {})
    /\ \E s \in SetToSeqs(Sinks) : back' = back \o s
    /\ work' = work \ (Sinks \ Sources)
    /\ UNCHANGED <<graph, weight, front, decision>>

PeelSinks ==
    /\ pc = "sinks"
    /\ pc' = "sources"
    /\ removed' = (Sinks # {})
    /\ \E s \in SetToSeqs(Sinks) : back' = back \o s
    /\ work' = work \ Sinks
    /\ UNCHANGED <<graph, weight, front, decision>>

\* The inner loop goes round again if a pass removed anything.
PeelSources ==
    /\ pc = "sources"
    /\ pc' = IF removed \/ Sources # {} THEN "sinks" ELSE "best"
    /\ \E s \in SetToSeqs(Sources) : front' = front \o s
    /\ work' = work \ Sources
    /\ UNCHANGED <<graph, weight, back, removed, decision>>

\* Every remaining node has edges in and out; weights are not looked at.
MutPull(n, m) == Cardinality(Out(n)) - Cardinality(In(n)) <= Cardinality(Out(m)) - Cardinality(In(m))
Pull(n, m) == Cardinality(Out(n)) + Cardinality(In(m)) >= Cardinality(Out(m)) + Cardinality(In(n))

TakeBest ==
    /\ pc = "best"
    /\ work # {}
    /\ \E n \in work :
         /\ \A m \in work : Pull(n, m)
         /\ front' = Append(front, n)
         /\ work' = work \ {n}
    /\ pc' = "sinks"
    /\ UNCHANGED <<graph, weight, back, removed, decision>>

Ordered ==
    /\ pc = "best"
    /\ work = {}
    /\ pc' = "check"
    /\ UNCHANGED <<graph, weight, work, front, back, removed, decision>>

(***************************************************************************)
(* _make_acyclic and validate_action.                                      *)
(***************************************************************************)
MutOrder == front \o back
Order == front \o Reverse(back)

Position(n) == CHOOSE i \in 1..Len(Order) : Order[i] = n

MutForward(u, v) == <<v, u>> \notin graph \/ Position(u) < Position(v)
Forward(u, v) == Position(u) < Position(v)

Kept == {e \in graph : Forward(e[1], e[2])}

\* networkx.has_path: v is in every set of columns that holds u and that no
\* edge leaves.
HasPath(edges, u, v) ==
    \A closed \in SUBSET Node :
        u \in closed /\ (\A e \in edges : e[1] \in closed => e[2] \in closed) => v \in closed

\* The data decide what DoWhy estimates and what the placebo does; an
\* exception of the refuter is "not held against the estimate".  Two refusals that
\* the columns of a window and the action of a candidate rule out are left out: a
\* column that is not in the window, an action without a cap.
Judge(gainEnough, refuterOk) ==
    IF gainEnough /\ refuterOk THEN "approved"
    ELSE IF ~gainEnough THEN "low_gain"
    ELSE "placebo"

MutFoundPath == HasPath(Kept \cup {<<e[2], e[1]>> : e \in Kept}, Treatment, Outcome)
FoundPath == HasPath(Kept, Treatment, Outcome)

Reject ==
    /\ pc = "check"
    /\ ~FoundPath
    /\ decision' = "no_path"
    /\ pc' = "done"
    /\ UNCHANGED <<graph, weight, work, front, back, removed>>

Estimate ==
    /\ pc = "check"
    /\ FoundPath
    /\ \E gainEnough, refuterOk \in BOOLEAN : decision' = Judge(gainEnough, refuterOk)
    /\ pc' = "done"
    /\ UNCHANGED <<graph, weight, work, front, back, removed>>

\* Only the refuter runs inside a try: an exception of the estimate is the caller's.
Raise ==
    /\ pc = "check"
    /\ FoundPath
    /\ decision' = "raised"
    /\ pc' = "done"
    /\ UNCHANGED <<graph, weight, work, front, back, removed>>

Next == PeelSinks \/ PeelSources \/ TakeBest \/ Ordered \/ Reject \/ Estimate \/ Raise

Spec == Init /\ [][Next]_vars

(***************************************************************************)
(* Properties.                                                             *)
(***************************************************************************)
\* Every variable has its type, and no column is paired with itself.
TypeOK ==
    /\ graph \subseteq Node \X Node /\ \A e \in graph : e[1] # e[2]
    /\ weight \in [graph -> 1..MaxWeight]
    /\ work \in SUBSET Node
    /\ front \in Seq(Node) /\ back \in Seq(Node)
    /\ pc \in {"sinks", "sources", "best", "check", "done"}
    /\ removed \in BOOLEAN
    /\ decision \in {"none", "no_path", "low_gain", "placebo", "approved", "raised"}

\* Whatever the graph, each column is ordered once or still to be ordered, so
\* position[u] exists for every edge (validate.py:70-74, 84-103).
OrderedOnce ==
    LET placed == front \o back
    IN  /\ IsInjective(placed)
        /\ Range(placed) \cap work = {}
        /\ Range(placed) \cup work = Node

Resolved == pc \in {"check", "done"}

\* What DoWhy is given has no cycle, however tangled the graph
\* (validate.py:45-48, "DoWhy's identifier requires a DAG").
KeptAcyclic ==
    Resolved => \A e \in Kept : ~HasPath(Kept, e[2], e[1])

\* A ranking of the columns shows that a graph has no cycle.
AlreadyDag == \E rank \in [Node -> 1..Cardinality(Node)] : \A e \in graph : rank[e[1]] < rank[e[2]]

\* A graph without cycles is left as it was discovered: the heuristic has
\* nothing to break and breaks nothing (validate.py:79-103).
DagUntouched == Resolved /\ AlreadyDag => Kept = graph

\* Breaking the cycles costs at most half of the edges, also in the dense
\* graphs the heuristic was chosen for (validate.py:56-62).
HalfKept == Resolved => 2 * Cardinality(Kept) >= Cardinality(graph)

\* An approved action has a causal path in the discovered graph, and where
\* the graph has no cycle none is refused that has one (validate.py:134-139,
\* docs/design.md:114-116).
PathDecided ==
    LET path == HasPath(graph, Treatment, Outcome)
    IN  /\ decision \in {"low_gain", "placebo", "approved"} => path
        /\ decision = "no_path" /\ AlreadyDag => ~path

\* The claim that of a mutual pair the edge with the stronger evidence is kept
\* (docs/design.md:124-126, validate.py:63-66).
StrongerDirectionKept ==
    Resolved =>
        \A e \in graph :
            LET reverse == <<e[2], e[1]>>
            IN  reverse \in graph /\ weight[e] > weight[reverse] => e \in Kept
=============================================================================
