---------------------------- MODULE VerdictStore ----------------------------
(***************************************************************************)
(* The verdicts the causal-engine keeps in memory (causal_engine/main.py). *)
(*                                                                         *)
(* FastAPI runs its synchronous endpoints and background tasks on a pool of *)
(* threads, and nothing locks _verdicts and _verdict_order.  A step here is *)
(* a stretch of main.py that CPython 3.11 runs without giving up the GIL:  *)
(* it may change threads after any call, so between the append, the length *)
(* check, the pop of the order and the pop of the dictionary, but not      *)
(* between two assignments to a key.                                       *)
(*                                                                         *)
(* What a diagnosis finds, and whether it is executed, are Execution's; here *)
(* a verdict is a mode and the keys that are added to it later.            *)
(***************************************************************************)
EXTENDS Naturals, Sequences, FiniteSets

CONSTANTS
    Worker,     \* the threads of the pool (40)
    MaxStored,  \* _MAX_STORED (50)
    MaxId       \* bound: verdicts diagnosed

ASSUME StoreAssumption ==
    /\ IsFiniteSet(Worker)
    /\ MaxStored \in Nat
    /\ MaxId \in Nat
    /\ Cardinality(Worker) <= MaxStored

VARIABLES
    pc,       \* what each thread does next
    cur,      \* the verdict each thread works on
    victim,   \* the id a thread popped from the order
    nextId,   \* verdicts are numbered in the order they are stored
    order,    \* _verdict_order
    stored,   \* the keys of _verdicts
    verdict,  \* the fields of each verdict
    refine,   \* the background re-run of each verdict
    seen      \* the verdict a GET began to encode

vars == <<pc, cur, victim, nextId, order, stored, verdict, refine, seen>>
store == <<victim, nextId, order, stored>>

Id == 1..MaxId

\* slow_path_checked, revised, and which of the late keys are there.
Fields == [fast : BOOLEAN, checked : BOOLEAN, revised : BOOLEAN,
           execution : BOOLEAN, revision : BOOLEAN]

Fresh(fast) == [fast |-> fast, checked |-> ~fast, revised |-> FALSE,
                execution |-> FALSE, revision |-> FALSE]

Go(w, from, to) == pc[w] = from /\ pc' = [pc EXCEPT ![w] = to]

\* A job ends and its locals with it.
Finish(w, from) == Go(w, from, "idle") /\ cur' = [cur EXCEPT ![w] = 0]

Init ==
    /\ pc = [w \in Worker |-> "idle"]
    /\ cur = [w \in Worker |-> 0]
    /\ victim = [w \in Worker |-> 0]
    /\ nextId = 1
    /\ order = <<>>
    /\ stored = {}
    /\ verdict = [i \in Id |-> Fresh(FALSE)]
    /\ refine = [i \in Id |-> "none"]
    /\ seen = [w \in Worker |-> Fresh(FALSE)]

(***************************************************************************)
(* POST /diagnose.                                                         *)
(***************************************************************************)
Store(w) ==
    /\ Go(w, "idle", "checking")
    /\ nextId <= MaxId
    /\ \E fast \in BOOLEAN : verdict' = [verdict EXCEPT ![nextId] = Fresh(fast)]
    /\ cur' = [cur EXCEPT ![w] = nextId]
    /\ nextId' = nextId + 1
    /\ stored' = stored \cup {nextId}
    /\ order' = Append(order, nextId)
    /\ UNCHANGED <<victim, refine, seen>>

MutOverfull == Len(order) >= MaxStored
MutOverfullLate == Len(order) > MaxStored + 1
Overfull == Len(order) > MaxStored

CheckSize(w) ==
    /\ Go(w, "checking", IF Overfull THEN "evicting" ELSE "deciding")
    /\ UNCHANGED <<cur, store, verdict, refine, seen>>

\* pop(0), which raises on an empty list.
MutPopOldest(w) ==
    /\ Go(w, "evicting", "dropping")
    /\ victim' = [victim EXCEPT ![w] = order[Len(order)]]
    /\ order' = SubSeq(order, 1, Len(order) - 1)
    /\ UNCHANGED <<cur, nextId, stored, verdict, refine, seen>>

PopOldest(w) ==
    /\ Go(w, "evicting", "dropping")
    /\ victim' = [victim EXCEPT ![w] = Head(order)]
    /\ order' = Tail(order)
    /\ UNCHANGED <<cur, nextId, stored, verdict, refine, seen>>

MutDropVictim(w) ==
    /\ Go(w, "dropping", "deciding")
    /\ victim' = [victim EXCEPT ![w] = 0]
    /\ UNCHANGED <<cur, nextId, stored, order, verdict, refine, seen>>

DropVictim(w) ==
    /\ Go(w, "dropping", "deciding")
    /\ stored' = stored \ {victim[w]}
    /\ victim' = [victim EXCEPT ![w] = 0]
    /\ UNCHANGED <<cur, nextId, order, verdict, refine, seen>>

\* verdict["execution"], whatever was decided; POST /execute may take 10 s.
SetExecution(w) ==
    /\ Go(w, "deciding", "answering")
    /\ verdict' = [verdict EXCEPT ![cur[w]].execution = TRUE]
    /\ UNCHANGED <<cur, store, refine, seen>>

\* The response is sent, and then the background task of a fast verdict runs
\* when the pool has a thread for it.
Answer(w) ==
    /\ Finish(w, "answering")
    /\ refine' = [refine EXCEPT ![cur[w]] = IF verdict[cur[w]].fast THEN "queued" ELSE "none"]
    /\ UNCHANGED <<store, verdict, seen>>

(***************************************************************************)
(* The background slow-path re-run.                                        *)
(***************************************************************************)
RefineStart(w, i) ==
    /\ refine[i] = "queued"
    /\ i \in stored
    /\ Go(w, "idle", "refining")
    /\ refine' = [refine EXCEPT ![i] = "running"]
    /\ cur' = [cur EXCEPT ![w] = i]
    /\ UNCHANGED <<store, verdict, seen>>

\* A verdict that is no longer stored is not refined.
RefineDropped(w, i) ==
    /\ refine[i] = "queued"
    /\ i \notin stored
    /\ pc[w] = "idle"
    /\ refine' = [refine EXCEPT ![i] = "dropped"]
    /\ UNCHANGED <<pc, cur, store, verdict, seen>>

MutRefineFails(w) ==
    /\ Finish(w, "refining")
    /\ refine' = [refine EXCEPT ![cur[w]] = "queued"]
    /\ UNCHANGED <<store, verdict, seen>>

RefineFails(w) ==
    /\ Finish(w, "refining")
    /\ refine' = [refine EXCEPT ![cur[w]] = "failed"]
    /\ UNCHANGED <<store, verdict, seen>>

\* The assignments follow each other with no call between them.
RefineDone(w) ==
    /\ Finish(w, "refining")
    /\ refine' = [refine EXCEPT ![cur[w]] = "done"]
    /\ \E revise \in BOOLEAN :
         verdict' = [verdict EXCEPT ![cur[w]] =
                       [@ EXCEPT !.checked = TRUE, !.revised = revise, !.revision = revise]]
    /\ UNCHANGED <<store, seen>>

(***************************************************************************)
(* GET /diagnose/{id} finds the verdict, not a copy, and encodes it.       *)
(***************************************************************************)
GetStart(w, i) ==
    /\ Go(w, "idle", "encoding")
    /\ i \in stored
    /\ cur' = [cur EXCEPT ![w] = i]
    /\ seen' = [seen EXCEPT ![w] = verdict[i]]
    /\ UNCHANGED <<store, verdict, refine>>

\* A dictionary that gained a key while it was iterated raises: a 500.
Keys(f) == <<f.execution, f.revision>>

MutReadable(f, g) == TRUE
Readable(f, g) == Keys(f) = Keys(g)

GetEnd(w) ==
    /\ Finish(w, "encoding")
    /\ seen' = [seen EXCEPT ![w] = Fresh(FALSE)]
    /\ UNCHANGED <<store, verdict, refine>>

(***************************************************************************)
(* The specification.                                                      *)
(***************************************************************************)
Diagnosis(w) == CheckSize(w) \/ PopOldest(w) \/ DropVictim(w) \/ SetExecution(w) \/ Answer(w)
Refinement(w) == RefineFails(w) \/ RefineDone(w)

Next ==
    \E w \in Worker :
        \/ Store(w)
        \/ Diagnosis(w)
        \/ \E i \in Id : RefineStart(w, i) \/ RefineDropped(w, i) \/ GetStart(w, i)
        \/ Refinement(w)
        \/ GetEnd(w)

\* A thread runs on to the end of its job; the pool serves waiting jobs in
\* turn, so a queued task is not passed over for ever.
Fairness ==
    /\ \A w \in Worker : WF_vars(Diagnosis(w) \/ Refinement(w) \/ GetEnd(w))
    /\ \A i \in Id : SF_vars(\E w \in Worker : RefineStart(w, i) \/ RefineDropped(w, i))

Spec == Init /\ [][Next]_vars

FairSpec == Spec /\ Fairness

(***************************************************************************)
(* Properties.                                                             *)
(***************************************************************************)
At(place) == {w \in Worker : pc[w] = place}

\* Every variable has its type: a verdict keeps all of its fields, whichever
\* thread writes them (main.py:158-179, 205-241).
TypeOK ==
    /\ pc \in [Worker -> {"idle", "checking", "evicting", "dropping", "deciding",
                          "answering", "refining", "encoding"}]
    /\ cur \in [Worker -> 0..MaxId]
    /\ victim \in [Worker -> 0..MaxId]
    /\ nextId \in 1..(MaxId + 1)
    /\ order \in Seq(Id)
    /\ stored \in SUBSET Id
    /\ verdict \in [Id -> Fields]
    /\ refine \in [Id -> {"none", "queued", "running", "done", "failed", "dropped"}]
    /\ seen \in [Worker -> Fields]

\* The order lists the newest verdicts, oldest first, whichever threads race
\* to evict: no newer verdict leaves before an older one (main.py:211-214).
OrderIsNewest ==
    \A k \in 1..Len(order) : order[k] = nextId - Len(order) + k - 1

\* The dictionary holds just what the order lists and what a thread is about
\* to drop: nothing leaks, nothing listed is missing, so /status can miss an
\* entry only if it is evicted while /status runs (main.py:211-214, 265-269).
StoreMatchesOrder ==
    stored = {order[k] : k \in 1..Len(order)} \cup {victim[w] : w \in At("dropping")}

\* The store outgrows its limit only by the diagnoses that are still evicting
\* (main.py:213-214).
SizeBounded ==
    Len(order) <= MaxStored + Cardinality(At("checking")) + Cardinality(At("evicting"))

Smaller(m, n) == IF m <= n THEN m ELSE n

\* Checking the length and popping are two steps, so threads can evict more
\* than they added; yet the newest MaxStored + 1 - |Worker| verdicts are never
\* evicted, and with fewer threads than MaxStored pop(0) never meets an empty
\* list (main.py:213-214).
NewestRetained ==
    /\ Len(order) >= Smaller(nextId - 1, MaxStored + 1 - Cardinality(Worker))
    /\ \A w \in Worker : pc[w] = "evicting" => order # <<>>

\* A GET that answers at all gives a verdict that says revised exactly when it
\* carries the revision ("revised: true, with the slow result attached as
\* revision", docs/design.md:66), however the re-run races it.
\* "revised" is encoded early and the late keys last.
AnswerWhole ==
    \A w \in At("encoding") :
        LET now == verdict[cur[w]]
        IN  Readable(seen[w], now) => seen[w].revised = now.revision

\* A fast verdict's background re-run comes to an end: done, failed, or
\* dropped because the verdict is gone (main.py:158-179, 233-234).
RefinementSettles ==
    \A i \in Id : refine[i] = "queued" ~> refine[i] \in {"done", "failed", "dropped"}
=============================================================================
