------------------------------ MODULE Diagnosis ------------------------------
(***************************************************************************)
(* One POST /diagnose, from the window to the verdict, and the POST        *)
(* /verify of its action (causal_engine/main.py, rootcause.py, verify.py). *)
(* Velocity decides the path, Validation judges a candidate, Execution says *)
(* what happens to the verdict: here is what lies between.                 *)
(*                                                                         *)
(* Of a metric the code looks only at how far it strays above the mean of  *)
(* the front half of the window, in standard deviations of that half (with *)
(* their noise floor): all readings below are in that unit, above that     *)
(* mean.  Scores are counted in half points.                               *)
(***************************************************************************)
EXTENDS Velocity, FiniteSetsExt, Functions

CONSTANTS
    Columns,      \* window.columns, in order
    NodeOf,       \* the node of each column
    Degradable,   \* latency and loss columns
    LatencyOf,    \* the latency column of each node
    Edge,         \* edges a discovery may find
    Front,        \* highest readings in the front half
    Recent,       \* highest readings in the back half
    Onset,        \* moments at which a degraded column crosses the threshold
    Threshold,    \* Z_SCORE_THRESHOLD (3)
    Severity,     \* 10 * log10(z + 1) of a reading
    TopN,         \* top_n (3)
    Later,        \* mean readings a verification may find
    NoData,
    None

Column == {Columns[i] : i \in DOMAIN Columns}
Node == {NodeOf[c] : c \in Column}

ASSUME DiagnosisAssumption ==
    /\ Columns \in Seq(Column) /\ IsInjective(Columns)
    /\ NodeOf \in [Column -> Node]
    /\ Degradable \subseteq Column
    /\ LatencyOf \in [Node -> Degradable] /\ \A n \in Node : NodeOf[LatencyOf[n]] = n
    /\ Edge \subseteq {e \in Column \X Column : e[1] # e[2]}
    /\ Front \subseteq Nat /\ Recent \subseteq Nat /\ Onset \subseteq Nat
    /\ Front # {} /\ Recent # {} /\ Onset # {}
    /\ Threshold \in Nat
    /\ Severity \in [Recent \cup {0} -> Nat]
    /\ \A y, z \in Recent \cup {0} : y <= z => Severity[y] <= Severity[z]
    /\ TopN \in Nat \ {0}
    /\ Later \subseteq Int /\ NoData \notin Int
    /\ None \notin Node

VARIABLES
    pc,        \* what the request does next
    asked,     \* the mode it was sent with
    mode,      \* the path that is taken
    reading,   \* per degradable column: front, recent, onset
    ranked,    \* root_causes
    tried,     \* candidates validated
    judged,    \* how the validation of each candidate ended
    fallback,  \* fallback_action
    action,    \* proposed_action
    approved,
    later,     \* what the last verification measured
    outcome    \* and what it made of it

request == <<pc, asked, mode>>
candidates == <<tried, judged, fallback, action, approved>>
check == <<later, outcome>>
vars == <<velocity, request, reading, ranked, candidates, check>>

Calmly == [c \in Degradable |-> [front |-> Min(Front), recent |-> Min(Recent), onset |-> Min(Onset)]]


Init ==
    /\ VelocityInit
    /\ pc = "idle" /\ asked = "auto" /\ mode = "slow"
    /\ reading = Calmly /\ ranked = <<>>
    /\ tried = 0 /\ judged = [n \in Node |-> "untried"]
    /\ fallback = None /\ action = None /\ approved = FALSE
    /\ later = NoData /\ outcome = "none"

(***************************************************************************)
(* The window and its velocity.                                            *)
(***************************************************************************)
\* get_window has its data; when it raises, the answer is 424 and nothing changes.
Receive ==
    /\ pc = "idle"
    /\ asked' \in {"auto", "fast", "slow", "other"}
    /\ TakeSeries
    /\ pc' = "velocity"
    /\ UNCHANGED <<mode, reading, ranked, candidates, check>>

ScanSample ==
    /\ pc = "velocity"
    /\ Scan
    /\ UNCHANGED <<request, reading, ranked, candidates, check>>

\* The velocity is computed even when the caller forces a path; a path that
\* does not exist raises only after that.  What was asked is not read again.
TakePath ==
    /\ pc = "velocity" /\ Len(modes) = Length
    /\ mode' = IF asked = "auto" THEN Mode ELSE asked
    /\ pc' = IF mode' \in {"fast", "slow"} THEN "discover" ELSE "failed"
    /\ series' = <<>> /\ ema' = 0 /\ unit' = 1 /\ levels' = <<>> /\ modes' = <<>>
    /\ asked' = "auto"
    /\ UNCHANGED <<reading, ranked, candidates, check>>

(***************************************************************************)
(* Ranking: score every column of the graph, keep the best one of a node.  *)
(***************************************************************************)
Strays(r) == r.recent > Threshold

Degraded(r) == {c \in Degradable : Strays(r[c])}

Position(c) == CHOOSE i \in DOMAIN Columns : Columns[i] = c

\* sorted() is stable, so columns that cross together keep their order.
OnsetRank(r, c) ==
    Cardinality({d \in Degraded(r) :
        \/ r[d].onset < r[c].onset
        \/ r[d].onset = r[c].onset /\ Position(d) < Position(c)})

Worst(r, n) == Max({r[c].recent : c \in {d \in Degraded(r) : NodeOf[d] = n}} \cup {0})

Outgoing(g, r, c) == {d \in Degraded(r) \ {c} : <<c, d>> \in g}
Incoming(g, r, c) == {d \in Degraded(r) \ {c} : <<d, c>> \in g}

Implicated(g, r) == {c \in Column : c \in Degraded(r) \/ Outgoing(g, r, c) # {}}

Earliness(r, c) ==
    IF c \in Degraded(r) THEN Cardinality(Degraded(r)) - OnsetRank(r, c) ELSE 0

MutScore(g, r, c) ==
    2 * (Cardinality(Outgoing(g, r, c)) - Cardinality(Incoming(g, r, c))) + Earliness(r, c)

Score(g, r, c) ==
    2 * (Cardinality(Outgoing(g, r, c)) - Cardinality(Incoming(g, r, c)))
    + Severity[Worst(r, NodeOf[c])] + Earliness(r, c)

\* best_per_node keeps the best column of a node and is filled in the order of
\* the columns, which is how ties are ranked.
ColumnsOf(score, n) == {c \in DOMAIN score : NodeOf[c] = n}
Best(score) ==
    [n \in {NodeOf[c] : c \in DOMAIN score} |-> Max({score[c] : c \in ColumnsOf(score, n)})]
Entered(score) ==
    [n \in {NodeOf[c] : c \in DOMAIN score} |-> Min({Position(c) : c \in ColumnsOf(score, n)})]

Ahead(best, entered, n) ==
    {m \in DOMAIN best : \/ best[m] > best[n]
                         \/ best[m] = best[n] /\ entered[m] < entered[n]}

Leading(best, entered) ==
    [i \in 1..Min({TopN, Cardinality(DOMAIN best)}) |->
        CHOOSE n \in DOMAIN best : Cardinality(Ahead(best, entered, n)) = i - 1]

Ranking(g, r) ==
    LET score == [c \in Implicated(g, r) |-> Score(g, r, c)]
    IN  Leading(Best(score), Entered(score))

Reading == [front : Front, recent : Recent, onset : Onset]

\* Either path may find any edges between two columns.
Discovered == SUBSET Edge

\* What is degraded is read off the window the path was run on.  Of a column the
\* onset is looked at only if it strays, and the front half only if it does not.
Diagnose ==
    /\ pc = "discover"
    /\ reading' \in {r \in [Degradable -> Reading] :
                       \A c \in Degradable :
                          IF Strays(r[c]) THEN r[c].front = Min(Front) ELSE r[c].onset = Min(Onset)}
    /\ \E g \in Discovered : ranked' = IF Degraded(reading') = {} THEN <<>> ELSE Ranking(g, reading')
    /\ pc' = "validate"
    /\ UNCHANGED <<velocity, asked, mode, candidates, check>>

(***************************************************************************)
(* The candidates, one after the other.  Each has an action: every node of *)
(* a window is in topology.yaml and has a latency column.                  *)
(***************************************************************************)
\* peak of target_metric: only a degraded column is measured in the back half.
Peak(n) ==
    LET r == reading[LatencyOf[n]]
    IN  IF Strays(r) THEN r.recent ELSE Max({r.front, r.recent})

\* The loop goes on until a candidate is approved.
MutMore == tried < Len(ranked)
More == tried < Len(ranked) /\ ~approved

Try(ok) ==
    LET candidate == ranked[tried + 1]
    IN  /\ pc = "validate" /\ More
        /\ tried' = tried + 1
        /\ judged' = [judged EXCEPT ![candidate] = IF ok THEN "approved" ELSE "rejected"]
        /\ fallback' = IF fallback = None THEN candidate ELSE fallback
        /\ action' = IF ok THEN candidate ELSE action
        /\ approved' = (approved \/ ok)
        /\ UNCHANGED <<velocity, request, reading, ranked, check>>

Decide ==
    /\ pc = "validate" /\ ~More
    /\ action' = IF action = None THEN fallback ELSE action
    /\ pc' = "answered"
    /\ UNCHANGED <<velocity, asked, mode, reading, ranked, tried, judged, fallback, approved, check>>

(***************************************************************************)
(* POST /verify, any time after the action was executed, and again.        *)
(***************************************************************************)
\* RECOVERED_FRACTION is 8/10, PARTIAL_FRACTION 3/10; a metric that was never
\* above its baseline counts as recovered.
MutClassify(mean, peak) ==
    IF peak <= 0 \/ 10 * (peak - mean) >= 7 * peak THEN "recovered"
    ELSE IF 10 * (peak - mean) >= 3 * peak THEN "partial"
    ELSE "not_recovered"

Classify(mean, peak) ==
    IF peak <= 0 \/ 10 * (peak - mean) >= 8 * peak THEN "recovered"
    ELSE IF 10 * (peak - mean) >= 3 * peak THEN "partial"
    ELSE "not_recovered"

\* The fresh window cannot be had, or does not have the column.
VerifyUnknown ==
    /\ pc = "answered" /\ approved
    /\ later' = NoData
    /\ outcome' = "unknown"
    /\ UNCHANGED <<velocity, request, reading, ranked, candidates>>

Verify ==
    /\ pc = "answered" /\ approved
    /\ later' \in Later
    /\ outcome' = Classify(later', Peak(action))
    /\ UNCHANGED <<velocity, request, reading, ranked, candidates>>

\* The next request begins with nothing of this one.
Forget ==
    /\ pc' = "idle" /\ mode' = "slow"
    /\ reading' = Calmly /\ ranked' = <<>>
    /\ tried' = 0 /\ judged' = [n \in Node |-> "untried"]
    /\ fallback' = None /\ action' = None /\ approved' = FALSE
    /\ later' = NoData /\ outcome' = "none"
    /\ UNCHANGED <<velocity, asked>>

Finish == pc \in {"answered", "failed"} /\ Forget

\* Neither a discovery nor a validation that raises is caught: a 500, no verdict.
Raise == (pc = "discover" \/ (pc = "validate" /\ More)) /\ Forget

Next ==
    \/ Receive
    \/ ScanSample
    \/ TakePath
    \/ Diagnose
    \/ \E ok \in BOOLEAN : Try(ok)
    \/ Decide
    \/ VerifyUnknown
    \/ Verify
    \/ Finish
    \/ Raise

Spec == Init /\ [][Next]_vars

(***************************************************************************)
(* Properties.                                                             *)
(***************************************************************************)
\* The parts of a request, its verdict and its verification have their shapes;
\* no node is ranked twice, nor is one ranked before the window is diagnosed.
TypeOK ==
    /\ VelocityTypeOK
    /\ pc \in {"idle", "velocity", "discover", "validate", "answered", "failed"}
    /\ asked \in {"auto", "fast", "slow", "other"}
    /\ mode \in {"fast", "slow", "other"}
    /\ reading \in [Degradable -> Reading]
    /\ ranked \in Seq(Node) /\ IsInjective(ranked)
    /\ ranked # <<>> => pc \in {"validate", "answered"}
    /\ tried \in 0..Len(ranked)
    /\ judged \in [Node -> {"untried", "approved", "rejected"}]
    /\ fallback \in Node \cup {None} /\ action \in Node \cup {None}
    /\ approved \in BOOLEAN
    /\ later \in Later \cup {NoData}
    /\ outcome \in {"none", "unknown", "recovered", "partial", "not_recovered"}

\* "Severity has to actually count" (rootcause.py:111-116): whatever edges a
\* discovery makes up, a degraded node is ranked before any other whose worst
\* reading is smaller by more than the edges and onsets of K degraded columns
\* can make up for.
SevereFirst ==
    LET K == Cardinality(Degraded(reading))
        severity(n) == Severity[Worst(reading, n)]
    IN  \A m \in Node, i \in DOMAIN ranked :
          /\ Worst(reading, m) > 0
          /\ severity(m) - severity(ranked[i]) > Max({4 * K - 3, 5 * K - 5})
          => \E j \in 1..(i - 1) : ranked[j] = m

\* The verdict carries the first approved candidate, after all before it were
\* rejected and without trying the rest; when none is approved, it carries the
\* top candidate, not approved; and it carries none only if nothing is degraded,
\* which is when it must not act (main.py:118-139).
FirstApprovedWins ==
    pc = "answered" =>
        /\ action = None <=> Degraded(reading) = {}
        /\ approved => \E i \in DOMAIN ranked :
             /\ action = ranked[i]
             /\ \A j \in DOMAIN ranked :
                  judged[ranked[j]] = IF j < i THEN "rejected"
                                      ELSE IF j = i THEN "approved" ELSE "untried"
        /\ ~approved /\ ranked # <<>> =>
             /\ action = ranked[1]
             /\ \A j \in DOMAIN ranked : judged[ranked[j]] = "rejected"

\* Recovery is relative to the incident: a metric that is called recovered while
\* it still reads as degraded had risen to more than five times the threshold,
\* or had never left its baseline, when whatever it reads later is taken for
\* recovery (verify.py:30-45 against rootcause.py:55-58).
RecoveredIsRelative ==
    outcome = "recovered" /\ later > Threshold =>
        Peak(action) > 5 * Threshold \/ Peak(action) = 0
=============================================================================
