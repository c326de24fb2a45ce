-------------------------- MODULE IndexCalculation --------------------------
(***************************************************************************)
(* The price index of one market and commodity                             *)
(* (app/services/index_calculation.py): accepting a report publishes a new *)
(* value in the transaction of the review (app/services/reviews.py), and a *)
(* command rebuilds the values under a new method version.                 *)
(*                                                                         *)
(* A review writes the report's verification and the agent's row before it *)
(* reads the accepted reports, so it holds both row locks from then to its *)
(* commit.  The reports it reads are those committed at that moment, and   *)
(* its own.                                                                *)
(***************************************************************************)
EXTENDS Integers, FiniteSets, FiniteSetsExt

CONSTANTS
  Reports, Agents,
  Prices,       \* canonical prices
  Times,        \* received_at
  Batches,      \* what the reports may say: functions from Reports to Report
  SourceWeight, \* twice the weight of each kind of source
  Window,       \* index_window_hours
  Threshold,    \* publication_threshold
  Workers,      \* request slots
  MaxStarts,    \* bound: transactions that start
  MaxMethods,   \* bound: method versions
  None          \* no value, no report

Report == [at: Times, price: Prices, source: DOMAIN SourceWeight, agent: Agents]

ASSUME BatchAssumption == Batches \subseteq [Reports -> Report]
ASSUME ReportsAssumption == IsFiniteSet(Reports)
ASSUME NumbersAssumption ==
  /\ Times \subseteq Nat /\ Prices \subseteq Nat
  /\ Window \in Nat \ {0} /\ Threshold \in Nat \ {0}
  /\ MaxStarts \in Nat /\ MaxMethods \in Nat \ {0}
  /\ SourceWeight \in [DOMAIN SourceWeight -> Nat \ {0}]
ASSUME NoneAssumption == None \notin Prices \union Reports

VARIABLES
  report,   \* submissions, which never change
  outcome,  \* the verification of each
  index,    \* index_values
  method,   \* the method version of the running program
  started,  \* transactions started so far: the clock behind computed_at
  req,      \* requests in progress
  contested \* history: reports on which two reviews have been committed

vars == <<report, outcome, index, method, started, req, contested>>

Outcomes == {"pending", "accepted", "flagged"}

\* counted: the accepted reports in the window, from which n_submissions,
\* n_contributors and source_mix are taken.  value: None for insufficient_data.
IndexValue == [trigger: Reports, method: 1..MaxMethods, counted: SUBSET Reports,
               value: Prices \union {None}, computed: 1..MaxStarts]

\* rows: index values that were flushed; left: accepted reports a rebuild has
\* still to compute.
Request == [at: {"idle", "review", "locked", "computed", "rebuild"},
            verdict: {"accepted", "flagged"}, report: Reports \union {None},
            start: 0..MaxStarts, rows: SUBSET IndexValue, left: SUBSET Reports]

Idle == [at |-> "idle", verdict |-> "flagged", report |-> None, start |-> 0,
         rows |-> {}, left |-> {}]

TypeOK ==
  /\ report \in Batches
  /\ outcome \in [Reports -> Outcomes]
  /\ index \subseteq IndexValue
  /\ method \in 1..MaxMethods
  /\ started \in 0..MaxStarts
  /\ req \in [Workers -> Request]
  /\ contested \subseteq Reports

Init ==
  /\ report \in Batches
  /\ outcome = [s \in Reports |-> "pending"]
  /\ index = {}
  /\ method = 1
  /\ started = 0
  /\ req = [w \in Workers |-> Idle]
  /\ contested = {}

-----------------------------------------------------------------------------
(* What recompute_cell computes for the window that ends with report s.     *)

InWindow(r, s) == report[r].at \in (report[s].at - Window)..report[s].at

AcceptedUnlessFlagged(s, own) ==
  {r \in Reports : InWindow(r, s) /\ (outcome[r] # "flagged" \/ r \in own)}

\* list_accepted_in_window, for a transaction that has accepted own itself.
Counted(s, own) ==
  {r \in Reports : InWindow(r, s) /\ (outcome[r] = "accepted" \/ r \in own)}

\* Source weight times recency_weight (half at the start of the window, one at
\* its end), as a multiple of 1 / (4 * Window).
Weight(r, s) ==
  SourceWeight[report[r].source] * (Window + report[r].at - (report[s].at - Window))

WeightOf(rows, s) == MapThenSumSet(LAMBDA r : Weight(r, s), rows)

UnweightedMedian(rows, s) ==
  CHOOSE v \in Prices :
    /\ \E r \in rows : report[r].price = v
    /\ 2 * Cardinality({r \in rows : report[r].price <= v}) >= Cardinality(rows)
    /\ 2 * Cardinality({r \in rows : report[r].price < v}) < Cardinality(rows)

MiddleOfRange(rows, s) ==
  (Min({report[r].price : r \in rows}) + Max({report[r].price : r \in rows})) \div 2

\* weighted_median: in the order of their prices, the first report with which
\* half of the weight is reached.
WeightedMedian(rows, s) ==
  Min({v \in {report[r].price : r \in rows} :
         2 * WeightOf({r \in rows : report[r].price <= v}, s) >= WeightOf(rows, s)})

Value(rows, s) == IF Cardinality(rows) < Threshold THEN None ELSE WeightedMedian(rows, s)

\* get_by_trigger_verification
Indexed(s) == \E v \in index : v.trigger = s /\ v.method = method

\* What is flushed for report s: nothing, if it has its value.
Recomputed(s, own, start) ==
  IF Indexed(s) THEN {}
  ELSE {[trigger |-> s, method |-> method, counted |-> Counted(s, own),
         value |-> Value(Counted(s, own), s), computed |-> start]}

NeverConflicts(rows) == FALSE

\* uq_index_values_trigger_method
Conflicts(rows) ==
  \E v \in rows, u \in index : v.trigger = u.trigger /\ v.method = u.method

-----------------------------------------------------------------------------
(* Reviews.                                                                 *)

Becomes(w, r) == req' = [req EXCEPT ![w] = r]

Starts == started < MaxStarts /\ started' = started + 1

\* _finalize finds the report pending.
BeginReview(w, s, verdict) ==
  /\ req[w].at = "idle"
  /\ outcome[s] = "pending"
  /\ Starts
  /\ Becomes(w, [Idle EXCEPT !.at = "review", !.verdict = verdict, !.report = s,
                             !.start = started + 1])
  /\ UNCHANGED <<report, outcome, index, method, contested>>

LockReport(w) ==
  /\ req[w].at = "review"
  /\ \A v \in Workers : req[v].at \in {"locked", "computed"} => req[v].report # req[w].report
  /\ Becomes(w, [req[w] EXCEPT !.at = "locked"])
  /\ UNCHANGED <<report, outcome, index, method, started, contested>>

\* The UPDATEs of the verification and of the agent's row (apply_review) are
\* flushed, and wait for other reviews of the report or of the agent.
Lock(w) ==
  /\ req[w].at = "review"
  /\ \A v \in Workers : req[v].at \in {"locked", "computed"} =>
       /\ req[v].report # req[w].report
       /\ report[req[v].report].agent # report[req[w].report].agent
  /\ Becomes(w, [req[w] EXCEPT !.at = "locked"])
  /\ UNCHANGED <<report, outcome, index, method, started, contested>>

Compute(w) ==
  /\ req[w].at = "locked" /\ req[w].verdict = "accepted"
  /\ LET s == req[w].report IN
       Becomes(w, [req[w] EXCEPT !.at = "computed",
                                 !.rows = Recomputed(s, {s}, req[w].start)])
  /\ UNCHANGED <<report, outcome, index, method, started, contested>>

\* The outcome is written over the one another review has committed since.
Decide(w) ==
  LET s == req[w].report IN
    /\ outcome' = [outcome EXCEPT ![s] = req[w].verdict]
    /\ contested' = IF outcome[s] = "pending" THEN contested ELSE contested \union {s}

CommitAccept(w) ==
  /\ req[w].at = "computed" /\ ~Conflicts(req[w].rows)
  /\ Decide(w)
  /\ index' = index \union req[w].rows
  /\ Becomes(w, Idle)
  /\ UNCHANGED <<report, method, started>>

CommitFlag(w) ==
  /\ req[w].at = "locked" /\ req[w].verdict = "flagged"
  /\ Decide(w)
  /\ Becomes(w, Idle)
  /\ UNCHANGED <<report, index, method, started>>

-----------------------------------------------------------------------------
(* Rebuilding.                                                              *)

\* rebuild_all, in one transaction, lists the accepted reports.
BeginRebuild(w) ==
  /\ req[w].at = "idle"
  /\ Starts
  /\ Becomes(w, [Idle EXCEPT !.at = "rebuild", !.start = started + 1,
                             !.left = {s \in Reports : outcome[s] = "accepted"}])
  /\ UNCHANGED <<report, outcome, index, method, contested>>

\* The oldest of them is next.
RebuildNext(w) ==
  /\ req[w].at = "rebuild"
  /\ \E s \in req[w].left :
       /\ \A r \in req[w].left : report[s].at <= report[r].at
       /\ Becomes(w, [req[w] EXCEPT !.left = @ \ {s},
                                    !.rows = @ \union Recomputed(s, {}, req[w].start)])
  /\ UNCHANGED <<report, outcome, index, method, started, contested>>

CommitRebuild(w) ==
  /\ req[w].at = "rebuild" /\ req[w].left = {} /\ ~Conflicts(req[w].rows)
  /\ index' = index \union req[w].rows
  /\ Becomes(w, Idle)
  /\ UNCHANGED <<report, outcome, method, started, contested>>

\* The program is restarted with another method_version.
NewMethod ==
  /\ \A w \in Workers : req[w].at = "idle"
  /\ method < MaxMethods
  /\ method' = method + 1
  /\ UNCHANGED <<report, outcome, index, started, req, contested>>

\* A constraint is violated, or the process dies.
Abort(w) ==
  /\ req[w].at # "idle"
  /\ Becomes(w, Idle)
  /\ UNCHANGED <<report, outcome, index, method, started, contested>>

Next ==
  \/ \E w \in Workers :
       \/ \E s \in Reports, verdict \in {"accepted", "flagged"} : BeginReview(w, s, verdict)
       \/ Lock(w)
       \/ Compute(w)
       \/ CommitAccept(w)
       \/ CommitFlag(w)
       \/ BeginRebuild(w)
       \/ RebuildNext(w)
       \/ CommitRebuild(w)
       \/ Abort(w)
  \/ NewMethod

Spec == Init /\ [][Next]_vars

-----------------------------------------------------------------------------
(* Properties.                                                              *)

\* A report has at most one value under a method, although two reviewers may
\* accept it at once and two rebuilds may overlap.
IndexedOnce ==
  \A v, u \in index : v.trigger = u.trigger /\ v.method = u.method => v = u

\* A published value splits the weight of the reports it counted: neither the
\* cheaper nor the dearer ones have more than half of it.
ValuesSplitWeight ==
  \A v \in index : v.value # None =>
    LET cheaper == {r \in v.counted : report[r].price < v.value}
        dearer == {r \in v.counted : report[r].price > v.value}
        all == WeightOf(v.counted, v.trigger) IN
      /\ Cardinality(v.counted) >= Threshold
      /\ 2 * WeightOf(cheaper, v.trigger) <= all
      /\ 2 * WeightOf(dearer, v.trigger) <= all

\* No value counts a report that is pending or flagged (AGENT.md:165), in
\* whatever order reviews, crashes and rebuilds commit, except for a report on
\* which two overlapping reviews have both decided.
CountsAcceptedOnly ==
  \A v \in index : \A r \in v.counted \ contested : outcome[r] = "accepted"

\* Acceptances of one agent's reports never miss each other: the value
\* committed second counts the first report if it is in the window, because
\* both write the agent's row before they read.
SameAgentMeets ==
  [][\A w \in Workers : CommitAccept(w) =>
       \A v \in req[w].rows, r \in Reports :
         outcome[r] = "accepted" /\ InWindow(r, v.trigger)
           /\ report[r].agent = report[v.trigger].agent => r \in v.counted]_vars
=============================================================================
