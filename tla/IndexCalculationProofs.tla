----------------------- MODULE IndexCalculationProofs -----------------------
(***************************************************************************)
(* Proofs about IndexCalculation, for any reports, windows, weights and    *)
(* reviewers.  What a value counts was accepted when it was read, and the  *)
(* invariant says what is left of that when it is committed; the price of  *)
(* a value is a weighted median of the reports it counts.                  *)
(***************************************************************************)
EXTENDS IndexCalculation, FiniteSetTheorems, WellFoundedInduction, TLAPS

(* r, which a value of report s counts, is accepted, or will be with s.     *)
Deserves(r, s) == r = s \/ r \in contested \/ outcome[r] = "accepted"

(* The values that request q has flushed.                                   *)
Flushed(q) ==
  /\ \A v \in q.rows : v.trigger \in Reports /\ v.method = method /\ v.counted \subseteq Reports
  /\ \A v, u \in q.rows : v.trigger = u.trigger => v = u
  /\ q.at # "rebuild" =>
       \A v \in q.rows : /\ v.trigger = q.report
                         /\ \A r \in v.counted : Deserves(r, q.report)
  /\ q.at = "rebuild" =>
       \A v \in q.rows : /\ v.trigger \notin q.left
                         /\ \A r \in v.counted : r \in contested \/ outcome[r] = "accepted"

IsRequest(q) ==
  q = [at |-> q.at, verdict |-> q.verdict, report |-> q.report, start |-> q.start,
       rows |-> q.rows, left |-> q.left]

(* A request knows its report, and an acceptance stays one.                 *)
Formed(q) ==
  /\ IsRequest(q)
  /\ q.verdict \in {"accepted", "flagged"}
  /\ q.left \subseteq Reports
  /\ q.at \in {"review", "locked", "computed"} => q.report \in Reports
  /\ q.at = "computed" => q.verdict = "accepted"
  /\ q.rows # {} => q.at \in {"computed", "rebuild"}

(* Requests that hold row locks are about different agents.                 *)
Locks ==
  \A w, v \in Workers :
    /\ w # v
    /\ req[w].at \in {"locked", "computed"} /\ req[v].at \in {"locked", "computed"}
    => /\ req[w].report # req[v].report
       /\ report[req[w].report].agent # report[req[v].report].agent

(* A computed value counts all that is accepted of its agent.               *)
Meets(q) ==
  q.at = "computed" =>
    \A v \in q.rows, r \in Reports :
      outcome[r] = "accepted" /\ InWindow(r, v.trigger)
        /\ report[r].agent = report[v.trigger].agent => r \in v.counted

Shape == /\ outcome \in [Reports -> Outcomes]
         /\ req = [w \in Workers |-> req[w]]
         /\ \A w \in Workers : Formed(req[w])

IInv ==
  /\ Shape
  /\ \A v \in index : v.counted \subseteq Reports
  /\ Locks
  /\ \A w \in Workers : Flushed(req[w])
  /\ \A w \in Workers : Meets(req[w])
  /\ IndexedOnce
  /\ CountsAcceptedOnly

-----------------------------------------------------------------------------
LEMMA RequestExcept ==
  ASSUME NEW q, IsRequest(q), NEW x
  PROVE  /\ IsRequest([q EXCEPT !.at = x]) /\ IsRequest([q EXCEPT !.verdict = x])
         /\ IsRequest([q EXCEPT !.report = x]) /\ IsRequest([q EXCEPT !.start = x])
         /\ IsRequest([q EXCEPT !.rows = x]) /\ IsRequest([q EXCEPT !.left = x])
<1>1. IsRequest([q EXCEPT !.at = x])
  BY DEF IsRequest
<1>2. IsRequest([q EXCEPT !.verdict = x])
  BY DEF IsRequest
<1>3. IsRequest([q EXCEPT !.report = x])
  BY DEF IsRequest
<1>4. IsRequest([q EXCEPT !.start = x])
  BY DEF IsRequest
<1>5. IsRequest([q EXCEPT !.rows = x])
  BY DEF IsRequest
<1>6. IsRequest([q EXCEPT !.left = x])
  BY DEF IsRequest
<1>. QED
  BY <1>1, <1>2, <1>3, <1>4, <1>5, <1>6

LEMMA InitIInv == Init => IInv
<1>. SUFFICES ASSUME Init PROVE IInv
  OBVIOUS
<1>1. \A w \in Workers : req[w] = Idle
  BY DEF Init
<1>2. Formed(Idle) /\ Flushed(Idle) /\ Meets(Idle)
  BY DEF Formed, IsRequest, Flushed, Meets, Idle
<1>3. Shape
  BY <1>1, <1>2 DEF Init, Shape, Outcomes
<1>4. Locks
  BY <1>1 DEF Locks, Idle
<1>5. IndexedOnce /\ CountsAcceptedOnly /\ index = {}
  BY DEF Init, IndexedOnce, CountsAcceptedOnly
<1>. QED
  BY <1>1, <1>2, <1>3, <1>4, <1>5 DEF IInv

(* A step that only changes one request: what is to be shown is about it.   *)
LEMMA QuietStep ==
  ASSUME IInv, NEW w \in Workers, NEW q,
         Becomes(w, q), Formed(q), Flushed(q), Meets(q),
         q.at \in {"locked", "computed"} =>
           \A v \in Workers \ {w} : req[v].at \in {"locked", "computed"} =>
             /\ req[v].report # q.report
             /\ report[req[v].report].agent # report[q.report].agent,
         UNCHANGED <<report, outcome, index, method, contested>>
  PROVE  IInv'
<1>. USE DEF IInv
<1>1. /\ req' = [v \in Workers |-> req'[v]]
      /\ req'[w] = q /\ \A v \in Workers \ {w} : req'[v] = req[v]
  BY DEF Becomes, Shape
<1>2. \A v \in Workers : Formed(req'[v]) /\ Flushed(req'[v]) /\ Meets(req'[v])
  BY <1>1 DEF Shape
<1>3. (\A v \in Workers : Flushed(req[v]))'
  BY <1>2 DEF Flushed, Deserves
<1>4. (\A v \in Workers : Meets(req[v]))'
  BY <1>2 DEF Meets, InWindow
<1>5. Shape'
  BY <1>1, <1>2 DEF Shape, Formed
<1>6. Locks'
  BY <1>1 DEF Locks
<1>7. IndexedOnce' /\ CountsAcceptedOnly'
  BY DEF IndexedOnce, CountsAcceptedOnly
<1>. QED
  BY <1>3, <1>4, <1>5, <1>6, <1>7

LEMMA IdleQuiet == Formed(Idle) /\ Flushed(Idle) /\ Meets(Idle) /\ Idle.at = "idle"
BY DEF Formed, IsRequest, Flushed, Meets, Idle

(* What recompute_cell adds is for its report and counts what is accepted.  *)
LEMMA RecomputedCounts ==
  ASSUME NEW s \in Reports, NEW own, NEW start, NEW v \in Recomputed(s, own, start)
  PROVE  /\ v.trigger = s /\ v.method = method
         /\ v.counted = Counted(s, own)
         /\ Recomputed(s, own, start) = {v}
BY DEF Recomputed

-----------------------------------------------------------------------------
(* Steps before the commit.                                                 *)

LEMMA BeginSteps ==
  ASSUME IInv, NEW w \in Workers,
         \/ \E s \in Reports, verdict \in {"accepted", "flagged"} : BeginReview(w, s, verdict)
         \/ BeginRebuild(w) \/ Abort(w)
  PROVE  IInv'
<1>1. ASSUME NEW s \in Reports, NEW verdict \in {"accepted", "flagged"},
             BeginReview(w, s, verdict)
      PROVE  IInv'
  <2>. DEFINE q == [[[[Idle EXCEPT !.at = "review"] EXCEPT !.verdict = verdict]
                       EXCEPT !.report = s] EXCEPT !.start = started + 1]
  <2>1. /\ q.at = "review" /\ q.report = s /\ q.rows = {} /\ q.left = {}
        /\ q.verdict = verdict
    BY DEF Idle
  <2>2. Formed(q)
    <3>1. IsRequest(Idle)
      BY DEF IsRequest, Idle
    <3>2. IsRequest([[Idle EXCEPT !.at = "review"] EXCEPT !.verdict = verdict])
      BY <3>1, RequestExcept
    <3>3. IsRequest(q)
      BY <3>2, RequestExcept
    <3>. HIDE DEF q
    <3>. QED
      BY <2>1, <3>3 DEF Formed
  <2>3. Flushed(q) /\ Meets(q)
    BY <2>1 DEF Flushed, Meets
  <2>4. Becomes(w, q) /\ UNCHANGED <<report, outcome, index, method, contested>>
    BY <1>1 DEF BeginReview
  <2>. HIDE DEF q
  <2>. QED
    BY <2>1, <2>2, <2>3, <2>4, QuietStep
<1>2. CASE BeginRebuild(w)
  <2>. DEFINE q == [[[Idle EXCEPT !.at = "rebuild"] EXCEPT !.start = started + 1]
                      EXCEPT !.left = {s \in Reports : outcome[s] = "accepted"}]
  <2>1. /\ q.at = "rebuild" /\ q.rows = {} /\ q.left \subseteq Reports
        /\ q.verdict = "flagged"
    BY DEF Idle
  <2>2. Formed(q)
    <3>1. IsRequest(Idle)
      BY DEF IsRequest, Idle
    <3>2. IsRequest([[Idle EXCEPT !.at = "rebuild"] EXCEPT !.start = started + 1])
      BY <3>1, RequestExcept
    <3>3. IsRequest(q)
      BY <3>2, RequestExcept
    <3>. HIDE DEF q
    <3>. QED
      BY <2>1, <3>3 DEF Formed
  <2>3. Flushed(q) /\ Meets(q)
    BY <2>1 DEF Flushed, Meets
  <2>4. Becomes(w, q) /\ UNCHANGED <<report, outcome, index, method, contested>>
    BY <1>2 DEF BeginRebuild
  <2>. HIDE DEF q
  <2>. QED
    BY <2>1, <2>2, <2>3, <2>4, QuietStep
<1>3. CASE Abort(w)
  BY <1>3, IdleQuiet, QuietStep DEF Abort
<1>. QED
  BY <1>1, <1>2, <1>3

(* Lock waits until nobody else holds the report or the agent.              *)
LEMMA LockStep ==
  ASSUME IInv, NEW w \in Workers, Lock(w)
  PROVE  IInv'
<1>. DEFINE q == [req[w] EXCEPT !.at = "locked"]
<1>0. Formed(req[w]) /\ req[w].at = "review"
  BY DEF IInv, Shape, Lock
<1>1. /\ q.at = "locked" /\ q.report = req[w].report /\ q.rows = {}
      /\ q.left = req[w].left /\ q.report \in Reports /\ q.verdict = req[w].verdict
  BY <1>0 DEF Formed, IsRequest
<1>2. IsRequest(q)
  BY <1>0, RequestExcept DEF Formed
<1>3. Becomes(w, q) /\ UNCHANGED <<report, outcome, index, method, contested>>
  BY DEF Lock
<1>4. \A v \in Workers \ {w} : req[v].at \in {"locked", "computed"} =>
        /\ req[v].report # q.report
        /\ report[req[v].report].agent # report[q.report].agent
  BY <1>1 DEF Lock
<1>. HIDE DEF q
<1>5. Formed(q) /\ Flushed(q) /\ Meets(q)
  BY <1>0, <1>1, <1>2 DEF Formed, Flushed, Meets
<1>. QED
  BY <1>3, <1>4, <1>5, QuietStep

LEMMA ComputeStep ==
  ASSUME IInv, NEW w \in Workers, Compute(w)
  PROVE  IInv'
<1>. DEFINE s == req[w].report
            rows == Recomputed(s, {s}, req[w].start)
            q == [[req[w] EXCEPT !.at = "computed"] EXCEPT !.rows = rows]
<1>0. Formed(req[w]) /\ req[w].at = "locked" /\ req[w].verdict = "accepted"
  BY DEF IInv, Shape, Compute
<1>1. /\ q.at = "computed" /\ q.report = s /\ q.rows = rows /\ s \in Reports
      /\ q.left = req[w].left /\ q.verdict = "accepted"
  BY <1>0 DEF Formed, IsRequest
<1>2. IsRequest(q)
  BY <1>0, RequestExcept DEF Formed
<1>3. Becomes(w, q) /\ UNCHANGED <<report, outcome, index, method, contested>>
  BY DEF Compute
<1>4. \A v \in Workers \ {w} : req[v].at \in {"locked", "computed"} =>
        /\ req[v].report # s
        /\ report[req[v].report].agent # report[s].agent
  BY <1>0 DEF IInv, Locks
<1>5. ASSUME NEW v \in rows
      PROVE  /\ v.trigger = s /\ v.method = method /\ v.counted = Counted(s, {s})
             /\ rows = {v}
  BY <1>1, RecomputedCounts
<1>. HIDE DEF q, rows
<1>6. Formed(q)
  BY <1>0, <1>1, <1>2 DEF Formed
<1>7. Flushed(q)
  BY <1>1, <1>5 DEF Flushed, Deserves, Counted
<1>8. Meets(q)
  BY <1>1, <1>5 DEF Meets, Counted
<1>. QED
  BY <1>1, <1>3, <1>4, <1>6, <1>7, <1>8, QuietStep

LEMMA RebuildStep ==
  ASSUME IInv, NEW w \in Workers, RebuildNext(w)
  PROVE  IInv'
<1>0. Formed(req[w]) /\ req[w].at = "rebuild" /\ Flushed(req[w])
  BY DEF IInv, Shape, RebuildNext
<1>1. PICK s \in req[w].left :
        Becomes(w, [req[w] EXCEPT !.left = @ \ {s},
                                  !.rows = @ \union Recomputed(s, {}, req[w].start)])
  BY DEF RebuildNext
<1>. DEFINE rows == Recomputed(s, {}, req[w].start)
            q == [[req[w] EXCEPT !.left = req[w].left \ {s}]
                    EXCEPT !.rows = req[w].rows \union rows]
<1>2. /\ q.at = "rebuild" /\ q.rows = req[w].rows \union rows /\ s \in Reports
      /\ q.left = req[w].left \ {s} /\ q.verdict = req[w].verdict
  BY <1>0 DEF Formed, IsRequest
<1>3. IsRequest(q)
  BY <1>0, RequestExcept DEF Formed
<1>4. Becomes(w, q)
  <2>1. [req[w] EXCEPT !.left = @ \ {s},
                       !.rows = @ \union Recomputed(s, {}, req[w].start)] = q
    BY <1>0 DEF Formed, IsRequest
  <2>. QED
    BY <1>1, <2>1
<1>5. ASSUME NEW v \in rows
      PROVE  /\ v.trigger = s /\ v.method = method /\ v.counted = Counted(s, {})
             /\ rows = {v}
  BY <1>2, RecomputedCounts
<1>. HIDE DEF q, rows
<1>6. Formed(q)
  BY <1>0, <1>2, <1>3 DEF Formed
<1>7. Flushed(q)
  BY <1>0, <1>2, <1>5 DEF Flushed, Counted
<1>8. Meets(q)
  BY <1>2 DEF Meets
<1>. QED
  BY <1>2, <1>4, <1>6, <1>7, <1>8, QuietStep DEF RebuildNext

-----------------------------------------------------------------------------
(* Commits.                                                                 *)

(* What the others have flushed still holds after a review of s is decided: *)
(* a report whose outcome changes had none, or is contested.                *)
LEMMA DecideKeeps ==
  ASSUME IInv, NEW w \in Workers, Decide(w), Becomes(w, Idle),
         req[w].at \in {"locked", "computed"},
         UNCHANGED <<report, method>>
  PROVE  /\ Shape' /\ Locks'
         /\ (\A v \in Workers : Flushed(req[v]))'
         /\ (\A v \in Workers : Meets(req[v]))'
         /\ \A r \in Reports : outcome[r] = "accepted" =>
              r \in contested' \/ outcome'[r] = "accepted"
         /\ \A r \in Reports : r \notin contested' => r \notin contested
         /\ outcome'[req[w].report] = req[w].verdict
<1>. USE DEF IInv
<1>. DEFINE s == req[w].report
<1>1. /\ req' = [v \in Workers |-> req'[v]]
      /\ req'[w] = Idle /\ \A v \in Workers \ {w} : req'[v] = req[v]
  BY DEF Becomes, Shape
<1>2. s \in Reports /\ req[w].verdict \in Outcomes
  <2>1. Formed(req[w])
    BY DEF Shape
  <2>. QED
    BY <2>1 DEF Formed, Outcomes
<1>3. /\ outcome' \in [Reports -> Outcomes]
      /\ outcome'[s] = req[w].verdict
      /\ \A r \in Reports \ {s} : outcome'[r] = outcome[r]
  BY <1>2 DEF Decide, Shape
<1>4. /\ contested \subseteq contested'
      /\ outcome[s] # "pending" => s \in contested'
  BY DEF Decide
<1>5. \A r \in Reports : outcome[r] = "accepted" =>
        r \in contested' \/ outcome'[r] = "accepted"
  BY <1>3, <1>4
<1>6. ASSUME NEW v \in Workers
      PROVE  Formed(req'[v]) /\ Flushed(req[v])' /\ Meets(req[v])'
  <2>1. CASE req'[v] = Idle
    BY <2>1, IdleQuiet DEF Flushed, Meets, Idle
  <2>2. CASE v # w /\ req'[v] = req[v]
    <3>1. Formed(req[v]) /\ Flushed(req[v]) /\ Meets(req[v])
      BY DEF Shape
    <3>2. Flushed(req[v])'
      BY <1>4, <1>5, <2>2, <3>1 DEF Flushed, Deserves
    <3>3. ASSUME req[v].at = "computed", NEW u \in req[v].rows
          PROVE  u.trigger = req[v].report /\ report[s].agent # report[u.trigger].agent
      BY <2>2, <3>1, <3>3 DEF Flushed, Locks
    <3>4. Meets(req[v])'
      BY <1>3, <2>2, <3>1, <3>3 DEF Meets, InWindow
    <3>. QED
      BY <2>2, <3>1, <3>2, <3>4
  <2>. QED
    BY <1>1, <2>1, <2>2
<1>7. Shape'
  BY <1>1, <1>3, <1>6 DEF Shape, Formed
<1>8. Locks'
  BY <1>1 DEF Locks, Idle
<1>. QED
  BY <1>3, <1>4, <1>5, <1>6, <1>7, <1>8

(* Values that do not conflict keep one value for each report and method.   *)
LEMMA StillOnce ==
  ASSUME IInv, NEW w \in Workers, ~Conflicts(req[w].rows), index' = index \union req[w].rows
  PROVE  IndexedOnce' /\ (\A v \in index : v.counted \subseteq Reports)'
<1>1. Flushed(req[w]) /\ IndexedOnce /\ \A v \in index : v.counted \subseteq Reports
  BY DEF IInv
<1>2. \A v \in req[w].rows, u \in index : ~(v.trigger = u.trigger /\ v.method = u.method)
  BY DEF Conflicts
<1>3. \A v, u \in req[w].rows : v.trigger = u.trigger => v = u
  BY <1>1 DEF Flushed
<1>4. \A v \in req[w].rows : v.counted \subseteq Reports
  BY <1>1 DEF Flushed
<1>. QED
  BY <1>1, <1>2, <1>3, <1>4 DEF IndexedOnce

LEMMA ReviewCommits ==
  ASSUME IInv, NEW w \in Workers, CommitAccept(w) \/ CommitFlag(w)
  PROVE  IInv'
<1>0. /\ Decide(w) /\ Becomes(w, Idle) /\ UNCHANGED <<report, method>>
      /\ req[w].at \in {"locked", "computed"}
      /\ Formed(req[w]) /\ Flushed(req[w])
  BY DEF CommitAccept, CommitFlag, IInv, Shape
<1>1. /\ Shape' /\ Locks'
      /\ (\A v \in Workers : Flushed(req[v]))'
      /\ (\A v \in Workers : Meets(req[v]))'
      /\ \A r \in Reports : outcome[r] = "accepted" =>
           r \in contested' \/ outcome'[r] = "accepted"
      /\ \A r \in Reports : r \notin contested' => r \notin contested
      /\ outcome'[req[w].report] = req[w].verdict
  BY <1>0, DecideKeeps
<1>2. \A v \in index : \A r \in v.counted \ contested' : r \in Reports /\ outcome'[r] = "accepted"
  BY <1>1 DEF IInv, CountsAcceptedOnly
<1>3. CASE CommitAccept(w)
  <2>1. index' = index \union req[w].rows /\ ~Conflicts(req[w].rows) /\ req[w].at = "computed"
    BY <1>3 DEF CommitAccept
  <2>2. IndexedOnce' /\ (\A v \in index : v.counted \subseteq Reports)'
    BY <2>1, StillOnce
  <2>3. ASSUME NEW v \in req[w].rows, NEW r \in v.counted, r \notin contested'
        PROVE  outcome'[r] = "accepted"
    <3>1. r \in Reports /\ Deserves(r, req[w].report)
      BY <1>0, <2>1 DEF Flushed
    <3>2. req[w].verdict = "accepted"
      BY <1>0, <2>1 DEF Formed
    <3>. QED
      BY <1>1, <2>3, <3>1, <3>2 DEF Deserves
  <2>4. CountsAcceptedOnly'
    BY <1>2, <2>1, <2>3 DEF CountsAcceptedOnly
  <2>. QED
    BY <1>1, <2>2, <2>4 DEF IInv
<1>4. CASE CommitFlag(w)
  <2>1. index' = index
    BY <1>4 DEF CommitFlag
  <2>2. IndexedOnce' /\ (\A v \in index : v.counted \subseteq Reports)'
    BY <2>1 DEF IInv, IndexedOnce
  <2>3. CountsAcceptedOnly'
    BY <1>2, <2>1 DEF CountsAcceptedOnly
  <2>. QED
    BY <1>1, <2>2, <2>3 DEF IInv
<1>. QED
  BY <1>3, <1>4

LEMMA RebuildCommits ==
  ASSUME IInv, NEW w \in Workers, CommitRebuild(w)
  PROVE  IInv'
<1>. USE DEF IInv
<1>1. /\ req' = [v \in Workers |-> req'[v]]
      /\ req'[w] = Idle /\ \A v \in Workers \ {w} : req'[v] = req[v]
  BY DEF CommitRebuild, Becomes, Shape
<1>2. /\ index' = index \union req[w].rows /\ ~Conflicts(req[w].rows)
      /\ req[w].at = "rebuild" /\ UNCHANGED <<report, outcome, method, contested>>
  BY DEF CommitRebuild
<1>3. IndexedOnce' /\ (\A v \in index : v.counted \subseteq Reports)'
  BY <1>2, StillOnce
<1>4. CountsAcceptedOnly'
  <2>1. \A v \in req[w].rows : \A r \in v.counted : r \in contested \/ outcome[r] = "accepted"
    BY <1>2 DEF Flushed
  <2>. QED
    BY <1>2, <2>1 DEF CountsAcceptedOnly
<1>5. \A v \in Workers : Formed(req'[v]) /\ Flushed(req'[v]) /\ Meets(req'[v])
  BY <1>1, IdleQuiet DEF Shape
<1>6. (\A v \in Workers : Flushed(req[v]))' /\ (\A v \in Workers : Meets(req[v]))'
  BY <1>2, <1>5 DEF Flushed, Deserves, Meets, InWindow
<1>7. Shape' /\ Locks'
  BY <1>1, <1>2, <1>5 DEF Shape, Formed, Locks, Idle
<1>. QED
  BY <1>3, <1>4, <1>6, <1>7

(* The method changes while nothing is in progress.                         *)
LEMMA MethodStep ==
  ASSUME IInv, NewMethod
  PROVE  IInv'
<1>. USE DEF IInv
<1>1. UNCHANGED <<report, outcome, index, req, contested>>
  BY DEF NewMethod
<1>2. \A w \in Workers : req[w].rows = {} /\ req[w].at = "idle"
  BY DEF NewMethod, Shape, Formed
<1>3. (\A w \in Workers : Flushed(req[w]))'
  BY <1>1, <1>2 DEF Flushed
<1>4. Shape' /\ Locks' /\ (\A w \in Workers : Meets(req[w]))'
  BY <1>1, <1>2 DEF Shape, Formed, Locks, Meets
<1>5. IndexedOnce' /\ CountsAcceptedOnly'
  BY <1>1 DEF IndexedOnce, CountsAcceptedOnly
<1>. QED
  BY <1>1, <1>3, <1>4, <1>5

LEMMA NextIInv == IInv /\ [Next]_vars => IInv'
<1>. SUFFICES ASSUME IInv, [Next]_vars PROVE IInv'
  OBVIOUS
<1>1. ASSUME NEW w \in Workers,
             \/ \E s \in Reports, verdict \in {"accepted", "flagged"} : BeginReview(w, s, verdict)
             \/ BeginRebuild(w) \/ Abort(w)
      PROVE  IInv'
  BY <1>1, BeginSteps
<1>2. ASSUME NEW w \in Workers, Lock(w)
      PROVE  IInv'
  BY <1>2, LockStep
<1>3. ASSUME NEW w \in Workers, Compute(w)
      PROVE  IInv'
  BY <1>3, ComputeStep
<1>4. ASSUME NEW w \in Workers, RebuildNext(w)
      PROVE  IInv'
  BY <1>4, RebuildStep
<1>5. ASSUME NEW w \in Workers, CommitAccept(w) \/ CommitFlag(w)
      PROVE  IInv'
  BY <1>5, ReviewCommits
<1>6. ASSUME NEW w \in Workers, CommitRebuild(w)
      PROVE  IInv'
  BY <1>6, RebuildCommits
<1>7. CASE NewMethod
  BY <1>7, MethodStep
<1>8. CASE UNCHANGED vars
  BY <1>8 DEF vars, IInv, Shape, Formed, Locks, Flushed, Deserves, Meets, InWindow,
     IndexedOnce, CountsAcceptedOnly
<1>. QED
  BY <1>1, <1>2, <1>3, <1>4, <1>5, <1>6, <1>7, <1>8 DEF Next

-----------------------------------------------------------------------------
LEMMA Inductive == Spec => []IInv
<1>. QED
  BY InitIInv, NextIInv, PTL DEF Spec

(* uq_index_values_trigger_method refuses a second value for a report and a *)
(* method, whatever reviews and rebuilds overlap.                           *)
THEOREM ReportsIndexedOnce == Spec => []IndexedOnce
<1>1. IInv => IndexedOnce
  BY DEF IInv
<1>. QED
  BY <1>1, Inductive, PTL

(* No value ever counts a pending or flagged report, except one that two    *)
(* overlapping reviews decided.                                             *)
THEOREM OnlyAcceptedCount == Spec => []CountsAcceptedOnly
<1>1. IInv => CountsAcceptedOnly
  BY DEF IInv
<1>. QED
  BY <1>1, Inductive, PTL

(* The value of an acceptance counts what was accepted of the same agent    *)
(* until its commit: reviews of one agent are one after the other.          *)
THEOREM AcceptancesOfOneAgentMeet == Spec => SameAgentMeets
<1>1. IInv /\ [Next]_vars => [\A w \in Workers : CommitAccept(w) =>
       \A v \in req[w].rows, r \in Reports :
         outcome[r] = "accepted" /\ InWindow(r, v.trigger)
           /\ report[r].agent = report[v.trigger].agent => r \in v.counted]_vars
  <2>1. ASSUME IInv, NEW w \in Workers, CommitAccept(w)
        PROVE  \A v \in req[w].rows, r \in Reports :
                 outcome[r] = "accepted" /\ InWindow(r, v.trigger)
                   /\ report[r].agent = report[v.trigger].agent => r \in v.counted
    BY <2>1 DEF IInv, Meets, CommitAccept
  <2>. QED
    BY <2>1
<1>. QED
  BY <1>1, Inductive, PTL DEF Spec, SameAgentMeets
-----------------------------------------------------------------------------
(* Sums over finite sets.                                                    *)

(* The member that a fold over T takes first. *)
First(T) == CHOOSE x \in T : TRUE

(* f sums w over each subset of S, as MapThenSumSet does. *)
Sums(f, w, S) ==
  f = [T \in SUBSET S |-> IF T = {} THEN 0 ELSE w[First(T)] + f[T \ {First(T)}]]

(* Induction over the subsets of a finite set: a smallest one outside of G   *)
(* would have all its smaller ones in G.                                     *)
LEMMA SetInduction ==
  ASSUME NEW S, IsFiniteSet(S), NEW G, {} \in G,
         \A T \in SUBSET S : T # {} /\ (\A x \in T : T \ {x} \in G) => T \in G
  PROVE  \A T \in SUBSET S : T \in G
<1>. DEFINE B == {T \in SUBSET S : T \notin G}
<1>1. SUFFICES ASSUME B # {} PROVE FALSE
  OBVIOUS
<1>2. FiniteSubsetsOf(S) = SUBSET S
  BY FS_FiniteSubsetsOfFinite
<1>3. IsWellFoundedOn(StrictSubsetOrdering(S), SUBSET S)
  BY <1>2, FS_StrictSubsetOrderingWellFounded
<1>4. B \subseteq SUBSET S
  OBVIOUS
<1>5. PICK T \in B : \A U \in B : ~(<<U, T>> \in StrictSubsetOrdering(S))
  <2>. HIDE DEF B
  <2>. QED
    BY <1>1, <1>3, <1>4, WFMin
<1>6. T # {} /\ T \in SUBSET S /\ T \notin G
  OBVIOUS
<1>7. PICK x \in T : T \ {x} \notin G
  BY <1>6
<1>8. T \ {x} \in B /\ <<T \ {x}, T>> \in StrictSubsetOrdering(S)
  BY <1>6, <1>7 DEF StrictSubsetOrdering
<1>. QED
  BY <1>5, <1>8

LEMMA FirstIn == \A T : T # {} => First(T) \in T
BY DEF First

LEMMA SumsFrom ==
  ASSUME NEW w, NEW S, NEW f, f = [T \in SUBSET S |-> f[T]],
         \A T \in SUBSET S : f[T] = IF T = {} THEN 0 ELSE w[First(T)] + f[T \ {First(T)}]
  PROVE  Sums(f, w, S)
BY DEF Sums

(* A fold is determined on the subsets that two of them share.               *)
LEMMA SumsAgree ==
  ASSUME NEW w, NEW S, NEW T, IsFiniteSet(S), NEW f, NEW g, Sums(f, w, S), Sums(g, w, T)
  PROVE  \A U \in SUBSET S : U \subseteq T => f[U] = g[U]
<1>. DEFINE G == {U \in SUBSET S : U \subseteq T => f[U] = g[U]}
<1>1. \A U \in SUBSET S : f[U] = IF U = {} THEN 0 ELSE w[First(U)] + f[U \ {First(U)}]
  BY DEF Sums
<1>2. \A U \in SUBSET T : g[U] = IF U = {} THEN 0 ELSE w[First(U)] + g[U \ {First(U)}]
  BY DEF Sums
<1>3. {} \in G
  BY <1>1, <1>2
<1>4. ASSUME NEW U \in SUBSET S, U # {}, \A x \in U : U \ {x} \in G
      PROVE  U \in G
  BY <1>1, <1>2, <1>4, FirstIn
<1>5. \A U \in SUBSET S : U \in G
  <2>. HIDE DEF G
  <2>. QED
    BY <1>3, <1>4, SetInduction
<1>. QED
  BY <1>5

(* A finite set has a fold: it is put together from those of its subsets.    *)
LEMMA SumsExist ==
  ASSUME NEW w, NEW S, IsFiniteSet(S)
  PROVE  \E f : Sums(f, w, S)
<1>. DEFINE G == {T \in SUBSET S : \A U \in SUBSET T : \E f : Sums(f, w, U)}
            Chosen(T) == CHOOSE f : Sums(f, w, T)
            V(T) == Chosen(T)[T]
<1>1. \A T : (\E f : Sums(f, w, T)) => Sums(Chosen(T), w, T)
  OBVIOUS
<1>2. \A T \in SUBSET S : IsFiniteSet(T)
  BY FS_Subset
<1>3. ASSUME NEW T \in SUBSET S, \E f : Sums(f, w, T)
      PROVE  V(T) = IF T = {} THEN 0 ELSE w[First(T)] + V(T \ {First(T)})
  <2>. DEFINE c == First(T)
              g == Chosen(T)
  <2>1. Sums(g, w, T)
    BY <1>1, <1>3
  <2>2. g[T] = IF T = {} THEN 0 ELSE w[c] + g[T \ {c}]
    BY <2>1 DEF Sums
  <2>3. Sums([U \in SUBSET (T \ {c}) |-> g[U]], w, T \ {c})
    <3>. DEFINE h == [U \in SUBSET (T \ {c}) |-> g[U]]
    <3>1. \A U \in SUBSET (T \ {c}) :
            h[U] = IF U = {} THEN 0 ELSE w[First(U)] + h[U \ {First(U)}]
      <4>1. \A U \in SUBSET T : g[U] = IF U = {} THEN 0 ELSE w[First(U)] + g[U \ {First(U)}]
        BY <2>1 DEF Sums
      <4>. HIDE DEF c, g
      <4>. QED
        BY <4>1
    <3>2. h = [U \in SUBSET (T \ {c}) |-> h[U]]
      OBVIOUS
    <3>3. Sums(h, w, T \ {c})
      <4>. HIDE DEF h
      <4>. QED
        BY <3>1, <3>2, SumsFrom
    <3>. QED
      BY <3>3
  <2>4. Sums(Chosen(T \ {c}), w, T \ {c})
    BY <1>1, <2>3
  <2>5. IsFiniteSet(T) /\ T \ {c} \in SUBSET T
    BY <1>2
  <2>6. g[T \ {c}] = Chosen(T \ {c})[T \ {c}]
    <3>. HIDE DEF c, g, Chosen
    <3>. QED
      BY <2>1, <2>4, <2>5, SumsAgree
  <2>. QED
    BY <2>2, <2>6
<1>4. ASSUME NEW T \in SUBSET S, \A x \in T : T \ {x} \in G
      PROVE  \E f : Sums(f, w, T)
  <2>. DEFINE f == [U \in SUBSET T |-> IF U = {} THEN 0 ELSE w[First(U)] + V(U \ {First(U)})]
  <2>1. ASSUME NEW U \in SUBSET T, U # T
        PROVE  f[U] = V(U)
    <3>1. \E x \in T : U \in SUBSET (T \ {x})
      BY <2>1
    <3>2. U \in SUBSET S /\ \E g : Sums(g, w, U)
      BY <1>4, <3>1
    <3>. HIDE DEF V
    <3>. QED
      BY <1>3, <3>2
  <2>2. \A U \in SUBSET T : U # {} => f[U \ {First(U)}] = V(U \ {First(U)})
    <3>. HIDE DEF f, V
    <3>. QED
      BY <2>1, FirstIn
  <2>3. \A U \in SUBSET T : f[U] = IF U = {} THEN 0 ELSE w[First(U)] + f[U \ {First(U)}]
    <3>. HIDE DEF V
    <3>. QED
      BY <2>2
  <2>4. f = [U \in SUBSET T |-> f[U]]
    OBVIOUS
  <2>. HIDE DEF f
  <2>. QED
    BY <2>3, <2>4 DEF Sums
<1>5. ASSUME NEW T \in SUBSET S, \A x \in T : T \ {x} \in G
      PROVE  T \in G
  <2>1. \A U \in SUBSET T : U # T => \E x \in T : U \in SUBSET (T \ {x})
    OBVIOUS
  <2>. QED
    BY <1>4, <1>5, <2>1
<1>6. \A T \in SUBSET S : T \in G
  <2>. HIDE DEF G
  <2>1. {} \in G
    BY <1>5
  <2>. QED
    BY <1>5, <2>1, SetInduction
<1>. QED
  BY <1>6

(* The members of S have natural weights.                                    *)
Weighs(w, S) == \A r \in S : w[r] \in Nat

(* A sum of naturals may be taken in any order.                              *)
LEMMA SumAnyOrder ==
  ASSUME NEW w, NEW S, IsFiniteSet(S), Weighs(w, S), NEW f, Sums(f, w, S)
  PROVE  \A T \in SUBSET S : /\ f[T] \in Nat
                             /\ T = {} => f[T] = 0
                             /\ \A x \in T : f[T] = w[x] + f[T \ {x}]
<1>. DEFINE G == {T \in SUBSET S : /\ f[T] \in Nat
                                   /\ \A x \in T : f[T] = w[x] + f[T \ {x}]}
<1>1. \A T \in SUBSET S : f[T] = IF T = {} THEN 0 ELSE w[First(T)] + f[T \ {First(T)}]
  BY DEF Sums
<1>0. /\ {} \in SUBSET S
      /\ \A T \in SUBSET S : \A x \in T : x \in S /\ T \ {x} \in SUBSET S
  OBVIOUS
<1>6. f[{}] = 0
  BY <1>0, <1>1
<1>2. {} \in G
  BY <1>0, <1>6
<1>3. \A T \in SUBSET S : f[T] \in Nat
  <2>. DEFINE N == {T \in SUBSET S : f[T] \in Nat}
  <2>1. {} \in N
    BY <1>0, <1>6
  <2>2. ASSUME NEW T \in SUBSET S, T # {}, \A x \in T : T \ {x} \in N
        PROVE  T \in N
    <3>1. f[T] = w[First(T)] + f[T \ {First(T)}] /\ First(T) \in T
      BY <1>1, <2>2, FirstIn
    <3>2. f[T \ {First(T)}] \in Nat /\ w[First(T)] \in Nat
      BY <1>0, <2>2, <3>1 DEF Weighs
    <3>. QED
      BY <3>1, <3>2
  <2>3. \A T \in SUBSET S : T \in N
    <3>. HIDE DEF N
    <3>. QED
      BY <2>1, <2>2, SetInduction
  <2>. QED
    BY <2>3
<1>4. ASSUME NEW T \in SUBSET S, T # {}, \A x \in T : T \ {x} \in G
      PROVE  T \in G
  <2>1. PICK c \in T : f[T] = w[c] + f[T \ {c}]
    BY <1>1, <1>4, FirstIn
  <2>2. f[T] \in Nat
    BY <1>3
  <2>3. ASSUME NEW x \in T, x # c PROVE f[T] = w[x] + f[T \ {x}]
    <3>1. /\ f[T \ {c}] = w[x] + f[(T \ {c}) \ {x}]
          /\ f[T \ {x}] = w[c] + f[(T \ {x}) \ {c}]
      BY <1>4, <2>3
    <3>2. (T \ {c}) \ {x} = (T \ {x}) \ {c}
      OBVIOUS
    <3>3. /\ w[x] \in Nat /\ w[c] \in Nat
          /\ f[T \ {x}] \in Nat /\ f[T \ {c}] \in Nat /\ f[(T \ {x}) \ {c}] \in Nat
      BY <1>3 DEF Weighs
    <3>4. f[(T \ {c}) \ {x}] = f[(T \ {x}) \ {c}]
      BY <3>2
    <3>. QED
      BY <2>1, <2>2, <3>1, <3>3, <3>4
  <2>. QED
    BY <2>1, <2>2, <2>3
<1>5. \A T \in SUBSET S : T \in G
  <2>. HIDE DEF G
  <2>. QED
    BY <1>2, <1>4, SetInduction
<1>. QED
  BY <1>6, <1>5

LEMMA SumSplit ==
  ASSUME NEW w, NEW S, IsFiniteSet(S), Weighs(w, S), NEW f, Sums(f, w, S),
         NEW A \in SUBSET S
  PROVE  f[S] = f[S \cap A] + f[S \ A]
<1>. DEFINE G == {T \in SUBSET S : f[T] = f[T \cap A] + f[T \ A]}
<1>1. \A T \in SUBSET S : /\ f[T] \in Nat
                          /\ T = {} => f[T] = 0
                          /\ \A x \in T : f[T] = w[x] + f[T \ {x}]
  BY SumAnyOrder
<1>0. \A T \in SUBSET S : /\ T \cap A \in SUBSET S /\ T \ A \in SUBSET S
                          /\ \A x \in T : x \in S /\ T \ {x} \in SUBSET S
  OBVIOUS
<1>2. {} \in G
  <2>1. {} \cap A = {} /\ {} \ A = {} /\ {} \in SUBSET S
    OBVIOUS
  <2>. QED
    BY <1>1, <2>1
<1>3. ASSUME NEW T \in SUBSET S, T # {}, \A x \in T : T \ {x} \in G
      PROVE  T \in G
  <2>1. PICK x \in T : TRUE
    BY <1>3
  <2>2. f[T] = w[x] + (f[(T \ {x}) \cap A] + f[(T \ {x}) \ A])
    <3>1. f[T] = w[x] + f[T \ {x}] /\ T \ {x} \in G
      BY <1>1, <1>3
    <3>. QED
      BY <3>1
  <2>3. /\ f[T \cap A] \in Nat /\ f[T \ A] \in Nat /\ w[x] \in Nat
        /\ f[(T \ {x}) \cap A] \in Nat /\ f[(T \ {x}) \ A] \in Nat
    BY <1>0, <1>1 DEF Weighs
  <2>4. CASE x \in A
    <3>1. (T \cap A) \ {x} = (T \ {x}) \cap A /\ (T \ {x}) \ A = T \ A
      BY <2>4
    <3>2. f[T \cap A] = w[x] + f[(T \cap A) \ {x}]
      BY <1>0, <1>1, <2>4
    <3>3. f[T \cap A] = w[x] + f[(T \ {x}) \cap A] /\ f[T \ A] = f[(T \ {x}) \ A]
      BY <3>1, <3>2
    <3>. QED
      BY <2>2, <2>3, <3>3
  <2>5. CASE x \notin A
    <3>1. (T \ A) \ {x} = (T \ {x}) \ A /\ (T \ {x}) \cap A = T \cap A
      BY <2>5
    <3>2. f[T \ A] = w[x] + f[(T \ A) \ {x}]
      BY <1>0, <1>1, <2>5
    <3>3. f[T \ A] = w[x] + f[(T \ {x}) \ A] /\ f[T \cap A] = f[(T \ {x}) \cap A]
      BY <3>1, <3>2
    <3>. QED
      BY <2>2, <2>3, <3>3
  <2>. QED
    BY <2>4, <2>5
<1>4. \A T \in SUBSET S : T \in G
  <2>. HIDE DEF G
  <2>. QED
    BY <1>2, <1>3, SetInduction
<1>. QED
  BY <1>4

(* WeightOf is what such a fold gives.                                       *)
LEMMA WeightIsSum ==
  ASSUME NEW w, NEW T, NEW s, \A r \in T : w[r] = Weight(r, s),
         NEW f, Sums(f, w, T), \A g : Sums(g, w, T) => g = f
  PROVE  WeightOf(T, s) = f[T]
<1>. DEFINE Step(g) == [U \in SUBSET T |-> IF U = {} THEN 0 ELSE Weight(First(U), s) + g[U \ {First(U)}]]
<1>1. ASSUME NEW g PROVE Sums(g, w, T) <=> g = Step(g)
  <2>1. \A U \in SUBSET T : U # {} => w[First(U)] = Weight(First(U), s)
    BY FirstIn
  <2>2. [U \in SUBSET T |-> IF U = {} THEN 0 ELSE w[First(U)] + g[U \ {First(U)}]] = Step(g)
    BY <2>1
  <2>. QED
    BY <2>2 DEF Sums
<1>2. WeightOf(T, s) = (CHOOSE g : g = Step(g))[T]
  BY DEF WeightOf, MapThenSumSet, MapThenFoldSet, First
<1>3. (CHOOSE g : g = Step(g)) = f
  <2>. HIDE DEF Step
  <2>. QED
    BY <1>1
<1>. QED
  BY <1>2, <1>3

LEMMA SumsUnique ==
  ASSUME NEW w, NEW S, IsFiniteSet(S), NEW f, NEW g, Sums(f, w, S), Sums(g, w, S)
  PROVE  g = f
<1>1. \A U \in SUBSET S : f[U] = g[U]
  BY SumsAgree
<1>2. /\ f = [T \in SUBSET S |-> f[T]]
      /\ g = [T \in SUBSET S |-> g[T]]
  BY DEF Sums
<1>. QED
  BY <1>1, <1>2

(* The weights of rows and of their complement among rows add up.           *)
LEMMA WeightSplits ==
  ASSUME NEW rows, IsFiniteSet(rows), NEW s, \A r \in rows : Weight(r, s) \in Nat
  PROVE  /\ WeightOf({}, s) = 0
         /\ \A A \in SUBSET rows :
              /\ WeightOf(A, s) \in Nat
              /\ WeightOf(rows, s) = WeightOf(A, s) + WeightOf(rows \ A, s)
<1>. DEFINE w == [r \in rows |-> Weight(r, s)]
<1>1. \A r \in rows : w[r] = Weight(r, s)
  OBVIOUS
<1>2. Weighs(w, rows)
  BY DEF Weighs
<1>. HIDE DEF w
<1>3. PICK f : Sums(f, w, rows)
  BY SumsExist
<1>4. ASSUME NEW A \in SUBSET rows PROVE WeightOf(A, s) = f[A]
  <2>1. IsFiniteSet(A)
    BY FS_Subset
  <2>2. PICK g : Sums(g, w, A)
    BY <2>1, SumsExist
  <2>3. \A h : Sums(h, w, A) => h = g
    BY <2>1, <2>2, SumsUnique
  <2>4. \A r \in A : w[r] = Weight(r, s)
    BY <1>1
  <2>5. WeightOf(A, s) = g[A]
    BY <2>2, <2>3, <2>4, WeightIsSum
  <2>6. g[A] = f[A]
    BY <1>3, <2>1, <2>2, SumsAgree
  <2>. QED
    BY <2>5, <2>6
<1>5. \A T \in SUBSET rows : f[T] \in Nat /\ (T = {} => f[T] = 0)
  BY <1>2, <1>3, SumAnyOrder
<1>6. ASSUME NEW A \in SUBSET rows
      PROVE  f[rows] = f[A] + f[rows \ A]
  <2>1. f[rows] = f[rows \cap A] + f[rows \ A]
    BY <1>2, <1>3, SumSplit
  <2>2. rows \cap A = A
    OBVIOUS
  <2>. QED
    BY <2>1, <2>2
<1>. QED
  BY <1>4, <1>5, <1>6

-----------------------------------------------------------------------------
(* The weighted median.                                                      *)

LEMMA MinOfNats ==
  ASSUME NEW S, S \subseteq Nat, S # {}
  PROVE  Min(S) \in S /\ \A y \in S : Min(S) <= y
<1>. DEFINE R == {ss \in Nat \X Nat : ss[1] < ss[2]}
<1>1. IsWellFoundedOn(R, Nat)
  BY NatLessThanWellFounded DEF OpToRel
<1>2. PICK x \in S : \A y \in S : ~(<<y, x>> \in R)
  <2>. HIDE DEF R
  <2>. QED
    BY <1>1, WFMin
<1>3. \A y \in S : x <= y
  <2>1. \A y \in S : y \in Nat /\ x \in Nat /\ ~(y < x)
    BY <1>2
  <2>. QED
    BY <2>1
<1>. QED
  BY <1>3 DEF Min

(* Of some reports one has the highest price.                                *)
LEMMA Dearest ==
  ASSUME NEW S, IsFiniteSet(S), \A r \in S : report[r].price \in Nat, S # {}
  PROVE  \E r \in S : \A q \in S : report[q].price <= report[r].price
<1>. DEFINE G == {T \in SUBSET S : T # {} => \E r \in T : \A q \in T : report[q].price <= report[r].price}
<1>1. {} \in G
  OBVIOUS
<1>2. ASSUME NEW T \in SUBSET S, T # {}, \A x \in T : T \ {x} \in G
      PROVE  T \in G
  <2>1. PICK x \in T : TRUE
    BY <1>2
  <2>2. CASE T \ {x} = {}
    BY <2>2
  <2>3. CASE T \ {x} # {}
    <3>1. PICK r \in T \ {x} : \A q \in T \ {x} : report[q].price <= report[r].price
      BY <1>2, <2>3
    <3>2. \A q \in T : report[q].price \in Nat
      OBVIOUS
    <3>3. CASE report[x].price <= report[r].price
      BY <3>1, <3>3
    <3>4. CASE report[r].price <= report[x].price
      <4>1. \A q \in T : report[q].price <= report[x].price
        BY <3>1, <3>2, <3>4
      <4>. QED
        BY <4>1
    <3>. QED
      BY <3>2, <3>3, <3>4
  <2>. QED
    BY <2>2, <2>3
<1>3. \A T \in SUBSET S : T \in G
  <2>. HIDE DEF G
  <2>. QED
    BY <1>1, <1>2, SetInduction
<1>. QED
  BY <1>3

(* What ValuesSplitWeight says of one value.                                 *)
Splits(rows, s, m) ==
  /\ 2 * WeightOf({r \in rows : report[r].price < m}, s) <= WeightOf(rows, s)
  /\ 2 * WeightOf({r \in rows : report[r].price > m}, s) <= WeightOf(rows, s)

(* The median is the price of one of the reports, and splits their weight.   *)
LEMMA MedianSplits ==
  ASSUME NEW rows, IsFiniteSet(rows), rows # {}, NEW s,
         \A r \in rows : Weight(r, s) \in Nat,
         \A r \in rows : report[r].price \in Nat
  PROVE  /\ \E r \in rows : WeightedMedian(rows, s) = report[r].price
         /\ Splits(rows, s, WeightedMedian(rows, s))
<1>. DEFINE upto(v) == {r \in rows : report[r].price <= v}
            all == WeightOf(rows, s)
            reached == {v \in {report[r].price : r \in rows} : 2 * WeightOf(upto(v), s) >= all}
            m == WeightedMedian(rows, s)
            cheaper == {r \in rows : report[r].price < m}
            dearer == {r \in rows : report[r].price > m}
<1>1. /\ WeightOf({}, s) = 0
      /\ \A A \in SUBSET rows : /\ WeightOf(A, s) \in Nat
                                /\ all = WeightOf(A, s) + WeightOf(rows \ A, s)
  BY WeightSplits
<1>2. all \in Nat
  BY <1>1
<1>3. reached # {}
  <2>1. PICK r \in rows : \A q \in rows : report[q].price <= report[r].price
    BY Dearest
  <2>2. upto(report[r].price) = rows
    BY <2>1
  <2>3. 2 * WeightOf(rows, s) >= all
    BY <1>2
  <2>4. report[r].price \in reached
    BY <2>2, <2>3
  <2>. QED
    BY <2>4
<1>4. m \in reached /\ \A v \in reached : m <= v
  <2>1. reached \subseteq Nat
    OBVIOUS
  <2>2. m = Min(reached)
    BY DEF WeightedMedian
  <2>. HIDE DEF reached, m
  <2>. QED
    BY <1>3, <2>1, <2>2, MinOfNats
<1>5. \E r \in rows : m = report[r].price
  <2>. HIDE DEF m
  <2>. QED
    BY <1>4
<1>6. m \in Nat
  <2>. HIDE DEF m
  <2>. QED
    BY <1>5
<1>7. 2 * WeightOf(dearer, s) <= all
  <2>1. upto(m) \in SUBSET rows /\ rows \ upto(m) = dearer
    <3>. HIDE DEF m
    <3>. QED
      BY <1>6
  <2>2. 2 * WeightOf(upto(m), s) >= all
    BY <1>4
  <2>3. WeightOf(upto(m), s) \in Nat /\ WeightOf(dearer, s) \in Nat
        /\ all = WeightOf(upto(m), s) + WeightOf(dearer, s)
    <3>1. dearer \in SUBSET rows
      OBVIOUS
    <3>. HIDE DEF upto, dearer, all
    <3>. QED
      BY <1>1, <2>1, <3>1
  <2>. HIDE DEF upto, dearer, all
  <2>. QED
    BY <2>2, <2>3
<1>8. 2 * WeightOf(cheaper, s) <= all
  <2>1. CASE cheaper = {}
    <3>. HIDE DEF cheaper, all
    <3>. QED
      BY <1>1, <1>2, <2>1
  <2>2. CASE cheaper # {}
    <3>1. cheaper \in SUBSET rows /\ IsFiniteSet(cheaper)
          /\ \A r \in cheaper : report[r].price \in Nat /\ report[r].price < m
      <4>1. cheaper \in SUBSET rows
        OBVIOUS
      <4>2. IsFiniteSet(cheaper)
        <5>. HIDE DEF cheaper
        <5>. QED
          BY <4>1, FS_Subset
      <4>. QED
        BY <4>1, <4>2
    <3>2. PICK p \in cheaper : \A q \in cheaper : report[q].price <= report[p].price
      <4>. HIDE DEF cheaper
      <4>. QED
        BY <2>2, <3>1, Dearest
    <3>3. upto(report[p].price) = cheaper
      <4>. HIDE DEF m
      <4>. QED
        BY <1>6, <3>1, <3>2
    <3>4. report[p].price \notin reached
      <4>. HIDE DEF m, reached
      <4>. QED
        BY <1>4, <1>6, <3>1
    <3>5. ~(2 * WeightOf(cheaper, s) >= all)
      <4>1. p \in rows
        BY <3>1
      <4>2. ~(2 * WeightOf(upto(report[p].price), s) >= all)
        <5>. HIDE DEF upto, all
        <5>. QED
          BY <3>4, <4>1
      <4>. HIDE DEF upto, all, cheaper
      <4>. QED
        BY <3>3, <4>2
    <3>6. WeightOf(cheaper, s) \in Nat
      <4>. HIDE DEF cheaper
      <4>. QED
        BY <1>1, <3>1
    <3>. HIDE DEF cheaper, all
    <3>. QED
      BY <1>2, <3>5, <3>6
  <2>. QED
    BY <2>1, <2>2
<1>. QED
  BY <1>5, <1>7, <1>8 DEF Splits

-----------------------------------------------------------------------------
(* Types and what a value says.                                              *)

Sound(v) ==
  /\ v \in IndexValue
  /\ v.value # None => /\ Cardinality(v.counted) >= Threshold
                       /\ Splits(v.counted, v.trigger, v.value)

Typed ==
  /\ TypeOK
  /\ \A w \in Workers : req[w].at # "idle" => req[w].start \in 1..MaxStarts
  /\ \A v \in index : Sound(v)
  /\ \A w \in Workers : \A v \in req[w].rows : Sound(v)

(* A report of the window weighs at least half of what its source does.     *)
LEMMA WeightIsNat ==
  ASSUME report \in [Reports -> Report], NEW s \in Reports, NEW r \in Reports, InWindow(r, s)
  PROVE  Weight(r, s) \in Nat
<1>. DEFINE a == SourceWeight[report[r].source]
            b == Window + report[r].at - (report[s].at - Window)
<1>1. report[r] \in Report /\ report[s] \in Report
  OBVIOUS
<1>2. a \in Nat
  BY <1>1, NumbersAssumption DEF Report
<1>3. report[r].at \in Nat /\ report[s].at \in Nat /\ Window \in Nat
  BY <1>1, NumbersAssumption DEF Report
<1>4. b \in Nat
  BY <1>3 DEF InWindow
<1>5. a * b \in Nat
  <2>. HIDE DEF a, b
  <2>. QED
    BY <1>2, <1>4
<1>. QED
  BY <1>5 DEF Weight

(* What is computed is well typed, and its value splits what it counted.    *)
LEMMA RecomputedSound ==
  ASSUME Typed, NEW s \in Reports, NEW own \in SUBSET Reports, NEW start \in 1..MaxStarts
  PROVE  \A v \in Recomputed(s, own, start) : Sound(v)
<1>. DEFINE C == Counted(s, own)
            m == WeightedMedian(C, s)
<1>1. /\ report \in [Reports -> Report] /\ method \in 1..MaxMethods
      /\ \A r \in Reports : report[r].price \in Prices
  BY BatchAssumption DEF Typed, TypeOK, Report
<1>2. C \in SUBSET Reports /\ \A r \in C : InWindow(r, s)
  BY DEF Counted
<1>3. IsFiniteSet(C) /\ Cardinality(C) \in Nat
  BY <1>2, ReportsAssumption, FS_Subset, FS_CardinalityType
<1>4. \A r \in C : Weight(r, s) \in Nat /\ report[r].price \in Nat
  BY <1>1, <1>2, WeightIsNat, NumbersAssumption
<1>5. CASE Cardinality(C) >= Threshold
  <2>1. C # {}
    <3>1. C = {} => Cardinality(C) = 0
      BY FS_EmptySet
    <3>. HIDE DEF C
    <3>. QED
      BY <1>5, <3>1, NumbersAssumption
  <2>2. (\E r \in C : m = report[r].price) /\ Splits(C, s, m)
    <3>. HIDE DEF C
    <3>. QED
      BY <1>3, <1>4, <2>1, MedianSplits
  <2>3. Value(C, s) = m
    <3>. HIDE DEF C
    <3>. QED
      BY <1>3, <1>5, NumbersAssumption DEF Value
  <2>4. m \in Prices
    <3>. HIDE DEF C, m
    <3>. QED
      BY <1>1, <1>2, <2>2
  <2>5. ASSUME NEW v \in Recomputed(s, own, start) PROVE Sound(v)
    <3>1. v = [trigger |-> s, method |-> method, counted |-> C, value |-> m, computed |-> start]
      <4>. HIDE DEF m, C
      <4>1. v = [trigger |-> s, method |-> method, counted |-> Counted(s, own),
                 value |-> Value(Counted(s, own), s), computed |-> start]
        BY DEF Recomputed
      <4>. QED
        BY <2>3, <4>1 DEF C
    <3>2. v \in IndexValue
      <4>. HIDE DEF m, C
      <4>. QED
        BY <1>1, <1>2, <2>4, <3>1 DEF IndexValue
    <3>. HIDE DEF m, C
    <3>. QED
      BY <1>5, <2>2, <3>1, <3>2 DEF Sound
  <2>. QED
    BY <2>5
<1>6. CASE ~(Cardinality(C) >= Threshold)
  <2>1. Value(C, s) = None
    <3>. HIDE DEF C
    <3>. QED
      BY <1>3, <1>6, NumbersAssumption DEF Value
  <2>2. ASSUME NEW v \in Recomputed(s, own, start) PROVE Sound(v)
    <3>1. v = [trigger |-> s, method |-> method, counted |-> C, value |-> None, computed |-> start]
      <4>. HIDE DEF C
      <4>1. v = [trigger |-> s, method |-> method, counted |-> Counted(s, own),
                 value |-> Value(Counted(s, own), s), computed |-> start]
        BY DEF Recomputed
      <4>. QED
        BY <2>1, <4>1 DEF C
    <3>2. v \in IndexValue
      <4>. HIDE DEF C
      <4>. QED
        BY <1>1, <1>2, <3>1 DEF IndexValue
    <3>. HIDE DEF C
    <3>. QED
      BY <3>1, <3>2 DEF Sound
  <2>. QED
    BY <2>2
<1>. QED
  BY <1>5, <1>6

LEMMA InitTyped == Init => Typed
<1>. SUFFICES ASSUME Init PROVE Typed
  OBVIOUS
<1>1. Idle \in Request
  BY NumbersAssumption DEF Idle, Request
<1>2. TypeOK
  BY <1>1, NumbersAssumption DEF Init, TypeOK, Outcomes
<1>. QED
  BY <1>2 DEF Init, Typed, Idle

(* The sort of request r that worker w may have next.                       *)
Fits(r) ==
  /\ r \in Request
  /\ r.at # "idle" => r.start \in 1..MaxStarts
  /\ \A v \in r.rows : Sound(v)

LEMMA IdleFits == Fits(Idle)
BY NumbersAssumption DEF Idle, Request, Fits

(* Weights are about the reports only, which no step changes.               *)
LEMMA WeightsStay ==
  ASSUME report' = report, NEW rows, NEW s
  PROVE  WeightOf(rows, s)' = WeightOf(rows, s)
<1>1. \A r, u : Weight(r, u)' = Weight(r, u)
  BY DEF Weight
<1>. DEFINE Step(g) == [U \in SUBSET rows |->
                          IF U = {} THEN 0 ELSE Weight(First(U), s) + g[U \ {First(U)}]]
<1>2. WeightOf(rows, s) = (CHOOSE g : g = Step(g))[rows]
  BY DEF WeightOf, MapThenSumSet, MapThenFoldSet, First
<1>3. WeightOf(rows, s)' = (CHOOSE g : g = Step(g)')[rows]
  BY DEF WeightOf, MapThenSumSet, MapThenFoldSet, First
<1>4. \A g : Step(g)' = Step(g)
  BY <1>1
<1>5. (CHOOSE g : g = Step(g)') = (CHOOSE g : g = Step(g))
  <2>. HIDE DEF Step
  <2>. QED
    BY <1>4
<1>. QED
  BY <1>2, <1>3, <1>5

LEMMA TypedStep ==
  ASSUME Typed, NEW w \in Workers, NEW r, Fits(r), Becomes(w, r), report' = report,
         outcome' \in [Reports -> Outcomes],
         \A v \in index' \ index : Sound(v),
         method' \in 1..MaxMethods, started' \in 0..MaxStarts, contested' \subseteq Reports
  PROVE  Typed'
<1>1. /\ req' \in [Workers -> Request] /\ req'[w] = r
      /\ \A v \in Workers : v # w => req'[v] = req[v]
  BY DEF Typed, TypeOK, Becomes, Fits
<1>2. \A v : Sound(v)' <=> Sound(v)
  <2>1. \A rows, s : WeightOf(rows, s)' = WeightOf(rows, s)
    BY WeightsStay
  <2>. QED
    BY <2>1 DEF Sound, Splits
<1>3. \A v \in index' : Sound(v)
  BY DEF Typed
<1>4. TypeOK'
  <2>1. index' \subseteq IndexValue
    BY <1>3 DEF Sound
  <2>. QED
    BY <1>1, <2>1 DEF Typed, TypeOK
<1>5. \A v \in Workers : /\ req'[v].at # "idle" => req'[v].start \in 1..MaxStarts
                         /\ \A u \in req'[v].rows : Sound(u)
  BY <1>1 DEF Typed, Fits
<1>. QED
  BY <1>2, <1>3, <1>4, <1>5 DEF Typed

LEMMA RequestFits ==
  ASSUME Typed, NEW w \in Workers
  PROVE  /\ Fits(req[w])
         /\ req[w].verdict \in {"accepted", "flagged"} /\ req[w].report \in Reports \union {None}
         /\ req[w].start \in 0..MaxStarts /\ req[w].rows \in SUBSET IndexValue
         /\ req[w].left \in SUBSET Reports
BY DEF Typed, TypeOK, Fits, Request

(* What the request of a worker may become, and still fit.                  *)
LEMMA MovesFit ==
  ASSUME Typed, NEW w \in Workers, req[w].at # "idle"
  PROVE  /\ Fits([req[w] EXCEPT !.at = "locked"])
         /\ \A rows : (\A v \in rows : Sound(v)) => Fits([req[w] EXCEPT !.at = "computed", !.rows = rows])
         /\ \A rows, left : (\A v \in rows : Sound(v)) /\ left \in SUBSET Reports =>
              Fits([req[w] EXCEPT !.left = left, !.rows = rows])
<1>. DEFINE q == req[w]
<1>1. /\ q \in Request /\ q.start \in 1..MaxStarts /\ \A v \in q.rows : Sound(v)
  BY RequestFits DEF Fits
<1>2. \A rows : (\A v \in rows : Sound(v)) => rows \in SUBSET IndexValue
  BY DEF Sound
<1>. HIDE DEF q
<1>3. Fits([q EXCEPT !.at = "locked"])
  BY <1>1 DEF Fits, Request
<1>4. ASSUME NEW rows, \A v \in rows : Sound(v)
      PROVE  Fits([q EXCEPT !.at = "computed", !.rows = rows])
  <2>1. rows \in SUBSET IndexValue
    BY <1>2, <1>4
  <2>2. [q EXCEPT !.at = "computed", !.rows = rows] \in Request
    BY <1>1, <2>1 DEF Request
  <2>3. /\ [q EXCEPT !.at = "computed", !.rows = rows].start = q.start
        /\ [q EXCEPT !.at = "computed", !.rows = rows].rows = rows
    BY <1>1 DEF Request
  <2>. QED
    BY <1>1, <1>4, <2>2, <2>3 DEF Fits
<1>5. ASSUME NEW rows, NEW left \in SUBSET Reports, \A v \in rows : Sound(v)
      PROVE  Fits([q EXCEPT !.left = left, !.rows = rows])
  <2>1. rows \in SUBSET IndexValue
    BY <1>2, <1>5
  <2>2. [q EXCEPT !.left = left, !.rows = rows] \in Request
    BY <1>1, <2>1 DEF Request
  <2>3. /\ [q EXCEPT !.left = left, !.rows = rows].start = q.start
        /\ [q EXCEPT !.left = left, !.rows = rows].rows = rows
    BY <1>1 DEF Request
  <2>. QED
    BY <1>1, <1>5, <2>2, <2>3 DEF Fits
<1>. QED
  BY <1>3, <1>4, <1>5 DEF q

LEMMA NextTyped == IInv /\ Typed /\ [Next]_vars => Typed'
<1>. SUFFICES ASSUME IInv, Typed, [Next]_vars PROVE Typed'
  OBVIOUS
<1>0. /\ outcome \in [Reports -> Outcomes] /\ method \in 1..MaxMethods
      /\ started \in 0..MaxStarts /\ contested \subseteq Reports
      /\ \A v \in index \ index : Sound(v)
  BY DEF Typed, TypeOK
<1>1. ASSUME NEW w \in Workers, NEW s \in Reports, NEW verdict \in {"accepted", "flagged"},
             BeginReview(w, s, verdict)
      PROVE  Typed'
  <2>. DEFINE r == [Idle EXCEPT !.at = "review", !.verdict = verdict, !.report = s,
                                !.start = started + 1]
  <2>1. started' = started + 1 /\ started' \in 0..MaxStarts /\ started + 1 \in 1..MaxStarts
    BY <1>0, <1>1, NumbersAssumption DEF BeginReview, Starts
  <2>2. Fits(r)
    BY <2>1 DEF Fits, Request, Idle
  <2>3. /\ Becomes(w, r) /\ report' = report /\ outcome' = outcome /\ index' = index
        /\ method' = method /\ contested' = contested
    BY <1>1 DEF BeginReview
  <2>. HIDE DEF r
  <2>. QED
    BY <1>0, <2>1, <2>2, <2>3, TypedStep
<1>2. ASSUME NEW w \in Workers, BeginRebuild(w)
      PROVE  Typed'
  <2>. DEFINE r == [Idle EXCEPT !.at = "rebuild", !.start = started + 1,
                                !.left = {s \in Reports : outcome[s] = "accepted"}]
  <2>1. started' = started + 1 /\ started' \in 0..MaxStarts /\ started + 1 \in 1..MaxStarts
    BY <1>0, <1>2, NumbersAssumption DEF BeginRebuild, Starts
  <2>2. Fits(r)
    BY <2>1 DEF Fits, Request, Idle
  <2>3. /\ Becomes(w, r) /\ report' = report /\ outcome' = outcome /\ index' = index
        /\ method' = method /\ contested' = contested
    BY <1>2 DEF BeginRebuild
  <2>. HIDE DEF r
  <2>. QED
    BY <1>0, <2>1, <2>2, <2>3, TypedStep
<1>3. ASSUME NEW w \in Workers, Lock(w)
      PROVE  Typed'
  <2>1. Fits([req[w] EXCEPT !.at = "locked"])
    BY <1>3, MovesFit DEF Lock
  <2>2. /\ Becomes(w, [req[w] EXCEPT !.at = "locked"])
        /\ UNCHANGED <<report, outcome, index, method, started, contested>>
    BY <1>3 DEF Lock
  <2>. QED
    BY <1>0, <2>1, <2>2, TypedStep
<1>4. ASSUME NEW w \in Workers, Compute(w)
      PROVE  Typed'
  <2>. DEFINE rows == Recomputed(req[w].report, {req[w].report}, req[w].start)
  <2>1. req[w].report \in Reports /\ req[w].start \in 1..MaxStarts /\ req[w].at # "idle"
    <3>1. Formed(req[w]) /\ req[w].at = "locked"
      BY <1>4 DEF IInv, Shape, Compute
    <3>. QED
      BY <3>1, RequestFits DEF Formed, Fits
  <2>2. \A v \in rows : Sound(v)
    BY <2>1, RecomputedSound
  <2>3. /\ Becomes(w, [req[w] EXCEPT !.at = "computed", !.rows = rows])
        /\ UNCHANGED <<report, outcome, index, method, started, contested>>
    BY <1>4 DEF Compute
  <2>. HIDE DEF rows
  <2>4. Fits([req[w] EXCEPT !.at = "computed", !.rows = rows])
    BY <2>1, <2>2, MovesFit
  <2>. QED
    BY <1>0, <2>3, <2>4, TypedStep
<1>5. ASSUME NEW w \in Workers, RebuildNext(w)
      PROVE  Typed'
  <2>1. PICK s \in req[w].left :
          Becomes(w, [req[w] EXCEPT !.left = @ \ {s},
                                    !.rows = @ \union Recomputed(s, {}, req[w].start)])
    BY <1>5 DEF RebuildNext
  <2>. DEFINE rows == req[w].rows \union Recomputed(s, {}, req[w].start)
              left == req[w].left \ {s}
  <2>2. /\ req[w].at # "idle"
        /\ UNCHANGED <<report, outcome, index, method, started, contested>>
    BY <1>5 DEF RebuildNext
  <2>3. s \in Reports /\ req[w].start \in 1..MaxStarts /\ left \in SUBSET Reports
        /\ \A v \in req[w].rows : Sound(v)
    BY <2>2, RequestFits DEF Fits
  <2>4. \A v \in Recomputed(s, {}, req[w].start) : Sound(v)
    BY <2>3, RecomputedSound
  <2>5. \A v \in rows : Sound(v)
    BY <2>3, <2>4
  <2>6. Becomes(w, [req[w] EXCEPT !.left = left, !.rows = rows])
    BY <2>1
  <2>. HIDE DEF rows, left
  <2>7. Fits([req[w] EXCEPT !.left = left, !.rows = rows])
    BY <2>2, <2>3, <2>5, MovesFit
  <2>. QED
    BY <1>0, <2>2, <2>6, <2>7, TypedStep
<1>6. ASSUME NEW w \in Workers, CommitAccept(w) \/ CommitFlag(w)
      PROVE  Typed'
  <2>1. /\ Decide(w) /\ Becomes(w, Idle)
        /\ UNCHANGED <<report, method, started>>
        /\ index' = index \/ index' = index \union req[w].rows
        /\ req[w].at \in {"locked", "computed"}
    BY <1>6 DEF CommitAccept, CommitFlag
  <2>2. req[w].report \in Reports /\ req[w].verdict \in Outcomes
    <3>1. Formed(req[w])
      BY DEF IInv, Shape
    <3>. QED
      BY <2>1, <3>1 DEF Formed, Outcomes
  <2>3. outcome' \in [Reports -> Outcomes] /\ contested' \subseteq Reports
    BY <1>0, <2>1, <2>2 DEF Decide
  <2>4. \A v \in index' \ index : Sound(v)
    BY <2>1, RequestFits DEF Fits
  <2>. QED
    BY <1>0, <2>1, <2>3, <2>4, IdleFits, TypedStep
<1>7. ASSUME NEW w \in Workers, CommitRebuild(w)
      PROVE  Typed'
  <2>1. /\ Becomes(w, Idle) /\ index' = index \union req[w].rows
        /\ UNCHANGED <<report, outcome, method, started, contested>>
    BY <1>7 DEF CommitRebuild
  <2>2. \A v \in index' \ index : Sound(v)
    BY <2>1, RequestFits DEF Fits
  <2>. QED
    BY <1>0, <2>1, <2>2, IdleFits, TypedStep
<1>8. ASSUME NEW w \in Workers, Abort(w)
      PROVE  Typed'
  <2>1. /\ Becomes(w, Idle)
        /\ UNCHANGED <<report, outcome, index, method, started, contested>>
    BY <1>8 DEF Abort
  <2>. QED
    BY <1>0, <2>1, IdleFits, TypedStep
<1>9. CASE UNCHANGED <<report, outcome, index, started, req, contested>>
           /\ method' \in 1..MaxMethods
  <2>1. \A v : Sound(v)' <=> Sound(v)
    <3>1. \A rows, s : WeightOf(rows, s)' = WeightOf(rows, s)
      BY <1>9, WeightsStay
    <3>. QED
      BY <1>9, <3>1 DEF Sound, Splits
  <2>2. TypeOK'
    BY <1>9 DEF Typed, TypeOK
  <2>. QED
    BY <1>9, <2>1, <2>2 DEF Typed
<1>10. CASE NewMethod
  BY <1>0, <1>9, <1>10, NumbersAssumption DEF NewMethod
<1>11. CASE UNCHANGED vars
  BY <1>0, <1>9, <1>11 DEF vars
<1>. QED
  BY <1>1, <1>2, <1>3, <1>4, <1>5, <1>6, <1>7, <1>8, <1>10, <1>11 DEF Next

LEMMA AlwaysTyped == Spec => []Typed
<1>. QED
  BY InitTyped, NextTyped, Inductive, PTL DEF Spec

(* Requests, values and the clock keep their types: a value is a price of a *)
(* report or none, and was computed by a transaction that started.          *)
THEOREM TypeCorrect == Spec => []TypeOK
<1>1. Typed => TypeOK
  BY DEF Typed
<1>. QED
  BY <1>1, AlwaysTyped, PTL

(* The published value is a weighted median, whatever the weights of the    *)
(* sources and the window are: neither the cheaper nor the dearer reports   *)
(* have more than half of the weight of those counted.                      *)
THEOREM ValuesAreMedians == Spec => []ValuesSplitWeight
<1>1. Typed => ValuesSplitWeight
  BY DEF Typed, Sound, Splits, ValuesSplitWeight
<1>. QED
  BY <1>1, AlwaysTyped, PTL
=============================================================================
