----------------------------- MODULE AgentScore -----------------------------
(***************************************************************************)
(* Market agents, the prices they report, the reviews of those prices and  *)
(* the score the agents earn: app/services/{submissions,reviews,           *)
(* agent_score}.py over the tables contributors, submissions,              *)
(* submission_verifications, agent_score_events and agent_redeem_requests. *)
(*                                                                         *)
(* Every handler reads the contributor row with a plain SELECT and writes  *)
(* it when its transaction commits; between the two, other requests may    *)
(* commit (PostgreSQL READ COMMITTED, no SELECT ... FOR UPDATE on this     *)
(* table).  A request is therefore two actions: one that reads and checks, *)
(* one that commits.  The ORM writes back, as absolute values, only the    *)
(* columns the request changed in the copy it read: see Merge.             *)
(*                                                                         *)
(* The index value an acceptance publishes is represented by its existence *)
(* only; agents enrol in AgentOnboarding, not here: every agent of Agents  *)
(* already has is_agent set, which no code resets.                         *)
(***************************************************************************)
EXTENDS Integers, FiniteSets

CONSTANTS
  Agents,         \* contributors with is_agent
  ClientIds,      \* client_submission_id values the bot may send
  Workers,        \* request slots: how many requests may be in flight
  NoClient,       \* stands for the submission of a request that has none
  PointsPending,  \* POINTS_PENDING
  PointsAccept,   \* POINTS_ACCEPT
  PointsFlag,     \* POINTS_FLAG (negative)
  BanFlagLimit,   \* BAN_FLAG_LIMIT
  RedeemMin,      \* redeem_min_points of the active reward settings
  MaxHooks        \* bound: calls of the bare /pending hook, per agent

ASSUME PointsAssumption ==
  /\ PointsPending \in Nat /\ PointsAccept \in Nat /\ PointsFlag \in Int
  /\ PointsPending <= PointsAccept /\ PointsFlag <= 0
ASSUME LimitsAssumption ==
  BanFlagLimit \in Nat /\ RedeemMin \in Nat \ {0} /\ MaxHooks \in Nat
ASSUME ClientIdsAssumption == IsFiniteSet(ClientIds) /\ NoClient \notin ClientIds

VARIABLES
  agent,      \* contributors: the row of each agent
  consented,  \* contributor_consents: agents with the consent row
  verdict,    \* submission_verifications.outcome; NONE: no such submission
  indexed,    \* submissions whose acceptance has an index_values row
  ledger,     \* agent_score_events: tallies and sums of each agent's events
  inflight,   \* requests between their read and their commit
  raced       \* history: agents on which some commit used a stale row

vars == <<agent, consented, verdict, indexed, ledger, inflight, raced>>

Subs == Agents \X ClientIds
SubsOf(a) == {a} \X ClientIds
WithVerdict(a, v) == {s \in SubsOf(a) : verdict[s] = v}

Row == [score: Int, pending: Nat, accepted: Nat, flagged: Nat,
        redeemed: Int, banned: BOOLEAN]

\* earned, penalty and redeemed are the sums of points_delta over the rows of
\* agent_score_events with a positive delta, of type FLAGGED, of type REDEEM;
\* submits and hooks both count PENDING_SUBMIT rows, by who wrote them.
Ledger == [submits: Nat, hooks: Nat, accepts: Nat, flags: Nat, bans: Nat,
           earned: Nat, penalty: Nat, redeemed: Int]

Request == [id: Workers,
            op: {"submit", "hook", "accept", "flag", "redeem", "approve"},
            agent: Agents, client: ClientIds \union {NoClient},
            row: Row, consent: BOOLEAN]

TypeOK ==
  /\ agent \in [Agents -> Row]
  /\ consented \subseteq Agents
  /\ verdict \in [Subs -> {"NONE", "PENDING", "ACCEPTED", "FLAGGED"}]
  /\ indexed \subseteq Subs
  /\ ledger \in [Agents -> Ledger]
  /\ inflight \subseteq Request
  /\ raced \subseteq Agents

Init ==
  /\ agent = [a \in Agents |-> [score |-> 0, pending |-> 0, accepted |-> 0,
                                flagged |-> 0, redeemed |-> 0, banned |-> FALSE]]
  /\ consented = {}
  /\ verdict = [s \in Subs |-> "NONE"]
  /\ indexed = {}
  /\ ledger = [a \in Agents |-> [submits |-> 0, hooks |-> 0, accepts |-> 0,
                                 flags |-> 0, bans |-> 0, earned |-> 0,
                                 penalty |-> 0, redeemed |-> 0]]
  /\ inflight = {}
  /\ raced = {}

-----------------------------------------------------------------------------
(* What the score service does to a contributor row.                        *)

Submitted(row) ==
  [row EXCEPT !.pending = @ + 1, !.score = @ + PointsPending]

LessPending(row) == IF row.pending > 0 THEN row.pending - 1 ELSE row.pending

AcceptedUnguarded(row) ==
  [row EXCEPT !.accepted = @ + 1, !.score = @ + (PointsAccept - PointsPending),
              !.pending = @ - 1]

AcceptedInFull(row) ==
  [row EXCEPT !.accepted = @ + 1, !.score = @ + PointsAccept,
              !.pending = LessPending(row)]

Accepted(row) ==
  [row EXCEPT !.accepted = @ + 1, !.score = @ + (PointsAccept - PointsPending),
              !.pending = LessPending(row)]

FlaggedAtTheLimitOnly(row) ==
  [row EXCEPT !.flagged = @ + 1, !.score = @ + PointsFlag,
              !.pending = LessPending(row),
              !.banned = IF row.flagged + 1 = BanFlagLimit THEN TRUE ELSE @]

FlaggedStillPending(row) ==
  [row EXCEPT !.flagged = @ + 1, !.score = @ + PointsFlag,
              !.banned = IF row.flagged + 1 >= BanFlagLimit THEN TRUE ELSE @]

Flagged(row) ==
  [row EXCEPT !.flagged = @ + 1, !.score = @ + PointsFlag,
              !.pending = LessPending(row),
              !.banned = IF row.flagged + 1 >= BanFlagLimit THEN TRUE ELSE @]

RedeemedWithoutReset(row) == [row EXCEPT !.redeemed = @ + row.score]

Redeemed(row) == [row EXCEPT !.redeemed = @ + row.score, !.score = 0]

Reinstated(row) == [row EXCEPT !.banned = FALSE]

\* The ORM's UPDATE at commit: the columns in which `new` differs from the
\* row the request read (`seen`) are overwritten, the others keep what the
\* table holds by now.
Column(now, seen, new) == IF new = seen THEN now ELSE new

MergeWholeRow(now, seen, new) == new

Merge(now, seen, new) ==
  [score    |-> Column(now.score, seen.score, new.score),
   pending  |-> Column(now.pending, seen.pending, new.pending),
   accepted |-> Column(now.accepted, seen.accepted, new.accepted),
   flagged  |-> Column(now.flagged, seen.flagged, new.flagged),
   redeemed |-> Column(now.redeemed, seen.redeemed, new.redeemed),
   banned   |-> Column(now.banned, seen.banned, new.banned)]

WriteBack(q, new) ==
  /\ agent' = [agent EXCEPT ![q.agent] = Merge(@, q.row, new)]
  /\ raced' = IF agent[q.agent] = q.row THEN raced ELSE raced \union {q.agent}
  /\ inflight' = inflight \ {q}

-----------------------------------------------------------------------------
(* Reading: the handler loads the contributor and makes its checks.  A      *)
(* check that fails raises before anything is written: no step.             *)

Read(w, op, a, c) ==
  /\ \A q \in inflight : q.id # w
  /\ inflight' = inflight \union
       {[id |-> w, op |-> op, agent |-> a, client |-> c,
         row |-> agent[a], consent |-> a \in consented]}
  /\ UNCHANGED <<agent, consented, verdict, indexed, ledger, raced>>

\* create_from_bot up to its INSERTs.  A submission already stored under this
\* client id is returned as it is, which changes nothing.
ReadForSubmit(w, a, c) ==
  /\ ~agent[a].banned
  /\ verdict[<<a, c>>] = "NONE"
  /\ Read(w, "submit", a, c)

\* POST /agents/{telegram_id}/pending
ReadForHook(w, a) ==
  /\ ~agent[a].banned
  /\ ledger[a].hooks < MaxHooks
  /\ Read(w, "hook", a, NoClient)

\* _finalize reads the submission together with its PENDING verification.
ReadForReview(w, a, c, op) ==
  /\ verdict[<<a, c>>] = "PENDING"
  /\ Read(w, op, a, c)

ReadForRedeem(w, a) ==
  /\ ~agent[a].banned
  /\ agent[a].score >= RedeemMin
  /\ Read(w, "redeem", a, NoClient)

\* Approving the application of someone who is an agent already: a banned
\* agent may apply again.
ReadForApprove(w, a) == Read(w, "approve", a, NoClient)

-----------------------------------------------------------------------------
(* Committing.                                                              *)

\* The unique constraints on (contributor, client_submission_id) and on
\* (contributor, consent_version): someone else stored the row meanwhile.
NoUniqueConstraint(q) == FALSE

SubmitConflicts(q) ==
  \/ verdict[<<q.agent, q.client>>] # "NONE"
  \/ ~q.consent /\ q.agent \in consented

CommitSubmit(q) ==
  /\ q.op = "submit"
  /\ ~SubmitConflicts(q)
  /\ verdict' = [verdict EXCEPT ![<<q.agent, q.client>>] = "PENDING"]
  /\ consented' = consented \union {q.agent}
  /\ ledger' = [ledger EXCEPT ![q.agent].submits = @ + 1,
                              ![q.agent].earned = @ + PointsPending]
  /\ WriteBack(q, Submitted(q.row))
  /\ UNCHANGED indexed

\* IntegrityError: the transaction is rolled back, and with it the event and
\* the counters; the caller gets the stored submission or an error.
RollbackSubmit(q) ==
  /\ q.op = "submit"
  /\ SubmitConflicts(q)
  /\ inflight' = inflight \ {q}
  /\ UNCHANGED <<agent, consented, verdict, indexed, ledger, raced>>

CommitHook(q) ==
  /\ q.op = "hook"
  /\ ledger' = [ledger EXCEPT ![q.agent].hooks = @ + 1,
                              ![q.agent].earned = @ + PointsPending]
  /\ WriteBack(q, Submitted(q.row))
  /\ UNCHANGED <<consented, verdict, indexed>>

CommitAcceptUnindexed(q) ==
  /\ q.op = "accept"
  /\ verdict' = [verdict EXCEPT ![<<q.agent, q.client>>] = "ACCEPTED"]
  /\ ledger' = [ledger EXCEPT ![q.agent].accepts = @ + 1,
                              ![q.agent].earned = @ + (PointsAccept - PointsPending)]
  /\ WriteBack(q, Accepted(q.row))
  /\ UNCHANGED <<consented, indexed>>

\* The verification row is updated by primary key, whatever outcome it holds
\* by now; the index value is inserted unless this trigger has one already.
CommitAccept(q) ==
  /\ q.op = "accept"
  /\ verdict' = [verdict EXCEPT ![<<q.agent, q.client>>] = "ACCEPTED"]
  /\ indexed' = indexed \union {<<q.agent, q.client>>}
  /\ ledger' = [ledger EXCEPT ![q.agent].accepts = @ + 1,
                              ![q.agent].earned = @ + (PointsAccept - PointsPending)]
  /\ WriteBack(q, Accepted(q.row))
  /\ UNCHANGED consented

CommitFlag(q) ==
  /\ q.op = "flag"
  /\ verdict' = [verdict EXCEPT ![<<q.agent, q.client>>] = "FLAGGED"]
  /\ ledger' = [ledger EXCEPT
       ![q.agent].flags = @ + 1,
       ![q.agent].penalty = @ - PointsFlag,
       ![q.agent].bans = IF q.row.flagged + 1 >= BanFlagLimit THEN @ + 1 ELSE @]
  /\ WriteBack(q, Flagged(q.row))
  /\ UNCHANGED <<consented, indexed>>

\* redeem: the payout request and the REDEEM event carry the score that was read.
CommitRedeem(q) ==
  /\ q.op = "redeem"
  /\ ledger' = [ledger EXCEPT ![q.agent].redeemed = @ + q.row.score]
  /\ WriteBack(q, Redeemed(q.row))
  /\ UNCHANGED <<consented, verdict, indexed>>

CommitApprove(q) ==
  /\ q.op = "approve"
  /\ WriteBack(q, Reinstated(q.row))
  /\ UNCHANGED <<consented, verdict, indexed, ledger>>

\* The process or its database connection dies: the transaction is lost.
Abort(q) ==
  /\ inflight' = inflight \ {q}
  /\ UNCHANGED <<agent, consented, verdict, indexed, ledger, raced>>

Next ==
  \/ \E w \in Workers, a \in Agents :
       \/ \E c \in ClientIds :
            \/ ReadForSubmit(w, a, c)
            \/ \E op \in {"accept", "flag"} : ReadForReview(w, a, c, op)
       \/ ReadForHook(w, a)
       \/ ReadForRedeem(w, a)
       \/ ReadForApprove(w, a)
  \/ \E q \in inflight :
       \/ CommitSubmit(q)
       \/ RollbackSubmit(q)
       \/ CommitHook(q)
       \/ CommitAccept(q)
       \/ CommitFlag(q)
       \/ CommitRedeem(q)
       \/ CommitApprove(q)
       \/ Abort(q)

Spec == Init /\ [][Next]_vars

-----------------------------------------------------------------------------
(* Properties.                                                              *)

\* The events of an agent add up to the score and to the counters kept in
\* contributors, over any sequence of requests, as long as no two writers of
\* that agent overlapped.
LedgerExact ==
  \A a \in Agents \ raced :
    /\ agent[a].score = ledger[a].earned - ledger[a].penalty - ledger[a].redeemed
    /\ agent[a].accepted = ledger[a].accepts
    /\ agent[a].flagged = ledger[a].flags
    /\ agent[a].redeemed = ledger[a].redeemed

\* The counters of an agent count its submissions by outcome, as long as no
\* two writers of that agent overlapped: a review closes exactly one pending
\* report and is counted once.
CountersMatchVerdicts ==
  \A a \in Agents \ raced :
    /\ agent[a].accepted = Cardinality(WithVerdict(a, "ACCEPTED"))
    /\ agent[a].flagged = Cardinality(WithVerdict(a, "FLAGGED"))
    /\ agent[a].pending = Cardinality(WithVerdict(a, "PENDING")) + ledger[a].hooks

\* Points requested for payout were earned before, as long as no two writers
\* of that agent overlapped: a score is spent once.
PayoutsAreEarned ==
  \A a \in Agents \ raced : ledger[a].redeemed <= ledger[a].earned

\* However often the bot sends the same client id, and however those requests
\* overlap, the submission is stored and credited once.
CreditedOncePerSubmission ==
  \A a \in Agents :
    ledger[a].submits = Cardinality({s \in SubsOf(a) : verdict[s] # "NONE"})

\* A report that stands as accepted has its index value, whatever reviews of
\* it overlapped: outcome and publication commit together.
AcceptedIsIndexed ==
  \A s \in Subs : verdict[s] = "ACCEPTED" => s \in indexed

\* Every flag from the limit on bans, also that of an agent who was reinstated
\* with the flags it had and also when writers overlap; except a flag that read
\* the agent as banned and commits after the ban was lifted.
FlagLimitBans ==
  [][\A a \in Agents :
       agent'[a].flagged > agent[a].flagged /\ agent'[a].flagged >= BanFlagLimit =>
         \/ agent'[a].banned
         \/ ~agent[a].banned /\ \E q \in inflight : /\ CommitFlag(q) /\ q.agent = a
                                                   /\ q.row.banned]_vars

\* A ban is lifted by an approval that saw it and by nothing else: a request
\* that read the row before the ban and commits after it leaves the ban alone.
OnlyApprovalLiftsBan ==
  [][\A a \in Agents : agent[a].banned /\ ~agent'[a].banned =>
       \E q \in inflight : /\ q.op = "approve" /\ q.agent = a /\ q.row.banned
                           /\ CommitApprove(q)]_vars

\* docs/agent-score.md: redeeming spends the current score, so what is paid
\* out never exceeds what was earned.
ScoreIsSpentOnce == \A a \in Agents : ledger[a].redeemed <= ledger[a].earned
=============================================================================
