-------------------------- MODULE AgentScoreProofs --------------------------
(***************************************************************************)
(* Proofs about AgentScore, for any number of agents, submissions and      *)
(* overlapping requests and any point values that satisfy the assumptions. *)
(***************************************************************************)
EXTENDS AgentScore, FiniteSetTheorems, TLAPS

(* What the score service makes of a contributor row is a row again. *)
LEMMA RowOperations ==
  ASSUME NEW row \in Row
  PROVE  /\ Submitted(row) \in Row
         /\ Accepted(row) \in Row
         /\ Flagged(row) \in Row
         /\ Redeemed(row) \in Row
         /\ Reinstated(row) \in Row
<1>. DEFINE n == row.pending + 1
            less == LessPending(row)
            s1 == row.score + PointsPending
            s2 == row.score + (PointsAccept - PointsPending)
            s3 == row.score + PointsFlag
            r == row.redeemed + row.score
            ban == IF row.flagged + 1 >= BanFlagLimit THEN TRUE ELSE row.banned
<1>0. /\ row.accepted + 1 \in Nat /\ row.flagged + 1 \in Nat
      /\ n \in Nat /\ less \in Nat /\ ban \in BOOLEAN
      /\ s1 \in Int /\ s2 \in Int /\ s3 \in Int /\ r \in Int
  <2>1. /\ row.score \in Int /\ row.pending \in Nat /\ row.accepted \in Nat
        /\ row.flagged \in Nat /\ row.redeemed \in Int /\ row.banned \in BOOLEAN
    BY DEF Row
  <2>2. ban \in BOOLEAN
    BY <2>1
  <2>3. less \in Nat
    BY <2>1 DEF LessPending
  <2>. HIDE DEF ban, less
  <2>. QED
    BY <2>1, <2>2, <2>3, PointsAssumption
<1>1. Submitted(row) \in Row
  <2>1. [row EXCEPT !.pending = n] \in Row
    BY <1>0 DEF Row
  <2>. QED
    BY <1>0, <2>1 DEF Row, Submitted
<1>3. Accepted(row) \in Row
  <2>1. [row EXCEPT !.accepted = @ + 1] \in Row
    BY <1>0 DEF Row
  <2>2. [row EXCEPT !.accepted = @ + 1, !.score = s2] \in Row
    BY <1>0, <2>1 DEF Row
  <2>. QED
    BY <1>0, <2>2 DEF Row, Accepted
<1>4. Flagged(row) \in Row
  <2>1. [row EXCEPT !.flagged = @ + 1] \in Row
    BY <1>0 DEF Row
  <2>2. [row EXCEPT !.flagged = @ + 1, !.score = s3] \in Row
    BY <1>0, <2>1 DEF Row
  <2>3. [row EXCEPT !.flagged = @ + 1, !.score = s3, !.pending = less] \in Row
    BY <1>0, <2>2 DEF Row
  <2>. QED
    BY <1>0, <2>3 DEF Row, Flagged
<1>5. Redeemed(row) \in Row
  <2>. DEFINE zero == 0
  <2>1. zero \in Int
    OBVIOUS
  <2>2. [row EXCEPT !.redeemed = r] \in Row
    BY <1>0 DEF Row
  <2>3. [row EXCEPT !.redeemed = r, !.score = zero] \in Row
    <3>. HIDE DEF zero
    <3>. QED
      BY <1>0, <2>1, <2>2 DEF Row
  <2>. QED
    BY <2>3 DEF Redeemed
<1>6. Reinstated(row) \in Row
  BY DEF Row, Reinstated
<1>. QED
  BY <1>1, <1>3, <1>4, <1>5, <1>6

(* The ORM's write-back of typed rows is typed. *)
LEMMA MergeType ==
  ASSUME NEW now \in Row, NEW seen \in Row, NEW new \in Row
  PROVE  Merge(now, seen, new) \in Row
BY DEF Row, Merge, Column

(* Writing back a row nobody changed meanwhile stores the new row. *)
LEMMA FreshMerge ==
  ASSUME NEW row \in Row, NEW new \in Row
  PROVE  Merge(row, row, new) = new
BY DEF Row, Merge, Column

LEMMA WriteBackType ==
  ASSUME TypeOK, NEW q \in inflight, NEW new \in Row, WriteBack(q, new)
  PROVE  /\ agent' \in [Agents -> Row]
         /\ inflight' \subseteq Request
         /\ raced' \subseteq Agents
<1>1. q \in Request /\ q.agent \in Agents /\ q.row \in Row
  BY DEF TypeOK, Request
<1>2. agent[q.agent] \in Row
  BY <1>1 DEF TypeOK
<1>3. Merge(agent[q.agent], q.row, new) \in Row
  BY <1>1, <1>2, MergeType
<1>. QED
  BY <1>1, <1>3 DEF WriteBack, TypeOK

LEMMA ReadType ==
  ASSUME TypeOK, NEW w \in Workers, NEW a \in Agents,
         NEW op \in {"submit", "hook", "accept", "flag", "redeem", "approve"},
         NEW c \in ClientIds \union {NoClient}, Read(w, op, a, c)
  PROVE  TypeOK'
<1>1. [id |-> w, op |-> op, agent |-> a, client |-> c,
       row |-> agent[a], consent |-> a \in consented] \in Request
  <2>1. agent[a] \in Row
    BY DEF TypeOK
  <2>. QED
    BY <2>1 DEF Request
<1>. QED
  BY <1>1 DEF TypeOK, Read

LEMMA TypeStep == TypeOK /\ [Next]_vars => TypeOK'
<1>. SUFFICES ASSUME TypeOK, [Next]_vars PROVE TypeOK'
  OBVIOUS
<1>1. ASSUME NEW w \in Workers, NEW a \in Agents, NEW c \in ClientIds,
             ReadForSubmit(w, a, c)
      PROVE  TypeOK'
  BY <1>1, ReadType DEF ReadForSubmit
<1>2. ASSUME NEW w \in Workers, NEW a \in Agents, NEW c \in ClientIds,
             NEW op \in {"accept", "flag"}, ReadForReview(w, a, c, op)
      PROVE  TypeOK'
  BY <1>2, ReadType DEF ReadForReview
<1>3. ASSUME NEW w \in Workers, NEW a \in Agents, ReadForHook(w, a)
      PROVE  TypeOK'
  BY <1>3, ReadType DEF ReadForHook
<1>4. ASSUME NEW w \in Workers, NEW a \in Agents, ReadForRedeem(w, a)
      PROVE  TypeOK'
  BY <1>4, ReadType DEF ReadForRedeem
<1>5. ASSUME NEW w \in Workers, NEW a \in Agents, ReadForApprove(w, a)
      PROVE  TypeOK'
  BY <1>5, ReadType DEF ReadForApprove
<1>. DEFINE Fields(q) == /\ q \in Request /\ q.agent \in Agents /\ q.row \in Row
                         /\ ledger[q.agent] \in Ledger
                         /\ Submitted(q.row) \in Row /\ Accepted(q.row) \in Row
                         /\ Flagged(q.row) \in Row /\ Redeemed(q.row) \in Row
                         /\ Reinstated(q.row) \in Row
<1>6. ASSUME NEW q \in inflight PROVE Fields(q)
  <2>1. q \in Request /\ q.agent \in Agents /\ q.row \in Row
    BY DEF TypeOK, Request
  <2>. QED
    BY <2>1, RowOperations DEF TypeOK
<1>7. ASSUME NEW q \in inflight, CommitSubmit(q) PROVE TypeOK'
  <2>1. ledger' \in [Agents -> Ledger]
    BY <1>6, <1>7, PointsAssumption DEF CommitSubmit, TypeOK, Ledger
  <2>2. verdict' \in [Subs -> {"NONE", "PENDING", "ACCEPTED", "FLAGGED"}]
    BY <1>7 DEF CommitSubmit, TypeOK
  <2>. QED
    BY <1>6, <1>7, <2>1, <2>2, WriteBackType DEF CommitSubmit, TypeOK
<1>8. ASSUME NEW q \in inflight, CommitHook(q) PROVE TypeOK'
  <2>1. ledger' \in [Agents -> Ledger]
    BY <1>6, <1>8, PointsAssumption DEF CommitHook, TypeOK, Ledger
  <2>. QED
    BY <1>6, <1>8, <2>1, WriteBackType DEF CommitHook, TypeOK
<1>9. ASSUME NEW q \in inflight, CommitAccept(q) PROVE TypeOK'
  <2>1. ledger' \in [Agents -> Ledger]
    BY <1>6, <1>9, PointsAssumption DEF CommitAccept, TypeOK, Ledger
  <2>2. verdict' \in [Subs -> {"NONE", "PENDING", "ACCEPTED", "FLAGGED"}]
    BY <1>9 DEF CommitAccept, TypeOK
  <2>. QED
    BY <1>6, <1>9, <2>1, <2>2, WriteBackType DEF CommitAccept, TypeOK
<1>10. ASSUME NEW q \in inflight, CommitFlag(q) PROVE TypeOK'
  <2>1. ledger' \in [Agents -> Ledger]
    BY <1>6, <1>10, PointsAssumption DEF CommitFlag, TypeOK, Ledger
  <2>2. verdict' \in [Subs -> {"NONE", "PENDING", "ACCEPTED", "FLAGGED"}]
    BY <1>10 DEF CommitFlag, TypeOK
  <2>. QED
    BY <1>6, <1>10, <2>1, <2>2, WriteBackType DEF CommitFlag, TypeOK
<1>11. ASSUME NEW q \in inflight, CommitRedeem(q) PROVE TypeOK'
  <2>1. ledger' \in [Agents -> Ledger]
    <3>1. q.row.score \in Int
      BY <1>6 DEF Row
    <3>. QED
      BY <1>6, <1>11, <3>1 DEF CommitRedeem, TypeOK, Ledger
  <2>. QED
    BY <1>6, <1>11, <2>1, WriteBackType DEF CommitRedeem, TypeOK
<1>12. ASSUME NEW q \in inflight, CommitApprove(q) PROVE TypeOK'
  BY <1>6, <1>12, WriteBackType DEF CommitApprove, TypeOK
<1>13. ASSUME NEW q \in inflight, RollbackSubmit(q) \/ Abort(q) PROVE TypeOK'
  BY <1>13 DEF RollbackSubmit, Abort, TypeOK
<1>14. CASE UNCHANGED vars
  BY <1>14 DEF vars, TypeOK
<1>. QED
  BY <1>1, <1>2, <1>3, <1>4, <1>5, <1>7, <1>8, <1>9, <1>10, <1>11, <1>12,
     <1>13, <1>14 DEF Next

(* The counters never turn negative and every column keeps its type, however  *)
(* requests overlap: the CHECK constraints on pending_count, accepted_count   *)
(* and flagged_count never fire.                                              *)
THEOREM TypeCorrect == Spec => []TypeOK
<1>1. Init => TypeOK
  BY DEF Init, TypeOK, Row, Ledger, Subs
<1>. QED
  BY <1>1, TypeStep, PTL DEF Spec

-----------------------------------------------------------------------------
(* What a commit does to an agent whose row it read fresh. *)
LEMMA FreshWriteBack ==
  ASSUME TypeOK, NEW q \in inflight, NEW new \in Row, WriteBack(q, new),
         NEW a \in Agents \ raced'
  PROVE  /\ a \notin raced
         /\ a # q.agent => agent'[a] = agent[a]
         /\ a = q.agent => agent[a] = q.row /\ agent'[a] = new
<1>1. q.agent \in Agents /\ q.row \in Row
  BY DEF TypeOK, Request
<1>2. a \notin raced
  BY DEF WriteBack
<1>3. ASSUME a # q.agent PROVE agent'[a] = agent[a]
  BY <1>1, <1>3 DEF WriteBack, TypeOK
<1>4. ASSUME a = q.agent PROVE agent[a] = q.row /\ agent'[a] = new
  <2>1. agent[a] = q.row
    BY <1>4 DEF WriteBack
  <2>2. agent'[a] = Merge(agent[a], q.row, new)
    BY <1>1, <1>4 DEF WriteBack, TypeOK
  <2>. QED
    BY <1>1, <2>1, <2>2, FreshMerge
<1>. QED
  BY <1>2, <1>3, <1>4

(* The columns each operation of the score service sets. *)
LEMMA RowFields ==
  ASSUME NEW row \in Row
  PROVE  /\ Submitted(row).score = row.score + PointsPending
         /\ Submitted(row).pending = row.pending + 1
         /\ Submitted(row).accepted = row.accepted
         /\ Submitted(row).flagged = row.flagged
         /\ Submitted(row).redeemed = row.redeemed
         /\ Submitted(row).banned = row.banned
         /\ Accepted(row).score = row.score + (PointsAccept - PointsPending)
         /\ Accepted(row).pending = LessPending(row)
         /\ Accepted(row).accepted = row.accepted + 1
         /\ Accepted(row).flagged = row.flagged
         /\ Accepted(row).redeemed = row.redeemed
         /\ Accepted(row).banned = row.banned
         /\ Flagged(row).score = row.score + PointsFlag
         /\ Flagged(row).pending = LessPending(row)
         /\ Flagged(row).accepted = row.accepted
         /\ Flagged(row).flagged = row.flagged + 1
         /\ Flagged(row).redeemed = row.redeemed
         /\ Flagged(row).banned =
              IF row.flagged + 1 >= BanFlagLimit THEN TRUE ELSE row.banned
         /\ Redeemed(row).score = 0
         /\ Redeemed(row).pending = row.pending
         /\ Redeemed(row).accepted = row.accepted
         /\ Redeemed(row).flagged = row.flagged
         /\ Redeemed(row).redeemed = row.redeemed + row.score
         /\ Redeemed(row).banned = row.banned
         /\ Reinstated(row).score = row.score
         /\ Reinstated(row).pending = row.pending
         /\ Reinstated(row).accepted = row.accepted
         /\ Reinstated(row).flagged = row.flagged
         /\ Reinstated(row).redeemed = row.redeemed
         /\ Reinstated(row).banned = FALSE
BY DEF Row, Submitted, Accepted, Flagged, Redeemed, Reinstated

(* The typed parts of a request in flight. *)
LEMMA RequestFields ==
  ASSUME TypeOK, NEW q \in inflight
  PROVE  /\ q.agent \in Agents /\ q.row \in Row
         /\ q.row.score \in Int /\ q.row.pending \in Nat /\ q.row.accepted \in Nat
         /\ q.row.flagged \in Nat /\ q.row.redeemed \in Int
         /\ Submitted(q.row) \in Row /\ Accepted(q.row) \in Row
         /\ Flagged(q.row) \in Row /\ Redeemed(q.row) \in Row
         /\ Reinstated(q.row) \in Row
<1>1. q.agent \in Agents /\ q.row \in Row
  BY DEF TypeOK, Request
<1>. QED
  BY <1>1, RowOperations DEF Row

LEMMA AgentFields ==
  ASSUME TypeOK, NEW a \in Agents
  PROVE  /\ agent[a] \in Row /\ ledger[a] \in Ledger
         /\ agent[a].score \in Int /\ agent[a].pending \in Nat
         /\ agent[a].accepted \in Nat /\ agent[a].flagged \in Nat
         /\ agent[a].redeemed \in Int
         /\ ledger[a].submits \in Nat /\ ledger[a].hooks \in Nat
         /\ ledger[a].accepts \in Nat /\ ledger[a].flags \in Nat
         /\ ledger[a].earned \in Nat /\ ledger[a].penalty \in Nat
         /\ ledger[a].redeemed \in Int
<1>1. agent[a] \in Row /\ ledger[a] \in Ledger
  BY DEF TypeOK
<1>. QED
  BY <1>1 DEF Row, Ledger

(* The steps that touch neither contributors nor the event log. *)
Reading == /\ UNCHANGED <<agent, consented, verdict, indexed, ledger, raced>>
           /\ inflight' \subseteq inflight \union
                {q \in Request : q.row = agent[q.agent] /\
                   (q.op \in {"submit", "accept", "flag"} => q.client \in ClientIds) /\
                   (q.op \in {"accept", "flag"} =>
                       verdict[<<q.agent, q.client>>] = "PENDING")}

(* Every step is one of the commits or only adds or drops a request. *)
LEMMA StepCases ==
  ASSUME TypeOK, [Next]_vars
  PROVE  \/ Reading
         \/ \E q \in inflight : \/ CommitSubmit(q) \/ CommitHook(q)
                                \/ CommitAccept(q) \/ CommitFlag(q)
                                \/ CommitRedeem(q) \/ CommitApprove(q)
<1>1. ASSUME NEW w \in Workers, NEW a \in Agents, NEW c \in ClientIds \union {NoClient},
             NEW op \in {"submit", "hook", "accept", "flag", "redeem", "approve"},
             op \in {"submit", "accept", "flag"} => c \in ClientIds,
             op \in {"accept", "flag"} => verdict[<<a, c>>] = "PENDING",
             Read(w, op, a, c)
      PROVE  Reading
  <2>. DEFINE q == [id |-> w, op |-> op, agent |-> a, client |-> c,
                    row |-> agent[a], consent |-> a \in consented]
  <2>1. q \in Request
    <3>1. agent[a] \in Row
      BY DEF TypeOK
    <3>. QED
      BY <3>1 DEF Request
  <2>. QED
    BY <1>1, <2>1 DEF Read, Reading
<1>2. CASE \E w \in Workers, a \in Agents :
             \/ \E c \in ClientIds :
                  \/ ReadForSubmit(w, a, c)
                  \/ \E op \in {"accept", "flag"} : ReadForReview(w, a, c, op)
             \/ ReadForHook(w, a) \/ ReadForRedeem(w, a) \/ ReadForApprove(w, a)
  BY <1>1, <1>2 DEF ReadForSubmit, ReadForReview, ReadForHook, ReadForRedeem,
                    ReadForApprove
<1>3. CASE \E q \in inflight : RollbackSubmit(q) \/ Abort(q)
  BY <1>3 DEF RollbackSubmit, Abort, Reading
<1>4. CASE UNCHANGED vars
  BY <1>4 DEF vars, Reading
<1>. QED
  BY <1>2, <1>3, <1>4 DEF Next

-----------------------------------------------------------------------------
(* What each commit adds to the event log of its agent. *)
LEMMA LedgerEffects ==
  ASSUME TypeOK, NEW q \in inflight
  PROVE  LET was == ledger[q.agent]
             is == ledger'[q.agent]
         IN
         /\ CommitSubmit(q) =>
              /\ is.submits = was.submits + 1
              /\ is.hooks = was.hooks
              /\ is.accepts = was.accepts
              /\ is.flags = was.flags
              /\ is.earned = was.earned + PointsPending
              /\ is.penalty = was.penalty
              /\ is.redeemed = was.redeemed
         /\ CommitHook(q) =>
              /\ is.submits = was.submits
              /\ is.hooks = was.hooks + 1
              /\ is.accepts = was.accepts
              /\ is.flags = was.flags
              /\ is.earned = was.earned + PointsPending
              /\ is.penalty = was.penalty
              /\ is.redeemed = was.redeemed
         /\ CommitAccept(q) =>
              /\ is.submits = was.submits
              /\ is.hooks = was.hooks
              /\ is.accepts = was.accepts + 1
              /\ is.flags = was.flags
              /\ is.earned = was.earned + (PointsAccept - PointsPending)
              /\ is.penalty = was.penalty
              /\ is.redeemed = was.redeemed
         /\ CommitFlag(q) =>
              /\ is.submits = was.submits
              /\ is.hooks = was.hooks
              /\ is.accepts = was.accepts
              /\ is.flags = was.flags + 1
              /\ is.earned = was.earned
              /\ is.penalty = was.penalty - PointsFlag
              /\ is.redeemed = was.redeemed
         /\ CommitRedeem(q) =>
              /\ is.submits = was.submits
              /\ is.hooks = was.hooks
              /\ is.accepts = was.accepts
              /\ is.flags = was.flags
              /\ is.earned = was.earned
              /\ is.penalty = was.penalty
              /\ is.redeemed = was.redeemed + q.row.score
<1>1. q.agent \in Agents /\ ledger \in [Agents -> Ledger] /\ ledger[q.agent] \in Ledger
  BY RequestFields DEF TypeOK
<1>. QED
  BY <1>1 DEF CommitSubmit, CommitHook, CommitAccept, CommitFlag, CommitRedeem, Ledger

(* A commit leaves the event log of the other agents alone. *)
LEMMA LedgerOthers ==
  ASSUME TypeOK, NEW q \in inflight, NEW a \in Agents, a # q.agent,
         \/ CommitSubmit(q) \/ CommitHook(q) \/ CommitAccept(q)
         \/ CommitFlag(q) \/ CommitRedeem(q) \/ CommitApprove(q)
  PROVE  ledger'[a] = ledger[a]
BY RequestFields DEF TypeOK, CommitSubmit, CommitHook, CommitAccept, CommitFlag,
                     CommitRedeem, CommitApprove

-----------------------------------------------------------------------------
(* The event log adds up to the score. *)

(* A commit whose row is fresh starts from counters that match the event log. *)
LEMMA FreshIsExact ==
  ASSUME TypeOK, LedgerExact, NEW q \in inflight, NEW new \in Row,
         WriteBack(q, new), q.agent \notin raced'
  PROVE  /\ agent'[q.agent] = new
         /\ q.row.score = ledger[q.agent].earned - ledger[q.agent].penalty
                            - ledger[q.agent].redeemed
         /\ q.row.accepted = ledger[q.agent].accepts
         /\ q.row.flagged = ledger[q.agent].flags
         /\ q.row.redeemed = ledger[q.agent].redeemed
<1>1. q.agent \in Agents
  BY RequestFields
<1>2. /\ q.agent \notin raced /\ agent[q.agent] = q.row
      /\ agent'[q.agent] = new
  BY <1>1, FreshWriteBack
<1>. QED
  BY <1>1, <1>2 DEF LedgerExact

LEMMA LedgerStep ==
  TypeOK /\ LedgerExact /\ [Next]_vars => LedgerExact'
<1>. SUFFICES ASSUME TypeOK, LedgerExact, [Next]_vars,
                     NEW a \in Agents, a \notin raced'
              PROVE  /\ agent'[a].score = ledger'[a].earned - ledger'[a].penalty
                                            - ledger'[a].redeemed
                     /\ agent'[a].accepted = ledger'[a].accepts
                     /\ agent'[a].flagged = ledger'[a].flags
                     /\ agent'[a].redeemed = ledger'[a].redeemed
  BY DEF LedgerExact
<1>. DEFINE Exact == /\ agent[a].score = ledger[a].earned - ledger[a].penalty
                                           - ledger[a].redeemed
                     /\ agent[a].accepted = ledger[a].accepts
                     /\ agent[a].flagged = ledger[a].flags
                     /\ agent[a].redeemed = ledger[a].redeemed
<1>0. a \notin raced => Exact
  BY DEF LedgerExact
<1>a. /\ PointsPending \in Int /\ PointsAccept \in Int /\ PointsFlag \in Int
  BY PointsAssumption
<1>b. /\ ledger[a].accepts \in Int /\ ledger[a].flags \in Int
      /\ ledger[a].earned \in Int /\ ledger[a].penalty \in Int
      /\ ledger[a].redeemed \in Int
  BY AgentFields
<1>1. CASE Reading
  BY <1>0, <1>1 DEF Reading
<1>2. ASSUME NEW q \in inflight, CommitSubmit(q) PROVE Exact'
  <2>1. WriteBack(q, Submitted(q.row)) /\ Submitted(q.row) \in Row /\ q.row \in Row
    BY <1>2, RequestFields DEF CommitSubmit
  <2>2. CASE a # q.agent
    BY <1>0, <1>2, <2>1, <2>2, FreshWriteBack, LedgerOthers
  <2>3. CASE a = q.agent
    <3>1. /\ agent'[a] = Submitted(q.row)
          /\ q.row.score = ledger[a].earned - ledger[a].penalty
                             - ledger[a].redeemed
          /\ q.row.accepted = ledger[a].accepts
          /\ q.row.flagged = ledger[a].flags
          /\ q.row.redeemed = ledger[a].redeemed
      BY <2>1, <2>3, FreshIsExact
    <3>f. /\ Submitted(q.row).score = q.row.score + PointsPending
          /\ Submitted(q.row).accepted = q.row.accepted
          /\ Submitted(q.row).flagged = q.row.flagged
          /\ Submitted(q.row).redeemed = q.row.redeemed
      BY <2>1, RowFields
    <3>2. /\ agent'[a].score = q.row.score + PointsPending
          /\ agent'[a].accepted = q.row.accepted
          /\ agent'[a].flagged = q.row.flagged
          /\ agent'[a].redeemed = q.row.redeemed
      BY <3>1, <3>f
    <3>3. /\ ledger'[a].earned = ledger[a].earned + PointsPending
          /\ ledger'[a].penalty = ledger[a].penalty
          /\ ledger'[a].redeemed = ledger[a].redeemed
          /\ ledger'[a].accepts = ledger[a].accepts
          /\ ledger'[a].flags = ledger[a].flags
      BY <1>2, <2>3, LedgerEffects
    <3>. QED
      BY <1>a, <1>b, <3>1, <3>2, <3>3
  <2>. QED
    BY <2>2, <2>3
<1>3. ASSUME NEW q \in inflight, CommitHook(q) PROVE Exact'
  <2>1. WriteBack(q, Submitted(q.row)) /\ Submitted(q.row) \in Row /\ q.row \in Row
    BY <1>3, RequestFields DEF CommitHook
  <2>2. CASE a # q.agent
    BY <1>0, <1>3, <2>1, <2>2, FreshWriteBack, LedgerOthers
  <2>3. CASE a = q.agent
    <3>1. /\ agent'[a] = Submitted(q.row)
          /\ q.row.score = ledger[a].earned - ledger[a].penalty
                             - ledger[a].redeemed
          /\ q.row.accepted = ledger[a].accepts
          /\ q.row.flagged = ledger[a].flags
          /\ q.row.redeemed = ledger[a].redeemed
      BY <2>1, <2>3, FreshIsExact
    <3>f. /\ Submitted(q.row).score = q.row.score + PointsPending
          /\ Submitted(q.row).accepted = q.row.accepted
          /\ Submitted(q.row).flagged = q.row.flagged
          /\ Submitted(q.row).redeemed = q.row.redeemed
      BY <2>1, RowFields
    <3>2. /\ agent'[a].score = q.row.score + PointsPending
          /\ agent'[a].accepted = q.row.accepted
          /\ agent'[a].flagged = q.row.flagged
          /\ agent'[a].redeemed = q.row.redeemed
      BY <3>1, <3>f
    <3>3. /\ ledger'[a].earned = ledger[a].earned + PointsPending
          /\ ledger'[a].penalty = ledger[a].penalty
          /\ ledger'[a].redeemed = ledger[a].redeemed
          /\ ledger'[a].accepts = ledger[a].accepts
          /\ ledger'[a].flags = ledger[a].flags
      BY <1>3, <2>3, LedgerEffects
    <3>. QED
      BY <1>a, <1>b, <3>1, <3>2, <3>3
  <2>. QED
    BY <2>2, <2>3
<1>4. ASSUME NEW q \in inflight, CommitAccept(q) PROVE Exact'
  <2>1. WriteBack(q, Accepted(q.row)) /\ Accepted(q.row) \in Row /\ q.row \in Row
    BY <1>4, RequestFields DEF CommitAccept
  <2>2. CASE a # q.agent
    BY <1>0, <1>4, <2>1, <2>2, FreshWriteBack, LedgerOthers
  <2>3. CASE a = q.agent
    <3>1. /\ agent'[a] = Accepted(q.row)
          /\ q.row.score = ledger[a].earned - ledger[a].penalty
                             - ledger[a].redeemed
          /\ q.row.accepted = ledger[a].accepts
          /\ q.row.flagged = ledger[a].flags
          /\ q.row.redeemed = ledger[a].redeemed
      BY <2>1, <2>3, FreshIsExact
    <3>2. /\ agent'[a].score = q.row.score + (PointsAccept - PointsPending)
          /\ agent'[a].accepted = q.row.accepted + 1
          /\ agent'[a].flagged = q.row.flagged
          /\ agent'[a].redeemed = q.row.redeemed
      BY <2>1, <3>1 DEF Accepted, Row
    <3>3. /\ ledger'[a].earned = ledger[a].earned + (PointsAccept - PointsPending)
          /\ ledger'[a].penalty = ledger[a].penalty
          /\ ledger'[a].redeemed = ledger[a].redeemed
          /\ ledger'[a].accepts = ledger[a].accepts + 1
          /\ ledger'[a].flags = ledger[a].flags
      BY <1>4, <2>3, LedgerEffects
    <3>. QED
      BY <1>a, <1>b, <3>1, <3>2, <3>3
  <2>. QED
    BY <2>2, <2>3
<1>5. ASSUME NEW q \in inflight, CommitFlag(q) PROVE Exact'
  <2>1. WriteBack(q, Flagged(q.row)) /\ Flagged(q.row) \in Row /\ q.row \in Row
    BY <1>5, RequestFields DEF CommitFlag
  <2>2. CASE a # q.agent
    BY <1>0, <1>5, <2>1, <2>2, FreshWriteBack, LedgerOthers
  <2>3. CASE a = q.agent
    <3>1. /\ agent'[a] = Flagged(q.row)
          /\ q.row.score = ledger[a].earned - ledger[a].penalty
                             - ledger[a].redeemed
          /\ q.row.accepted = ledger[a].accepts
          /\ q.row.flagged = ledger[a].flags
          /\ q.row.redeemed = ledger[a].redeemed
      BY <2>1, <2>3, FreshIsExact
    <3>f. /\ Flagged(q.row).score = q.row.score + PointsFlag
          /\ Flagged(q.row).accepted = q.row.accepted
          /\ Flagged(q.row).flagged = q.row.flagged + 1
          /\ Flagged(q.row).redeemed = q.row.redeemed
      BY <2>1, RowFields
    <3>2. /\ agent'[a].score = q.row.score + PointsFlag
          /\ agent'[a].accepted = q.row.accepted
          /\ agent'[a].flagged = q.row.flagged + 1
          /\ agent'[a].redeemed = q.row.redeemed
      BY <3>1, <3>f
    <3>3. /\ ledger'[a].earned = ledger[a].earned
          /\ ledger'[a].penalty = ledger[a].penalty - PointsFlag
          /\ ledger'[a].redeemed = ledger[a].redeemed
          /\ ledger'[a].accepts = ledger[a].accepts
          /\ ledger'[a].flags = ledger[a].flags + 1
      BY <1>5, <2>3, LedgerEffects
    <3>. QED
      BY <1>a, <1>b, <3>1, <3>2, <3>3
  <2>. QED
    BY <2>2, <2>3
<1>6. ASSUME NEW q \in inflight, CommitRedeem(q) PROVE Exact'
  <2>1. WriteBack(q, Redeemed(q.row)) /\ Redeemed(q.row) \in Row /\ q.row \in Row
    BY <1>6, RequestFields DEF CommitRedeem
  <2>2. CASE a # q.agent
    BY <1>0, <1>6, <2>1, <2>2, FreshWriteBack, LedgerOthers
  <2>3. CASE a = q.agent
    <3>1. /\ agent'[a] = Redeemed(q.row)
          /\ q.row.score = ledger[a].earned - ledger[a].penalty
                             - ledger[a].redeemed
          /\ q.row.accepted = ledger[a].accepts
          /\ q.row.flagged = ledger[a].flags
          /\ q.row.redeemed = ledger[a].redeemed
      BY <2>1, <2>3, FreshIsExact
    <3>f. /\ Redeemed(q.row).score = 0
          /\ Redeemed(q.row).accepted = q.row.accepted
          /\ Redeemed(q.row).flagged = q.row.flagged
          /\ Redeemed(q.row).redeemed = q.row.redeemed + q.row.score
      BY <2>1, RowFields
    <3>2. /\ agent'[a].score = 0
          /\ agent'[a].accepted = q.row.accepted
          /\ agent'[a].flagged = q.row.flagged
          /\ agent'[a].redeemed = q.row.redeemed + q.row.score
      BY <3>1, <3>f
    <3>3. /\ ledger'[a].earned = ledger[a].earned
          /\ ledger'[a].penalty = ledger[a].penalty
          /\ ledger'[a].redeemed = ledger[a].redeemed + q.row.score
          /\ ledger'[a].accepts = ledger[a].accepts
          /\ ledger'[a].flags = ledger[a].flags
      BY <1>6, <2>3, LedgerEffects
    <3>. QED
      BY <1>a, <1>b, <3>1, <3>2, <3>3
  <2>. QED
    BY <2>2, <2>3
<1>7. ASSUME NEW q \in inflight, CommitApprove(q) PROVE Exact'
  <2>1. WriteBack(q, Reinstated(q.row)) /\ Reinstated(q.row) \in Row
    BY <1>7, RequestFields DEF CommitApprove
  <2>2. ledger' = ledger
    BY <1>7 DEF CommitApprove
  <2>3. CASE a # q.agent
    BY <1>0, <2>1, <2>2, <2>3, FreshWriteBack
  <2>4. CASE a = q.agent
    <3>1. /\ agent'[a] = Reinstated(q.row) /\ q.row \in Row
          /\ q.row.score = ledger[a].earned - ledger[a].penalty
                             - ledger[a].redeemed
          /\ q.row.accepted = ledger[a].accepts
          /\ q.row.flagged = ledger[a].flags
          /\ q.row.redeemed = ledger[a].redeemed
      BY <2>1, <2>4, FreshIsExact, RequestFields
    <3>2. /\ agent'[a].score = q.row.score /\ agent'[a].accepted = q.row.accepted
          /\ agent'[a].flagged = q.row.flagged /\ agent'[a].redeemed = q.row.redeemed
      BY <3>1 DEF Reinstated, Row
    <3>. QED
      BY <2>2, <3>1, <3>2
  <2>. QED
    BY <2>3, <2>4
<1>. QED
  BY <1>1, <1>2, <1>3, <1>4, <1>5, <1>6, <1>7, StepCases

(* Without overlapping writers of an agent, its events add up to its score    *)
(* and its counters count them, whatever the sequence of requests.            *)
THEOREM LedgerIsExact == Spec => []LedgerExact
<1>1. Init => LedgerExact
  BY DEF Init, LedgerExact
<1>. QED
  BY <1>1, LedgerStep, TypeCorrect, PTL DEF Spec

-----------------------------------------------------------------------------
(* The commits that pay nothing out leave the payouts and add to what is     *)
(* earned, if anything.                                                      *)
LEMMA EarningsGrow ==
  ASSUME TypeOK, NEW q \in inflight, NEW a \in Agents,
         \/ CommitSubmit(q) \/ CommitHook(q) \/ CommitAccept(q)
         \/ CommitFlag(q) \/ CommitApprove(q)
  PROVE  /\ ledger'[a].redeemed = ledger[a].redeemed
         /\ ledger'[a].earned \in Int
         /\ ledger'[a].earned >= ledger[a].earned
<1>1. /\ ledger[a].earned \in Int /\ PointsPending \in Int /\ PointsAccept \in Int
      /\ PointsPending >= 0 /\ PointsAccept - PointsPending >= 0
  BY AgentFields, PointsAssumption
<1>2. CASE a # q.agent
  BY <1>1, <1>2, LedgerOthers
<1>3. CASE a = q.agent /\ CommitApprove(q)
  BY <1>1, <1>3 DEF CommitApprove
<1>4. CASE a = q.agent /\ (CommitSubmit(q) \/ CommitHook(q))
  <2>1. /\ ledger'[a].redeemed = ledger[a].redeemed
        /\ ledger'[a].earned = ledger[a].earned + PointsPending
    BY <1>4, LedgerEffects
  <2>. QED
    BY <1>1, <2>1
<1>5. CASE a = q.agent /\ CommitAccept(q)
  <2>1. /\ ledger'[a].redeemed = ledger[a].redeemed
        /\ ledger'[a].earned = ledger[a].earned + (PointsAccept - PointsPending)
    BY <1>5, LedgerEffects
  <2>. QED
    BY <1>1, <2>1
<1>6. CASE a = q.agent /\ CommitFlag(q)
  <2>1. /\ ledger'[a].redeemed = ledger[a].redeemed
        /\ ledger'[a].earned = ledger[a].earned
    BY <1>6, LedgerEffects
  <2>. QED
    BY <1>1, <2>1
<1>. QED
  BY <1>2, <1>3, <1>4, <1>5, <1>6

LEMMA PayoutsStep ==
  TypeOK /\ LedgerExact /\ PayoutsAreEarned /\ [Next]_vars => PayoutsAreEarned'
<1>. SUFFICES ASSUME TypeOK, LedgerExact, PayoutsAreEarned, [Next]_vars,
                     NEW a \in Agents, a \notin raced'
              PROVE  ledger'[a].redeemed <= ledger'[a].earned
  BY DEF PayoutsAreEarned
<1>0. a \notin raced => ledger[a].redeemed <= ledger[a].earned
  BY DEF PayoutsAreEarned
<1>a. /\ ledger[a].redeemed \in Int /\ ledger[a].earned \in Int
      /\ ledger[a].penalty \in Int /\ ledger[a].penalty >= 0
  BY AgentFields
<1>1. CASE Reading
  BY <1>0, <1>1 DEF Reading
<1>2. ASSUME NEW q \in inflight,
             \/ CommitSubmit(q) \/ CommitHook(q) \/ CommitAccept(q)
             \/ CommitFlag(q) \/ CommitApprove(q)
      PROVE  ledger'[a].redeemed <= ledger'[a].earned
  <2>1. a \notin raced
    BY <1>2 DEF CommitSubmit, CommitHook, CommitAccept, CommitFlag, CommitApprove,
                WriteBack
  <2>. QED
    BY <1>0, <1>a, <1>2, <2>1, EarningsGrow
<1>3. ASSUME NEW q \in inflight, CommitRedeem(q)
      PROVE  ledger'[a].redeemed <= ledger'[a].earned
  <2>1. WriteBack(q, Redeemed(q.row)) /\ Redeemed(q.row) \in Row
    BY <1>3, RequestFields DEF CommitRedeem
  <2>2. CASE a # q.agent
    BY <1>0, <1>3, <2>1, <2>2, FreshWriteBack, LedgerOthers
  <2>3. CASE a = q.agent
    <3>1. q.row.score = ledger[a].earned - ledger[a].penalty - ledger[a].redeemed
      BY <2>1, <2>3, FreshIsExact
    <3>2. /\ ledger'[a].redeemed = ledger[a].redeemed + q.row.score
          /\ ledger'[a].earned = ledger[a].earned
      BY <1>3, <2>3, LedgerEffects
    <3>. QED
      BY <1>a, <3>1, <3>2
  <2>. QED
    BY <2>2, <2>3
<1>. QED
  BY <1>1, <1>2, <1>3, StepCases

(* Without overlapping writers, an agent is never paid more than it earned,   *)
(* whatever was flagged, redeemed and reinstated in between.                  *)
THEOREM PayoutsEarned == Spec => []PayoutsAreEarned
<1>1. Init => PayoutsAreEarned
  BY DEF Init, PayoutsAreEarned
<1>. QED
  BY <1>1, PayoutsStep, TypeCorrect, LedgerIsExact, PTL DEF Spec

(* Outcome and publication commit together, so no overlap of reviews leaves   *)
(* an accepted report without its index value.                                *)
THEOREM AcceptedStaysIndexed == Spec => []AcceptedIsIndexed
<1>1. Init => AcceptedIsIndexed
  BY DEF Init, AcceptedIsIndexed
<1>2. TypeOK /\ AcceptedIsIndexed /\ [Next]_vars => AcceptedIsIndexed'
  <2>. SUFFICES ASSUME TypeOK, AcceptedIsIndexed, [Next]_vars, NEW s \in Subs,
                       verdict'[s] = "ACCEPTED"
                PROVE  s \in indexed'
    BY DEF AcceptedIsIndexed
  <2>0. verdict \in [Subs -> {"NONE", "PENDING", "ACCEPTED", "FLAGGED"}]
    BY DEF TypeOK
  <2>1. CASE Reading
    BY <2>1 DEF Reading, AcceptedIsIndexed
  <2>2. ASSUME NEW q \in inflight, CommitSubmit(q) PROVE s \in indexed'
    BY <2>0, <2>2 DEF CommitSubmit, AcceptedIsIndexed
  <2>3. ASSUME NEW q \in inflight, CommitAccept(q) PROVE s \in indexed'
    BY <2>0, <2>3 DEF CommitAccept, AcceptedIsIndexed
  <2>4. ASSUME NEW q \in inflight, CommitFlag(q) PROVE s \in indexed'
    BY <2>0, <2>4 DEF CommitFlag, AcceptedIsIndexed
  <2>5. ASSUME NEW q \in inflight,
               CommitHook(q) \/ CommitRedeem(q) \/ CommitApprove(q)
        PROVE  s \in indexed'
    BY <2>5 DEF CommitHook, CommitRedeem, CommitApprove, AcceptedIsIndexed
  <2>. QED
    BY <2>1, <2>2, <2>3, <2>4, <2>5, StepCases
<1>. QED
  BY <1>1, <1>2, TypeCorrect, PTL DEF Spec

-----------------------------------------------------------------------------
(* The columns `banned` and `flagged` under a write-back of any row, stale   *)
(* or not.                                                                   *)
LEMMA BannedColumn ==
  ASSUME TypeOK, NEW q \in inflight, NEW new \in Row, WriteBack(q, new),
         NEW a \in Agents
  PROVE  agent'[a].banned = IF a = q.agent /\ new.banned # q.row.banned
                            THEN new.banned ELSE agent[a].banned
<1>1. q.agent \in Agents
  BY RequestFields
<1>2. CASE a # q.agent
  BY <1>1, <1>2 DEF WriteBack, TypeOK
<1>3. CASE a = q.agent
  <2>1. agent'[a] = Merge(agent[a], q.row, new)
    BY <1>1, <1>3 DEF WriteBack, TypeOK
  <2>. QED
    BY <1>3, <2>1 DEF Merge, Column
<1>. QED
  BY <1>2, <1>3

LEMMA FlaggedColumn ==
  ASSUME TypeOK, NEW q \in inflight, NEW new \in Row, WriteBack(q, new),
         NEW a \in Agents
  PROVE  agent'[a].flagged = IF a = q.agent /\ new.flagged # q.row.flagged
                             THEN new.flagged ELSE agent[a].flagged
<1>1. q.agent \in Agents
  BY RequestFields
<1>2. CASE a # q.agent
  BY <1>1, <1>2 DEF WriteBack, TypeOK
<1>3. CASE a = q.agent
  <2>1. agent'[a] = Merge(agent[a], q.row, new)
    BY <1>1, <1>3 DEF WriteBack, TypeOK
  <2>. QED
    BY <1>3, <2>1 DEF Merge, Column
<1>. QED
  BY <1>2, <1>3

(* What a commit writes back, and to which ban column. *)
LEMMA CommitsAndBans ==
  ASSUME TypeOK, NEW q \in inflight,
         \/ CommitSubmit(q) \/ CommitHook(q) \/ CommitAccept(q)
         \/ CommitFlag(q) \/ CommitRedeem(q) \/ CommitApprove(q)
  PROVE  \E new \in Row :
           /\ WriteBack(q, new)
           /\ \/ new.banned = q.row.banned
              \/ new.banned = TRUE
              \/ CommitApprove(q) /\ q.op = "approve" /\ new.banned = FALSE
<1>0. q.row \in Row
  BY RequestFields
<1>1. CASE CommitSubmit(q) \/ CommitHook(q)
  <2>1. WriteBack(q, Submitted(q.row)) /\ Submitted(q.row) \in Row
    BY <1>1, RequestFields DEF CommitSubmit, CommitHook
  <2>. QED
    BY <1>0, <2>1 DEF Submitted, Row
<1>2. CASE CommitAccept(q)
  <2>1. WriteBack(q, Accepted(q.row)) /\ Accepted(q.row) \in Row
    BY <1>2, RequestFields DEF CommitAccept
  <2>. QED
    BY <1>0, <2>1 DEF Accepted, Row
<1>3. CASE CommitFlag(q)
  <2>1. WriteBack(q, Flagged(q.row)) /\ Flagged(q.row) \in Row
    BY <1>3, RequestFields DEF CommitFlag
  <2>2. Flagged(q.row).banned =
          IF q.row.flagged + 1 >= BanFlagLimit THEN TRUE ELSE q.row.banned
    BY <1>0 DEF Flagged, Row
  <2>. QED
    BY <2>1, <2>2
<1>4. CASE CommitRedeem(q)
  <2>1. WriteBack(q, Redeemed(q.row)) /\ Redeemed(q.row) \in Row
    BY <1>4, RequestFields DEF CommitRedeem
  <2>. QED
    BY <1>0, <2>1 DEF Redeemed, Row
<1>5. CASE CommitApprove(q)
  <2>1. /\ WriteBack(q, Reinstated(q.row)) /\ Reinstated(q.row) \in Row
        /\ q.op = "approve"
    BY <1>5, RequestFields DEF CommitApprove
  <2>2. Reinstated(q.row).banned = FALSE
    BY <1>0 DEF Reinstated, Row
  <2>. QED
    BY <1>5, <2>1, <2>2
<1>. QED
  BY <1>1, <1>2, <1>3, <1>4, <1>5

(* A ban stands until an approval that read it commits: no stale write-back   *)
(* of a review, a submission or a payout undoes it.                           *)
THEOREM BanStands == Spec => OnlyApprovalLiftsBan
<1>1. ASSUME TypeOK, [Next]_vars, NEW a \in Agents,
             agent[a].banned = TRUE, agent'[a].banned = FALSE
      PROVE  \E q \in inflight : /\ q.op = "approve" /\ q.agent = a
                                 /\ q.row.banned = TRUE /\ CommitApprove(q)
  <2>1. ~Reading
    BY <1>1 DEF Reading
  <2>2. PICK q \in inflight : \/ CommitSubmit(q) \/ CommitHook(q) \/ CommitAccept(q)
                             \/ CommitFlag(q) \/ CommitRedeem(q) \/ CommitApprove(q)
    BY <1>1, <2>1, StepCases
  <2>3. PICK new \in Row :
           /\ WriteBack(q, new)
           /\ \/ new.banned = q.row.banned
              \/ new.banned = TRUE
              \/ CommitApprove(q) /\ q.op = "approve" /\ new.banned = FALSE
    BY <1>1, <2>2, CommitsAndBans
  <2>4. agent'[a].banned = IF a = q.agent /\ new.banned # q.row.banned
                           THEN new.banned ELSE agent[a].banned
    BY <1>1, <2>3, BannedColumn
  <2>5. q.row.banned \in BOOLEAN /\ q.agent \in Agents
    BY <1>1, RequestFields DEF Row
  <2>. QED
    BY <1>1, <2>3, <2>4, <2>5
<1>2. TypeOK => \A a \in Agents : agent[a].banned \in BOOLEAN
  BY DEF TypeOK, Row
<1>3. TypeOK' => \A a \in Agents : agent'[a].banned \in BOOLEAN
  BY DEF TypeOK, Row
<1>4. TypeOK => \A q \in inflight : q.row.banned \in BOOLEAN
  BY DEF TypeOK, Request, Row
<1>5. TypeOK /\ TypeOK' /\ [Next]_vars =>
        [\A a \in Agents : agent[a].banned /\ ~agent'[a].banned =>
           \E q \in inflight : /\ q.op = "approve" /\ q.agent = a /\ q.row.banned
                               /\ CommitApprove(q)]_vars
  BY <1>1, <1>2, <1>3, <1>4
<1>. QED
  BY <1>5, TypeCorrect, PTL DEF Spec, OnlyApprovalLiftsBan

(* A flag from the limit on bans, whatever happened to the agent before and   *)
(* whatever overlapped, unless it read a ban that was lifted meanwhile.       *)
THEOREM FlagBans == Spec => FlagLimitBans
<1>1. ASSUME TypeOK, [Next]_vars, NEW a \in Agents,
             agent'[a].flagged > agent[a].flagged,
             agent'[a].flagged >= BanFlagLimit, agent'[a].banned # TRUE
      PROVE  /\ agent[a].banned # TRUE
             /\ \E q \in inflight : CommitFlag(q) /\ q.agent = a /\ q.row.banned = TRUE
  <2>0. agent[a].flagged \in Int
    BY <1>1, AgentFields
  <2>1. ~Reading
    BY <1>1, <2>0 DEF Reading
  <2>2. PICK q \in inflight : \/ CommitSubmit(q) \/ CommitHook(q) \/ CommitAccept(q)
                             \/ CommitFlag(q) \/ CommitRedeem(q) \/ CommitApprove(q)
    BY <1>1, <2>1, StepCases
  <2>3. q.row \in Row /\ q.row.flagged \in Int /\ q.row.banned \in BOOLEAN
    BY <1>1, RequestFields DEF Row
  <2>4. CASE CommitFlag(q)
    <3>. DEFINE new == Flagged(q.row)
    <3>1. WriteBack(q, new) /\ new \in Row
      BY <1>1, <2>4, RequestFields DEF CommitFlag
    <3>2. /\ new.flagged = q.row.flagged + 1
          /\ new.banned = IF q.row.flagged + 1 >= BanFlagLimit THEN TRUE ELSE q.row.banned
      BY <2>3 DEF Flagged, Row
    <3>. HIDE DEF new
    <3>3. /\ agent'[a].flagged = IF a = q.agent /\ new.flagged # q.row.flagged
                                 THEN new.flagged ELSE agent[a].flagged
          /\ agent'[a].banned = IF a = q.agent /\ new.banned # q.row.banned
                                THEN new.banned ELSE agent[a].banned
      BY <1>1, <3>1, FlaggedColumn, BannedColumn
    <3>4. a = q.agent /\ agent'[a].flagged = q.row.flagged + 1
      BY <1>1, <2>0, <2>3, <3>2, <3>3
    <3>5. new.banned = TRUE
      BY <1>1, <3>2, <3>4
    <3>. QED
      BY <1>1, <2>3, <2>4, <3>3, <3>4, <3>5
  <2>5. CASE ~CommitFlag(q)
    <3>1. \E new \in Row : WriteBack(q, new) /\ new.flagged = q.row.flagged
      <4>1. CASE CommitSubmit(q) \/ CommitHook(q)
        <5>1. WriteBack(q, Submitted(q.row)) /\ Submitted(q.row) \in Row
          BY <1>1, <4>1, RequestFields DEF CommitSubmit, CommitHook
        <5>. QED
          BY <2>3, <5>1 DEF Submitted, Row
      <4>2. CASE CommitAccept(q)
        <5>1. WriteBack(q, Accepted(q.row)) /\ Accepted(q.row) \in Row
          BY <1>1, <4>2, RequestFields DEF CommitAccept
        <5>. QED
          BY <2>3, <5>1 DEF Accepted, Row
      <4>3. CASE CommitRedeem(q)
        <5>1. WriteBack(q, Redeemed(q.row)) /\ Redeemed(q.row) \in Row
          BY <1>1, <4>3, RequestFields DEF CommitRedeem
        <5>. QED
          BY <2>3, <5>1 DEF Redeemed, Row
      <4>4. CASE CommitApprove(q)
        <5>1. WriteBack(q, Reinstated(q.row)) /\ Reinstated(q.row) \in Row
          BY <1>1, <4>4, RequestFields DEF CommitApprove
        <5>. QED
          BY <2>3, <5>1 DEF Reinstated, Row
      <4>. QED
        BY <2>2, <2>5, <4>1, <4>2, <4>3, <4>4
    <3>2. agent'[a].flagged = agent[a].flagged
      BY <1>1, <3>1, FlaggedColumn
    <3>. QED
      BY <1>1, <2>0, <3>2
  <2>. QED
    BY <2>4, <2>5
<1>2. /\ TypeOK => \A a \in Agents : agent[a].banned \in BOOLEAN
      /\ TypeOK' => \A a \in Agents : agent'[a].banned \in BOOLEAN
      /\ TypeOK => \A q \in inflight : q.row.banned \in BOOLEAN
  BY DEF TypeOK, Request, Row
<1>3. TypeOK /\ TypeOK' /\ [Next]_vars =>
        [\A a \in Agents :
           agent'[a].flagged > agent[a].flagged /\ agent'[a].flagged >= BanFlagLimit =>
             \/ agent'[a].banned
             \/ ~agent[a].banned /\ \E q \in inflight : /\ CommitFlag(q) /\ q.agent = a
                                                       /\ q.row.banned]_vars
  BY <1>1, <1>2
<1>. QED
  BY <1>3, TypeCorrect, PTL DEF Spec, FlagLimitBans

-----------------------------------------------------------------------------
(* A submission is stored and credited once. *)

Stored(a) == {s \in SubsOf(a) : verdict[s] # "NONE"}

(* The strengthening: a review in flight is about a submission that is       *)
(* stored, and stays stored, since nothing deletes one.                      *)
ReviewsAreStored ==
  \A q \in inflight :
    /\ q.op \in {"submit", "accept", "flag"} => q.client \in ClientIds
    /\ q.op \in {"accept", "flag"} => verdict[<<q.agent, q.client>>] # "NONE"

LEMMA StoredIsFinite ==
  ASSUME NEW a PROVE IsFiniteSet(SubsOf(a)) /\ IsFiniteSet(Stored(a))
<1>1. IsFiniteSet({a}) /\ IsFiniteSet(ClientIds)
  BY FS_Singleton, ClientIdsAssumption
<1>2. IsFiniteSet(SubsOf(a))
  BY <1>1, FS_Product DEF SubsOf
<1>. QED
  BY <1>2, FS_Subset DEF Stored

LEMMA StoringStep ==
  ASSUME TypeOK, ReviewsAreStored, [Next]_vars
  PROVE  \/ /\ \A s \in Subs : verdict'[s] # "NONE" <=> verdict[s] # "NONE"
            /\ \A a \in Agents : ledger'[a].submits = ledger[a].submits
            /\ inflight' \subseteq inflight \/ Reading
         \/ \E q \in inflight : CommitSubmit(q) /\ q.client \in ClientIds
<1>0. verdict \in [Subs -> {"NONE", "PENDING", "ACCEPTED", "FLAGGED"}]
  BY DEF TypeOK
<1>1. CASE Reading
  BY <1>1 DEF Reading
<1>2. ASSUME NEW q \in inflight, NEW new \in Row, WriteBack(q, new)
      PROVE  inflight' \subseteq inflight
  BY <1>2 DEF WriteBack
<1>3. ASSUME NEW q \in inflight,
             CommitHook(q) \/ CommitAccept(q) \/ CommitFlag(q) \/ CommitRedeem(q)
             \/ CommitApprove(q)
      PROVE  /\ \A s \in Subs : verdict'[s] # "NONE" <=> verdict[s] # "NONE"
             /\ \A a \in Agents : ledger'[a].submits = ledger[a].submits
             /\ inflight' \subseteq inflight
  <2>1. inflight' \subseteq inflight
    BY <1>3 DEF CommitHook, CommitAccept, CommitFlag, CommitRedeem, CommitApprove,
                WriteBack
  <2>2. ASSUME NEW s \in Subs PROVE verdict'[s] # "NONE" <=> verdict[s] # "NONE"
    <3>1. CASE CommitAccept(q)
      BY <1>0, <3>1 DEF CommitAccept, ReviewsAreStored
    <3>2. CASE CommitFlag(q)
      BY <1>0, <3>2 DEF CommitFlag, ReviewsAreStored
    <3>3. CASE CommitHook(q) \/ CommitRedeem(q) \/ CommitApprove(q)
      BY <3>3 DEF CommitHook, CommitRedeem, CommitApprove
    <3>. QED
      BY <1>3, <3>1, <3>2, <3>3
  <2>3. ASSUME NEW a \in Agents PROVE ledger'[a].submits = ledger[a].submits
    <3>1. CASE a # q.agent
      BY <1>3, <3>1, LedgerOthers
    <3>2. CASE a = q.agent /\ CommitApprove(q)
      BY <3>2 DEF CommitApprove
    <3>3. CASE a = q.agent /\ ~CommitApprove(q)
      BY <1>3, <3>3, LedgerEffects
    <3>. QED
      BY <3>1, <3>2, <3>3
  <2>. QED
    BY <2>1, <2>2, <2>3
<1>4. ASSUME NEW q \in inflight, CommitSubmit(q) PROVE q.client \in ClientIds
  BY <1>4 DEF CommitSubmit, ReviewsAreStored
<1>. QED
  BY <1>1, <1>3, <1>4, StepCases

LEMMA StoredAndCredited == Spec => [](ReviewsAreStored /\ CreditedOncePerSubmission)
<1>. DEFINE Inv == ReviewsAreStored /\ CreditedOncePerSubmission
<1>1. Init => Inv
  <2>. SUFFICES ASSUME Init PROVE Inv
    OBVIOUS
  <2>1. ASSUME NEW a \in Agents PROVE ledger[a].submits = Cardinality(Stored(a))
    <3>1. Stored(a) = {}
      BY DEF Init, Stored, SubsOf, Subs
    <3>. QED
      BY <3>1, FS_EmptySet DEF Init
  <2>2. CreditedOncePerSubmission
    BY <2>1 DEF CreditedOncePerSubmission, Stored
  <2>. QED
    BY <2>2 DEF Init, ReviewsAreStored
<1>2. TypeOK /\ Inv /\ [Next]_vars => Inv'
  <2>. SUFFICES ASSUME TypeOK, Inv, [Next]_vars PROVE Inv'
    OBVIOUS
  <2>0. verdict \in [Subs -> {"NONE", "PENDING", "ACCEPTED", "FLAGGED"}]
    BY DEF TypeOK
  <2>1. CASE /\ \A s \in Subs : verdict'[s] # "NONE" <=> verdict[s] # "NONE"
             /\ \A a \in Agents : ledger'[a].submits = ledger[a].submits
             /\ inflight' \subseteq inflight \/ Reading
    <3>1. \A a \in Agents : Stored(a)' = Stored(a)
      BY <2>1 DEF Stored, SubsOf, Subs
    <3>2. CreditedOncePerSubmission'
      BY <2>1, <3>1 DEF CreditedOncePerSubmission, Stored
    <3>3. ASSUME NEW q \in inflight'
          PROVE  /\ q.op \in {"submit", "accept", "flag"} => q.client \in ClientIds
                 /\ q.op \in {"accept", "flag"} =>
                      verdict'[<<q.agent, q.client>>] # "NONE"
      <4>1. CASE q \in inflight
        <5>1. q.agent \in Agents
          BY <4>1, RequestFields
        <5>. QED
          BY <2>1, <4>1, <5>1 DEF ReviewsAreStored, Subs
      <4>2. CASE q \notin inflight
        BY <2>1, <4>2 DEF Reading
      <4>. QED
        BY <4>1, <4>2
    <3>. QED
      BY <3>2, <3>3 DEF ReviewsAreStored
  <2>2. ASSUME NEW q \in inflight, CommitSubmit(q), q.client \in ClientIds
        PROVE  Inv'
    <3>. DEFINE s0 == <<q.agent, q.client>>
    <3>0. q.agent \in Agents /\ s0 \in Subs /\ s0 \in SubsOf(q.agent)
      BY <2>2, RequestFields DEF Subs, SubsOf
    <3>1. /\ verdict[s0] = "NONE" /\ verdict' = [verdict EXCEPT ![s0] = "PENDING"]
          /\ inflight' \subseteq inflight
      BY <2>2 DEF CommitSubmit, SubmitConflicts, WriteBack
    <3>2. ASSUME NEW a \in Agents
          PROVE  ledger'[a].submits = Cardinality(Stored(a)')
      <4>0. ledger[a].submits = Cardinality(Stored(a))
        BY DEF CreditedOncePerSubmission, Stored
      <4>1. CASE a # q.agent
        <5>1. Stored(a)' = Stored(a)
          BY <2>0, <3>0, <3>1, <4>1 DEF Stored, SubsOf, Subs
        <5>. QED
          BY <2>2, <4>0, <4>1, <5>1, LedgerOthers
      <4>2. CASE a = q.agent
        <5>1. Stored(a)' = Stored(a) \union {s0} /\ s0 \notin Stored(a)
          BY <2>0, <3>0, <3>1, <4>2 DEF Stored, SubsOf, Subs
        <5>2. Cardinality(Stored(a)') = Cardinality(Stored(a)) + 1
          BY <5>1, StoredIsFinite, FS_AddElement
        <5>. QED
          BY <2>2, <4>0, <4>2, <5>2, LedgerEffects
      <4>. QED
        BY <4>1, <4>2
    <3>3. CreditedOncePerSubmission'
      BY <3>2 DEF CreditedOncePerSubmission, Stored
    <3>4. ASSUME NEW r \in inflight'
          PROVE  /\ r.op \in {"submit", "accept", "flag"} => r.client \in ClientIds
                 /\ r.op \in {"accept", "flag"} =>
                      verdict'[<<r.agent, r.client>>] # "NONE"
      <4>1. r \in inflight /\ r.agent \in Agents
        BY <3>1, RequestFields
      <4>2. \A s \in Subs : verdict[s] # "NONE" => verdict'[s] # "NONE"
        BY <2>0, <3>1
      <4>. QED
        BY <4>1, <4>2 DEF ReviewsAreStored, Subs
    <3>5. ReviewsAreStored'
      BY <3>4 DEF ReviewsAreStored
    <3>. QED
      BY <3>3, <3>5
  <2>. QED
    BY <2>1, <2>2, StoringStep
<1>. QED
  BY <1>1, <1>2, TypeCorrect, PTL DEF Spec

(* However often a client id is sent and however those requests overlap, the *)
(* submission is stored and credited once.                                   *)
THEOREM CreditedOnce == Spec => []CreditedOncePerSubmission
BY StoredAndCredited, PTL

-----------------------------------------------------------------------------
(* The counters and the outcomes.                                            *)

(* The strengthening: the counters of reviews only grow, so that a review    *)
(* which still finds the row it read finds its report pending, too.          *)
ReviewsArePending ==
  \A q \in inflight : q.op \in {"accept", "flag"} /\ q.agent \notin raced =>
    /\ q.row.accepted <= agent[q.agent].accepted
    /\ q.row.flagged <= agent[q.agent].flagged
    /\ q.row.accepted = agent[q.agent].accepted /\ q.row.flagged = agent[q.agent].flagged
         => verdict[<<q.agent, q.client>>] = "PENDING"

LEMMA VerdictIsFinite ==
  ASSUME NEW a, NEW v
  PROVE  IsFiniteSet(WithVerdict(a, v)) /\ Cardinality(WithVerdict(a, v)) \in Nat
BY StoredIsFinite, FS_Subset, FS_CardinalityType DEF WithVerdict

(* Deciding a submission moves it from one outcome of its agent to another.  *)
Decides(a, c, u, v) ==
  /\ verdict[<<a, c>>] = u
  /\ v # u
  /\ verdict' = [verdict EXCEPT ![<<a, c>>] = v]

Moved(a, u, v) ==
  /\ Cardinality(WithVerdict(a, v))' = Cardinality(WithVerdict(a, v)) + 1
  /\ Cardinality(WithVerdict(a, u))' = Cardinality(WithVerdict(a, u)) - 1
  /\ \A w : w # v /\ w # u => WithVerdict(a, w)' = WithVerdict(a, w)
  /\ \A b \in Agents : b # a => \A w : WithVerdict(b, w)' = WithVerdict(b, w)

LEMMA VerdictMoves ==
  ASSUME TypeOK, NEW a \in Agents, NEW c \in ClientIds, NEW u, NEW v,
         Decides(a, c, u, v)
  PROVE  Moved(a, u, v)
<1>. DEFINE s0 == <<a, c>>
<1>0. /\ verdict \in [Subs -> {"NONE", "PENDING", "ACCEPTED", "FLAGGED"}]
      /\ s0 \in Subs /\ s0 \in SubsOf(a)
      /\ \A s \in Subs : verdict'[s] = IF s = s0 THEN v ELSE verdict[s]
      /\ \A b \in Agents : SubsOf(b) \subseteq Subs /\ (b # a => s0 \notin SubsOf(b))
  BY DEF TypeOK, Subs, SubsOf, Decides
<1>1. WithVerdict(a, v)' = WithVerdict(a, v) \union {s0} /\ s0 \notin WithVerdict(a, v)
  BY <1>0 DEF WithVerdict, Decides
<1>2. WithVerdict(a, u)' = WithVerdict(a, u) \ {s0} /\ s0 \in WithVerdict(a, u)
  BY <1>0 DEF WithVerdict, Decides
<1>3. \A w : w # v /\ w # u => WithVerdict(a, w)' = WithVerdict(a, w)
  BY <1>0 DEF WithVerdict, Decides
<1>4. \A b \in Agents : b # a => \A w : WithVerdict(b, w)' = WithVerdict(b, w)
  BY <1>0 DEF WithVerdict, Decides
<1>5. Cardinality(WithVerdict(a, v)') = Cardinality(WithVerdict(a, v)) + 1
  BY <1>1, VerdictIsFinite, FS_AddElement
<1>6. Cardinality(WithVerdict(a, u)') = Cardinality(WithVerdict(a, u)) - 1
  BY <1>2, VerdictIsFinite, FS_RemoveElement
<1>. QED
  BY <1>3, <1>4, <1>5, <1>6 DEF Moved

(* A commit on the row it read: which counter it moves with which outcome.   *)
Counts(a) ==
  /\ agent[a].accepted = Cardinality(WithVerdict(a, "ACCEPTED"))
  /\ agent[a].flagged = Cardinality(WithVerdict(a, "FLAGGED"))
  /\ agent[a].pending = Cardinality(WithVerdict(a, "PENDING")) + ledger[a].hooks

LEMMA CountersStep ==
  ASSUME TypeOK, ReviewsAreStored, ReviewsArePending, CountersMatchVerdicts, [Next]_vars
  PROVE  CountersMatchVerdicts'
<1>. SUFFICES ASSUME NEW a \in Agents, a \notin raced' PROVE Counts(a)'
  BY DEF CountersMatchVerdicts, Counts
<1>0. /\ a \notin raced => Counts(a)
      /\ agent[a].pending \in Nat /\ agent[a].accepted \in Nat /\ agent[a].flagged \in Nat
      /\ ledger[a].hooks \in Nat
      /\ \A v : Cardinality(WithVerdict(a, v)) \in Nat
  BY AgentFields, VerdictIsFinite DEF CountersMatchVerdicts, Counts
<1>1. CASE Reading
  BY <1>0, <1>1 DEF Reading, Counts, WithVerdict
<1>2. ASSUME NEW q \in inflight, NEW new \in Row, WriteBack(q, new)
      PROVE  /\ Counts(a)
             /\ a # q.agent => agent'[a] = agent[a]
             /\ a = q.agent => agent[a] = q.row /\ agent'[a] = new
  BY <1>0, <1>2, FreshWriteBack
<1>3. ASSUME NEW q \in inflight, CommitHook(q) \/ CommitRedeem(q) \/ CommitApprove(q)
      PROVE  Counts(a)'
  <2>1. \A v : WithVerdict(a, v)' = WithVerdict(a, v)
    BY <1>3 DEF CommitHook, CommitRedeem, CommitApprove, WithVerdict
  <2>2. PICK new \in Row : /\ WriteBack(q, new)
                           /\ new.accepted = q.row.accepted /\ new.flagged = q.row.flagged
                           /\ CommitHook(q) => new.pending = q.row.pending + 1
                           /\ ~CommitHook(q) => new.pending = q.row.pending
    <3>0. q.row \in Row
      BY RequestFields
    <3>1. CASE CommitHook(q)
      BY <3>0, <3>1, RequestFields, RowFields DEF CommitHook
    <3>2. CASE CommitRedeem(q) /\ ~CommitHook(q)
      BY <3>0, <3>2, RequestFields, RowFields DEF CommitRedeem
    <3>3. CASE CommitApprove(q) /\ ~CommitHook(q)
      BY <3>0, <3>3, RequestFields, RowFields DEF CommitApprove
    <3>. QED
      BY <1>3, <3>1, <3>2, <3>3
  <2>3. /\ a # q.agent => ledger'[a] = ledger[a]
        /\ a = q.agent /\ CommitHook(q) => ledger'[a].hooks = ledger[a].hooks + 1
        /\ a = q.agent /\ ~CommitHook(q) => ledger'[a].hooks = ledger[a].hooks
    <3>1. CASE CommitApprove(q) /\ ~CommitHook(q)
      BY <3>1 DEF CommitApprove
    <3>. QED
      BY <1>3, <3>1, LedgerEffects, LedgerOthers
  <2>. QED
    BY <1>0, <1>2, <2>1, <2>2, <2>3 DEF Counts
<1>4. ASSUME NEW q \in inflight, CommitSubmit(q) PROVE Counts(a)'
  <2>1. /\ WriteBack(q, Submitted(q.row)) /\ q.row \in Row /\ Submitted(q.row) \in Row
        /\ q.agent \in Agents /\ q.client \in ClientIds
        /\ verdict[<<q.agent, q.client>>] = "NONE"
        /\ verdict' = [verdict EXCEPT ![<<q.agent, q.client>>] = "PENDING"]
    BY <1>4, RequestFields DEF CommitSubmit, SubmitConflicts, ReviewsAreStored
  <2>4. Moved(q.agent, "NONE", "PENDING")
    BY <2>1, VerdictMoves DEF Decides
  <2>2. CASE a # q.agent
    <3>1. \A v : WithVerdict(a, v)' = WithVerdict(a, v)
      BY <2>2, <2>4 DEF Moved
    <3>2. ledger'[a] = ledger[a]
      BY <1>4, <2>2, LedgerOthers
    <3>. QED
      BY <1>2, <2>1, <2>2, <3>1, <3>2 DEF Counts
  <2>3. CASE a = q.agent
    <3>1. /\ Cardinality(WithVerdict(a, "PENDING"))' = Cardinality(WithVerdict(a, "PENDING")) + 1
          /\ WithVerdict(a, "ACCEPTED")' = WithVerdict(a, "ACCEPTED")
          /\ WithVerdict(a, "FLAGGED")' = WithVerdict(a, "FLAGGED")
      BY <2>3, <2>4 DEF Moved
    <3>2. ledger'[a].hooks = ledger[a].hooks
      BY <1>4, <2>3, LedgerEffects
    <3>3. /\ agent'[a].accepted = agent[a].accepted /\ agent'[a].flagged = agent[a].flagged
          /\ agent'[a].pending = agent[a].pending + 1
      <4>1. agent[a] = q.row /\ agent'[a] = Submitted(q.row)
        BY <1>2, <2>1, <2>3
      <4>2. /\ Submitted(q.row).accepted = q.row.accepted
            /\ Submitted(q.row).flagged = q.row.flagged
            /\ Submitted(q.row).pending = q.row.pending + 1
        BY <2>1, RowFields
      <4>. QED
        BY <4>1, <4>2
    <3>4. Counts(a)
      BY <1>2, <2>1
    <3>. QED
      BY <1>0, <3>1, <3>2, <3>3, <3>4 DEF Counts
  <2>. QED
    BY <2>2, <2>3
<1>5. ASSUME NEW q \in inflight, CommitAccept(q) \/ CommitFlag(q) PROVE Counts(a)'
  <2>0. PICK v \in {"ACCEPTED", "FLAGGED"}, new \in Row :
          /\ v = "ACCEPTED" => CommitAccept(q) /\ new = Accepted(q.row)
          /\ v = "FLAGGED" => CommitFlag(q) /\ new = Flagged(q.row)
    BY <1>5, RequestFields DEF CommitAccept, CommitFlag
  <2>1. /\ WriteBack(q, new) /\ q.row \in Row
        /\ q.agent \in Agents /\ q.client \in ClientIds
        /\ q.op \in {"accept", "flag"}
        /\ verdict' = [verdict EXCEPT ![<<q.agent, q.client>>] = v]
    BY <2>0, RequestFields DEF CommitAccept, CommitFlag, ReviewsAreStored
  <2>2. CASE a # q.agent
    <3>1. \A w : WithVerdict(a, w)' = WithVerdict(a, w)
      <4>1. CASE v = verdict[<<q.agent, q.client>>]
        BY <2>1, <4>1 DEF TypeOK, WithVerdict
      <4>2. CASE v # verdict[<<q.agent, q.client>>]
        <5>1. Moved(q.agent, verdict[<<q.agent, q.client>>], v)
          BY <2>1, <4>2, VerdictMoves DEF Decides
        <5>. QED
          BY <2>2, <5>1 DEF Moved
      <4>. QED
        BY <4>1, <4>2
    <3>2. ledger'[a] = ledger[a]
      BY <1>5, <2>2, LedgerOthers
    <3>. QED
      BY <1>2, <2>1, <2>2, <3>1, <3>2 DEF Counts
  <2>3. CASE a = q.agent
    <3>0. agent[a] = q.row /\ agent'[a] = new /\ Counts(a) /\ a \notin raced
      BY <1>2, <2>1, <2>3, FreshWriteBack
    <3>1. verdict[<<a, q.client>>] = "PENDING"
      BY <2>1, <2>3, <3>0 DEF ReviewsArePending
    <3>2. /\ Cardinality(WithVerdict(a, v))' = Cardinality(WithVerdict(a, v)) + 1
          /\ Cardinality(WithVerdict(a, "PENDING"))' = Cardinality(WithVerdict(a, "PENDING")) - 1
          /\ \A w : w # v /\ w # "PENDING" => WithVerdict(a, w)' = WithVerdict(a, w)
      <4>1. Moved(a, "PENDING", v)
        BY <2>1, <2>3, <3>1, VerdictMoves DEF Decides
      <4>. QED
        BY <4>1 DEF Moved
    <3>3. ledger'[a].hooks = ledger[a].hooks
      BY <1>5, <2>3, LedgerEffects
    <3>4. /\ new.pending = LessPending(q.row)
          /\ new.accepted = IF v = "ACCEPTED" THEN q.row.accepted + 1 ELSE q.row.accepted
          /\ new.flagged = IF v = "ACCEPTED" THEN q.row.flagged ELSE q.row.flagged + 1
      <4>1. CASE v = "ACCEPTED"
        <5>1. new = Accepted(q.row)
          BY <2>0, <4>1
        <5>. QED
          BY <2>1, <4>1, <5>1, RowFields
      <4>2. CASE v = "FLAGGED"
        <5>1. new = Flagged(q.row)
          BY <2>0, <4>2
        <5>. QED
          BY <2>1, <4>2, <5>1, RowFields
      <4>. QED
        BY <2>0, <4>1, <4>2
    <3>5. new.pending = agent[a].pending - 1
      <4>1. Cardinality(WithVerdict(a, "PENDING"))' \in Nat
        BY StoredIsFinite, FS_Subset, FS_CardinalityType DEF WithVerdict
      <4>. QED
        BY <1>0, <3>0, <3>2, <3>4, <4>1 DEF Counts, LessPending
    <3>6. CASE v = "ACCEPTED"
      <4>1. agent'[a].accepted = agent[a].accepted + 1 /\ agent'[a].flagged = agent[a].flagged
        BY <3>0, <3>4, <3>6
      <4>2. /\ Cardinality(WithVerdict(a, "ACCEPTED"))' = Cardinality(WithVerdict(a, "ACCEPTED")) + 1
            /\ WithVerdict(a, "FLAGGED")' = WithVerdict(a, "FLAGGED")
        BY <3>2, <3>6
      <4>. QED
        BY <1>0, <3>0, <3>2, <3>3, <3>5, <4>1, <4>2 DEF Counts
    <3>7. CASE v = "FLAGGED"
      <4>1. agent'[a].accepted = agent[a].accepted /\ agent'[a].flagged = agent[a].flagged + 1
        BY <3>0, <3>4, <3>7
      <4>2. /\ Cardinality(WithVerdict(a, "FLAGGED"))' = Cardinality(WithVerdict(a, "FLAGGED")) + 1
            /\ WithVerdict(a, "ACCEPTED")' = WithVerdict(a, "ACCEPTED")
        BY <3>2, <3>7
      <4>. QED
        BY <1>0, <3>0, <3>2, <3>3, <3>5, <4>1, <4>2 DEF Counts
    <3>. QED
      BY <3>6, <3>7
  <2>. QED
    BY <2>2, <2>3
<1>. QED
  BY <1>1, <1>3, <1>4, <1>5, StepCases

LEMMA PendingStep ==
  ASSUME TypeOK, ReviewsAreStored, ReviewsArePending, [Next]_vars
  PROVE  ReviewsArePending'
<1>. SUFFICES ASSUME NEW r \in inflight', r.op \in {"accept", "flag"}, r.agent \notin raced'
              PROVE  /\ r.row.accepted <= agent'[r.agent].accepted
                     /\ r.row.flagged <= agent'[r.agent].flagged
                     /\ /\ r.row.accepted = agent'[r.agent].accepted
                        /\ r.row.flagged = agent'[r.agent].flagged
                        => verdict'[<<r.agent, r.client>>] = "PENDING"
  BY DEF ReviewsArePending
<1>1. CASE Reading
  <2>1. CASE r \in inflight
    BY <1>1, <2>1 DEF Reading, ReviewsArePending
  <2>2. CASE r \notin inflight
    <3>1. /\ r \in Request /\ r.row = agent[r.agent]
          /\ verdict[<<r.agent, r.client>>] = "PENDING"
      BY <1>1, <2>2 DEF Reading
    <3>2. r.agent \in Agents /\ agent' = agent /\ verdict' = verdict
      BY <1>1, <3>1 DEF Reading, Request
    <3>. QED
      BY <3>1, <3>2, AgentFields
  <2>. QED
    BY <2>1, <2>2
<1>2. ASSUME NEW q \in inflight,
             \/ CommitSubmit(q) \/ CommitHook(q) \/ CommitAccept(q)
             \/ CommitFlag(q) \/ CommitRedeem(q) \/ CommitApprove(q)
      PROVE  /\ r.row.accepted <= agent'[r.agent].accepted
             /\ r.row.flagged <= agent'[r.agent].flagged
             /\ /\ r.row.accepted = agent'[r.agent].accepted
                /\ r.row.flagged = agent'[r.agent].flagged
                => verdict'[<<r.agent, r.client>>] = "PENDING"
  <2>. DEFINE b == r.agent
  <2>1. PICK new \in Row :
          /\ WriteBack(q, new)
          /\ new.accepted >= q.row.accepted /\ new.flagged >= q.row.flagged
          /\ CommitAccept(q) \/ CommitFlag(q) =>
               new.accepted # q.row.accepted \/ new.flagged # q.row.flagged
    <3>0. q.row \in Row /\ q.row.accepted \in Nat /\ q.row.flagged \in Nat
      BY RequestFields
    <3>1. CASE CommitSubmit(q) \/ CommitHook(q)
      <4>1. WriteBack(q, Submitted(q.row)) /\ Submitted(q.row) \in Row
            /\ ~(CommitAccept(q) \/ CommitFlag(q))
        BY <3>1, RequestFields DEF CommitSubmit, CommitHook, CommitAccept, CommitFlag
      <4>2. Submitted(q.row).accepted = q.row.accepted /\ Submitted(q.row).flagged = q.row.flagged
        BY <3>0, RowFields
      <4>3. Submitted(q.row).accepted >= q.row.accepted /\ Submitted(q.row).flagged >= q.row.flagged
        BY <3>0, <4>2
      <4>. QED
        BY <4>1, <4>3, Zenon
    <3>2. CASE CommitAccept(q)
      <4>1. WriteBack(q, Accepted(q.row)) /\ Accepted(q.row) \in Row
        BY <3>2, RequestFields DEF CommitAccept
      <4>2. Accepted(q.row).accepted = q.row.accepted + 1 /\ Accepted(q.row).flagged = q.row.flagged
        BY <3>0, RowFields
      <4>3. Accepted(q.row).accepted >= q.row.accepted /\ Accepted(q.row).flagged >= q.row.flagged
        BY <3>0, <4>2
      <4>4. Accepted(q.row).accepted # q.row.accepted \/ Accepted(q.row).flagged # q.row.flagged
        BY <3>0, <4>2
      <4>. QED
        BY <4>1, <4>3, <4>4, Zenon
    <3>3. CASE CommitFlag(q)
      <4>1. WriteBack(q, Flagged(q.row)) /\ Flagged(q.row) \in Row
        BY <3>3, RequestFields DEF CommitFlag
      <4>2. Flagged(q.row).accepted = q.row.accepted /\ Flagged(q.row).flagged = q.row.flagged + 1
        BY <3>0, RowFields
      <4>3. Flagged(q.row).accepted >= q.row.accepted /\ Flagged(q.row).flagged >= q.row.flagged
        BY <3>0, <4>2
      <4>4. Flagged(q.row).accepted # q.row.accepted \/ Flagged(q.row).flagged # q.row.flagged
        BY <3>0, <4>2
      <4>. QED
        BY <4>1, <4>3, <4>4, Zenon
    <3>4. CASE CommitRedeem(q)
      <4>1. WriteBack(q, Redeemed(q.row)) /\ Redeemed(q.row) \in Row
            /\ ~(CommitAccept(q) \/ CommitFlag(q))
        BY <3>4, RequestFields DEF CommitRedeem, CommitAccept, CommitFlag
      <4>2. Redeemed(q.row).accepted = q.row.accepted /\ Redeemed(q.row).flagged = q.row.flagged
        BY <3>0, RowFields
      <4>3. Redeemed(q.row).accepted >= q.row.accepted /\ Redeemed(q.row).flagged >= q.row.flagged
        BY <3>0, <4>2
      <4>. QED
        BY <4>1, <4>3, Zenon
    <3>5. CASE CommitApprove(q)
      <4>1. WriteBack(q, Reinstated(q.row)) /\ Reinstated(q.row) \in Row
            /\ ~(CommitAccept(q) \/ CommitFlag(q))
        BY <3>5, RequestFields DEF CommitApprove, CommitAccept, CommitFlag
      <4>2. Reinstated(q.row).accepted = q.row.accepted /\ Reinstated(q.row).flagged = q.row.flagged
        BY <3>0, RowFields
      <4>3. Reinstated(q.row).accepted >= q.row.accepted /\ Reinstated(q.row).flagged >= q.row.flagged
        BY <3>0, <4>2
      <4>. QED
        BY <4>1, <4>3, Zenon
    <3>. QED
      BY <1>2, <3>1, <3>2, <3>3, <3>4, <3>5
  <2>2. /\ r \in inflight /\ b \in Agents /\ r.row.accepted \in Nat /\ r.row.flagged \in Nat
        /\ b \notin raced /\ r.client \in ClientIds
    <3>1. r \in inflight /\ b \notin raced
      BY <2>1 DEF WriteBack
    <3>. QED
      BY <3>1, RequestFields DEF ReviewsAreStored
  <2>3. /\ r.row.accepted <= agent[b].accepted /\ r.row.flagged <= agent[b].flagged
        /\ r.row.accepted = agent[b].accepted /\ r.row.flagged = agent[b].flagged =>
             verdict[<<b, r.client>>] = "PENDING"
    BY <2>2 DEF ReviewsArePending
  <2>4. /\ b # q.agent => agent'[b] = agent[b]
        /\ b = q.agent => agent[b] = q.row /\ agent'[b] = new
    BY <2>1, <2>2, FreshWriteBack
  <2>5. /\ q.agent \in Agents /\ <<b, r.client>> \in Subs
        /\ verdict \in [Subs -> {"NONE", "PENDING", "ACCEPTED", "FLAGGED"}]
        /\ agent[b].accepted \in Nat /\ agent[b].flagged \in Nat
    BY <2>2, RequestFields, AgentFields DEF TypeOK, Subs
  <2>6. CASE b # q.agent
    <3>1. verdict'[<<b, r.client>>] = verdict[<<b, r.client>>]
      BY <1>2, <2>5, <2>6 DEF CommitSubmit, CommitHook, CommitAccept, CommitFlag,
                              CommitRedeem, CommitApprove
    <3>. QED
      BY <2>3, <2>4, <2>6, <3>1
  <2>7. CASE b = q.agent /\ (CommitAccept(q) \/ CommitFlag(q))
    <3>1. new.accepted \in Nat /\ new.flagged \in Nat
      BY DEF Row
    <3>. QED
      BY <2>1, <2>2, <2>3, <2>4, <2>5, <2>7, <3>1
  <2>8. CASE b = q.agent /\ ~(CommitAccept(q) \/ CommitFlag(q))
    <3>1. verdict[<<b, r.client>>] = "PENDING" => verdict'[<<b, r.client>>] = "PENDING"
      BY <1>2, <2>5, <2>8 DEF CommitSubmit, CommitHook, CommitRedeem, CommitApprove
    <3>2. new.accepted \in Nat /\ new.flagged \in Nat
      BY DEF Row
    <3>. QED
      BY <2>1, <2>2, <2>3, <2>4, <2>5, <2>8, <3>1, <3>2
  <2>. QED
    BY <2>6, <2>7, <2>8
<1>. QED
  BY <1>1, <1>2, StepCases

(* Without overlapping writers of an agent, its counters count its reports   *)
(* by outcome: a review closes one pending report and is counted once.       *)
THEOREM CountersMatch == Spec => []CountersMatchVerdicts
<1>1. Init => CountersMatchVerdicts /\ ReviewsArePending
  <2>. SUFFICES ASSUME Init PROVE CountersMatchVerdicts /\ ReviewsArePending
    OBVIOUS
  <2>1. ASSUME NEW a \in Agents PROVE Counts(a)
    <3>1. \A v \in {"PENDING", "ACCEPTED", "FLAGGED"} : WithVerdict(a, v) = {}
      BY DEF Init, WithVerdict, SubsOf, Subs
    <3>2. \A v \in {"PENDING", "ACCEPTED", "FLAGGED"} : Cardinality(WithVerdict(a, v)) = 0
      BY <3>1, FS_EmptySet
    <3>3. /\ agent[a].accepted = 0 /\ agent[a].flagged = 0 /\ agent[a].pending = 0
          /\ ledger[a].hooks = 0
      BY DEF Init
    <3>. QED
      BY <3>2, <3>3 DEF Counts
  <2>. QED
    BY <2>1 DEF Init, Counts, CountersMatchVerdicts, ReviewsArePending
<1>. QED
  BY <1>1, CountersStep, PendingStep, StoredAndCredited, TypeCorrect, PTL DEF Spec
=============================================================================
