--------------------------- MODULE AgentOnboarding ---------------------------
(***************************************************************************)
(* How people become agents: applications that are approved or rejected    *)
(* (app/services/agent_applications.py) and invite codes with a limited    *)
(* number of uses (app/services/agent_score.py).                           *)
(*                                                                         *)
(* No row is locked: a handler reads an application or an invite, then the *)
(* contributor, and commits; other requests may commit in between.  What   *)
(* it read is in its request.  The ORM writes back, as absolute values,    *)
(* the columns that the handler changed in what it read; two contributors  *)
(* with one telegram_id are refused by a unique constraint.                *)
(***************************************************************************)
EXTENDS Integers

CONSTANTS
  People,        \* telegram ids
  Applications,  \* applications that may be submitted
  Codes,         \* invite codes that may be generated
  UseLimits,     \* max_uses an admin may give an invite, 0 for no limit
  Workers,       \* request slots: how many requests may be in flight
  MaxActivations,\* bound: activations with one code before another begins
  None           \* what a request that is about no application or code has

ASSUME LimitsAssumption == UseLimits \subseteq Nat /\ MaxActivations \in Nat
ASSUME NoneAssumption == None \notin Applications \union Codes \union People

VARIABLES
  contributor,  \* contributors: the row of each person
  app,          \* agent_applications
  invite,       \* agent_invite_codes
  req,          \* requests in progress
  activations,  \* history: ACTIVATE events of each code
  raced         \* history: codes whose uses_count was written from an old value

vars == <<contributor, app, invite, req, activations, raced>>

\* here: the row exists, which makes its person an agent (is_agent is set with
\* it and never reset).
Contributor == [here: BOOLEAN, banned: BOOLEAN]
Application == [status: {"none", "pending", "approved", "rejected"},
                person: People \union {None},
                linked: BOOLEAN]  \* contributor_id is set
Invite == [here: BOOLEAN, active: BOOLEAN, max: Nat, uses: Nat]

\* at: what the request does next.  row: the contributor it read; uses: the
\* uses_count it read.
Request ==
  [at: {"idle", "apply", "apply_commit", "approve", "approve_commit", "reject_commit",
        "activate", "activate_commit"},
   person: People \union {None}, app: Applications \union {None},
   code: Codes \union {None}, row: Contributor, uses: Nat]

Nobody == [here |-> FALSE, banned |-> FALSE]
Idle == [at |-> "idle", person |-> None, app |-> None, code |-> None, row |-> Nobody, uses |-> 0]

TypeOK ==
  /\ contributor \in [People -> Contributor]
  /\ app \in [Applications -> Application]
  /\ invite \in [Codes -> Invite]
  /\ req \in [Workers -> Request]
  /\ activations \in [Codes -> Nat]
  /\ raced \subseteq Codes

Init ==
  /\ contributor = [p \in People |-> Nobody]
  /\ app = [i \in Applications |-> [status |-> "none", person |-> None, linked |-> FALSE]]
  /\ invite = [c \in Codes |-> [here |-> FALSE, active |-> FALSE, max |-> 0, uses |-> 0]]
  /\ req = [w \in Workers |-> Idle]
  /\ activations = [c \in Codes |-> 0]
  /\ raced = {}

Becomes(w, r) == req' = [req EXCEPT ![w] = r]
Ends(w) == Becomes(w, Idle)
Goes(w, to) == req' = [req EXCEPT ![w].at = to]

-----------------------------------------------------------------------------
(* Applications.                                                            *)

\* submit_application reads the contributor: an agent in good standing is refused.
BeginApply(w, p) ==
  /\ req[w].at = "idle"
  /\ ~contributor[p].here \/ contributor[p].banned
  /\ Becomes(w, [Idle EXCEPT !.at = "apply", !.person = p])
  /\ UNCHANGED <<contributor, app, invite, activations, raced>>

\* A person with a pending application is refused.
CheckPending(w) ==
  /\ req[w].at = "apply"
  /\ IF \E i \in Applications : app[i].person = req[w].person /\ app[i].status = "pending"
     THEN Ends(w) ELSE Goes(w, "apply_commit")
  /\ UNCHANGED <<contributor, app, invite, activations, raced>>

CommitApply(w, i) ==
  /\ req[w].at = "apply_commit"
  /\ app[i].status = "none"
  /\ app' = [app EXCEPT ![i] = [status |-> "pending", person |-> req[w].person,
                                linked |-> FALSE]]
  /\ Ends(w)
  /\ UNCHANGED <<contributor, invite, activations, raced>>

\* approve and reject read the application, which has to be pending.
BeginReview(w, i, to) ==
  /\ req[w].at = "idle"
  /\ app[i].status = "pending"
  /\ Becomes(w, [Idle EXCEPT !.at = to, !.app = i, !.person = app[i].person])
  /\ UNCHANGED <<contributor, app, invite, activations, raced>>

\* approve reads the contributor.
ReadForApprove(w) ==
  /\ req[w].at = "approve"
  /\ Becomes(w, [req[w] EXCEPT !.at = "approve_commit", !.row = contributor[req[w].person]])
  /\ UNCHANGED <<contributor, app, invite, activations, raced>>

\* The INSERT finds that the person has a contributor by now.
Conflicts(w) == ~req[w].row.here /\ contributor[req[w].person].here

CommitApproveInTwoParts(w) ==
  /\ req[w].at = "approve_commit"
  /\ contributor' = [contributor EXCEPT ![req[w].person].here = TRUE]
  /\ app' = [app EXCEPT ![req[w].app].status = "approved", ![req[w].app].linked = ~Conflicts(w)]
  /\ Ends(w)
  /\ UNCHANGED <<invite, activations, raced>>

\* A contributor that was read is reinstated: the ban is a changed column only
\* if it was there.
CommitApprove(w) ==
  /\ req[w].at = "approve_commit" /\ ~Conflicts(w)
  /\ LET p == req[w].person
         old == contributor[p] IN
       contributor' = [contributor EXCEPT ![p] =
         [here |-> TRUE, banned |-> IF req[w].row.banned THEN FALSE ELSE old.banned]]
  /\ app' = [app EXCEPT ![req[w].app].status = "approved", ![req[w].app].linked = TRUE]
  /\ Ends(w)
  /\ UNCHANGED <<invite, activations, raced>>

CommitReject(w) ==
  /\ req[w].at = "reject_commit"
  /\ app' = [app EXCEPT ![req[w].app].status = "rejected"]
  /\ Ends(w)
  /\ UNCHANGED <<contributor, invite, activations, raced>>

-----------------------------------------------------------------------------
(* Invites.                                                                 *)

\* create_invite
CreateInvite(c, limit) ==
  /\ ~invite[c].here
  /\ invite' = [invite EXCEPT ![c] = [here |-> TRUE, active |-> TRUE, max |-> limit, uses |-> 0]]
  /\ UNCHANGED <<contributor, app, req, activations, raced>>

\* deactivate_invite
DeactivateInvite(c) ==
  /\ invite[c].here
  /\ invite' = [invite EXCEPT ![c].active = FALSE]
  /\ UNCHANGED <<contributor, app, req, activations, raced>>

UsableOffByOne(v) == v.here /\ v.active /\ (v.max > 0 => v.uses <= v.max)

Usable(v) == v.here /\ v.active /\ (v.max > 0 => v.uses < v.max)

\* activate_with_invite reads the invite.
BeginActivate(w, p, c) ==
  /\ req[w].at = "idle"
  /\ Usable(invite[c]) /\ activations[c] < MaxActivations
  /\ Becomes(w, [Idle EXCEPT !.at = "activate", !.person = p, !.code = c,
                             !.uses = invite[c].uses])
  /\ UNCHANGED <<contributor, app, invite, activations, raced>>

\* Then the contributor: one that is banned is refused.
ReadForActivate(w) ==
  /\ req[w].at = "activate"
  /\ IF contributor[req[w].person].banned THEN Ends(w)
     ELSE Becomes(w, [req[w] EXCEPT !.at = "activate_commit", !.row = contributor[req[w].person]])
  /\ UNCHANGED <<contributor, app, invite, activations, raced>>

\* uses_count and the ACTIVATE event are written.
Uses(w) ==
  /\ req[w].at = "activate_commit" /\ ~Conflicts(w)
  /\ LET c == req[w].code IN
       /\ invite' = [invite EXCEPT ![c].uses = req[w].uses + 1]
       /\ activations' = [activations EXCEPT ![c] = @ + 1]
       /\ raced' = IF invite[c].uses = req[w].uses THEN raced ELSE raced \union {c}
  /\ Ends(w)
  /\ UNCHANGED app

CommitActivateWholeRow(w) ==
  /\ Uses(w)
  /\ contributor' = [contributor EXCEPT ![req[w].person] =
                       [here |-> TRUE, banned |-> req[w].row.banned]]

\* The contributor that was read keeps the ban it has got since.
CommitActivate(w) ==
  /\ Uses(w)
  /\ contributor' = [contributor EXCEPT ![req[w].person].here = TRUE]

AbortGivingBack(w) ==
  /\ req[w].at # "idle"
  /\ invite' = IF req[w].at = "activate_commit"
               THEN [invite EXCEPT ![req[w].code].uses = @ - 1] ELSE invite
  /\ Ends(w)
  /\ UNCHANGED <<contributor, app, activations, raced>>

\* IntegrityError: the whole transaction is rolled back, for an activation as
\* for an approval.  So it is when the process dies.
Abort(w) ==
  /\ req[w].at # "idle"
  /\ Ends(w)
  /\ UNCHANGED <<contributor, app, invite, activations, raced>>

-----------------------------------------------------------------------------
\* A review of AgentScore flags the report that reaches the limit.
Ban(p) ==
  /\ contributor[p].here
  /\ contributor' = [contributor EXCEPT ![p].banned = TRUE]
  /\ UNCHANGED <<app, invite, req, activations, raced>>

Next ==
  \/ \E w \in Workers :
       \/ \E p \in People : BeginApply(w, p)
       \/ CheckPending(w)
       \/ \E i \in Applications : CommitApply(w, i)
       \/ \E i \in Applications, to \in {"approve", "reject_commit"} : BeginReview(w, i, to)
       \/ ReadForApprove(w)
       \/ CommitApprove(w)
       \/ CommitReject(w)
       \/ \E p \in People, c \in Codes : BeginActivate(w, p, c)
       \/ ReadForActivate(w)
       \/ CommitActivate(w)
       \/ Abort(w)
  \/ \E c \in Codes :
       \/ \E limit \in UseLimits : CreateInvite(c, limit)
       \/ DeactivateInvite(c)
  \/ \E p \in People : Ban(p)

Spec == Init /\ [][Next]_vars

-----------------------------------------------------------------------------
(* Properties.                                                              *)

\* uses_count counts the activations of an invite and keeps its limit, over any
\* rollbacks and deactivations, as long as no two activations with it
\* overlapped; and even then it counts no activation that did not happen.
InviteCounted ==
  \A c \in Codes :
    /\ invite[c].uses <= activations[c]
    /\ invite[c].max > 0 => invite[c].uses <= invite[c].max
    /\ c \notin raced => activations[c] = invite[c].uses

\* An approval leaves an agent, however it overlapped with other approvals,
\* rejections and activations of the same person: the link to the contributor,
\* the contributor and the status commit together or not at all.
ApprovedIsAgent ==
  \A i \in Applications : app[i].status = "approved" =>
    app[i].linked /\ contributor[app[i].person].here

\* A ban is lifted only by an approval that had read it: neither an activation
\* nor an approval that overlapped with the ban undoes it.
BanLiftedKnowingly ==
  [][\A p \in People : contributor[p].banned /\ ~contributor'[p].banned =>
       \E w \in Workers : CommitApprove(w) /\ req[w].person = p /\ req[w].row.banned]_vars
=============================================================================
