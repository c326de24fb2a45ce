----------------------- MODULE AgentOnboardingProofs -----------------------
(***************************************************************************)
(* Proofs about AgentOnboarding, for any number of people, applications,   *)
(* codes and overlapping requests.  The invariant says what a request in   *)
(* progress may rely on although nothing is locked: what it read may be    *)
(* old, but applications keep their person, limits never change and        *)
(* activations are never taken back.                                       *)
(***************************************************************************)
EXTENDS AgentOnboarding, TLAPS

(* What holds of request r until it commits.                                *)
Works(r) ==
  /\ r.at \in {"apply", "apply_commit"} => r.person \in People
  /\ r.at \in {"approve", "approve_commit", "reject_commit"} =>
       /\ r.person \in People /\ r.app \in Applications
       /\ app[r.app].status # "none" /\ app[r.app].person = r.person
  /\ r.at \in {"activate", "activate_commit"} =>
       /\ r.person \in People /\ r.code \in Codes
       /\ invite[r.code].here
       /\ invite[r.code].max > 0 => r.uses < invite[r.code].max
       /\ r.uses <= activations[r.code]

Working == \A w \in Workers : Works(req[w])

(* A code that was not generated yet was not used either.                   *)
Unused == \A c \in Codes : ~invite[c].here => invite[c].uses = 0 /\ activations[c] = 0

(* An application that was submitted is somebody's.                         *)
Applied == \A i \in Applications : app[i].status # "none" => app[i].person \in People

IInv == TypeOK /\ Working /\ Unused /\ Applied /\ InviteCounted /\ ApprovedIsAgent

-----------------------------------------------------------------------------
LEMMA IdleType == Idle \in Request /\ Works(Idle) /\ Nobody \in Contributor
BY DEF Idle, Request, Nobody, Contributor, Works

LEMMA InitIInv == Init => IInv
<1>. SUFFICES ASSUME Init PROVE IInv
  OBVIOUS
<1>1. contributor \in [People -> Contributor] /\ req \in [Workers -> Request]
  BY IdleType DEF Init
<1>2. app \in [Applications -> Application]
  BY DEF Init, Application
<1>3. invite \in [Codes -> Invite] /\ activations \in [Codes -> Nat] /\ raced \subseteq Codes
  BY DEF Init, Invite
<1>4. Working
  BY IdleType DEF Init, Working
<1>5. Unused /\ Applied /\ InviteCounted /\ ApprovedIsAgent
  BY DEF Init, Unused, Applied, InviteCounted, ApprovedIsAgent
<1>. QED
  BY <1>1, <1>2, <1>3, <1>4, <1>5 DEF IInv, TypeOK

(* A step that only changes one request.                                    *)
LEMMA QuietStep ==
  ASSUME IInv, NEW w \in Workers, NEW r \in Request, Works(r), Becomes(w, r),
         UNCHANGED <<contributor, app, invite, activations, raced>>
  PROVE  IInv'
<1>. USE DEF IInv
<1>1. req' \in [Workers -> Request] /\ \A v \in Workers : req'[v] = r \/ req'[v] = req[v]
  BY DEF Becomes, TypeOK
<1>2. \A v \in Workers : Works(req'[v])
  BY <1>1 DEF Working
<1>3. Working'
  BY <1>2 DEF Working, Works
<1>. QED
  BY <1>1, <1>3 DEF TypeOK, Unused, Applied, InviteCounted, ApprovedIsAgent

LEMMA ApplySteps ==
  ASSUME IInv, NEW w \in Workers, (\E p \in People : BeginApply(w, p)) \/ CheckPending(w)
  PROVE  IInv'
<1>. USE DEF IInv
<1>0. req[w] \in Request /\ req \in [Workers -> Request] /\ Works(req[w])
  BY DEF TypeOK, Working
<1>1. ASSUME NEW p \in People, BeginApply(w, p)
      PROVE  IInv'
  <2>. DEFINE r == [[Idle EXCEPT !.at = "apply"] EXCEPT !.person = p]
  <2>1. r \in Request /\ Works(r)
    BY IdleType DEF Request, Works, Idle
  <2>2. Becomes(w, r) /\ UNCHANGED <<contributor, app, invite, activations, raced>>
    BY <1>1 DEF BeginApply
  <2>. HIDE DEF r
  <2>. QED
    BY <2>1, <2>2, QuietStep
<1>2. CASE CheckPending(w)
  <2>. DEFINE r == [req[w] EXCEPT !.at = "apply_commit"]
  <2>1. r \in Request /\ Works(r)
    BY <1>0, <1>2 DEF Request, Works, CheckPending
  <2>2. Becomes(w, r) \/ Becomes(w, Idle)
    BY <1>0, <1>2 DEF CheckPending, Goes, Ends, Becomes
  <2>3. UNCHANGED <<contributor, app, invite, activations, raced>>
    BY <1>2 DEF CheckPending
  <2>. HIDE DEF r
  <2>. QED
    BY <2>1, <2>2, <2>3, IdleType, QuietStep
<1>. QED
  BY <1>1, <1>2

LEMMA ReadSteps ==
  ASSUME IInv, NEW w \in Workers,
         \/ \E i \in Applications, to \in {"approve", "reject_commit"} : BeginReview(w, i, to)
         \/ ReadForApprove(w) \/ ReadForActivate(w) \/ Abort(w)
         \/ \E p \in People, c \in Codes : BeginActivate(w, p, c)
  PROVE  IInv'
<1>. USE DEF IInv
<1>0. req[w] \in Request /\ req \in [Workers -> Request] /\ Works(req[w])
  BY DEF TypeOK, Working
<1>1. ASSUME NEW i \in Applications, NEW to \in {"approve", "reject_commit"}, BeginReview(w, i, to)
      PROVE  IInv'
  <2>. DEFINE r == [[[Idle EXCEPT !.at = to] EXCEPT !.app = i] EXCEPT !.person = app[i].person]
  <2>1. app[i] \in Application /\ app[i].status = "pending"
    BY <1>1 DEF TypeOK, BeginReview
  <2>2. r \in Request
    BY <2>1, IdleType DEF Request, Application
  <2>3. app[i].person \in People
    BY <2>1 DEF Applied
  <2>4. Works(r)
    BY <2>1, <2>3, IdleType DEF Works, Idle
  <2>5. Becomes(w, r) /\ UNCHANGED <<contributor, app, invite, activations, raced>>
    BY <1>1 DEF BeginReview
  <2>. HIDE DEF r
  <2>. QED
    BY <2>2, <2>4, <2>5, QuietStep
<1>2. CASE ReadForApprove(w)
  <2>. DEFINE r == [[req[w] EXCEPT !.at = "approve_commit"] EXCEPT !.row = contributor[req[w].person]]
  <2>1. req[w].person \in People /\ contributor[req[w].person] \in Contributor
    BY <1>0, <1>2 DEF Works, ReadForApprove, TypeOK
  <2>2. r \in Request
    BY <1>0, <2>1 DEF Request
  <2>3. Works(r)
    BY <1>0, <1>2 DEF Works, Request, ReadForApprove
  <2>4. Becomes(w, r) /\ UNCHANGED <<contributor, app, invite, activations, raced>>
    BY <1>2 DEF ReadForApprove
  <2>. HIDE DEF r
  <2>. QED
    BY <2>2, <2>3, <2>4, QuietStep
<1>3. CASE ReadForActivate(w)
  <2>. DEFINE r == [[req[w] EXCEPT !.at = "activate_commit"] EXCEPT !.row = contributor[req[w].person]]
  <2>1. req[w].person \in People /\ contributor[req[w].person] \in Contributor
    BY <1>0, <1>3 DEF Works, ReadForActivate, TypeOK
  <2>2. r \in Request
    BY <1>0, <2>1 DEF Request
  <2>3. Works(r)
    BY <1>0, <1>3 DEF Works, Request, ReadForActivate
  <2>4. /\ Becomes(w, r) \/ Becomes(w, Idle)
        /\ UNCHANGED <<contributor, app, invite, activations, raced>>
    BY <1>3 DEF ReadForActivate, Ends
  <2>. HIDE DEF r
  <2>. QED
    BY <2>2, <2>3, <2>4, IdleType, QuietStep
<1>4. CASE Abort(w)
  BY <1>4, IdleType, QuietStep DEF Abort, Ends
<1>5. ASSUME NEW p \in People, NEW c \in Codes, BeginActivate(w, p, c)
      PROVE  IInv'
  <2>. DEFINE r == [[[[Idle EXCEPT !.at = "activate"] EXCEPT !.person = p] EXCEPT !.code = c]
                      EXCEPT !.uses = invite[c].uses]
  <2>1. invite[c] \in Invite /\ Usable(invite[c]) /\ invite[c].uses <= activations[c]
    BY <1>5 DEF TypeOK, BeginActivate, InviteCounted
  <2>2. r \in Request
    BY <2>1, IdleType DEF Request, Invite
  <2>3. Works(r)
    BY <2>1, IdleType DEF Works, Idle, Usable
  <2>4. Becomes(w, r) /\ UNCHANGED <<contributor, app, invite, activations, raced>>
    BY <1>5 DEF BeginActivate
  <2>. HIDE DEF r
  <2>. QED
    BY <2>2, <2>3, <2>4, QuietStep
<1>. QED
  BY <1>1, <1>2, <1>3, <1>4, <1>5
-----------------------------------------------------------------------------
(* What a request in progress relies on survives the steps of others: one   *)
(* that ends a request and keeps persons, limits and activations.           *)
LEMMA EndsWorks ==
  ASSUME IInv, NEW w \in Workers, Ends(w),
         \A i \in Applications : app[i].status # "none" =>
            app'[i].status # "none" /\ app'[i].person = app[i].person,
         \A c \in Codes : invite[c].here =>
            /\ invite'[c].here /\ invite'[c].max = invite[c].max
            /\ activations'[c] >= activations[c] /\ activations'[c] \in Nat
  PROVE  req' \in [Workers -> Request] /\ Working'
<1>1. /\ req' \in [Workers -> Request]
      /\ \A v \in Workers : req'[v] = Idle \/ req'[v] = req[v]
  BY IdleType DEF Ends, Becomes, IInv, TypeOK
<1>2. \A v \in Workers : Works(req[v]) /\ req[v] \in Request
  BY DEF IInv, TypeOK, Working
<1>3. ASSUME NEW v \in Workers
      PROVE  Works(req[v])'
  <2>1. CASE req'[v] = Idle
    BY <2>1 DEF Works, Idle
  <2>2. CASE req'[v] = req[v]
    <3>1. Works(req[v]) /\ req[v] \in Request /\ activations \in [Codes -> Nat]
      BY <1>2 DEF IInv, TypeOK
    <3>. QED
      BY <2>2, <3>1 DEF Works, Request
  <2>. QED
    BY <1>1, <2>1, <2>2
<1>. QED
  BY <1>1, <1>3 DEF Working

LEMMA ApplicationEnds ==
  ASSUME IInv, NEW w \in Workers,
         (\E i \in Applications : CommitApply(w, i)) \/ CommitReject(w) \/ CommitApprove(w)
  PROVE  IInv'
<1>. USE DEF IInv
<1>0. req[w] \in Request /\ Works(req[w]) /\ contributor \in [People -> Contributor]
  BY DEF TypeOK, Working
<1>1. ASSUME NEW i \in Applications, CommitApply(w, i)
      PROVE  IInv'
  <2>1. req[w].person \in People
    BY <1>0, <1>1 DEF Works, CommitApply
  <2>2. /\ app' \in [Applications -> Application]
        /\ app'[i].status = "pending" /\ app'[i].person = req[w].person
        /\ \A j \in Applications \ {i} : app'[j] = app[j]
    BY <1>1, <2>1 DEF CommitApply, TypeOK, Application
  <2>3. app[i].status = "none" /\ Ends(w)
        /\ UNCHANGED <<contributor, invite, activations, raced>>
    BY <1>1 DEF CommitApply
  <2>4. req' \in [Workers -> Request] /\ Working'
    BY <2>2, <2>3, EndsWorks DEF TypeOK
  <2>5. Applied' /\ ApprovedIsAgent'
    BY <2>1, <2>2, <2>3 DEF Applied, ApprovedIsAgent
  <2>. QED
    BY <2>2, <2>3, <2>4, <2>5 DEF TypeOK, Unused, InviteCounted
<1>2. CASE CommitReject(w)
  <2>. DEFINE i == req[w].app
  <2>1. i \in Applications /\ app[i].status # "none"
    BY <1>0, <1>2 DEF Works, CommitReject
  <2>2. /\ app' \in [Applications -> Application]
        /\ app'[i].status = "rejected" /\ app'[i].person = app[i].person
        /\ \A j \in Applications \ {i} : app'[j] = app[j]
    BY <1>2, <2>1 DEF CommitReject, TypeOK, Application
  <2>3. Ends(w) /\ UNCHANGED <<contributor, invite, activations, raced>>
    BY <1>2 DEF CommitReject
  <2>4. req' \in [Workers -> Request] /\ Working'
    BY <2>1, <2>2, <2>3, EndsWorks DEF TypeOK
  <2>5. Applied' /\ ApprovedIsAgent'
    BY <2>1, <2>2, <2>3 DEF Applied, ApprovedIsAgent
  <2>. QED
    BY <2>2, <2>3, <2>4, <2>5 DEF TypeOK, Unused, InviteCounted
<1>3. CASE CommitApprove(w)
  <2>. DEFINE i == req[w].app
              p == req[w].person
  <2>1. /\ i \in Applications /\ app[i].status # "none"
        /\ p \in People /\ app[i].person = p
    BY <1>0, <1>3 DEF Works, CommitApprove
  <2>2. /\ app' \in [Applications -> Application]
        /\ app'[i].status = "approved" /\ app'[i].linked /\ app'[i].person = app[i].person
        /\ \A j \in Applications \ {i} : app'[j] = app[j]
    BY <1>3, <2>1 DEF CommitApprove, TypeOK, Application
  <2>3. Ends(w) /\ UNCHANGED <<invite, activations, raced>>
    BY <1>3 DEF CommitApprove
  <2>4. /\ contributor' \in [People -> Contributor]
        /\ contributor'[p].here
        /\ \A q \in People \ {p} : contributor'[q] = contributor[q]
    BY <1>0, <1>3, <2>1 DEF CommitApprove, Contributor
  <2>5. req' \in [Workers -> Request] /\ Working'
    BY <2>1, <2>2, <2>3, EndsWorks DEF TypeOK
  <2>6. Applied'
    BY <2>1, <2>2 DEF Applied
  <2>7. ApprovedIsAgent'
    BY <2>1, <2>2, <2>4 DEF Applied, ApprovedIsAgent
  <2>. QED
    BY <2>2, <2>3, <2>4, <2>5, <2>6, <2>7 DEF TypeOK, Unused, InviteCounted
<1>. QED
  BY <1>1, <1>2, <1>3
(* Invites: the limit never changes, and uses_count is at most one more     *)
(* than a value that was below it.                                          *)
LEMMA InviteSteps ==
  ASSUME IInv, NEW c \in Codes,
         (\E limit \in UseLimits : CreateInvite(c, limit)) \/ DeactivateInvite(c)
  PROVE  IInv'
<1>. USE DEF IInv
<1>1. ASSUME NEW limit \in UseLimits, CreateInvite(c, limit)
      PROVE  IInv'
  <2>1. /\ ~invite[c].here /\ activations[c] = 0
        /\ UNCHANGED <<contributor, app, req, activations, raced>>
    BY <1>1 DEF CreateInvite, Unused
  <2>2. /\ invite' \in [Codes -> Invite]
        /\ invite'[c].here /\ invite'[c].uses = 0
        /\ \A d \in Codes \ {c} : invite'[d] = invite[d]
    BY <1>1, LimitsAssumption DEF CreateInvite, TypeOK, Invite
  <2>3. Unused'
    BY <2>1, <2>2 DEF Unused
  <2>4. InviteCounted'
    BY <2>1, <2>2 DEF InviteCounted, TypeOK, Invite
  <2>5. ASSUME NEW v \in Workers
        PROVE  Works(req[v])'
    <3>1. Works(req[v])
      BY DEF Working
    <3>2. req[v].at \in {"activate", "activate_commit"} => req[v].code # c /\ req[v].code \in Codes
      BY <2>1, <3>1 DEF Works
    <3>. QED
      BY <2>1, <2>2, <3>1, <3>2 DEF Works
  <2>. QED
    BY <2>1, <2>2, <2>3, <2>4, <2>5 DEF TypeOK, Working, Applied, ApprovedIsAgent
<1>2. CASE DeactivateInvite(c)
  <2>1. invite[c].here /\ UNCHANGED <<contributor, app, req, activations, raced>>
    BY <1>2 DEF DeactivateInvite
  <2>2. /\ invite' \in [Codes -> Invite]
        /\ \A d \in Codes : /\ invite'[d].here = invite[d].here
                            /\ invite'[d].max = invite[d].max
                            /\ invite'[d].uses = invite[d].uses
    BY <1>2 DEF DeactivateInvite, TypeOK, Invite
  <2>3. Unused' /\ InviteCounted'
    BY <2>1, <2>2 DEF Unused, InviteCounted
  <2>4. Working'
    BY <2>1, <2>2 DEF Works, Working
  <2>. QED
    BY <2>1, <2>2, <2>3, <2>4 DEF TypeOK, Applied, ApprovedIsAgent
<1>. QED
  BY <1>1, <1>2

LEMMA ActivateStep ==
  ASSUME IInv, NEW w \in Workers, CommitActivate(w)
  PROVE  IInv'
<1>. USE DEF IInv
<1>. DEFINE c == req[w].code
            p == req[w].person
<1>1. /\ req[w] \in Request /\ p \in People /\ c \in Codes
      /\ invite[c].here /\ req[w].uses <= activations[c]
      /\ invite[c].max > 0 => req[w].uses < invite[c].max
  BY DEF TypeOK, Working, Works, CommitActivate, Uses
<1>2. /\ invite' \in [Codes -> Invite]
      /\ invite'[c].here /\ invite'[c].max = invite[c].max
      /\ invite'[c].uses = req[w].uses + 1
      /\ \A d \in Codes \ {c} : invite'[d] = invite[d]
  BY <1>1 DEF TypeOK, Request, Invite, CommitActivate, Uses
<1>3. /\ activations' \in [Codes -> Nat]
      /\ activations'[c] = activations[c] + 1
      /\ \A d \in Codes \ {c} : activations'[d] = activations[d]
  BY <1>1 DEF TypeOK, CommitActivate, Uses
<1>4. /\ raced' \subseteq Codes
      /\ raced \subseteq raced'
      /\ c \notin raced' => invite[c].uses = req[w].uses
  BY <1>1 DEF TypeOK, CommitActivate, Uses
<1>5. /\ contributor' \in [People -> Contributor]
      /\ contributor'[p].here
      /\ \A q \in People \ {p} : contributor'[q] = contributor[q]
  BY <1>1 DEF TypeOK, Contributor, CommitActivate
<1>6. app' = app /\ Ends(w)
  BY DEF CommitActivate, Uses
<1>. HIDE DEF c, p
<1>7. req' \in [Workers -> Request] /\ Working'
  <2>1. \A d \in Codes : invite[d].here =>
            /\ invite'[d].here /\ invite'[d].max = invite[d].max
            /\ activations'[d] >= activations[d] /\ activations'[d] \in Nat
    BY <1>2, <1>3 DEF TypeOK
  <2>2. \A i \in Applications : app[i].status # "none" =>
            app'[i].status # "none" /\ app'[i].person = app[i].person
    BY <1>6
  <2>. QED
    BY <2>1, <2>2, <1>6, EndsWorks
<1>8. Unused'
  BY <1>2, <1>3 DEF Unused
<1>9. InviteCounted'
  <2>. SUFFICES ASSUME NEW d \in Codes
                PROVE  /\ invite'[d].uses <= activations'[d]
                       /\ invite'[d].max > 0 => invite'[d].uses <= invite'[d].max
                       /\ d \notin raced' => activations'[d] = invite'[d].uses
    BY DEF InviteCounted
  <2>1. CASE d = c
    BY <1>1, <1>2, <1>3, <1>4, <2>1 DEF InviteCounted, TypeOK, Invite, Request
  <2>2. CASE d # c
    BY <1>2, <1>3, <1>4, <2>2 DEF InviteCounted
  <2>. QED
    BY <2>1, <2>2
<1>10. Applied' /\ ApprovedIsAgent'
  BY <1>5, <1>6 DEF Applied, ApprovedIsAgent
<1>. QED
  BY <1>2, <1>3, <1>4, <1>5, <1>6, <1>7, <1>8, <1>9, <1>10 DEF TypeOK

LEMMA BanStep ==
  ASSUME IInv, NEW p \in People, Ban(p)
  PROVE  IInv'
<1>. USE DEF IInv
<1>1. /\ contributor' \in [People -> Contributor]
      /\ \A q \in People : contributor'[q].here = contributor[q].here
  BY DEF TypeOK, Contributor, Ban
<1>2. UNCHANGED <<app, invite, req, activations, raced>>
  BY DEF Ban
<1>3. Working' /\ Unused' /\ Applied' /\ InviteCounted'
  BY <1>2 DEF Working, Works, Unused, Applied, InviteCounted
<1>4. ApprovedIsAgent'
  BY <1>1, <1>2 DEF ApprovedIsAgent, Applied
<1>. QED
  BY <1>1, <1>2, <1>3, <1>4 DEF TypeOK

LEMMA NextIInv == IInv /\ [Next]_vars => IInv'
<1>. SUFFICES ASSUME IInv, [Next]_vars PROVE IInv'
  OBVIOUS
<1>1. ASSUME NEW w \in Workers,
             \/ (\E p \in People : BeginApply(w, p)) \/ CheckPending(w)
      PROVE  IInv'
  BY <1>1, ApplySteps
<1>2. ASSUME NEW w \in Workers,
             (\E i \in Applications : CommitApply(w, i)) \/ CommitReject(w) \/ CommitApprove(w)
      PROVE  IInv'
  BY <1>2, ApplicationEnds
<1>3. ASSUME NEW w \in Workers,
             \/ \E i \in Applications, to \in {"approve", "reject_commit"} : BeginReview(w, i, to)
             \/ ReadForApprove(w) \/ ReadForActivate(w) \/ Abort(w)
             \/ \E p \in People, c \in Codes : BeginActivate(w, p, c)
      PROVE  IInv'
  BY <1>3, ReadSteps
<1>4. ASSUME NEW w \in Workers, CommitActivate(w)
      PROVE  IInv'
  BY <1>4, ActivateStep
<1>5. ASSUME NEW c \in Codes,
             (\E limit \in UseLimits : CreateInvite(c, limit)) \/ DeactivateInvite(c)
      PROVE  IInv'
  BY <1>5, InviteSteps
<1>6. ASSUME NEW p \in People, Ban(p)
      PROVE  IInv'
  BY <1>6, BanStep
<1>7. CASE UNCHANGED vars
  BY <1>7 DEF vars, IInv, TypeOK, Working, Works, Unused, Applied, InviteCounted, ApprovedIsAgent
<1>. QED
  BY <1>1, <1>2, <1>3, <1>4, <1>5, <1>6, <1>7 DEF Next

-----------------------------------------------------------------------------
LEMMA Inductive == Spec => []IInv
<1>. QED
  BY InitIInv, NextIInv, PTL DEF Spec

(* Every column keeps its type, whatever requests overlap; in particular an *)
(* activation that is rolled back never takes uses_count below zero.        *)
THEOREM TypeCorrect == Spec => []TypeOK
<1>1. IInv => TypeOK
  BY DEF IInv
<1>. QED
  BY <1>1, Inductive, PTL

(* uses_count stays within max_uses and counts only activations that were   *)
(* committed; it counts them all unless two of them overlapped.             *)
THEOREM InvitesCounted == Spec => []InviteCounted
<1>1. IInv => InviteCounted
  BY DEF IInv
<1>. QED
  BY <1>1, Inductive, PTL

(* approve commits the contributor, the link and the status together, so    *)
(* that an approved application always has its agent.                       *)
THEOREM ApprovedAreAgents == Spec => []ApprovedIsAgent
<1>1. IInv => ApprovedIsAgent
  BY DEF IInv
<1>. QED
  BY <1>1, Inductive, PTL

-----------------------------------------------------------------------------
(* The ban of p is lifted by this step, by an approval that had read it.    *)
Knowingly(p) ==
  contributor[p].banned /\ ~contributor'[p].banned =>
    \E w \in Workers : CommitApprove(w) /\ req[w].person = p /\ req[w].row.banned

LEMMA LiftedKnowingly ==
  ASSUME IInv, [Next]_vars, NEW p \in People
  PROVE  Knowingly(p)
<1>. USE DEF IInv
<1>1. contributor \in [People -> Contributor]
  BY DEF TypeOK
<1>2. ASSUME NEW w \in Workers, CommitApprove(w)
      PROVE  Knowingly(p)
  <2>1. req[w].person \in People
    BY <1>2 DEF CommitApprove, Working, Works
  <2>. QED
    BY <1>1, <1>2, <2>1 DEF Knowingly, CommitApprove, Contributor
<1>3. ASSUME NEW w \in Workers, CommitActivate(w)
      PROVE  Knowingly(p)
  <2>1. req[w].person \in People
    BY <1>3 DEF CommitActivate, Uses, Working, Works
  <2>2. contributor'[p].banned = contributor[p].banned
    BY <1>1, <1>3, <2>1 DEF CommitActivate, Contributor
  <2>. QED
    BY <2>2 DEF Knowingly
<1>4. ASSUME NEW q \in People, Ban(q)
      PROVE  Knowingly(p)
  BY <1>1, <1>4 DEF Knowingly, Ban, Contributor
<1>5. CASE UNCHANGED contributor
  BY <1>5 DEF Knowingly
<1>. QED
  BY <1>2, <1>3, <1>4, <1>5 DEF Next, vars, BeginApply, CheckPending, CommitApply, BeginReview,
     ReadForApprove, CommitReject, BeginActivate, ReadForActivate, Abort, CreateInvite,
     DeactivateInvite

(* No ban is undone by a request that did not know of it: an activation     *)
(* writes only the columns it changed, and an approval lifts a ban only if  *)
(* the row it read had it.                                                  *)
THEOREM BansLiftedKnowingly == Spec => BanLiftedKnowingly
<1>1. IInv /\ [Next]_vars => [\A p \in People : contributor[p].banned /\ ~contributor'[p].banned =>
        \E w \in Workers : CommitApprove(w) /\ req[w].person = p /\ req[w].row.banned]_vars
  BY LiftedKnowingly DEF Knowingly
<1>. QED
  BY <1>1, Inductive, PTL DEF Spec, BanLiftedKnowingly
=============================================================================
