------------------------- MODULE AuthSessionsProofs -------------------------
(***************************************************************************)
(* Proofs about AuthSessions, for any number of requests, sessions and     *)
(* versions.  The invariant behind every theorem says what the row locks   *)
(* are for: who rotates a session holds its row, and who revokes           *)
(* everything holds the row of the user and knows every live session.  The *)
(* chains of rotated sessions, what a reuse has seen of its family and the *)
(* versions of access tokens each have an invariant that rests on it.      *)
(***************************************************************************)
EXTENDS AuthSessions, FiniteSetTheorems, TLAPS

USE DEF NoSession

(* Sessions are numbered as created; families are named after a session.    *)
Numbered ==
  \A s \in Sids :
    /\ s <= created <=> sess[s].state # "none"
    /\ sess[s].state # "none" => sess[s].family \in 1..created

(* The rows a request is about to write are live and locked by it. *)
Holding ==
  \A w \in Workers :
    /\ req[w].op = "refresh" =>
         req[w].sid \in Sids /\ Live(req[w].sid) /\ rowLock[req[w].sid] = w
    /\ \A s \in req[w].hit : Live(s) /\ rowLock[s] = w

(* While everything is being revoked, the user is locked and every live     *)
(* session is among the rows visited or still to visit.                     *)
Covering ==
  \A w \in Workers :
    req[w].op \in {"logout_all", "change_password"} /\ req[w].updating =>
      userLock = w /\ LiveSessions \subseteq req[w].todo \union req[w].hit

-----------------------------------------------------------------------------
LEMMA SessionTypes ==
  ASSUME TypeOK, NEW s \in Sids
  PROVE  /\ NewSession(s) \in Session /\ sess[s] \in Session
         /\ [sess[s] EXCEPT !.state = "revoked"] \in Session
         /\ [sess[s] EXCEPT !.expired = TRUE] \in Session
         /\ sess[s].state # "none" /\ sess[s].family \in Sids =>
              NewSession(sess[s].family) \in Session
BY DEF TypeOK, Session, NewSession

LEMMA RevokedType ==
  ASSUME TypeOK, NEW S
  PROVE  Revoked(S) \in [Sids -> Session]
BY SessionTypes DEF Revoked, TypeOK

LEMMA RewrittenType ==
  ASSUME TypeOK, NEW s \in Sids, NEW t \in Sids
  PROVE  Rewritten(s, t) \in [Sids -> Session]
<1>1. sess[s] \in Session /\ sess \in [Sids -> Session]
  BY DEF TypeOK
<1>2. [sess[s] EXCEPT !.state = "revoked"] \in Session
  BY <1>1 DEF Session
<1>3. [[sess[s] EXCEPT !.state = "revoked"] EXCEPT !.heir = t] \in Session
  BY <1>2 DEF Session
<1>4. NewSession(sess[s].family) \in Session
  BY <1>1 DEF Session, NewSession
<1>5. Rewritten(s, t) =
        [[sess EXCEPT ![s] = [[sess[s] EXCEPT !.state = "revoked"] EXCEPT !.heir = t]]
           EXCEPT ![t] = NewSession(sess[s].family)]
  BY <1>1 DEF Rewritten
<1>. QED
  BY <1>1, <1>3, <1>4, <1>5

LEMMA IdleType == Idle \in Request
BY DEF Idle, Request

LEMMA DoneType ==
  ASSUME TypeOK, NEW w \in Workers, Done(w)
  PROVE  /\ req' \in [Workers -> Request]
         /\ rowLock' \in [Sids -> Workers \union {NoWorker}]
         /\ userLock' \in Workers \union {NoWorker}
BY IdleType DEF TypeOK, Done, Unlocked

-----------------------------------------------------------------------------
(* What a request computes auth_version from leaves room for one more. *)
Versions ==
  \A w \in Workers : req[w].op \in {"logout_all", "change_password"} =>
    req[w].version \in 1..MaxVersion /\ req[w].version < MaxVersion

IInv == TypeOK /\ Numbered /\ Holding /\ Covering /\ Versions /\ OneLivePerFamily

(* Revoking rows, whichever, and nothing else about the sessions. *)
LEMMA RevokedStates ==
  ASSUME TypeOK, NEW S, sess' = Revoked(S), NEW s \in Sids
  PROVE  /\ sess'[s].state = (IF s \in S /\ sess[s].state = "live" THEN "revoked"
                              ELSE sess[s].state)
         /\ sess'[s].family = sess[s].family
<1>1. sess[s] \in Session
  BY DEF TypeOK
<1>2. sess'[s] = IF s \in S /\ sess[s].state = "live"
                 THEN [sess[s] EXCEPT !.state = "revoked"] ELSE sess[s]
  BY DEF Revoked
<1>. QED
  BY <1>1, <1>2 DEF Session

(* The end of a request that revoked the rows it had matched, or nothing. *)
LEMMA EndStep ==
  ASSUME IInv, NEW w \in Workers, Done(w), created' = created,
         NEW S \in SUBSET req[w].hit, sess' = Revoked(S)
  PROVE  /\ Numbered' /\ Holding' /\ Covering' /\ Versions' /\ OneLivePerFamily'
         /\ sess' \in [Sids -> Session]
<1>. USE DEF IInv
<1>0. /\ TypeOK /\ req \in [Workers -> Request] /\ S \subseteq Sids
      /\ sess' \in [Sids -> Session] /\ NoWorker \notin Workers
  BY RevokedType, BoundsAssumption DEF TypeOK, Request
<1>1. \A s \in Sids :
        /\ sess'[s].family = sess[s].family
        /\ sess'[s].state = "none" <=> sess[s].state = "none"
        /\ sess'[s].state = "live" <=> s \notin S /\ sess[s].state = "live"
  <2>. TAKE s \in Sids
  <2>. QED
    BY <1>0, RevokedStates
<1>2. Numbered'
  BY <1>1 DEF Numbered
<1>3. OneLivePerFamily'
  BY <1>1 DEF OneLivePerFamily, LiveSessions, Live
<1>4. \A v \in Workers : v # w => req'[v] = req[v]
  BY <1>0 DEF Done
<1>5. req'[w] = Idle
  BY <1>0 DEF Done
<1>6. \A s \in Sids, v \in Workers \ {w} : rowLock[s] = v => rowLock'[s] = v /\ s \notin S
  <2>. TAKE s \in Sids, v \in Workers \ {w}
  <2>1. rowLock'[s] = IF rowLock[s] = w THEN NoWorker ELSE rowLock[s]
    BY DEF Done, Unlocked
  <2>2. s \in S => rowLock[s] = w
    BY DEF Holding
  <2>. QED
    BY <2>1, <2>2
<1>7. ASSUME NEW v \in Workers
      PROVE  /\ req'[v].op = "refresh" =>
                   req'[v].sid \in Sids /\ sess'[req'[v].sid].state = "live" /\ rowLock'[req'[v].sid] = v
             /\ \A s \in req'[v].hit : sess'[s].state = "live" /\ rowLock'[s] = v
             /\ req'[v].op \in {"logout_all", "change_password"} /\ req'[v].updating =>
                   userLock' = v /\ LiveSessions' \subseteq req'[v].todo \union req'[v].hit
             /\ req'[v].op \in {"logout_all", "change_password"} =>
                   req'[v].version \in 1..MaxVersion /\ req'[v].version < MaxVersion
  <2>1. CASE v = w
    BY <1>5, <2>1 DEF Idle
  <2>2. CASE v # w
    <3>1. req'[v] = req[v] /\ req[v].hit \subseteq Sids
      BY <1>0, <1>4, <2>2 DEF Request
    <3>2. req[v].op = "refresh" =>
            req[v].sid \in Sids /\ sess'[req[v].sid].state = "live" /\ rowLock'[req[v].sid] = v
      BY <1>1, <1>6, <2>2 DEF Holding, Live
    <3>3. \A s \in req[v].hit : sess'[s].state = "live" /\ rowLock'[s] = v
      BY <1>1, <1>6, <2>2, <3>1 DEF Holding, Live
    <3>4. req[v].op \in {"logout_all", "change_password"} /\ req[v].updating =>
            userLock' = v /\ LiveSessions' \subseteq req[v].todo \union req[v].hit
      BY <1>0, <1>1, <2>2 DEF Covering, Done, LiveSessions, Live
    <3>. QED
      BY <3>1, <3>2, <3>3, <3>4 DEF Versions
  <2>. QED
    BY <2>1, <2>2
<1>8. Holding' /\ Covering' /\ Versions'
  BY <1>7 DEF Holding, Covering, Versions, Live
<1>. QED
  BY <1>0, <1>2, <1>3, <1>8

-----------------------------------------------------------------------------
(* A new session: its number is free, and no session has its family yet.    *)
LEMMA FreshNumber ==
  ASSUME TypeOK, Numbered, created < MaxSessions
  PROVE  /\ created + 1 \in Sids /\ sess[created + 1].state = "none"
         /\ \A s \in Sids : sess[s].state # "none" => s # created + 1
         /\ \A s \in Sids : sess[s].state # "none" =>
              sess[s].family \in Sids /\ sess[s].family # created + 1
<1>1. created \in Nat /\ MaxSessions \in Nat
  BY BoundsAssumption DEF TypeOK
<1>. QED
  BY <1>1 DEF Sids, Numbered

LEMMA RoomForOne == TypeOK /\ Room => created < MaxSessions
<1>. DEFINE S == {w \in Workers : req[w].op \in {"refresh", "change_password"}}
<1>1. IsFiniteSet(S)
  BY FS_Subset, BoundsAssumption
<1>2. Cardinality(S) \in Nat
  BY <1>1, FS_CardinalityType
<1>. QED
  BY <1>2, BoundsAssumption DEF Room, TypeOK

(* A session is added, and possibly others are revoked with it: what stays   *)
(* of the parts of the invariant that are about the sessions alone.          *)
LEMMA CreateStep ==
  ASSUME IInv, created < MaxSessions, created' = created + 1,
         NEW S \in SUBSET Sids, NEW f \in Sids,
         sess' \in [Sids -> Session],
         sess'[created + 1].state = "live" /\ sess'[created + 1].family = f,
         \A s \in Sids \ {created + 1} :
           /\ sess'[s].family = sess[s].family
           /\ sess'[s].state = (IF s \in S /\ Live(s) THEN "revoked" ELSE sess[s].state),
         \/ f = created + 1
         \/ \E s \in S : Live(s) /\ sess[s].family = f
  PROVE  Numbered' /\ OneLivePerFamily'
<1>. USE DEF IInv
<1>0. created \in Nat /\ MaxSessions \in Nat /\ created + 1 \in Sids
  BY BoundsAssumption DEF TypeOK, Sids
<1>1. /\ sess[created + 1].state = "none"
      /\ \A s \in Sids : sess[s].state # "none" => s # created + 1
      /\ \A s \in Sids : sess[s].state # "none" =>
           sess[s].family \in Sids /\ sess[s].family # created + 1
  BY FreshNumber
<1>2. f \in 1..(created + 1)
  BY <1>0, <1>1 DEF Numbered, Live
<1>3. ASSUME NEW s \in Sids
      PROVE  /\ s <= created' <=> sess'[s].state # "none"
             /\ sess'[s].state # "none" => sess'[s].family \in 1..created'
  <2>1. CASE s = created + 1
    BY <1>0, <1>2, <2>1
  <2>2. CASE s # created + 1
    <3>1. s <= created' <=> s <= created
      BY <1>0, <2>2 DEF Sids
    <3>2. sess'[s].state # "none" <=> sess[s].state # "none"
      BY <2>2 DEF Live
    <3>. QED
      BY <1>0, <2>2, <3>1, <3>2 DEF Numbered
  <2>. QED
    BY <2>1, <2>2
<1>4. ASSUME NEW s \in Sids, NEW t \in Sids, sess'[s].state = "live",
             sess'[t].state = "live", sess'[s].family = sess'[t].family
      PROVE  s = t
  <2>1. ASSUME NEW u \in Sids, u # created + 1, sess'[u].state = "live"
        PROVE  Live(u) /\ u \notin S /\ sess[u].family # f
    <3>1. Live(u) /\ u \notin S
      BY <2>1 DEF Live
    <3>2. sess[u].family # created + 1
      BY <1>1, <3>1 DEF Live
    <3>. QED
      BY <3>1, <3>2 DEF OneLivePerFamily, LiveSessions
  <2>. QED
    BY <1>0, <1>4, <2>1 DEF OneLivePerFamily, LiveSessions
<1>5. Numbered'
  BY <1>3 DEF Numbered
<1>. QED
  BY <1>4, <1>5 DEF OneLivePerFamily, LiveSessions, Live

LEMMA LoginStep == ASSUME IInv, Login PROVE IInv'
<1>. USE DEF IInv
<1>0. /\ created < MaxSessions /\ created + 1 \in Sids /\ created + 1 \in 0..MaxSessions
      /\ sess[created + 1].state = "none" /\ sess \in [Sids -> Session]
      /\ NoWorker \notin Workers /\ version \in 1..MaxVersion
      /\ req \in [Workers -> Request]
  BY RoomForOne, FreshNumber, BoundsAssumption DEF Login, TypeOK, Sids
<1>1. /\ created' = created + 1
      /\ sess' = [sess EXCEPT ![created + 1] = NewSession(created + 1)]
  BY DEF Login
<1>2. NewSession(created + 1) \in Session
  BY <1>0, SessionTypes
<1>3. sess' \in [Sids -> Session]
  BY <1>0, <1>1, <1>2
<1>4. /\ sess'[created + 1].state = "live" /\ sess'[created + 1].family = created + 1
      /\ \A s \in Sids \ {created + 1} : sess'[s] = sess[s]
  BY <1>0, <1>1 DEF NewSession
<1>5. Numbered' /\ OneLivePerFamily'
  <2>1. \A s \in Sids \ {created + 1} :
          /\ sess'[s].family = sess[s].family
          /\ sess'[s].state = (IF s \in {} /\ Live(s) THEN "revoked" ELSE sess[s].state)
    BY <1>4
  <2>. QED
    BY <1>0, <1>1, <1>3, <1>4, <2>1, CreateStep
<1>6. TypeOK'
  BY <1>0, <1>1, <1>3 DEF TypeOK, Login
<1>7. Holding'
  <2>1. \A s \in Sids : Live(s) => sess'[s] = sess[s]
    BY <1>0, <1>4 DEF Live
  <2>. QED
    BY <1>0, <2>1 DEF Holding, Login, Live, Request
<1>8. Covering'
  BY <1>0 DEF Covering, Login
<1>9. Versions'
  BY DEF Versions, Login
<1>. QED
  BY <1>5, <1>6, <1>7, <1>8, <1>9

(* A request w that has locked what it writes ends: what the others hold and *)
(* know is as before, if the user is not locked by another.                  *)
LEMMA OthersStep ==
  ASSUME IInv, NEW w \in Workers, Done(w),
         userLock = NoWorker \/ userLock = w,
         \A s \in Sids : Live(s) /\ rowLock[s] # w => sess'[s].state = "live"
  PROVE  Holding' /\ Covering' /\ Versions'
<1>. USE DEF IInv
<1>0. /\ NoWorker \notin Workers /\ req \in [Workers -> Request]
      /\ \A v \in Workers \ {w} : req'[v] = req[v]
      /\ req'[w] = Idle
  BY BoundsAssumption DEF TypeOK, Done
<1>1. \A s \in Sids, v \in Workers \ {w} : rowLock[s] = v => rowLock'[s] = v
  BY DEF Done, Unlocked
<1>2. ASSUME NEW v \in Workers
      PROVE  /\ req'[v].op = "refresh" =>
                   req'[v].sid \in Sids /\ sess'[req'[v].sid].state = "live"
                   /\ rowLock'[req'[v].sid] = v
             /\ \A s \in req'[v].hit : sess'[s].state = "live" /\ rowLock'[s] = v
             /\ ~(req'[v].op \in {"logout_all", "change_password"} /\ req'[v].updating)
             /\ req'[v].op \in {"logout_all", "change_password"} =>
                   req'[v].version \in 1..MaxVersion /\ req'[v].version < MaxVersion
  <2>1. CASE v = w
    BY <1>0, <2>1 DEF Idle
  <2>2. CASE v # w
    <3>1. req'[v] = req[v] /\ req[v].hit \subseteq Sids
      BY <1>0, <2>2 DEF Request
    <3>2. req[v].op = "refresh" =>
            req[v].sid \in Sids /\ sess'[req[v].sid].state = "live"
            /\ rowLock'[req[v].sid] = v
      BY <1>1, <2>2 DEF Holding
    <3>3. \A s \in req[v].hit : sess'[s].state = "live" /\ rowLock'[s] = v
      BY <1>1, <2>2, <3>1 DEF Holding
    <3>4. ~(req[v].op \in {"logout_all", "change_password"} /\ req[v].updating)
      BY <1>0, <2>2 DEF Covering
    <3>. QED
      BY <3>1, <3>2, <3>3, <3>4 DEF Versions
  <2>. QED
    BY <2>1, <2>2
<1>. QED
  BY <1>2 DEF Holding, Covering, Versions, Live

LEMMA RotateStep == ASSUME IInv, NEW w \in Workers, Rotate(w) PROVE IInv'
<1>. USE DEF IInv
<1>. DEFINE s0 == req[w].sid
            t0 == created + 1
<1>0. /\ created < MaxSessions /\ t0 \in Sids /\ t0 \in 0..MaxSessions
      /\ sess[t0].state = "none" /\ sess \in [Sids -> Session]
      /\ s0 \in Sids /\ Live(s0) /\ rowLock[s0] = w /\ s0 # t0
  BY FreshNumber, BoundsAssumption DEF Rotate, TypeOK, Sids, Holding, Live
<1>1. /\ created' = t0 /\ sess' = Rewritten(s0, t0) /\ Done(w) /\ userLock = NoWorker
      /\ issued' = issued \union {version} /\ UNCHANGED <<version, stale>>
  BY DEF Rotate
<1>2. sess' \in [Sids -> Session]
  BY <1>0, <1>1, RewrittenType
<1>3. /\ sess'[t0].state = "live" /\ sess'[t0].family = sess[s0].family
      /\ sess'[s0].state = "revoked" /\ sess'[s0].family = sess[s0].family
      /\ \A s \in Sids \ {s0, t0} : sess'[s] = sess[s]
  <2>1. sess[s0] \in Session
    BY <1>0
  <2>. QED
    BY <1>0, <1>1, <2>1 DEF Rewritten, NewSession, Session
<1>4. Numbered' /\ OneLivePerFamily'
  <2>1. \A s \in Sids \ {t0} :
          /\ sess'[s].family = sess[s].family
          /\ sess'[s].state = (IF s \in {s0} /\ Live(s) THEN "revoked" ELSE sess[s].state)
    BY <1>0, <1>3
  <2>2. sess[s0].family \in Sids
    BY <1>0, FreshNumber DEF Live
  <2>. HIDE DEF s0
  <2>. QED
    BY <1>0, <1>1, <1>2, <1>3, <2>1, <2>2, CreateStep
<1>5. TypeOK'
  BY <1>0, <1>1, <1>2, DoneType DEF TypeOK
<1>6. \A s \in Sids : Live(s) /\ rowLock[s] # w => sess'[s].state = "live"
  BY <1>0, <1>3 DEF Live
<1>7. Holding' /\ Covering' /\ Versions'
  BY <1>1, <1>6, OthersStep
<1>. QED
  BY <1>4, <1>5, <1>7

LEMMA ChangePasswordStep ==
  ASSUME IInv, NEW w \in Workers, CommitChangePassword(w) PROVE IInv'
<1>. USE DEF IInv
<1>. DEFINE t0 == created + 1
            S == req[w].hit
<1>0. /\ created < MaxSessions /\ t0 \in Sids /\ t0 \in 0..MaxSessions
      /\ sess[t0].state = "none" /\ sess \in [Sids -> Session]
      /\ S \subseteq Sids /\ req[w].version \in 1..MaxVersion
      /\ req[w].version + 1 \in 1..MaxVersion /\ userLock = w
  <2>1. req[w].version \in 1..MaxVersion /\ req[w].version < MaxVersion /\ userLock = w
    BY DEF CommitChangePassword, Versions, Covering
  <2>. QED
    BY <2>1, FreshNumber, BoundsAssumption
       DEF CommitChangePassword, TypeOK, Sids, Request
<1>1. /\ created' = t0 /\ Done(w) /\ version' = req[w].version + 1
      /\ sess' = [Revoked(S) EXCEPT ![t0] = NewSession(t0)]
      /\ issued' = issued \union {req[w].version + 1}
      /\ stale' = (stale \/ version # req[w].version)
  BY DEF CommitChangePassword
<1>2. Revoked(S) \in [Sids -> Session] /\ NewSession(t0) \in Session
  BY <1>0, RevokedType, SessionTypes
<1>3. sess' \in [Sids -> Session]
  BY <1>0, <1>1, <1>2
<1>4. /\ sess'[t0].state = "live" /\ sess'[t0].family = t0
      /\ \A s \in Sids \ {t0} :
           /\ sess'[s].family = sess[s].family
           /\ sess'[s].state = (IF s \in S /\ Live(s) THEN "revoked" ELSE sess[s].state)
  <2>1. sess'[t0] = NewSession(t0) /\ \A s \in Sids \ {t0} : sess'[s] = Revoked(S)[s]
    BY <1>0, <1>1, <1>2
  <2>2. ASSUME NEW s \in Sids \ {t0}
        PROVE  /\ sess'[s].family = sess[s].family
               /\ sess'[s].state = (IF s \in S /\ Live(s) THEN "revoked" ELSE sess[s].state)
    <3>1. sess[s] \in Session
      BY <1>0
    <3>2. sess'[s] = IF s \in S /\ sess[s].state = "live"
                     THEN [sess[s] EXCEPT !.state = "revoked"] ELSE sess[s]
      BY <2>1 DEF Revoked
    <3>. QED
      BY <3>1, <3>2 DEF Session, Live
  <2>. QED
    BY <2>1, <2>2 DEF NewSession
<1>5. Numbered' /\ OneLivePerFamily'
  <2>. HIDE DEF S
  <2>. QED
    BY <1>0, <1>1, <1>3, <1>4, CreateStep
<1>6. TypeOK'
  BY <1>0, <1>1, <1>3, DoneType DEF TypeOK
<1>7. \A s \in Sids : Live(s) /\ rowLock[s] # w => sess'[s].state = "live"
  BY <1>0, <1>4 DEF Holding, Live
<1>8. Holding' /\ Covering' /\ Versions'
  BY <1>0, <1>1, <1>7, OthersStep
<1>. QED
  BY <1>5, <1>6, <1>8

LEMMA EndSteps ==
  ASSUME IInv, NEW w \in Workers,
         CommitReuse(w) \/ CommitLogoutAll(w) \/ Victim(w) \/ Abort(w)
  PROVE  IInv'
<1>. USE DEF IInv
<1>1. CASE CommitReuse(w)
  <2>1. Done(w) /\ created' = created /\ sess' = Revoked(req[w].hit)
        /\ UNCHANGED <<version, issued, stale>>
    BY <1>1 DEF CommitReuse
  <2>2. req[w].hit \in SUBSET req[w].hit
    OBVIOUS
  <2>3. /\ Numbered' /\ Holding' /\ Covering' /\ Versions' /\ OneLivePerFamily'
        /\ sess' \in [Sids -> Session]
    BY <2>1, <2>2, EndStep
  <2>. QED
    BY <2>1, <2>3, DoneType DEF TypeOK
<1>2. CASE CommitLogoutAll(w)
  <2>1. Done(w) /\ created' = created /\ sess' = Revoked(req[w].hit)
        /\ UNCHANGED issued /\ version' = req[w].version + 1
        /\ stale' = (stale \/ version # req[w].version)
    BY <1>2 DEF CommitLogoutAll
  <2>2. req[w].hit \in SUBSET req[w].hit
    OBVIOUS
  <2>3. /\ Numbered' /\ Holding' /\ Covering' /\ Versions' /\ OneLivePerFamily'
        /\ sess' \in [Sids -> Session]
    BY <2>1, <2>2, EndStep
  <2>4. version' \in 1..MaxVersion
    <3>1. req[w].version \in 1..MaxVersion /\ req[w].version < MaxVersion
      BY <1>2 DEF CommitLogoutAll, Versions
    <3>. QED
      BY <2>1, <3>1, BoundsAssumption
  <2>. QED
    BY <2>1, <2>3, <2>4, DoneType DEF TypeOK
<1>3. CASE Victim(w) \/ Abort(w)
  <2>1. Done(w) /\ UNCHANGED <<version, created, sess, issued, stale>>
    BY <1>3 DEF Victim, Abort, RollBack
  <2>2. sess' = Revoked({}) /\ {} \in SUBSET req[w].hit
    BY <2>1 DEF Revoked, TypeOK
  <2>3. /\ Numbered' /\ Holding' /\ Covering' /\ Versions' /\ OneLivePerFamily'
        /\ sess' \in [Sids -> Session]
    BY <2>1, <2>2, EndStep
  <2>. QED
    BY <2>1, <2>3, DoneType DEF TypeOK
<1>. QED
  BY <1>1, <1>2, <1>3

(* The steps that write a session nobody has locked. *)
LEMMA RowSteps ==
  ASSUME IInv, NEW s \in Sids, Logout(s) \/ Expire(s) \/ RefreshExpired(s)
  PROVE  IInv'
<1>. USE DEF IInv
<1>0. NoWorker \notin Workers /\ sess \in [Sids -> Session] /\ sess[s] \in Session
      /\ req \in [Workers -> Request]
  BY BoundsAssumption DEF TypeOK
<1>1. /\ UNCHANGED <<version, userLock, created, rowLock, issued, req, stale>>
      /\ sess' \in [Sids -> Session]
  BY RevokedType, SessionTypes DEF Logout, Expire, RefreshExpired, TypeOK
<1>2. \A t \in Sids :
        /\ sess'[t].family = sess[t].family
        /\ sess'[t].state = "none" <=> sess[t].state = "none"
        /\ sess'[t].state = "live" => Live(t)
        /\ Live(t) /\ rowLock[t] # NoWorker => sess'[t].state = "live"
  <2>. TAKE t \in Sids
  <2>1. CASE Logout(s) \/ RefreshExpired(s)
    <3>1. sess' = Revoked({s}) /\ rowLock[s] = NoWorker
      BY <2>1 DEF Logout, RefreshExpired
    <3>2. /\ sess'[t].state = (IF t \in {s} /\ sess[t].state = "live" THEN "revoked"
                               ELSE sess[t].state)
          /\ sess'[t].family = sess[t].family
      BY <3>1, RevokedStates
    <3>. QED
      BY <3>1, <3>2 DEF Live
  <2>2. CASE Expire(s)
    <3>1. sess' = [sess EXCEPT ![s].expired = TRUE]
      BY <2>2 DEF Expire
    <3>2. sess'[t].state = sess[t].state /\ sess'[t].family = sess[t].family
      BY <1>0, <3>1 DEF Session
    <3>. QED
      BY <3>2 DEF Live
  <2>. QED
    BY <2>1, <2>2
<1>3. TypeOK'
  BY <1>1 DEF TypeOK
<1>4. Numbered' /\ OneLivePerFamily'
  BY <1>1, <1>2 DEF Numbered, OneLivePerFamily, LiveSessions, Live
<1>5. Holding'
  <2>1. ASSUME NEW w \in Workers
        PROVE  /\ req'[w].op = "refresh" =>
                    /\ req'[w].sid \in Sids /\ sess'[req'[w].sid].state = "live"
                    /\ rowLock'[req'[w].sid] = w
               /\ \A t \in req'[w].hit : sess'[t].state = "live" /\ rowLock'[t] = w
    <3>1. req[w].hit \subseteq Sids
      BY <1>0 DEF Request
    <3>. QED
      BY <1>0, <1>1, <1>2, <3>1 DEF Holding
  <2>. QED
    BY <2>1 DEF Holding, Live
<1>6. Covering'
  BY <1>1, <1>2 DEF Covering, LiveSessions, Live
<1>7. Versions'
  BY <1>1 DEF Versions
<1>. QED
  BY <1>3, <1>4, <1>5, <1>6, <1>7

(* A step of one request that takes locks and writes no session: it may keep *)
(* the locks of the others, and must hold what it is going to write.         *)
LEMMA RequestStep ==
  ASSUME IInv, NEW w \in Workers, NEW r \in Request,
         UNCHANGED <<version, created, sess, issued, stale>>,
         req' = [req EXCEPT ![w] = r],
         rowLock' \in [Sids -> Workers \union {NoWorker}],
         userLock' \in Workers \union {NoWorker},
         \A s \in Sids, v \in Workers : rowLock[s] = v => rowLock'[s] = v,
         userLock # NoWorker => userLock' = userLock,
         r.op = "refresh" => r.sid \in Sids /\ Live(r.sid) /\ rowLock'[r.sid] = w,
         \A s \in r.hit : Live(s) /\ rowLock'[s] = w,
         r.op \in {"logout_all", "change_password"} =>
           /\ r.version \in 1..MaxVersion /\ r.version < MaxVersion
           /\ r.updating => userLock' = w /\ LiveSessions \subseteq r.todo \union r.hit
  PROVE  IInv'
<1>. USE DEF IInv
<1>0. /\ req \in [Workers -> Request] /\ NoWorker \notin Workers
      /\ req' \in [Workers -> Request] /\ req'[w] = r
      /\ \A v \in Workers \ {w} : req'[v] = req[v]
  BY BoundsAssumption DEF TypeOK
<1>1. TypeOK'
  BY <1>0 DEF TypeOK
<1>2. Numbered' /\ OneLivePerFamily'
  BY DEF Numbered, OneLivePerFamily, LiveSessions, Live
<1>3. ASSUME NEW v \in Workers
      PROVE  /\ req'[v].op = "refresh" =>
                   req'[v].sid \in Sids /\ Live(req'[v].sid) /\ rowLock'[req'[v].sid] = v
             /\ \A s \in req'[v].hit : Live(s) /\ rowLock'[s] = v
             /\ req'[v].op \in {"logout_all", "change_password"} =>
                  /\ req'[v].version \in 1..MaxVersion /\ req'[v].version < MaxVersion
                  /\ req'[v].updating =>
                       userLock' = v /\ LiveSessions \subseteq req'[v].todo \union req'[v].hit
  <2>1. CASE v = w
    BY <1>0, <2>1
  <2>2. CASE v # w
    <3>1. req'[v] = req[v] /\ req[v].hit \subseteq Sids
      BY <1>0, <2>2 DEF Request
    <3>2. req[v].op = "refresh" =>
            req[v].sid \in Sids /\ Live(req[v].sid) /\ rowLock'[req[v].sid] = v
      BY DEF Holding
    <3>3. \A s \in req[v].hit : Live(s) /\ rowLock'[s] = v
      BY <3>1 DEF Holding
    <3>4. req[v].op \in {"logout_all", "change_password"} /\ req[v].updating =>
            userLock' = v /\ LiveSessions \subseteq req[v].todo \union req[v].hit
      BY <1>0 DEF Covering
    <3>. QED
      BY <3>1, <3>2, <3>3, <3>4 DEF Versions
  <2>. QED
    BY <2>1, <2>2
<1>4. Holding'
  BY <1>3 DEF Holding, Live
<1>5. Covering'
  BY <1>3 DEF Covering, LiveSessions, Live
<1>6. Versions'
  BY <1>3 DEF Versions
<1>. QED
  BY <1>1, <1>2, <1>4, <1>5, <1>6

LEMMA BeginSteps ==
  ASSUME IInv, NEW w \in Workers, NEW s \in Sids, BeginRefresh(w, s) \/ BeginReuse(w, s)
  PROVE  IInv'
<1>. USE DEF IInv
<1>0. /\ rowLock \in [Sids -> Workers \union {NoWorker}] /\ NoWorker \notin Workers
      /\ userLock \in Workers \union {NoWorker} /\ created \in Nat
      /\ rowLock' = [rowLock EXCEPT ![s] = w] /\ rowLock[s] = NoWorker
      /\ UNCHANGED <<version, created, sess, issued, stale, userLock>>
  BY BoundsAssumption DEF TypeOK, BeginRefresh, BeginReuse
<1>1. /\ \A t \in Sids, v \in Workers : rowLock[t] = v => rowLock'[t] = v
      /\ rowLock' \in [Sids -> Workers \union {NoWorker}] /\ rowLock'[s] = w
  BY <1>0
<1>2. CASE BeginRefresh(w, s)
  <2>. DEFINE r == [Idle EXCEPT !.op = "refresh", !.sid = s]
  <2>1. /\ r \in Request /\ r.op = "refresh" /\ r.sid = s /\ r.hit = {}
    BY DEF Idle, Request
  <2>2. req' = [req EXCEPT ![w] = r] /\ Live(s)
    BY <1>2 DEF BeginRefresh
  <2>. HIDE DEF r
  <2>. QED
    BY <1>0, <1>1, <2>1, <2>2, RequestStep
<1>3. CASE BeginReuse(w, s)
  <2>. DEFINE r == [Idle EXCEPT !.op = "reuse", !.updating = TRUE, !.sid = s,
                      !.todo = FamilyOf(s) \intersect LiveSessions, !.before = created]
  <2>1. /\ r \in Request /\ r.op = "reuse" /\ r.hit = {}
    BY <1>0 DEF Idle, Request, FamilyOf, LiveSessions
  <2>2. req' = [req EXCEPT ![w] = r]
    BY <1>3 DEF BeginReuse
  <2>. HIDE DEF r
  <2>. QED
    BY <1>0, <1>1, <2>1, <2>2, RequestStep
<1>. QED
  BY <1>2, <1>3

LEMMA VisitStep ==
  ASSUME IInv, NEW w \in Workers, NEW s \in Sids, Visit(w, s)
  PROVE  IInv'
<1>. USE DEF IInv
<1>0. /\ rowLock \in [Sids -> Workers \union {NoWorker}] /\ NoWorker \notin Workers
      /\ userLock \in Workers \union {NoWorker}
      /\ req[w] \in Request /\ s \in req[w].todo /\ rowLock[s] = NoWorker
      /\ rowLock' = (IF Live(s) THEN [rowLock EXCEPT ![s] = w] ELSE rowLock)
      /\ UNCHANGED <<version, created, sess, issued, stale, userLock>>
  BY BoundsAssumption DEF TypeOK, Visit
<1>1. /\ \A t \in Sids, v \in Workers : rowLock[t] = v => rowLock'[t] = v
      /\ rowLock' \in [Sids -> Workers \union {NoWorker}]
      /\ Live(s) => rowLock'[s] = w
  BY <1>0
<1>. DEFINE h == IF Live(s) THEN req[w].hit \union {s} ELSE req[w].hit
            r0 == [req[w] EXCEPT !.todo = req[w].todo \ {s}]
            r == [r0 EXCEPT !.hit = h]
<1>2. r0 \in Request /\ req[w].hit \subseteq Sids /\ req[w].todo \subseteq Sids
  BY <1>0 DEF Request
<1>3. h \subseteq Sids
  BY <1>2
<1>4. /\ r \in Request /\ r.op = req[w].op /\ r.sid = req[w].sid /\ r.hit = h
      /\ r.version = req[w].version /\ r.updating = req[w].updating
      /\ r.todo = req[w].todo \ {s}
  <2>. HIDE DEF h
  <2>. QED
    BY <1>0, <1>2, <1>3 DEF Request
<1>5. req' = [req EXCEPT ![w] = r]
  BY DEF Visit
<1>6. \A t \in h : Live(t) /\ rowLock'[t] = w
  BY <1>0, <1>1, <1>2 DEF Holding
<1>7. r.op = "refresh" => r.sid \in Sids /\ Live(r.sid) /\ rowLock'[r.sid] = w
  BY <1>1, <1>4 DEF Holding
<1>8. r.op \in {"logout_all", "change_password"} =>
        /\ r.version \in 1..MaxVersion /\ r.version < MaxVersion
        /\ r.updating => userLock' = w /\ LiveSessions \subseteq r.todo \union r.hit
  <2>. HIDE DEF r
  <2>1. req[w].todo \union req[w].hit \subseteq {t \in Sids : ~Live(t)} \union r.todo \union r.hit
    BY <1>2, <1>4
  <2>. QED
    BY <1>0, <1>4, <2>1 DEF Covering, Versions, LiveSessions
<1>. HIDE DEF r, h
<1>. QED
  BY <1>0, <1>1, <1>4, <1>5, <1>6, <1>7, <1>8, RequestStep

LEMMA UserSteps ==
  ASSUME IInv, NEW w \in Workers,
         LockUser(w) \/ \E op \in {"logout_all", "change_password"} : Authenticate(w, op)
  PROVE  IInv'
<1>. USE DEF IInv
<1>0. /\ rowLock \in [Sids -> Workers \union {NoWorker}] /\ NoWorker \notin Workers
      /\ userLock \in Workers \union {NoWorker} /\ created \in Nat
      /\ req[w] \in Request /\ version \in 1..MaxVersion
      /\ UNCHANGED <<version, created, sess, issued, stale, rowLock>>
  BY BoundsAssumption DEF TypeOK, LockUser, Authenticate
<1>1. CASE LockUser(w)
  <2>. DEFINE r0 == [req[w] EXCEPT !.updating = TRUE]
              r1 == [r0 EXCEPT !.todo = LiveSessions]
              r  == [r1 EXCEPT !.before = created]
  <2>1. r0 \in Request
    BY <1>0 DEF Request
  <2>2. r1 \in Request
    BY <2>1 DEF Request, LiveSessions
  <2>3. /\ r \in Request /\ r.op = req[w].op /\ r.sid = req[w].sid /\ r.hit = req[w].hit
        /\ r.version = req[w].version /\ r.todo = LiveSessions
    BY <1>0, <2>1, <2>2 DEF Request
  <2>4. /\ req' = [req EXCEPT ![w] = r] /\ userLock = NoWorker /\ userLock' = w
        /\ req[w].op \in {"logout_all", "change_password"}
    BY <1>1 DEF LockUser
  <2>. HIDE DEF r
  <2>5. \A s \in r.hit : Live(s) /\ rowLock'[s] = w
    BY <1>0, <2>3 DEF Holding
  <2>6. r.version \in 1..MaxVersion /\ r.version < MaxVersion /\ r.op # "refresh"
    BY <2>3, <2>4 DEF Versions
  <2>7. /\ rowLock' \in [Sids -> Workers \union {NoWorker}]
        /\ userLock' \in Workers \union {NoWorker}
        /\ \A s \in Sids, v \in Workers : rowLock[s] = v => rowLock'[s] = v
        /\ userLock # NoWorker => userLock' = userLock
        /\ LiveSessions \subseteq r.todo \union r.hit
    BY <1>0, <2>3, <2>4
  <2>. QED
    BY <1>0, <2>3, <2>4, <2>5, <2>6, <2>7, RequestStep
<1>2. CASE \E op \in {"logout_all", "change_password"} : Authenticate(w, op)
  <2>1. PICK op \in {"logout_all", "change_password"} : Authenticate(w, op)
    BY <1>2
  <2>. DEFINE r == [Idle EXCEPT !.op = op, !.version = version]
  <2>2. /\ r \in Request /\ r.op = op /\ r.hit = {} /\ r.version = version
        /\ r.updating = FALSE
    <3>1. version \in Nat /\ op \in {"logout_all", "change_password"}
      BY <1>0, BoundsAssumption
    <3>2. [Idle EXCEPT !.op = op] \in Request
      BY <3>1 DEF Idle, Request
    <3>3. r = [[Idle EXCEPT !.op = op] EXCEPT !.version = version]
      BY DEF Idle
    <3>4. r \in Request
      BY <3>1, <3>2, <3>3 DEF Request
    <3>. QED
      BY <3>4 DEF Idle
  <2>3. /\ req' = [req EXCEPT ![w] = r] /\ userLock' = userLock /\ version < MaxVersion
    BY <2>1 DEF Authenticate
  <2>. HIDE DEF r
  <2>4. /\ rowLock' \in [Sids -> Workers \union {NoWorker}]
        /\ userLock' \in Workers \union {NoWorker}
        /\ \A s \in Sids, v \in Workers : rowLock[s] = v => rowLock'[s] = v
    BY <1>0, <2>3
  <2>5. /\ r.op # "refresh" /\ ~r.updating /\ \A s \in r.hit : Live(s) /\ rowLock'[s] = w
        /\ r.version \in 1..MaxVersion /\ r.version < MaxVersion
        /\ userLock # NoWorker => userLock' = userLock
    BY <1>0, <2>2, <2>3
  <2>. QED
    BY <1>0, <2>2, <2>3, <2>4, <2>5, RequestStep
<1>. QED
  BY <1>1, <1>2

-----------------------------------------------------------------------------
LEMMA InitIInv == Init => IInv
<1>. SUFFICES ASSUME Init PROVE IInv
  OBVIOUS
<1>1. TypeOK
  <2>1. Absent \in Session
    BY DEF Absent, Session
  <2>2. /\ version \in 1..MaxVersion /\ created \in 0..MaxSessions
        /\ issued \subseteq 1..MaxVersion
    BY BoundsAssumption DEF Init
  <2>3. req \in [Workers -> Request] /\ sess \in [Sids -> Session]
    BY <2>1, IdleType DEF Init
  <2>4. /\ userLock \in Workers \union {NoWorker}
        /\ rowLock \in [Sids -> Workers \union {NoWorker}]
        /\ stale \in BOOLEAN
    BY DEF Init
  <2>. QED
    BY <2>2, <2>3, <2>4 DEF TypeOK
<1>2. Numbered /\ OneLivePerFamily
  BY DEF Init, Numbered, OneLivePerFamily, LiveSessions, Live, Absent, Sids
<1>3. Holding /\ Covering /\ Versions
  BY DEF Init, Holding, Covering, Versions, Idle
<1>. QED
  BY <1>1, <1>2, <1>3 DEF IInv

(* The invariant is inductive: one lemma above for each group of actions.    *)
LEMMA NextIInv == IInv /\ [Next]_vars => IInv'
<1>. SUFFICES ASSUME IInv, [Next]_vars PROVE IInv'
  OBVIOUS
<1>1. CASE Login
  BY <1>1, LoginStep
<1>2. ASSUME NEW s \in Sids, Logout(s) \/ Expire(s) \/ RefreshExpired(s)
      PROVE  IInv'
  BY <1>2, RowSteps
<1>3. ASSUME NEW w \in Workers, NEW s \in Sids,
             BeginRefresh(w, s) \/ BeginReuse(w, s) \/ Visit(w, s)
      PROVE  IInv'
  BY <1>3, BeginSteps, VisitStep
<1>4. ASSUME NEW w \in Workers,
             LockUser(w) \/ \E op \in {"logout_all", "change_password"} : Authenticate(w, op)
      PROVE  IInv'
  BY <1>4, UserSteps
<1>5. ASSUME NEW w \in Workers, Rotate(w)
      PROVE  IInv'
  BY <1>5, RotateStep
<1>6. ASSUME NEW w \in Workers, CommitChangePassword(w)
      PROVE  IInv'
  BY <1>6, ChangePasswordStep
<1>7. ASSUME NEW w \in Workers,
             CommitReuse(w) \/ CommitLogoutAll(w) \/ Victim(w) \/ Abort(w)
      PROVE  IInv'
  BY <1>7, EndSteps
<1>8. CASE UNCHANGED vars
  BY <1>8 DEF vars, IInv, TypeOK, Numbered, Holding, Covering, Versions,
              OneLivePerFamily, LiveSessions, Live
<1>. QED
  BY <1>1, <1>2, <1>3, <1>4, <1>5, <1>6, <1>7, <1>8 DEF Next

LEMMA Inductive == Spec => []IInv
BY InitIInv, NextIInv, PTL DEF Spec

(* The rows of users, auth_sessions and the requests on them keep their types. *)
THEOREM TypeCorrect == Spec => []TypeOK
BY Inductive, PTL DEF IInv

(* Rotation never leaves two live sessions of a family: the row lock taken   *)
(* before the session is found live is held until its heir is committed.     *)
THEOREM RotatedOnce == Spec => []OneLivePerFamily
BY Inductive, PTL DEF IInv

(* logout_all and change_password leave no session of before live: the row   *)
(* of the user keeps logins and rotations out while they revoke.             *)
THEOREM EverythingRevoked == Spec => NoSessionSurvives
<1>1. ASSUME IInv, NEW w \in Workers, CommitLogoutAll(w) \/ CommitChangePassword(w),
             NEW s \in 1..created
      PROVE  sess'[s].state = "revoked"
  <2>. USE DEF IInv
  <2>0. /\ created \in Nat /\ s \in Sids /\ s # created + 1 /\ sess[s] \in Session
        /\ sess[s].state # "none"
    BY <1>1, BoundsAssumption DEF TypeOK, Sids, Numbered
  <2>1. LiveSessions \subseteq req[w].hit
    BY <1>1 DEF Covering, CommitLogoutAll, CommitChangePassword
  <2>2. Revoked(req[w].hit)[s].state = "revoked"
    <3>1. Revoked(req[w].hit)[s] = IF s \in req[w].hit /\ sess[s].state = "live"
                                   THEN [sess[s] EXCEPT !.state = "revoked"] ELSE sess[s]
      BY <2>0 DEF Revoked
    <3>2. sess[s].state = "live" => s \in req[w].hit
      BY <2>0, <2>1 DEF LiveSessions, Live
    <3>. QED
      BY <2>0, <3>1, <3>2 DEF Session
  <2>3. sess'[s] = Revoked(req[w].hit)[s]
    <3>1. CASE CommitLogoutAll(w)
      BY <3>1 DEF CommitLogoutAll
    <3>2. CASE CommitChangePassword(w)
      BY <3>2, <2>0, RevokedType DEF CommitChangePassword
    <3>. QED
      BY <1>1, <3>1, <3>2
  <2>. QED
    BY <2>2, <2>3
<1>2. IInv /\ [Next]_vars =>
        [\A w \in Workers : CommitLogoutAll(w) \/ CommitChangePassword(w) =>
           \A s \in 1..created : sess'[s].state = "revoked"]_vars
  BY <1>1
<1>. QED
  BY <1>2, Inductive, PTL DEF Spec, NoSessionSurvives

-----------------------------------------------------------------------------
(* What FamiliesAreChains needs beside it: heirs are sessions that exist.    *)
HeirsExist ==
  \A s \in Sids :
    /\ sess[s].state = "none" => sess[s].heir = NoSession
    /\ sess[s].heir # NoSession => sess[sess[s].heir].state # "none"

Chained == HeirsExist /\ FamiliesAreChains

(* A step that keeps the links of old sessions, whatever it revokes, and adds *)
(* none, or one that begins a family of its own, keeps the chains.           *)
LEMMA LinksKept ==
  ASSUME TypeOK, Numbered, Chained, NEW N \in SUBSET Sids,
         \A n \in N : /\ sess[n].state = "none"
                      /\ sess'[n].state = "live" /\ sess'[n].heir = NoSession
                      /\ \A s \in Sids \ {n} : sess'[s].state # "none" =>
                           sess'[s].family # sess'[n].family,
         \A s \in Sids \ N :
           /\ sess'[s].family = sess[s].family /\ sess'[s].heir = sess[s].heir
           /\ sess'[s].state = "none" <=> sess[s].state = "none"
           /\ sess[s].state = "revoked" => sess'[s].state = "revoked"
  PROVE  Chained'
<1>0. \A s \in Sids : sess[s] \in Session /\ (sess[s].heir # NoSession => sess[s].heir \in Sids)
  BY DEF TypeOK, Session
<1>1. ASSUME NEW n \in N, NEW s \in Sids
      PROVE  sess[n].heir = NoSession /\ sess[s].heir # n
  <2>1. n \in Sids /\ n # NoSession /\ sess[n].state = "none"
    BY BoundsAssumption DEF Sids
  <2>. QED
    BY <2>1 DEF Chained, HeirsExist
<1>2. ASSUME NEW s \in Sids
      PROVE  /\ sess'[s].state = "none" => sess'[s].heir = NoSession
             /\ sess'[s].heir # NoSession => sess'[sess'[s].heir].state # "none"
  <2>1. CASE s \in N
    BY <2>1
  <2>2. CASE s \notin N
    BY <1>0, <1>1, <2>2 DEF Chained, HeirsExist
  <2>. QED
    BY <2>1, <2>2
<1>3. ASSUME NEW s \in Sids, sess'[s].state # "none", sess'[s].heir # NoSession
      PROVE  /\ sess'[s].state = "revoked" /\ sess'[s].heir > s
             /\ sess'[sess'[s].heir].family = sess'[s].family
             /\ \A t \in Sids \ {s} : sess'[t].heir # sess'[s].heir
  <2>1. s \notin N /\ sess'[s].heir = sess[s].heir /\ sess[s].heir \in Sids \ N
    BY <1>0, <1>1, <1>3
  <2>2. /\ sess[s].state = "revoked" /\ sess[s].heir > s
        /\ sess[sess[s].heir].family = sess[s].family
        /\ \A t \in Sids \ {s} : sess[t].heir # sess[s].heir
    BY <1>3, <2>1 DEF Chained, FamiliesAreChains
  <2>3. \A t \in Sids \ {s} : sess'[t].heir # sess'[s].heir
    BY <1>3, <2>1, <2>2
  <2>. QED
    BY <2>1, <2>2, <2>3
<1>4. ASSUME NEW s \in Sids, sess'[s].state # "none", sess'[s].heir = NoSession,
             NEW t \in Sids, sess'[t].state # "none", sess'[t].family = sess'[s].family
      PROVE  t <= s
  <2>1. CASE s = t
    BY <2>1 DEF Sids
  <2>2. CASE s # t
    <3>1. s \notin N /\ t \notin N
      BY <1>4, <2>2
    <3>. QED
      BY <1>4, <3>1 DEF Chained, FamiliesAreChains, FamilyOf
  <2>. QED
    BY <2>1, <2>2
<1>5. FamiliesAreChains'
  BY <1>3, <1>4 DEF FamiliesAreChains, FamilyOf
<1>6. HeirsExist'
  BY <1>2 DEF HeirsExist
<1>. QED
  BY <1>5, <1>6 DEF Chained

LEMMA RevokedLinks ==
  ASSUME TypeOK, NEW S, NEW s \in Sids
  PROVE  /\ Revoked(S)[s].family = sess[s].family /\ Revoked(S)[s].heir = sess[s].heir
         /\ Revoked(S)[s].state = "none" <=> sess[s].state = "none"
         /\ sess[s].state = "revoked" => Revoked(S)[s].state = "revoked"
<1>1. sess[s] \in Session
  BY DEF TypeOK
<1>2. Revoked(S)[s] = IF s \in S /\ sess[s].state = "live"
                      THEN [sess[s] EXCEPT !.state = "revoked"] ELSE sess[s]
  BY DEF Revoked
<1>. QED
  BY <1>1, <1>2 DEF Session

(* A new family: no session is named after the number it gets. *)
LEMMA FamilyAdded ==
  ASSUME IInv, Chained, created < MaxSessions, NEW S,
         sess' = [Revoked(S) EXCEPT ![created + 1] = NewSession(created + 1)]
  PROVE  Chained'
<1>. USE DEF IInv
<1>1. /\ created + 1 \in Sids /\ sess[created + 1].state = "none"
      /\ \A s \in Sids : sess[s].state # "none" => sess[s].family # created + 1
  BY FreshNumber
<1>2. \A s \in Sids \ {created + 1} : sess'[s] = Revoked(S)[s]
  BY RevokedType
<1>3. sess'[created + 1] = NewSession(created + 1)
  BY <1>1, RevokedType
<1>4. \A s \in Sids \ {created + 1} :
        /\ sess'[s].family = sess[s].family /\ sess'[s].heir = sess[s].heir
        /\ sess'[s].state = "none" <=> sess[s].state = "none"
        /\ sess[s].state = "revoked" => sess'[s].state = "revoked"
  BY <1>2, RevokedLinks
<1>5. /\ sess'[created + 1].state = "live" /\ sess'[created + 1].heir = NoSession
      /\ sess'[created + 1].family = created + 1
  BY <1>3 DEF NewSession
<1>6. \A s \in Sids \ {created + 1} : sess'[s].state # "none" =>
        sess'[s].family # sess'[created + 1].family
  BY <1>1, <1>4, <1>5
<1>. DEFINE N == {created + 1}
<1>7. \A n \in N : /\ sess[n].state = "none"
                   /\ sess'[n].state = "live" /\ sess'[n].heir = NoSession
                   /\ \A s \in Sids \ {n} : sess'[s].state # "none" =>
                        sess'[s].family # sess'[n].family
  BY <1>1, <1>5, <1>6
<1>8. N \in SUBSET Sids
  BY <1>1
<1>. HIDE DEF IInv
<1>. QED
  BY <1>4, <1>7, <1>8, LinksKept DEF IInv

(* A rotated session was live, so it had no heir and was the newest of its   *)
(* family; its replacement is younger than all of them.                      *)
LEMMA RotateChained ==
  ASSUME IInv, Chained, NEW w \in Workers, Rotate(w)
  PROVE  Chained'
<1>. USE DEF IInv
<1>. DEFINE s0 == req[w].sid
            t0 == created + 1
<1>0. /\ t0 \in Sids /\ s0 \in Sids /\ sess[s0].state = "live" /\ created \in Nat
      /\ sess[t0].state = "none" /\ sess \in [Sids -> Session] /\ s0 # t0
  BY FreshNumber, BoundsAssumption DEF Rotate, TypeOK, Holding, Live
<1>1. sess' = Rewritten(s0, t0)
  BY DEF Rotate
<1>2. /\ sess'[t0].state = "live" /\ sess'[t0].family = sess[s0].family
      /\ sess'[t0].heir = NoSession
      /\ sess'[s0].state = "revoked" /\ sess'[s0].family = sess[s0].family
      /\ sess'[s0].heir = t0
      /\ \A s \in Sids \ {s0, t0} : sess'[s] = sess[s]
  <2>1. sess[s0] \in Session
    BY <1>0
  <2>. QED
    BY <1>0, <1>1, <2>1 DEF Rewritten, NewSession, Session
<1>3. \A s \in Sids : /\ sess[s].state # "none" => s < t0
                      /\ sess[s].heir # NoSession => sess[s].heir \in Sids \ {t0}
  <2>. TAKE s \in Sids
  <2>1. sess[s].state # "none" => s < t0
    BY <1>0 DEF Numbered, Sids
  <2>2. sess[s].heir # NoSession => sess[s].heir \in Sids \ {t0}
    BY <1>0 DEF Chained, HeirsExist, Session
  <2>. QED
    BY <2>1, <2>2
<1>4. sess[s0].heir = NoSession /\ sess[t0].heir = NoSession
  BY <1>0 DEF Chained, HeirsExist, FamiliesAreChains
<1>. HIDE DEF s0, t0
<1>5. HeirsExist'
  <2>1. ASSUME NEW s \in Sids
        PROVE  /\ sess'[s].state = "none" => sess'[s].heir = NoSession
               /\ sess'[s].heir # NoSession => sess'[sess'[s].heir].state # "none"
    <3>1. CASE s \in {s0, t0}
      BY <1>0, <1>2, <3>1
    <3>2. CASE s \notin {s0, t0}
      BY <1>0, <1>2, <1>3, <3>2 DEF Chained, HeirsExist
    <3>. QED
      BY <3>1, <3>2
  <2>. QED
    BY <2>1 DEF HeirsExist
<1>6. ASSUME NEW s \in Sids, sess'[s].state # "none", sess'[s].heir # NoSession
      PROVE  /\ sess'[s].state = "revoked" /\ sess'[s].heir > s
             /\ sess'[sess'[s].heir].family = sess'[s].family
             /\ \A t \in Sids \ {s} : sess'[t].heir # sess'[s].heir
  <2>1. CASE s = s0
    <3>1. s < t0
      BY <1>0, <1>3, <2>1
    <3>2. \A t \in Sids \ {s} : sess'[t].heir # t0
      BY <1>0, <1>2, <1>3, <2>1 DEF Sids
    <3>3. t0 > s
      BY <1>0, <3>1 DEF Sids
    <3>. QED
      BY <1>2, <2>1, <3>2, <3>3
  <2>2. CASE s # s0
    <3>1. s # t0 /\ sess'[s] = sess[s] /\ sess[s].heir \in Sids \ {t0}
      BY <1>2, <1>3, <1>6, <2>2
    <3>2. /\ sess[s].state = "revoked" /\ sess[s].heir > s
          /\ sess[sess[s].heir].family = sess[s].family
          /\ \A t \in Sids \ {s} : sess[t].heir # sess[s].heir
      BY <1>6, <3>1 DEF Chained, FamiliesAreChains
    <3>3. sess'[sess[s].heir].family = sess[sess[s].heir].family
      BY <1>2, <3>1
    <3>4. \A t \in Sids \ {s} : sess'[t].heir # sess[s].heir
      BY <1>2, <1>6, <3>1, <3>2
    <3>. QED
      BY <3>1, <3>2, <3>3, <3>4
  <2>. QED
    BY <2>1, <2>2
<1>7. ASSUME NEW s \in Sids, sess'[s].state # "none", sess'[s].heir = NoSession,
             NEW t \in Sids, sess'[t].state # "none", sess'[t].family = sess'[s].family
      PROVE  t <= s
  <2>1. CASE s = t0
    BY <1>0, <1>2, <1>3, <1>7, <2>1 DEF Sids
  <2>2. CASE s # t0
    <3>1. s # s0 /\ sess'[s] = sess[s] /\ \A u \in FamilyOf(s) : u <= s
      <4>1. s # s0
        BY <1>0, <1>2, <1>7 DEF Sids
      <4>2. sess'[s] = sess[s]
        BY <1>2, <2>2, <4>1
      <4>. QED
        BY <1>7, <4>1, <4>2 DEF Chained, FamiliesAreChains
    <3>2. sess[s].family # sess[s0].family
      <4>1. SUFFICES ASSUME sess[s].family = sess[s0].family PROVE FALSE
        OBVIOUS
      <4>2. s0 <= s
        BY <1>0, <3>1, <4>1 DEF FamilyOf
      <4>3. s <= s0
        BY <1>0, <1>4, <1>7, <3>1, <4>1 DEF Chained, FamiliesAreChains, FamilyOf
      <4>. QED
        BY <1>0, <3>1, <4>2, <4>3 DEF Sids
    <3>3. t # t0 /\ t # s0 /\ sess'[t] = sess[t]
      BY <1>2, <1>7, <3>1, <3>2
    <3>. QED
      BY <1>7, <3>1, <3>3 DEF FamilyOf
  <2>. QED
    BY <2>1, <2>2
<1>8. FamiliesAreChains'
  BY <1>6, <1>7 DEF FamiliesAreChains, FamilyOf
<1>. QED
  BY <1>5, <1>8 DEF Chained

(* Steps that only revoke sessions, or change nothing the chains are about.  *)
LEMMA OtherStepsChained ==
  ASSUME IInv, Chained, [Next]_vars, ~Login,
         \A w \in Workers : ~Rotate(w) /\ ~CommitChangePassword(w)
  PROVE  Chained'
<1>. DEFINE Linked(s) ==
       /\ sess'[s].family = sess[s].family /\ sess'[s].heir = sess[s].heir
       /\ sess'[s].state = "none" <=> sess[s].state = "none"
       /\ sess[s].state = "revoked" => sess'[s].state = "revoked"
<1>1. ASSUME NEW S, sess' = Revoked(S), NEW t \in Sids
      PROVE  Linked(t)
  BY <1>1, RevokedLinks DEF IInv
<1>2. ASSUME NEW s \in Sids, Expire(s), NEW t \in Sids
      PROVE  Linked(t)
  <2>1. sess[t] \in Session /\ sess \in [Sids -> Session]
    BY DEF IInv, TypeOK
  <2>. QED
    BY <1>2, <2>1 DEF Session, Expire
<1>3. ASSUME sess' = sess, NEW t \in Sids
      PROVE  Linked(t)
  BY <1>3
<1>4. ASSUME NEW t \in Sids
      PROVE  Linked(t)
  <2>1. CASE UNCHANGED vars
    BY <1>3, <2>1 DEF vars
  <2>2. ASSUME NEW s \in Sids, Logout(s) \/ RefreshExpired(s)
        PROVE  Linked(t)
    BY <1>1, <2>2 DEF Logout, RefreshExpired
  <2>3. ASSUME NEW w \in Workers, CommitReuse(w) \/ CommitLogoutAll(w)
        PROVE  Linked(t)
    BY <1>1, <2>3 DEF CommitReuse, CommitLogoutAll
  <2>4. ASSUME NEW w \in Workers, Victim(w) \/ Abort(w) \/ LockUser(w)
        PROVE  Linked(t)
    BY <1>3, <2>4 DEF Victim, Abort, RollBack, LockUser
  <2>5. ASSUME NEW w \in Workers, NEW s \in Sids,
               BeginRefresh(w, s) \/ BeginReuse(w, s) \/ Visit(w, s)
        PROVE  Linked(t)
    BY <1>3, <2>5 DEF BeginRefresh, BeginReuse, Visit
  <2>6. ASSUME NEW w \in Workers, NEW op \in {"logout_all", "change_password"},
               Authenticate(w, op)
        PROVE  Linked(t)
    BY <1>3, <2>6 DEF Authenticate
  <2>. HIDE DEF Linked
  <2>. QED
    BY <1>2, <2>1, <2>2, <2>3, <2>4, <2>5, <2>6 DEF Next
<1>. DEFINE N == {}
<1>5. N \in SUBSET Sids
  OBVIOUS
<1>6. \A s \in Sids \ N :
        /\ sess'[s].family = sess[s].family /\ sess'[s].heir = sess[s].heir
        /\ sess'[s].state = "none" <=> sess[s].state = "none"
        /\ sess[s].state = "revoked" => sess'[s].state = "revoked"
  BY <1>4
<1>7. \A n \in N : /\ sess[n].state = "none"
                   /\ sess'[n].state = "live" /\ sess'[n].heir = NoSession
                   /\ \A s \in Sids \ {n} : sess'[s].state # "none" =>
                        sess'[s].family # sess'[n].family
  OBVIOUS
<1>. HIDE DEF N
<1>. QED
  BY <1>5, <1>6, <1>7, LinksKept DEF IInv

LEMMA NextChained == IInv /\ Chained /\ [Next]_vars => Chained'
<1>. SUFFICES ASSUME IInv, Chained, [Next]_vars PROVE Chained'
  OBVIOUS
<1>1. CASE Login
  <2>1. created < MaxSessions
    BY <1>1, RoomForOne DEF Login, IInv
  <2>2. sess \in [Sids -> Session] /\ Revoked({}) = sess
    BY DEF IInv, TypeOK, Revoked
  <2>. QED
    BY <1>1, <2>1, <2>2, FamilyAdded DEF Login
<1>2. ASSUME NEW w \in Workers, CommitChangePassword(w) PROVE Chained'
  BY <1>2, FamilyAdded DEF CommitChangePassword
<1>3. ASSUME NEW w \in Workers, Rotate(w) PROVE Chained'
  BY <1>3, RotateChained
<1>. QED
  BY <1>1, <1>2, <1>3, OtherStepsChained

LEMMA InitChained == Init => Chained
BY DEF Init, Chained, HeirsExist, FamiliesAreChains, Absent

(* A family of sessions is a chain by replaced_by_session_id: refresh locks  *)
(* the session it finds live until its one heir is committed.                *)
THEOREM ChainsKept == Spec => []FamiliesAreChains
<1>1. Chained => FamiliesAreChains
  BY DEF Chained
<1>. QED
  BY <1>1, InitChained, NextChained, Inductive, PTL DEF Spec

-----------------------------------------------------------------------------
(* What the UPDATE of a reuse has still to visit or has matched: every live  *)
(* session of the family that there was when it took its snapshot.           *)
Seen ==
  \A w \in Workers : req[w].op = "reuse" =>
    /\ req[w].sid \in Sids /\ sess[req[w].sid].state # "none"
    /\ req[w].before <= created
    /\ \A s \in Sids :
         Live(s) /\ sess[s].family = sess[req[w].sid].family /\ s <= req[w].before =>
           s \in req[w].todo \union req[w].hit

(* No step changes the family of a session or brings one back to life; the   *)
(* sessions added are younger than every other.                              *)
Aged(s) ==
  /\ sess[s].state # "none" =>
       /\ sess'[s].state # "none" /\ sess'[s].family = sess[s].family
       /\ sess'[s].state = "live" => sess[s].state = "live"
  /\ sess[s].state = "none" /\ sess'[s].state # "none" => s > created

LEMMA SessionsAge ==
  ASSUME IInv, [Next]_vars, NEW t \in Sids
  PROVE  Aged(t) /\ created' >= created
<1>. USE DEF IInv
<1>0. /\ created \in Nat /\ sess \in [Sids -> Session] /\ sess[t] \in Session
      /\ sess[t].state = "none" <=> ~(t <= created)
  BY BoundsAssumption DEF TypeOK, Numbered
<1>1. ASSUME NEW S, sess' = Revoked(S), created' = created
      PROVE  Aged(t) /\ created' >= created
  BY <1>0, <1>1, RevokedStates DEF Aged
<1>2. ASSUME sess' = sess, created' = created
      PROVE  Aged(t) /\ created' >= created
  BY <1>0, <1>2 DEF Aged
<1>3. ASSUME NEW s \in Sids, Expire(s)
      PROVE  Aged(t) /\ created' >= created
  BY <1>0, <1>3 DEF Expire, Aged, Session
<1>4. ASSUME NEW S, sess' = [Revoked(S) EXCEPT ![created + 1] = NewSession(created + 1)],
             created' = created + 1
      PROVE  Aged(t) /\ created' >= created
  <2>1. CASE t = created + 1
    BY <1>0, <1>4, <2>1 DEF Aged, Sids
  <2>2. CASE t # created + 1
    <3>1. sess'[t] = Revoked(S)[t]
      BY <1>4, <2>2, RevokedType
    <3>2. Revoked(S)[t].state \in {sess[t].state, "revoked"}
      BY <1>0 DEF Revoked, Session
    <3>. QED
      BY <1>0, <1>4, <3>1, <3>2, RevokedLinks DEF Aged
  <2>. QED
    BY <2>1, <2>2
<1>5. CASE Login
  <2>1. Revoked({}) = sess
    BY <1>0 DEF Revoked
  <2>. QED
    BY <1>4, <1>5, <2>1 DEF Login
<1>6. ASSUME NEW w \in Workers, CommitChangePassword(w)
      PROVE  Aged(t) /\ created' >= created
  BY <1>4, <1>6 DEF CommitChangePassword
<1>7. ASSUME NEW w \in Workers, Rotate(w)
      PROVE  Aged(t) /\ created' >= created
  <2>1. /\ sess' = Rewritten(req[w].sid, created + 1) /\ created' = created + 1
        /\ req[w].sid \in Sids /\ sess[req[w].sid] \in Session
    BY <1>0, <1>7 DEF Rotate, Holding
  <2>2. CASE t = created + 1
    BY <1>0, <2>1, <2>2 DEF Aged, Sids
  <2>3. CASE t # created + 1 /\ t = req[w].sid
    <3>1. sess'[t].state = "revoked" /\ sess'[t].family = sess[t].family
      BY <1>0, <2>1, <2>3 DEF Rewritten, Session
    <3>2. sess[t].state # "none"
      BY <1>7, <2>3 DEF Rotate, Holding, Live
    <3>. QED
      BY <1>0, <2>1, <3>1, <3>2 DEF Aged
  <2>4. CASE t # created + 1 /\ t # req[w].sid
    BY <1>0, <2>1, <2>4 DEF Aged, Rewritten
  <2>. QED
    BY <2>2, <2>3, <2>4
<1>8. CASE UNCHANGED vars
  BY <1>2, <1>8 DEF vars
<1>9. ASSUME NEW s \in Sids, Logout(s) \/ RefreshExpired(s)
      PROVE  Aged(t) /\ created' >= created
  BY <1>1, <1>9 DEF Logout, RefreshExpired
<1>10. ASSUME NEW w \in Workers, CommitReuse(w) \/ CommitLogoutAll(w)
       PROVE  Aged(t) /\ created' >= created
  BY <1>1, <1>10 DEF CommitReuse, CommitLogoutAll
<1>11. ASSUME NEW w \in Workers, Victim(w) \/ Abort(w) \/ LockUser(w)
       PROVE  Aged(t) /\ created' >= created
  BY <1>2, <1>11 DEF Victim, Abort, RollBack, LockUser
<1>12. ASSUME NEW w \in Workers, NEW s \in Sids,
              BeginRefresh(w, s) \/ BeginReuse(w, s) \/ Visit(w, s)
       PROVE  Aged(t) /\ created' >= created
  BY <1>2, <1>12 DEF BeginRefresh, BeginReuse, Visit
<1>13. ASSUME NEW w \in Workers, NEW op \in {"logout_all", "change_password"},
              Authenticate(w, op)
       PROVE  Aged(t) /\ created' >= created
  BY <1>2, <1>13 DEF Authenticate
<1>. HIDE DEF IInv
<1>. QED
  BY <1>3, <1>5, <1>6, <1>7, <1>8, <1>9, <1>10, <1>11, <1>12, <1>13 DEF Next

(* What a step does to a request that is in the middle of a reuse: it began  *)
(* in this step, visited a row, or is as it was.                             *)
LEMMA ReuseMoves ==
  ASSUME IInv, [Next]_vars, NEW v \in Workers, req'[v].op = "reuse"
  PROVE  \/ req'[v] = req[v]
         \/ \E s \in Sids : BeginReuse(v, s)
         \/ \E s \in Sids : Visit(v, s)
<1>. USE DEF IInv
<1>0. req \in [Workers -> Request]
  BY DEF TypeOK
<1>1. ASSUME NEW w \in Workers, Done(w)
      PROVE  req'[v] = req[v]
  BY <1>0, <1>1 DEF Done, Idle
<1>2. ASSUME NEW w \in Workers, NEW s \in Sids, BeginRefresh(w, s)
      PROVE  req'[v] = req[v]
  BY <1>0, <1>2 DEF BeginRefresh, Idle
<1>3. ASSUME NEW w \in Workers, NEW op \in {"logout_all", "change_password"},
             Authenticate(w, op)
      PROVE  req'[v] = req[v]
  BY <1>0, <1>3 DEF Authenticate, Idle
<1>4. ASSUME NEW w \in Workers, LockUser(w)
      PROVE  req'[v] = req[v]
  <2>1. req[w] \in Request
    BY <1>0
  <2>. QED
    BY <1>0, <1>4, <2>1 DEF LockUser, Request
<1>5. ASSUME NEW w \in Workers, NEW s \in Sids, BeginReuse(w, s) \/ Visit(w, s), w # v
      PROVE  req'[v] = req[v]
  BY <1>0, <1>5 DEF BeginReuse, Visit
<1>6. ASSUME NEW w \in Workers,
             Rotate(w) \/ CommitReuse(w) \/ CommitLogoutAll(w) \/ CommitChangePassword(w)
             \/ Victim(w) \/ Abort(w)
      PROVE  req'[v] = req[v]
  <2>1. Done(w)
    BY <1>6 DEF Rotate, CommitReuse, CommitLogoutAll, CommitChangePassword, Victim,
                Abort, RollBack
  <2>. QED
    BY <1>1, <2>1
<1>7. ASSUME NEW s \in Sids, Logout(s) \/ Expire(s) \/ RefreshExpired(s)
      PROVE  req'[v] = req[v]
  BY <1>7 DEF Logout, Expire, RefreshExpired
<1>. QED
  BY <1>2, <1>3, <1>4, <1>5, <1>6, <1>7 DEF Next, vars, Login

LEMMA NextSeen == IInv /\ Seen /\ [Next]_vars => Seen'
<1>. SUFFICES ASSUME IInv, Seen, [Next]_vars PROVE Seen'
  OBVIOUS
<1>1. /\ created \in Nat /\ created' >= created /\ created' \in Int
      /\ \A s \in Sids : Aged(s)
  <2>1. created' \in Nat
    BY NextIInv, BoundsAssumption DEF IInv, TypeOK
  <2>2. created \in Nat
    BY BoundsAssumption DEF IInv, TypeOK
  <2>3. ASSUME NEW s \in Sids PROVE Aged(s) /\ created' >= created
    BY SessionsAge
  <2>4. CASE Sids = {}
    <3>1. created = 0
      BY BoundsAssumption, <2>4 DEF Sids, IInv, TypeOK
    <3>. QED
      BY <2>1, <2>3, <3>1
  <2>. QED
    BY <2>1, <2>2, <2>3, <2>4
<1>2. ASSUME NEW v \in Workers, req'[v].op = "reuse"
      PROVE  /\ req'[v].sid \in Sids /\ sess'[req'[v].sid].state # "none"
             /\ req'[v].before <= created'
             /\ \A s \in Sids :
                  /\ sess'[s].state = "live" /\ s <= req'[v].before
                  /\ sess'[s].family = sess'[req'[v].sid].family
                  => s \in req'[v].todo \union req'[v].hit
  <2>0. req[v] \in Request /\ req \in [Workers -> Request]
    BY DEF IInv, TypeOK
  <2>. DEFINE Sees(r) ==
         /\ r.sid \in Sids /\ sess[r.sid].state # "none"
         /\ r.before \in Nat /\ r.before <= created
         /\ \A s \in Sids :
              Live(s) /\ sess[s].family = sess[r.sid].family /\ s <= r.before =>
                s \in r.todo \union r.hit
  <2>1. Sees(req'[v])
    <3>1. CASE req'[v] = req[v]
      BY <1>2, <2>0, <3>1 DEF Seen, Request
    <3>2. ASSUME NEW s \in Sids, BeginReuse(v, s) PROVE Sees(req'[v])
      BY <1>1, <2>0, <3>2 DEF BeginReuse, Idle, FamilyOf, LiveSessions, Live
    <3>3. ASSUME NEW s \in Sids, Visit(v, s) PROVE Sees(req'[v])
      <4>1. /\ req'[v].op = req[v].op /\ req'[v].sid = req[v].sid
            /\ req'[v].before = req[v].before
            /\ req'[v].todo = req[v].todo \ {s}
            /\ req'[v].hit = IF Live(s) THEN req[v].hit \union {s} ELSE req[v].hit
        BY <2>0, <3>3 DEF Visit, Request
      <4>. QED
        BY <1>2, <2>0, <4>1 DEF Seen, Request
    <3>. HIDE DEF Sees
    <3>. QED
      BY <1>2, <3>1, <3>2, <3>3, ReuseMoves
  <2>2. ASSUME NEW s \in Sids, sess'[s].state = "live", s <= req'[v].before,
               sess'[s].family = sess'[req'[v].sid].family
        PROVE  s \in req'[v].todo \union req'[v].hit
    <3>1. sess[s].state # "none"
      BY <1>1, <2>1, <2>2 DEF Aged, Sids
    <3>. QED
      BY <1>1, <2>1, <2>2, <3>1 DEF Aged, Live
  <2>. QED
    BY <1>1, <2>1, <2>2 DEF Aged
<1>. QED
  BY <1>2 DEF Seen, Live

(* The reuse of a rotated token ends with nothing live of what its family    *)
(* was when it was noticed: a rotation that was under way is waited for.     *)
THEOREM FamilyRevoked == Spec => ReuseRevokesWhatItSaw
<1>1. Init => Seen
  BY DEF Init, Seen, Idle
<1>2. ASSUME IInv, Seen, NEW w \in Workers, CommitReuse(w),
             NEW s \in FamilyOf(req[w].sid), s <= req[w].before
      PROVE  sess'[s].state = "revoked"
  <2>1. s \in Sids /\ sess[s].state # "none" /\ sess[s].family = sess[req[w].sid].family
    BY <1>2 DEF FamilyOf
  <2>2. sess[s].state = "live" => s \in req[w].hit
    BY <1>2, <2>1 DEF Seen, CommitReuse, Live
  <2>3. sess[s] \in Session /\ sess' = Revoked(req[w].hit)
    BY <1>2, <2>1 DEF CommitReuse, IInv, TypeOK
  <2>. QED
    BY <1>2, <2>1, <2>2, <2>3, RevokedStates DEF IInv, Session
<1>3. IInv /\ Seen /\ [Next]_vars =>
        [\A w \in Workers : CommitReuse(w) =>
           \A s \in FamilyOf(req[w].sid) :
             s <= req[w].before => sess'[s].state = "revoked"]_vars
  BY <1>2
<1>. QED
  BY <1>1, <1>3, NextSeen, Inductive, PTL DEF Spec, ReuseRevokesWhatItSaw

-----------------------------------------------------------------------------
(* As long as no request computed auth_version from an outdated row, no      *)
(* access token carries a version that is still to come.                     *)
VersionsReached == ~stale => \A i \in issued : i <= version

LEMMA NextVersionsReached == IInv /\ VersionsReached /\ [Next]_vars => VersionsReached'
<1>. SUFFICES ASSUME IInv, VersionsReached, [Next]_vars PROVE VersionsReached'
  OBVIOUS
<1>0. version \in Nat /\ issued \subseteq Nat
  BY BoundsAssumption DEF IInv, TypeOK
<1>1. CASE Login
  BY <1>0, <1>1 DEF Login, VersionsReached
<1>2. ASSUME NEW w \in Workers, Rotate(w) PROVE VersionsReached'
  BY <1>0, <1>2 DEF Rotate, VersionsReached
<1>3. ASSUME NEW w \in Workers, CommitLogoutAll(w) PROVE VersionsReached'
  <2>1. SUFFICES ASSUME ~stale' PROVE \A i \in issued' : i <= version'
    BY DEF VersionsReached
  <2>2. ~stale /\ version = req[w].version
    BY <1>3, <2>1, Zenon DEF CommitLogoutAll
  <2>3. version' = version + 1 /\ issued' = issued
    BY <1>3, <2>2 DEF CommitLogoutAll
  <2>. QED
    BY <1>0, <2>2, <2>3 DEF VersionsReached
<1>4. ASSUME NEW w \in Workers, CommitChangePassword(w) PROVE VersionsReached'
  <2>1. SUFFICES ASSUME ~stale' PROVE \A i \in issued' : i <= version'
    BY DEF VersionsReached
  <2>2. ~stale /\ version = req[w].version
    BY <1>4, <2>1, Zenon DEF CommitChangePassword
  <2>3. version' = version + 1 /\ issued' = issued \union {version'}
    BY <1>4, <2>2 DEF CommitChangePassword
  <2>. QED
    BY <1>0, <2>2, <2>3 DEF VersionsReached
<1>5. CASE UNCHANGED <<version, issued, stale>>
  BY <1>5 DEF VersionsReached
<1>6. ASSUME NEW w \in Workers,
             CommitReuse(w) \/ LockUser(w) \/ Victim(w) \/ Abort(w)
      PROVE  UNCHANGED <<version, issued, stale>>
  BY <1>6 DEF CommitReuse, LockUser, Victim, Abort, RollBack
<1>7. ASSUME NEW s \in Sids, Logout(s) \/ Expire(s) \/ RefreshExpired(s)
      PROVE  UNCHANGED <<version, issued, stale>>
  BY <1>7 DEF Logout, Expire, RefreshExpired
<1>8. ASSUME NEW w \in Workers, NEW s \in Sids,
             BeginRefresh(w, s) \/ BeginReuse(w, s) \/ Visit(w, s)
      PROVE  UNCHANGED <<version, issued, stale>>
  BY <1>8 DEF BeginRefresh, BeginReuse, Visit
<1>9. ASSUME NEW w \in Workers, NEW op \in {"logout_all", "change_password"},
             Authenticate(w, op)
      PROVE  UNCHANGED <<version, issued, stale>>
  BY <1>9 DEF Authenticate
<1>. QED
  BY <1>1, <1>2, <1>3, <1>4, <1>5, <1>6, <1>7, <1>8, <1>9 DEF Next, vars

(* logout_all ends every access token handed out before, unless a request    *)
(* wrote an auth_version computed from the row it had loaded before the lock. *)
THEOREM AccessEnds == Spec => AccessEndsWithLogoutAll
<1>1. Init => VersionsReached
  BY DEF Init, VersionsReached
<1>2. ASSUME IInv, VersionsReached, NEW w \in Workers, CommitLogoutAll(w), ~stale'
      PROVE  version' \notin issued
  <2>1. version \in Nat /\ issued \subseteq Nat
    BY <1>2, BoundsAssumption DEF IInv, TypeOK
  <2>2. version' = version + 1 /\ \A i \in issued : i <= version
    BY <1>2 DEF CommitLogoutAll, VersionsReached
  <2>. QED
    BY <2>1, <2>2
<1>3. IInv /\ VersionsReached /\ [Next]_vars =>
        [\A w \in Workers : CommitLogoutAll(w) /\ ~stale' => version' \notin issued]_vars
  BY <1>2
<1>. QED
  BY <1>1, <1>3, NextVersionsReached, Inductive, PTL DEF Spec, AccessEndsWithLogoutAll
=============================================================================
