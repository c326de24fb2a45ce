---------------------------- MODULE AuthSessions ----------------------------
(***************************************************************************)
(* The refresh sessions of one user: login, rotation, reuse detection,     *)
(* logout, logout from everywhere and change of password, as               *)
(* app/services/auth.py runs them over the tables users and auth_sessions. *)
(* Rows of different users are never locked or written together.           *)
(*                                                                         *)
(* The handlers lock rows with SELECT ... FOR UPDATE until they commit.    *)
(* Under READ COMMITTED, an UPDATE ... WHERE revoked_at IS NULL takes a    *)
(* snapshot when it starts, waits for each row of it that another request  *)
(* has locked, and checks that row again once it has the lock; it never    *)
(* sees rows committed after it started.  What a request writes becomes    *)
(* visible at its commit; only what is done between two waits is one step. *)
(*                                                                         *)
(* The password and the lock-out after failed logins are left out: no      *)
(* property here depends on them.                                          *)
(***************************************************************************)
EXTENDS Integers, FiniteSets

CONSTANTS
  Workers,      \* requests that may run at the same time
  NoWorker,     \* nobody: the owner of a row that is not locked
  MaxSessions,  \* bound: sessions ever created
  MaxVersion    \* bound: values of auth_version

ASSUME BoundsAssumption ==
  /\ MaxSessions \in Nat /\ MaxVersion \in Nat \ {0}
  /\ IsFiniteSet(Workers) /\ NoWorker \notin Workers

VARIABLES
  version,   \* users.auth_version
  userLock,  \* who holds the row of the user
  created,   \* how many sessions there are: they are numbered as created
  sess,      \* auth_sessions: the row of each session
  rowLock,   \* who holds the row of each session
  issued,    \* the auth_version claims of the access tokens handed out
  req,       \* what each request in progress has read and has left to do
  stale      \* history: some auth_version was computed from an outdated row

vars == <<version, userLock, created, sess, rowLock, issued, req, stale>>

Sids == 1..MaxSessions
NoSession == 0

\* state: live is revoked_at IS NULL; heir: replaced_by_session_id
Session == [state: {"none", "live", "revoked"}, family: Sids \union {NoSession},
            heir: Sids \union {NoSession}, expired: BOOLEAN]

\* version is the auth_version of the row authenticate_access_token loaded;
\* todo and hit are the rows the UPDATE has still to visit and has matched;
\* before is, for the properties, how many sessions there were when it began.
Request == [op: {"idle", "refresh", "reuse", "logout_all", "change_password"},
            updating: BOOLEAN, sid: Sids \union {NoSession}, version: Nat,
            todo: SUBSET Sids, hit: SUBSET Sids, before: Nat]

Absent == [state |-> "none", family |-> NoSession, heir |-> NoSession, expired |-> FALSE]

Idle == [op |-> "idle", updating |-> FALSE, sid |-> NoSession, version |-> 0,
         todo |-> {}, hit |-> {}, before |-> 0]

TypeOK ==
  /\ version \in 1..MaxVersion
  /\ userLock \in Workers \union {NoWorker}
  /\ created \in 0..MaxSessions
  /\ sess \in [Sids -> Session]
  /\ rowLock \in [Sids -> Workers \union {NoWorker}]
  /\ issued \subseteq 1..MaxVersion
  /\ req \in [Workers -> Request]
  /\ stale \in BOOLEAN

Init ==
  /\ version = 1
  /\ userLock = NoWorker
  /\ created = 0
  /\ sess = [s \in Sids |-> Absent]
  /\ rowLock = [s \in Sids |-> NoWorker]
  /\ issued = {}
  /\ req = [w \in Workers |-> Idle]
  /\ stale = FALSE

Live(s) == sess[s].state = "live"
LiveSessions == {s \in Sids : Live(s)}
FamilyOf(s) == {t \in Sids : sess[t].state # "none" /\ sess[t].family = sess[s].family}
IsIdle(w) == req[w] = Idle

-----------------------------------------------------------------------------
\* _new_auth_session, of a new family or of the one it continues
NewSession(f) == [state |-> "live", family |-> f, heir |-> NoSession, expired |-> FALSE]

\* The end of a transaction: its locks are released.
Unlocked(w) == [s \in Sids |-> IF rowLock[s] = w THEN NoWorker ELSE rowLock[s]]

Done(w) ==
  /\ req' = [req EXCEPT ![w] = Idle]
  /\ rowLock' = Unlocked(w)
  /\ userLock' = IF userLock = w THEN NoWorker ELSE userLock

Rewritten(s, t) == [sess EXCEPT ![s].state = "revoked", ![s].heir = t,
                                ![t] = NewSession(sess[s].family)]

Revoked(S) == [s \in Sids |-> IF s \in S /\ sess[s].state = "live"
                              THEN [sess[s] EXCEPT !.state = "revoked"] ELSE sess[s]]

\* Bound: a request that will insert a session begins only if there is room.
Room == created + Cardinality({w \in Workers :
                    req[w].op \in {"refresh", "change_password"}}) < MaxSessions

-----------------------------------------------------------------------------
(* Handlers that wait for one lock only.                                    *)

\* login: the row of the user is locked, checked and committed with the session.
Login ==
  /\ userLock = NoWorker
  /\ Room
  /\ created' = created + 1
  /\ sess' = [sess EXCEPT ![created + 1] = NewSession(created + 1)]
  /\ issued' = issued \union {version}
  /\ UNCHANGED <<version, userLock, rowLock, req, stale>>

\* logout: nothing happens to a session that is revoked already.
Logout(s) ==
  /\ Live(s) /\ rowLock[s] = NoWorker
  /\ sess' = Revoked({s})
  /\ UNCHANGED <<version, userLock, created, rowLock, issued, req, stale>>

\* Thirty days pass: expires_at of a session nobody rotated is reached.
Expire(s) ==
  /\ Live(s) /\ ~sess[s].expired
  /\ sess' = [sess EXCEPT ![s].expired = TRUE]
  /\ UNCHANGED <<version, userLock, created, rowLock, issued, req, stale>>

-----------------------------------------------------------------------------
(* refresh.                                                                 *)

BeginRefreshUnlocked(w, s) ==
  /\ IsIdle(w) /\ Room /\ Live(s) /\ ~sess[s].expired
  /\ req' = [req EXCEPT ![w] = [Idle EXCEPT !.op = "refresh", !.sid = s]]
  /\ UNCHANGED <<version, userLock, created, sess, rowLock, issued, stale>>

\* The session is locked and live: now for the lock on its user.
BeginRefresh(w, s) ==
  /\ IsIdle(w) /\ Room /\ Live(s) /\ ~sess[s].expired /\ rowLock[s] = NoWorker
  /\ req' = [req EXCEPT ![w] = [Idle EXCEPT !.op = "refresh", !.sid = s]]
  /\ rowLock' = [rowLock EXCEPT ![s] = w]
  /\ UNCHANGED <<version, userLock, created, sess, issued, stale>>

\* An expired session is revoked, and only that one.
RefreshExpired(s) ==
  /\ Live(s) /\ sess[s].expired /\ rowLock[s] = NoWorker
  /\ sess' = Revoked({s})
  /\ UNCHANGED <<version, userLock, created, rowLock, issued, req, stale>>

RotateWithoutUserLock(w) ==
  /\ req[w].op = "refresh"
  /\ created < MaxSessions
  /\ created' = created + 1
  /\ sess' = Rewritten(req[w].sid, created + 1)
  /\ issued' = issued \union {version}
  /\ Done(w)
  /\ UNCHANGED <<version, stale>>

RotateWithoutRevoking(w) ==
  /\ req[w].op = "refresh" /\ userLock = NoWorker
  /\ created < MaxSessions
  /\ created' = created + 1
  /\ sess' = [sess EXCEPT ![created + 1] = NewSession(sess[req[w].sid].family)]
  /\ issued' = issued \union {version}
  /\ Done(w)
  /\ UNCHANGED <<version, stale>>

\* The user is locked; the replacement is inserted, the old session revoked
\* and linked to it, and all of it committed.
Rotate(w) ==
  /\ req[w].op = "refresh" /\ userLock = NoWorker
  /\ created < MaxSessions
  /\ created' = created + 1
  /\ sess' = Rewritten(req[w].sid, created + 1)
  /\ issued' = issued \union {version}
  /\ Done(w)
  /\ UNCHANGED <<version, stale>>

\* A token that was rotated before: revoke_family starts its UPDATE.  The
\* session itself is revoked, so the UPDATE does not touch it.
BeginReuse(w, s) ==
  /\ IsIdle(w)
  /\ sess[s].state = "revoked" /\ sess[s].heir # NoSession
  /\ rowLock[s] = NoWorker
  /\ rowLock' = [rowLock EXCEPT ![s] = w]
  /\ req' = [req EXCEPT ![w] =
               [Idle EXCEPT !.op = "reuse", !.updating = TRUE, !.sid = s,
                            !.todo = FamilyOf(s) \intersect LiveSessions,
                            !.before = created]]
  /\ UNCHANGED <<version, userLock, created, sess, issued, stale>>

CommitReuse(w) ==
  /\ req[w].op = "reuse" /\ req[w].todo = {}
  /\ sess' = Revoked(req[w].hit)
  /\ Done(w)
  /\ UNCHANGED <<version, created, issued, stale>>

-----------------------------------------------------------------------------
(* logout_all and change_password.                                          *)

\* get_current_user: the access token is checked against the user's row,
\* which stays in the identity map of the request's session.
Authenticate(w, op) ==
  /\ IsIdle(w) /\ version \in issued
  /\ version < MaxVersion /\ (op = "change_password" => Room)
  /\ req' = [req EXCEPT ![w] = [Idle EXCEPT !.op = op, !.version = version]]
  /\ UNCHANGED <<version, userLock, created, sess, rowLock, issued, stale>>

\* get_by_id(for_update=True) locks the row, but a row the session has loaded
\* before keeps the attributes it was loaded with.  revoke_all_for_user starts.
LockUser(w) ==
  /\ req[w].op \in {"logout_all", "change_password"} /\ ~req[w].updating
  /\ userLock = NoWorker
  /\ userLock' = w
  /\ req' = [req EXCEPT ![w].updating = TRUE, ![w].todo = LiveSessions,
                        ![w].before = created]
  /\ UNCHANGED <<version, created, sess, rowLock, issued, stale>>

LogoutAllKeepsVersion(w) ==
  /\ req[w].op = "logout_all" /\ req[w].updating /\ req[w].todo = {}
  /\ sess' = Revoked(req[w].hit)
  /\ Done(w)
  /\ UNCHANGED <<version, created, issued, stale>>

LogoutAllCountsTwice(w) ==
  /\ req[w].op = "logout_all" /\ req[w].updating /\ req[w].todo = {}
  /\ version' = req[w].version + 2
  /\ stale' = (stale \/ version # req[w].version)
  /\ sess' = Revoked(req[w].hit)
  /\ Done(w)
  /\ UNCHANGED <<created, issued>>

CommitLogoutAll(w) ==
  /\ req[w].op = "logout_all" /\ req[w].updating /\ req[w].todo = {}
  /\ version' = req[w].version + 1
  /\ stale' = (stale \/ version # req[w].version)
  /\ sess' = Revoked(req[w].hit)
  /\ Done(w)
  /\ UNCHANGED <<created, issued>>

CommitChangePassword(w) ==
  /\ req[w].op = "change_password" /\ req[w].updating /\ req[w].todo = {}
  /\ created < MaxSessions
  /\ created' = created + 1
  /\ version' = req[w].version + 1
  /\ stale' = (stale \/ version # req[w].version)
  /\ sess' = [Revoked(req[w].hit) EXCEPT ![created + 1] = NewSession(created + 1)]
  /\ issued' = issued \union {req[w].version + 1}
  /\ Done(w)

-----------------------------------------------------------------------------
\* The UPDATE of a revocation gets the lock on a row of its snapshot and
\* looks again: it is revoked with the rest, or was revoked meanwhile.
VisitSkippingLocked(w, s) ==
  /\ s \in req[w].todo
  /\ LET hits == Live(s) /\ rowLock[s] = NoWorker IN
       /\ req' = [req EXCEPT ![w].todo = @ \ {s},
                             ![w].hit = IF hits THEN @ \union {s} ELSE @]
       /\ rowLock' = IF hits THEN [rowLock EXCEPT ![s] = w] ELSE rowLock
  /\ UNCHANGED <<version, userLock, created, sess, issued, stale>>

Visit(w, s) ==
  /\ s \in req[w].todo /\ rowLock[s] = NoWorker
  /\ req' = [req EXCEPT ![w].todo = @ \ {s},
                        ![w].hit = IF Live(s) THEN @ \union {s} ELSE @]
  /\ rowLock' = IF Live(s) THEN [rowLock EXCEPT ![s] = w] ELSE rowLock
  /\ UNCHANGED <<version, userLock, created, sess, issued, stale>>

\* Whom a request is waiting for.
WaitsFor(w) ==
  IF req[w].op = "refresh" \/ (req[w].op # "idle" /\ ~req[w].updating)
  THEN {userLock} \ {NoWorker}
  ELSE {rowLock[s] : s \in req[w].todo} \ {NoWorker}

\* In a cycle of waits: V waits for itself and no part of it does.
WaitsForItself(V) == V # {} /\ \A w \in V : WaitsFor(w) \intersect V # {}
Deadlocked(w) ==
  \E V \in SUBSET Workers :
    /\ w \in V /\ WaitsForItself(V)
    /\ \A U \in SUBSET V : WaitsForItself(U) => U = V

\* The transaction is rolled back.
RollBack(w) ==
  /\ Done(w)
  /\ UNCHANGED <<version, created, sess, issued, stale>>

NoVictim(w) == FALSE

\* PostgreSQL ends a request that waits in a cycle.  The row an UPDATE visits
\* next is not modelled, so that a cycle over any of them counts.
Victim(w) == Deadlocked(w) /\ RollBack(w)

\* The process or its connection dies.
Abort(w) == ~IsIdle(w) /\ RollBack(w)

Next ==
  \/ Login
  \/ \E s \in Sids : Logout(s) \/ Expire(s) \/ RefreshExpired(s)
  \/ \E w \in Workers :
       \/ \E s \in Sids : BeginRefresh(w, s) \/ BeginReuse(w, s) \/ Visit(w, s)
       \/ \E op \in {"logout_all", "change_password"} : Authenticate(w, op)
       \/ Rotate(w)
       \/ CommitReuse(w)
       \/ LockUser(w)
       \/ CommitLogoutAll(w)
       \/ CommitChangePassword(w)
       \/ Victim(w)
       \/ Abort(w)

\* A request that has begun is run to its end.  Row locks are granted in the
\* order they were asked for, so who waits for one gets it (strong fairness);
\* a cycle of waits is found after deadlock_timeout.
Fairness ==
  \A w \in Workers :
    /\ SF_vars(Rotate(w)) /\ SF_vars(LockUser(w))
    /\ \A s \in Sids : SF_vars(Visit(w, s))
    /\ WF_vars(CommitReuse(w)) /\ WF_vars(CommitLogoutAll(w))
    /\ WF_vars(CommitChangePassword(w))
    /\ WF_vars(Victim(w))

Spec == Init /\ [][Next]_vars
FairSpec == Spec /\ Fairness

-----------------------------------------------------------------------------
(* Properties.                                                              *)

\* A session is rotated once: a family never has two live sessions, however
\* many requests present its tokens at the same time.
OneLivePerFamily ==
  \A s, t \in LiveSessions : sess[s].family = sess[t].family => s = t

\* A family is a chain: what was replaced is revoked, its heir is younger, of
\* the same family and the heir of nothing else; every other session of the
\* family but the newest has an heir.
FamiliesAreChains ==
  \A s \in Sids : sess[s].state # "none" =>
    /\ sess[s].heir # NoSession =>
         /\ sess[s].state = "revoked"
         /\ sess[s].heir > s
         /\ sess[sess[s].heir].family = sess[s].family
         /\ \A t \in Sids \ {s} : sess[t].heir # sess[s].heir
    /\ sess[s].heir = NoSession => \A t \in FamilyOf(s) : t <= s

\* When logout_all or change_password commits, every session there was is
\* revoked, the ones that were being rotated meanwhile included.
NoSessionSurvives ==
  [][\A w \in Workers : CommitLogoutAll(w) \/ CommitChangePassword(w) =>
       \A s \in 1..created : sess'[s].state = "revoked"]_vars

\* When the reuse of a rotated token has been dealt with, no session of the
\* family that there was when it was noticed is live.
ReuseRevokesWhatItSaw ==
  [][\A w \in Workers : CommitReuse(w) =>
       \A s \in FamilyOf(req[w].sid) :
         s <= req[w].before => sess'[s].state = "revoked"]_vars

\* After logout_all no access token handed out before is accepted, as long as
\* no request computed auth_version from an outdated row.
AccessEndsWithLogoutAll ==
  [][\A w \in Workers : CommitLogoutAll(w) /\ ~stale' => version' \notin issued]_vars

\* Every request ends: a cycle of waits for rows is broken, and who waits for
\* a row gets it.
RequestsEnd == \A w \in Workers : req[w].op # "idle" ~> IsIdle(w)
=============================================================================
