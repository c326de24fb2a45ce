------------------------------- MODULE Accounts -------------------------------
(***************************************************************************)
(* Accounts and their passwords: how an account comes to be, login with    *)
(* the lock-out after failed attempts, change of password, logout from     *)
(* everywhere, and the administrator's reset (app/services/auth.py,        *)
(* app/services/subscriptions.py register_subscriber, and                  *)
(* app/commands/create_admin.py).  What becomes of the refresh sessions is *)
(* in AuthSessions.                                                        *)
(*                                                                         *)
(* SELECT ... FOR UPDATE locks the row of the account until the request    *)
(* commits, but does not refresh a row the request had loaded before: a    *)
(* request whose access token was checked goes on with the row of that     *)
(* check.  The reset never locks.  Only the columns whose value differs    *)
(* from the loaded one are written.                                        *)
(***************************************************************************)
EXTENDS Integers, FiniteSets

CONSTANTS
  Emails,
  Workers,      \* requests that may run at the same time
  NoWorker,     \* nobody holds the row
  NoAccount,
  Passwords,
  Placeholder,  \* the password an invited account has until it is accepted
  MaxFailed,    \* max_failed_login_attempts
  MaxVersion,   \* bound: values of auth_version
  MaxAttempts   \* bound: values of failed_login_attempts

ASSUME CountsAssumption ==
  /\ MaxFailed \in Nat \ {0} /\ MaxVersion \in Nat \ {0} /\ MaxAttempts \in Nat
  /\ Placeholder \in Passwords /\ NoWorker \notin Workers

VARIABLES
  users,    \* the row of each email
  invites,  \* invite_tokens
  held,     \* who holds the row of each email
  tokens,   \* access tokens handed out
  req,      \* the request of each worker
  refused,  \* history: wrong passwords since the attempts were last set to 0
  lockouts, \* history: how often these locked the account
  outdated  \* history: a version was written that was computed from an older row

vars == <<users, invites, held, tokens, req, refused, lockouts, outdated>>
history == <<refused, lockouts, outdated>>

\* The other roles are here what a subscriber is: not an admin.
Roles == {"admin", "subscriber"}

\* lock: locked_until is NULL, in the future, or past.
Account == [role: Roles, status: {"active", "disabled"}, password: Passwords,
            version: 1..MaxVersion, attempts: 0..MaxAttempts,
            lock: {"never", "on", "over"}, subscribed: BOOLEAN]

ASSUME NoAccountAssumption == NoAccount \notin Account

\* version and email are claims; password and active are history: the password
\* and the status of the account when the token was issued.
Token == [email: Emails, version: 1..MaxVersion, password: Passwords, active: BOOLEAN]

Idle == [op |-> "idle"]

Request == {Idle}
  \union [op: {"initial_admin", "seed", "invite", "subscribe"}, email: Emails]
  \union [op: {"login", "change_password", "logout_all", "reset"}, email: Emails, row: Account]

Known == {e \in Emails : users[e] # NoAccount}

\* A bug: the version is left to a default of zero.
NewAccountAtZero(role, status, password) ==
  [role |-> role, status |-> status, password |-> password, version |-> 0,
   attempts |-> 0, lock |-> "never", subscribed |-> FALSE]

NewAccount(role, status, password) ==
  [role |-> role, status |-> status, password |-> password, version |-> 1,
   attempts |-> 0, lock |-> "never", subscribed |-> FALSE]

\* _issued_tokens, for a row as the request knows it.
Issued(e, row) ==
  [email |-> e, version |-> row.version, password |-> row.password,
   active |-> row.status = "active"]

\* authenticate_access_token: no lock is taken.
Accepted(t) == users[t.email].status = "active" /\ users[t.email].version = t.version

Release(w) == held' = [e \in Emails |-> IF held[e] = w THEN NoWorker ELSE held[e]]

End(w) == req' = [req EXCEPT ![w] = Idle]

-----------------------------------------------------------------------------
(* New accounts: the email is looked up, the password hashed, and the row  *)
(* inserted unless somebody else has inserted it meanwhile.                *)

BeginCreate(w, e, op) ==
  /\ req[w] = Idle /\ e \notin Known
  /\ op = "initial_admin" => \A f \in Known : users[f].role # "admin"
  /\ req' = [req EXCEPT ![w] = [op |-> op, email |-> e]]
  /\ UNCHANGED <<users, invites, held, tokens, history>>

Refused(w) ==
  /\ req[w].op \in {"initial_admin", "seed", "invite", "subscribe"} /\ req[w].email \in Known
  /\ End(w)
  /\ UNCHANGED <<users, invites, held, tokens, history>>

CreateAdmin(w, password) ==
  /\ req[w].op \in {"initial_admin", "seed"} /\ req[w].email \notin Known
  /\ users' = [users EXCEPT ![req[w].email] = NewAccount("admin", "active", password)]
  /\ End(w)
  /\ UNCHANGED <<invites, held, tokens, history>>

CreateInvited(w, role) ==
  /\ req[w].op = "invite" /\ req[w].email \notin Known
  /\ users' = [users EXCEPT ![req[w].email] = NewAccount(role, "disabled", Placeholder)]
  /\ invites' = [invites EXCEPT ![req[w].email] = "open"]
  /\ End(w)
  /\ UNCHANGED <<held, tokens, history>>

CreateSubscriber(w, password) ==
  LET e == req[w].email
      row == [NewAccount("subscriber", "active", password) EXCEPT !.subscribed = TRUE]
  IN /\ req[w].op = "subscribe" /\ e \notin Known
     /\ users' = [users EXCEPT ![e] = row]
     /\ tokens' = tokens \union {Issued(e, row)}
     /\ End(w)
     /\ UNCHANGED <<invites, held, history>>

\* Registration of an account that exists: the password is checked, the lock-out
\* and the status are not.
SubscribeExisting(e, password) ==
  /\ e \in Known /\ held[e] = NoWorker
  /\ users[e].password = password /\ ~users[e].subscribed
  /\ users' = [users EXCEPT ![e].subscribed = TRUE]
  /\ tokens' = tokens \union {Issued(e, users[e])}
  /\ UNCHANGED <<invites, held, req, history>>

\* The version stays what it was.
AcceptInvite(e, password) ==
  /\ invites[e] = "open" /\ held[e] = NoWorker
  /\ e \in Known /\ users[e].status = "disabled"
  /\ users' = [users EXCEPT ![e].password = password, ![e].status = "active"]
  /\ invites' = [invites EXCEPT ![e] = "accepted"]
  /\ tokens' = tokens \union {[email |-> e, version |-> users[e].version,
                               password |-> password, active |-> TRUE]}
  /\ UNCHANGED <<held, req, history>>

\* 24 hours pass: nobody can invite this email again.
InviteExpires(e) ==
  /\ invites[e] = "open"
  /\ invites' = [invites EXCEPT ![e] = "expired"]
  /\ UNCHANGED <<users, held, tokens, req, history>>

-----------------------------------------------------------------------------
(* Login.                                                                  *)

\* A bug: get_by_email without for_update.
BeginLoginUnlocked(w, e) ==
  /\ req[w] = Idle /\ e \in Known
  /\ req' = [req EXCEPT ![w] = [op |-> "login", email |-> e, row |-> users[e]]]
  /\ UNCHANGED <<users, invites, held, tokens, history>>

BeginLogin(w, e) ==
  /\ req[w] = Idle /\ e \in Known /\ held[e] = NoWorker
  /\ held' = [held EXCEPT ![e] = w]
  /\ req' = [req EXCEPT ![w] = [op |-> "login", email |-> e, row |-> users[e]]]
  /\ UNCHANGED <<users, invites, tokens, history>>

\* Whatever the password, a disabled or locked account is refused, uncounted.
LoginClosed(w) ==
  /\ req[w].op = "login"
  /\ req[w].row.status # "active" \/ req[w].row.lock = "on"
  /\ End(w) /\ Release(w)
  /\ UNCHANGED <<users, invites, tokens, history>>

LoginFails(w) ==
  LET e == req[w].email
      attempts == req[w].row.attempts + 1
      locks == attempts >= MaxFailed
  IN /\ req[w].op = "login"
     /\ req[w].row.status = "active" /\ req[w].row.lock # "on"
     /\ attempts <= MaxAttempts
     /\ users' = [users EXCEPT ![e].attempts = attempts,
                               ![e].lock = IF locks THEN "on" ELSE @]
     /\ refused' = [refused EXCEPT ![e] = @ + 1]
     /\ lockouts' = [lockouts EXCEPT ![e] = IF locks THEN @ + 1 ELSE @]
     /\ End(w) /\ Release(w)
     /\ UNCHANGED <<invites, tokens, outdated>>

LoginSucceeds(w) ==
  LET e == req[w].email
  IN /\ req[w].op = "login"
     /\ req[w].row.status = "active" /\ req[w].row.lock # "on"
     /\ users' = [users EXCEPT ![e].attempts = 0, ![e].lock = "never"]
     /\ tokens' = tokens \union {Issued(e, req[w].row)}
     /\ refused' = [refused EXCEPT ![e] = 0]
     /\ lockouts' = [lockouts EXCEPT ![e] = 0]
     /\ End(w) /\ Release(w)
     /\ UNCHANGED <<invites, outdated>>

\* login_lock_minutes pass.  The attempts stay: one more wrong password locks
\* the account again.
LockEnds(e) ==
  /\ e \in Known /\ users[e].lock = "on"
  /\ users' = [users EXCEPT ![e].lock = "over"]
  /\ UNCHANGED <<invites, held, tokens, req, history>>

-----------------------------------------------------------------------------
(* Requests that go on with a row they loaded before.                      *)

\* get_current_user
Authenticate(w, t, op) ==
  /\ req[w] = Idle /\ Accepted(t) /\ users[t.email].version < MaxVersion
  /\ req' = [req EXCEPT ![w] = [op |-> op, email |-> t.email, row |-> users[t.email]]]
  /\ UNCHANGED <<users, invites, held, tokens, history>>

\* The row is written with a version computed from the loaded one.
Bumped(w) ==
  LET e == req[w].email
  IN /\ held[e] = NoWorker
     /\ outdated' = [outdated EXCEPT ![e] = @ \/ users[e].version # req[w].row.version]
     /\ End(w)
     /\ UNCHANGED <<invites, held>>

\* A bug: the version is left alone.
ChangePasswordOnly(w, password) ==
  LET e == req[w].email
  IN /\ req[w].op = "change_password" /\ password # req[w].row.password
     /\ Bumped(w)
     /\ users' = [users EXCEPT ![e].password = password]
     /\ tokens' = tokens \union {Issued(e, [req[w].row EXCEPT !.password = password])}
     /\ UNCHANGED <<refused, lockouts>>

ChangePassword(w, password) ==
  LET e == req[w].email
      row == [req[w].row EXCEPT !.password = password, !.version = @ + 1]
  IN /\ req[w].op = "change_password" /\ password # req[w].row.password
     /\ Bumped(w)
     /\ users' = [users EXCEPT ![e].password = password, ![e].version = row.version]
     /\ tokens' = tokens \union {Issued(e, row)}
     /\ UNCHANGED <<refused, lockouts>>

LogoutAll(w) ==
  /\ req[w].op = "logout_all"
  /\ Bumped(w)
  /\ users' = [users EXCEPT ![req[w].email].version = req[w].row.version + 1]
  /\ UNCHANGED <<tokens, refused, lockouts>>

\* A wrong current password, or a new one that is the same: nothing is written.
ChangeRefused(w) ==
  /\ req[w].op = "change_password"
  /\ End(w)
  /\ UNCHANGED <<users, invites, held, tokens, history>>

BeginReset(w, e) ==
  /\ req[w] = Idle /\ e \in Known /\ users[e].role = "admin" /\ users[e].version < MaxVersion
  /\ req' = [req EXCEPT ![w] = [op |-> "reset", email |-> e, row |-> users[e]]]
  /\ UNCHANGED <<users, invites, held, tokens, history>>

\* Attempts and lock are only cleared if the loaded row had some.
Reset(w, password) ==
  LET e == req[w].email
      row == req[w].row
      cleared == row.attempts # 0
  IN /\ req[w].op = "reset"
     /\ Bumped(w)
     /\ users' = [users EXCEPT ![e].password = password, ![e].version = row.version + 1,
                               ![e].attempts = IF cleared THEN 0 ELSE @,
                               ![e].lock = IF row.lock # "never" THEN "never" ELSE @]
     /\ refused' = [refused EXCEPT ![e] = IF cleared THEN 0 ELSE @]
     /\ lockouts' = [lockouts EXCEPT ![e] = IF cleared THEN 0 ELSE @]
     /\ UNCHANGED tokens

-----------------------------------------------------------------------------

Init ==
  /\ users = [e \in Emails |-> NoAccount]
  /\ invites = [e \in Emails |-> "none"]
  /\ held = [e \in Emails |-> NoWorker]
  /\ tokens = {}
  /\ req = [w \in Workers |-> Idle]
  /\ refused = [e \in Emails |-> 0]
  /\ lockouts = [e \in Emails |-> 0]
  /\ outdated = [e \in Emails |-> FALSE]

Create(w) ==
  \/ \E e \in Emails, op \in {"initial_admin", "seed", "invite", "subscribe"} :
       BeginCreate(w, e, op)
  \/ Refused(w)
  \/ \E role \in Roles : CreateInvited(w, role)
  \/ \E password \in Passwords : CreateAdmin(w, password) \/ CreateSubscriber(w, password)

Login(w) ==
  (\E e \in Emails : BeginLogin(w, e)) \/ LoginClosed(w) \/ LoginFails(w) \/ LoginSucceeds(w)

Rewrite(w) ==
  \/ \E t \in tokens, op \in {"change_password", "logout_all"} : Authenticate(w, t, op)
  \/ \E e \in Emails : BeginReset(w, e)
  \/ \E password \in Passwords : ChangePassword(w, password) \/ Reset(w, password)
  \/ ChangeRefused(w) \/ LogoutAll(w)

Next ==
  \/ \E w \in Workers : Create(w) \/ Login(w) \/ Rewrite(w)
  \/ \E e \in Emails, password \in Passwords :
       SubscribeExisting(e, password) \/ AcceptInvite(e, password)
  \/ \E e \in Emails : InviteExpires(e) \/ LockEnds(e)

Spec == Init /\ [][Next]_vars

-----------------------------------------------------------------------------

TypeOK ==
  /\ users \in [Emails -> Account \union {NoAccount}]
  /\ invites \in [Emails -> {"none", "open", "expired", "accepted"}]
  /\ held \in [Emails -> Workers \union {NoWorker}]
  /\ tokens \subseteq Token
  /\ req \in [Workers -> Request]
  /\ refused \in [Emails -> Nat] /\ lockouts \in [Emails -> Nat]
  /\ outdated \in [Emails -> BOOLEAN]

\* Wrong passwords are never lost, however many logins run at once: from the
\* MaxFailed-th on, each of them has locked the account.
GuessesAreBounded ==
  \A e \in Emails : refused[e] <= MaxFailed - 1 + lockouts[e]

\* An access token that is accepted was issued under the password the account
\* has now, unless a version was ever computed from an outdated row (a logout
\* from everywhere, a change of password or a reset that overlapped another), or
\* the token was issued by a registration while the account was disabled.
TokensMatchPassword ==
  \A t \in tokens :
    Accepted(t) /\ t.active /\ ~outdated[t.email] => t.password = users[t.email].password
=============================================================================
