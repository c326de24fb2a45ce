---------------------------- MODULE AccountsProofs ----------------------------
(***************************************************************************)
(* Proofs about Accounts, for any number of accounts and requests: its     *)
(* types, that no wrong password is lost, and that a token dies with the   *)
(* password it was issued under.                                           *)
(***************************************************************************)
EXTENDS Accounts, TLAPS

(* What a request may rely on while it waits: a login holds the row, so     *)
(* that only the end of a lock-out can change it; the others know that the  *)
(* account stays, and stays active once it is.                              *)
Relies(w) ==
  LET e == req[w].email
      row == req[w].row
  IN /\ req[w].op = "login" =>
          /\ e \in Known /\ held[e] = w
          /\ users[e].attempts = row.attempts /\ users[e].password = row.password
          /\ users[e].version = row.version /\ users[e].status = row.status
     /\ req[w].op \in {"change_password", "logout_all", "reset"} =>
          /\ e \in Known /\ row.version < MaxVersion
          /\ row.status = "active" => users[e].status = "active"

(* The attempts are the wrong passwords, and each from the MaxFailed-th on  *)
(* was a lock-out.                                                          *)
Counted(e) ==
  /\ e \in Known => refused[e] = users[e].attempts
  /\ e \notin Known => refused[e] = 0
  /\ refused[e] <= MaxFailed - 1 + lockouts[e]

(* A token belongs to an account; no version was issued that the account    *)
(* has not reached, and what was issued with the version of now was issued  *)
(* under the password of now.                                               *)
Bound(t) ==
  LET row == users[t.email]
  IN /\ t.email \in Known
     /\ t.active => row.status = "active"
     /\ ~outdated[t.email] =>
          /\ t.version <= row.version
          /\ t.active /\ t.version = row.version => t.password = row.password

IInv ==
  /\ TypeOK
  /\ \A w \in Workers : Relies(w)
  /\ \A e \in Emails : Counted(e)
  /\ \A t \in tokens : Bound(t)

-----------------------------------------------------------------------------
LEMMA InitIInv == Init => IInv
<1>. SUFFICES ASSUME Init PROVE IInv
  OBVIOUS
<1>1. TypeOK
  BY CountsAssumption DEF Init, TypeOK, Request, Idle
<1>2. ASSUME NEW w \in Workers PROVE Relies(w)
  BY DEF Init, Relies, Idle
<1>3. ASSUME NEW e \in Emails PROVE Counted(e)
  BY CountsAssumption DEF Init, Counted, Known
<1>. QED
  BY <1>1, <1>2, <1>3 DEF IInv, Init

(* A new request, or the end of one, over the same accounts.                *)
LEMMA RequestOnly ==
  ASSUME IInv, NEW w \in Workers, NEW r \in Request, req' = [req EXCEPT ![w] = r],
         UNCHANGED <<users, tokens, history>>,
         UNCHANGED invites,
         held' \in [Emails -> Workers \union {NoWorker}],
         \A v \in Workers \ {w}, e \in Emails : held[e] = v => held'[e] = v,
         Relies(w)'
  PROVE  IInv'
<1>. USE DEF IInv
<1>1. TypeOK'
  BY DEF TypeOK, history
<1>2. ASSUME NEW v \in Workers PROVE Relies(v)'
  <2>1. CASE v = w
    BY <2>1
  <2>2. CASE v # w
    <3>1. req'[v] = req[v] /\ Relies(v) /\ req[v] \in Request
      BY <2>2 DEF TypeOK
    <3>2. req[v].op = "login" => req[v].email \in Emails
      BY <3>1 DEF Relies, Known
    <3>. QED
      BY <2>2, <3>1, <3>2 DEF Relies, Known
  <2>. QED
    BY <2>1, <2>2
<1>3. ASSUME NEW e \in Emails PROVE Counted(e)'
  BY DEF Counted, Known, history
<1>4. ASSUME NEW t \in tokens' PROVE Bound(t)'
  BY DEF Bound, Known, history
<1>. QED
  BY <1>1, <1>2, <1>3, <1>4

(* Requests go on or end, and no login that goes on holds the row that       *)
(* changes, except for its lock.                                            *)
SparesLogins(e, row) ==
  /\ req' \in [Workers -> Request]
  /\ \A v \in Workers : req'[v] = req[v] \/ req'[v] = Idle
  /\ \A v \in Workers : req'[v].op = "login" =>
       /\ held'[req[v].email] = held[req[v].email]
       /\ req[v].email = e =>
            /\ users[e].attempts = row.attempts /\ users[e].password = row.password
            /\ users[e].version = row.version /\ users[e].status = row.status

(* One account is written, or a first row for an email: what the requests   *)
(* rely on stays, if no login holds the row that changes.                   *)
LEMMA RowWritten ==
  ASSUME IInv, NEW e \in Emails, NEW row \in Account, users' = [users EXCEPT ![e] = row],
         e \in Known /\ users[e].status = "active" => row.status = "active",
         SparesLogins(e, row)
  PROVE  /\ users' \in [Emails -> Account \union {NoAccount}]
         /\ Known' = Known \union {e} /\ users'[e] = row
         /\ \A f \in Emails \ {e} : users'[f] = users[f]
         /\ \A v \in Workers : Relies(v)'
<1>. USE DEF IInv, SparesLogins
<1>1. /\ users' \in [Emails -> Account \union {NoAccount}] /\ users'[e] = row
      /\ \A f \in Emails \ {e} : users'[f] = users[f]
  BY DEF TypeOK
<1>2. Known' = Known \union {e}
  BY <1>1, NoAccountAssumption DEF Known
<1>3. ASSUME NEW v \in Workers PROVE Relies(v)'
  <2>1. CASE req'[v] = Idle
    BY <2>1 DEF Relies, Idle
  <2>2. CASE req'[v] = req[v]
    <3>1. CASE req[v].op = "login"
      <4>1. req[v].email \in Known /\ Relies(v)
        BY <3>1 DEF Relies
      <4>. QED
        BY <1>1, <1>2, <2>2, <3>1, <4>1 DEF Relies, Known
    <3>2. CASE req[v].op \in {"change_password", "logout_all", "reset"}
      <4>1. req[v].email \in Known /\ Relies(v)
        BY <3>2 DEF Relies
      <4>. QED
        BY <1>1, <1>2, <2>2, <3>2, <4>1 DEF Relies, Known
    <3>3. CASE req[v].op \notin {"login", "change_password", "logout_all", "reset"}
      BY <2>2, <3>3 DEF Relies
    <3>. QED
      BY <3>1, <3>2, <3>3
  <2>. QED
    BY <2>1, <2>2
<1>. QED
  BY <1>1, <1>2, <1>3

(* What a request knows of its account, by the kind of request.             *)
LEMMA RequestTypes ==
  ASSUME TypeOK, NEW w \in Workers
  PROVE  /\ req[w].op \in {"initial_admin", "seed", "invite", "subscribe"} => req[w].email \in Emails
         /\ req[w].op \in {"login", "change_password", "logout_all", "reset"} =>
              req[w].email \in Emails /\ req[w].row \in Account
         /\ [req EXCEPT ![w] = Idle] \in [Workers -> Request]
BY DEF TypeOK, Request, Idle

(* A new account for an email nobody has: no token was ever issued for it.  *)
LEMMA AccountCreated ==
  ASSUME IInv, NEW w \in Workers, NEW e \in Emails, e \notin Known, NEW row \in Account,
         users' = [users EXCEPT ![e] = row], row.attempts = 0,
         req' = [req EXCEPT ![w] = Idle], UNCHANGED <<held, refused, lockouts, outdated>>,
         invites' \in [Emails -> {"none", "open", "expired", "accepted"}],
         tokens' \subseteq tokens \union {Issued(e, row)}
  PROVE  IInv'
<1>. USE DEF IInv
<1>1. req' \in [Workers -> Request] /\ \A v \in Workers : req'[v] = req[v] \/ req'[v] = Idle
  BY RequestTypes DEF TypeOK
<1>2. \A v \in Workers : req'[v].op = "login" => req[v].email # e
  BY <1>1 DEF Relies, Idle
<1>a. SparesLogins(e, row)
  BY <1>1, <1>2 DEF SparesLogins
<1>3. /\ users' \in [Emails -> Account \union {NoAccount}]
      /\ Known' = Known \union {e} /\ users'[e] = row
      /\ \A f \in Emails \ {e} : users'[f] = users[f]
      /\ \A v \in Workers : Relies(v)'
  BY <1>a, RowWritten
<1>4. Issued(e, row) \in Token
  BY DEF Issued, Token, Account
<1>5. TypeOK'
  BY <1>1, <1>3, <1>4 DEF TypeOK
<1>6. ASSUME NEW f \in Emails PROVE Counted(f)'
  BY <1>3 DEF Counted
<1>7. ASSUME NEW t \in tokens' PROVE Bound(t)'
  <2>1. CASE t \in tokens
    BY <1>3, <2>1 DEF Bound
  <2>2. CASE t = Issued(e, row)
    <3>1. /\ t.email = e /\ t.version = row.version /\ t.password = row.password
          /\ t.active <=> row.status = "active"
      BY <2>2 DEF Issued
    <3>2. row.version \in Int
      BY CountsAssumption DEF Account
    <3>. QED
      BY <1>3, <3>1, <3>2 DEF Bound
  <2>. QED
    BY <2>1, <2>2
<1>. QED
  BY <1>3, <1>5, <1>6, <1>7

(* A row is written that is no older than it was, with the attempts counted, *)
(* and at most a token for that row is issued.                              *)
Writes(e, row, token) ==
  /\ users' = [users EXCEPT ![e] = row]
  /\ users[e].status = "active" => row.status = "active"
  /\ SparesLogins(e, row)
  /\ held' \in [Emails -> Workers \union {NoWorker}]
  /\ invites' \in [Emails -> {"none", "open", "expired", "accepted"}]
  /\ refused' \in [Emails -> Nat] /\ lockouts' \in [Emails -> Nat]
  /\ outdated' \in [Emails -> BOOLEAN]
  /\ outdated[e] => outdated'[e]
  /\ \A f \in Emails \ {e} : /\ refused'[f] = refused[f] /\ lockouts'[f] = lockouts[f]
                            /\ outdated'[f] = outdated[f]
  /\ refused'[e] = row.attempts /\ refused'[e] <= MaxFailed - 1 + lockouts'[e]
  /\ \/ outdated'[e]
     \/ users[e].version < row.version
     \/ users[e].version = row.version /\ users[e].password = row.password
     \/ users[e].version = row.version /\ users[e].status # "active"
  /\ token.email = e
  /\ token.active => row.status = "active"
  /\ ~outdated'[e] => token.version = row.version /\ token.password = row.password
  /\ tokens' \subseteq tokens \union {token}

LEMMA AccountWritten ==
  ASSUME IInv, NEW e \in Known, NEW row \in Account, NEW t0 \in Token, Writes(e, row, t0)
  PROVE  IInv'
<1>0. e \in Emails
  BY DEF Known
<1>1. /\ users' \in [Emails -> Account \union {NoAccount}]
      /\ Known' = Known \union {e} /\ users'[e] = row
      /\ \A f \in Emails \ {e} : users'[f] = users[f]
      /\ \A v \in Workers : Relies(v)'
  BY <1>0, RowWritten DEF Writes
<1>. USE DEF IInv, Writes
<1>2. TypeOK'
  BY <1>1 DEF TypeOK, SparesLogins
<1>3. ASSUME NEW f \in Emails PROVE Counted(f)'
  BY <1>0, <1>1 DEF Counted
<1>4. ASSUME NEW t \in tokens' PROVE Bound(t)'
  <2>1. CASE t \in tokens /\ t.email # e
    <3>1. t.email \in Emails \ {e}
      BY <2>1 DEF Bound, Known
    <3>. QED
      BY <1>1, <2>1, <3>1 DEF Bound
  <2>2. CASE t \in tokens /\ t.email = e
    <3>1. /\ users[e].version \in Nat /\ row.version \in Nat /\ t.version \in Nat
      BY <1>0, <2>2, CountsAssumption, NoAccountAssumption DEF TypeOK, Known, Account, Token
    <3>. QED
      BY <1>1, <2>2, <3>1 DEF Bound
  <2>3. CASE t = t0
    BY <1>1, <2>3, CountsAssumption DEF Bound, Account
  <2>. QED
    BY <2>1, <2>2, <2>3
<1>. QED
  BY <1>1, <1>2, <1>3, <1>4

(* The token of a row, and that an account is one.                          *)
LEMMA KnownType ==
  ASSUME TypeOK, NEW e \in Known
  PROVE  e \in Emails /\ users[e] \in Account /\ users[e].version \in Nat /\ users[e].attempts \in Nat
BY CountsAssumption, NoAccountAssumption DEF TypeOK, Known, Account

LEMMA IssuedType ==
  ASSUME NEW e \in Emails, NEW row \in Account
  PROVE  /\ Issued(e, row) \in Token
         /\ Issued(e, row).email = e /\ Issued(e, row).version = row.version
         /\ Issued(e, row).password = row.password
         /\ Issued(e, row).active <=> row.status = "active"
BY DEF Issued, Token, Account

LEMMA CreateStep ==
  ASSUME IInv, NEW w \in Workers, Create(w)
  PROVE  IInv'
<1>. USE DEF IInv
<1>1. ASSUME NEW e \in Emails, NEW op \in {"initial_admin", "seed", "invite", "subscribe"},
             BeginCreate(w, e, op)
      PROVE  IInv'
  <2>1. [op |-> op, email |-> e] \in Request
    BY DEF Request
  <2>2. Relies(w)'
    BY <1>1 DEF BeginCreate, Relies, TypeOK
  <2>. QED
    BY <1>1, <2>1, <2>2, RequestOnly DEF BeginCreate, TypeOK
<1>2. CASE Refused(w)
  <2>1. Idle \in Request /\ Relies(w)'
    BY <1>2 DEF Refused, End, Relies, TypeOK, Request, Idle
  <2>. QED
    BY <1>2, <2>1, RequestOnly DEF Refused, End, TypeOK
<1>3. ASSUME NEW role \in Roles, CreateInvited(w, role)
      PROVE  IInv'
  <2>. DEFINE e == req[w].email
              row == NewAccount(role, "disabled", Placeholder)
  <2>1. e \in Emails /\ e \notin Known
    BY <1>3, RequestTypes DEF CreateInvited
  <2>2. row \in Account /\ row.attempts = 0
    BY CountsAssumption DEF NewAccount, Account
  <2>3. invites' \in [Emails -> {"none", "open", "expired", "accepted"}]
    BY <1>3 DEF CreateInvited, TypeOK
  <2>. QED
    BY <1>3, <2>1, <2>2, <2>3, AccountCreated DEF CreateInvited, End, history
<1>4. ASSUME NEW password \in Passwords, CreateAdmin(w, password)
      PROVE  IInv'
  <2>. DEFINE e == req[w].email
              row == NewAccount("admin", "active", password)
  <2>1. e \in Emails /\ e \notin Known
    BY <1>4, RequestTypes DEF CreateAdmin
  <2>2. row \in Account /\ row.attempts = 0
    BY CountsAssumption DEF NewAccount, Account, Roles
  <2>3. invites' \in [Emails -> {"none", "open", "expired", "accepted"}]
    BY <1>4 DEF CreateAdmin, TypeOK
  <2>. QED
    BY <1>4, <2>1, <2>2, <2>3, AccountCreated DEF CreateAdmin, End, history
<1>5. ASSUME NEW password \in Passwords, CreateSubscriber(w, password)
      PROVE  IInv'
  <2>. DEFINE e == req[w].email
              row == [NewAccount("subscriber", "active", password) EXCEPT !.subscribed = TRUE]
  <2>1. e \in Emails /\ e \notin Known
    BY <1>5, RequestTypes DEF CreateSubscriber
  <2>2. row \in Account /\ row.attempts = 0
    <3>1. /\ NewAccount("subscriber", "active", password) \in Account
          /\ NewAccount("subscriber", "active", password).attempts = 0
      BY CountsAssumption DEF NewAccount, Account, Roles
    <3>. QED
      BY <3>1 DEF Account
  <2>3. invites' \in [Emails -> {"none", "open", "expired", "accepted"}]
    BY <1>5 DEF CreateSubscriber, TypeOK
  <2>. QED
    BY <1>5, <2>1, <2>2, <2>3, AccountCreated DEF CreateSubscriber, End, history
<1>. QED
  BY <1>1, <1>2, <1>3, <1>4, <1>5 DEF Create

LEMMA LoginStep ==
  ASSUME IInv, NEW w \in Workers, Login(w)
  PROVE  IInv'
<1>. USE DEF IInv
<1>a. /\ Relies(w) /\ TypeOK /\ Idle \in Request
      /\ req[w].op = "login" => req[w].email \in Emails /\ req[w].email \in Known
  BY RequestTypes DEF Relies, Request
<1>b. ASSUME req[w].op = "login", End(w), Release(w)
      PROVE  /\ held' \in [Emails -> Workers \union {NoWorker}]
             /\ \A v \in Workers \ {w}, e \in Emails : held[e] = v => held'[e] = v
             /\ req' \in [Workers -> Request] /\ req'[w] = Idle
             /\ \A v \in Workers \ {w} : req'[v] = req[v]
             /\ \A v \in Workers : req'[v].op = "login" =>
                  v # w /\ held'[req[v].email] = held[req[v].email] /\ req[v].email # req[w].email
  <2>1. /\ held' \in [Emails -> Workers \union {NoWorker}]
        /\ \A v \in Workers \ {w}, e \in Emails : held[e] = v => held'[e] = v
    BY <1>b, CountsAssumption DEF Release, TypeOK
  <2>2. /\ req' \in [Workers -> Request] /\ req'[w] = Idle
        /\ \A v \in Workers \ {w} : req'[v] = req[v]
    BY <1>a, <1>b DEF End, TypeOK
  <2>3. ASSUME NEW v \in Workers, req'[v].op = "login"
        PROVE  /\ v # w /\ held'[req[v].email] = held[req[v].email]
               /\ req[v].email # req[w].email
    <3>1. v # w /\ req[v].op = "login"
      BY <2>2, <2>3 DEF Idle
    <3>2. held[req[v].email] = v /\ req[v].email \in Emails /\ held[req[w].email] = w
      BY <1>a, <1>b, <3>1 DEF Relies, Known
    <3>. QED
      BY <2>1, <3>1, <3>2
  <2>. QED
    BY <2>1, <2>2, <2>3
<1>1. ASSUME NEW e \in Emails, BeginLogin(w, e)
      PROVE  IInv'
  <2>. DEFINE r == [op |-> "login", email |-> e, row |-> users[e]]
  <2>1. e \in Known /\ users[e] \in Account
    BY <1>1, KnownType DEF BeginLogin
  <2>2. r \in Request
    BY <2>1 DEF Request
  <2>3. /\ held' \in [Emails -> Workers \union {NoWorker}] /\ held'[e] = w
        /\ \A v \in Workers \ {w}, f \in Emails : held[f] = v => held'[f] = v
    BY <1>1, CountsAssumption DEF BeginLogin, TypeOK
  <2>4. Relies(w)'
    BY <1>1, <2>1, <2>3 DEF BeginLogin, Relies, TypeOK, Known
  <2>. QED
    BY <1>1, <2>2, <2>3, <2>4, RequestOnly DEF BeginLogin
<1>2. CASE LoginClosed(w)
  <2>1. Relies(w)'
    BY <1>2, <1>b DEF LoginClosed, Relies, Idle
  <2>. QED
    BY <1>2, <1>a, <1>b, <2>1, RequestOnly DEF LoginClosed, End
<1>3. CASE LoginFails(w)
  <2>. DEFINE e == req[w].email
              n == req[w].row.attempts + 1
              locks == n >= MaxFailed
              row == [users[e] EXCEPT !.attempts = n, !.lock = IF locks THEN "on" ELSE @]
  <2>1. /\ e \in Emails /\ e \in Known /\ users[e] \in Account /\ users[e].attempts \in Nat
        /\ users[e].attempts = req[w].row.attempts /\ users[e].status = "active"
        /\ refused[e] = users[e].attempts /\ n \in 0..MaxAttempts
    BY <1>a, <1>3, KnownType, CountsAssumption DEF LoginFails, Relies, Counted
  <2>2. row \in Account /\ row.attempts = n
    BY <2>1 DEF Account
  <2>3. SparesLogins(e, row)
    BY <1>3, <1>b DEF SparesLogins, LoginFails
  <2>4. /\ refused' \in [Emails -> Nat] /\ lockouts' \in [Emails -> Nat]
        /\ refused'[e] = n /\ lockouts'[e] = IF locks THEN lockouts[e] + 1 ELSE lockouts[e]
        /\ \A f \in Emails \ {e} : refused'[f] = refused[f] /\ lockouts'[f] = lockouts[f]
    BY <1>a, <1>3, <2>1 DEF LoginFails, TypeOK
  <2>5. refused'[e] <= MaxFailed - 1 + lockouts'[e]
    <3>1. n \in Nat /\ lockouts[e] \in Nat /\ refused[e] \in Nat /\ n = refused[e] + 1
      BY <1>a, <2>1 DEF TypeOK
    <3>2. refused[e] <= MaxFailed - 1 + lockouts[e]
      BY <1>a, <2>1 DEF Counted
    <3>. QED
      BY <2>2, <2>4, <3>1, <3>2, CountsAssumption
  <2>6. /\ Issued(e, row) \in Token
        /\ Issued(e, row).email = e /\ Issued(e, row).version = row.version
        /\ Issued(e, row).password = row.password
        /\ Issued(e, row).active => row.status = "active"
    BY <2>1, <2>2, IssuedType
  <2>. QED
    <3>1. /\ users' = [users EXCEPT ![e] = row] /\ invites' = invites
          /\ tokens' = tokens /\ outdated' = outdated
      BY <1>3 DEF LoginFails
    <3>2. /\ held' \in [Emails -> Workers \union {NoWorker}]
          /\ invites' \in [Emails -> {"none", "open", "expired", "accepted"}]
          /\ outdated' \in [Emails -> BOOLEAN]
      BY <1>3, <1>b, <3>1 DEF LoginFails, TypeOK
    <3>3. /\ users[e].status = "active" => row.status = "active"
          /\ refused'[e] = row.attempts /\ users[e].version = row.version
          /\ users[e].password = row.password
      BY <2>1, <2>2, <2>4 DEF Account
    <3>4. /\ tokens' \subseteq tokens \union {Issued(e, row)}
          /\ outdated[e] => outdated'[e]
          /\ \A f \in Emails \ {e} : outdated'[f] = outdated[f]
      BY <3>1
    <3>5. Writes(e, row, Issued(e, row))
      BY <2>3, <2>4, <2>5, <2>6, <3>1, <3>2, <3>3, <3>4 DEF Writes
    <3>. HIDE DEF row
    <3>. QED
      BY <2>1, <2>2, <2>6, <3>5, AccountWritten
<1>4. CASE LoginSucceeds(w)
  <2>. DEFINE e == req[w].email
              row == [users[e] EXCEPT !.attempts = 0, !.lock = "never"]
              token == Issued(e, req[w].row)
  <2>1. /\ e \in Emails /\ e \in Known /\ users[e] \in Account /\ req[w].row \in Account
        /\ users[e].password = req[w].row.password /\ users[e].version = req[w].row.version
        /\ users[e].status = req[w].row.status
    BY <1>a, <1>4, KnownType, RequestTypes DEF LoginSucceeds, Relies
  <2>2. /\ row \in Account /\ row.attempts = 0 /\ row.version = users[e].version
        /\ row.password = users[e].password /\ row.status = users[e].status
    <3>1. 0 \in 0..MaxAttempts
      BY CountsAssumption
    <3>. QED
      BY <2>1, <3>1 DEF Account
  <2>3. SparesLogins(e, row)
    BY <1>4, <1>b DEF SparesLogins, LoginSucceeds
  <2>4. /\ refused' \in [Emails -> Nat] /\ lockouts' \in [Emails -> Nat]
        /\ refused'[e] = 0 /\ lockouts'[e] = 0
        /\ \A f \in Emails \ {e} : refused'[f] = refused[f] /\ lockouts'[f] = lockouts[f]
    BY <1>a, <1>4, <2>1 DEF LoginSucceeds, TypeOK
  <2>5. refused'[e] <= MaxFailed - 1 + lockouts'[e]
    BY <2>4, CountsAssumption
  <2>6. /\ token \in Token /\ token.email = e /\ token.version = row.version
        /\ token.password = row.password
        /\ token.active => row.status = "active"
    BY <2>1, <2>2, IssuedType
  <2>7. /\ users' = [users EXCEPT ![e] = row] /\ invites' = invites
        /\ tokens' = tokens \union {token} /\ outdated' = outdated
    BY <1>4 DEF LoginSucceeds
  <2>8. /\ held' \in [Emails -> Workers \union {NoWorker}]
        /\ invites' \in [Emails -> {"none", "open", "expired", "accepted"}]
        /\ outdated' \in [Emails -> BOOLEAN]
    BY <1>4, <1>b, <2>7 DEF LoginSucceeds, TypeOK
  <2>9. Writes(e, row, token)
    BY <2>2, <2>3, <2>4, <2>5, <2>6, <2>7, <2>8 DEF Writes
  <2>. HIDE DEF row, token
  <2>. QED
    BY <2>1, <2>2, <2>6, <2>9, AccountWritten
<1>. QED
  BY <1>1, <1>2, <1>3, <1>4 DEF Login

(* A write to a row nobody holds spares the logins.                         *)
LEMMA FreeRow ==
  ASSUME IInv, NEW e \in Emails, held[e] = NoWorker, held' = held, NEW row,
         req' \in [Workers -> Request],
         \A v \in Workers : req'[v] = req[v] \/ req'[v] = Idle
  PROVE  SparesLogins(e, row)
<1>1. ASSUME NEW v \in Workers, req'[v].op = "login"
      PROVE  req[v].email # e
  <2>1. req[v].op = "login"
    BY <1>1 DEF Idle
  <2>. QED
    BY <2>1, CountsAssumption DEF IInv, Relies
<1>. QED
  BY <1>1 DEF SparesLogins

LEMMA BumpedFrame ==
  ASSUME IInv, NEW w \in Workers, Bumped(w),
         req[w].op \in {"change_password", "logout_all", "reset"}
  PROVE  LET e == req[w].email
         IN /\ e \in Emails /\ e \in Known /\ users[e] \in Account /\ req[w].row \in Account
            /\ req[w].row.version + 1 \in 1..MaxVersion
            /\ req[w].row.status = "active" => users[e].status = "active"
            /\ \A row : SparesLogins(e, row)
            /\ held' \in [Emails -> Workers \union {NoWorker}]
            /\ invites' \in [Emails -> {"none", "open", "expired", "accepted"}]
            /\ outdated' \in [Emails -> BOOLEAN]
            /\ outdated[e] => outdated'[e]
            /\ \A f \in Emails \ {e} : outdated'[f] = outdated[f]
            /\ outdated'[e] \/ users[e].version < req[w].row.version + 1
<1>. DEFINE e == req[w].email
<1>. USE DEF IInv
<1>1. /\ e \in Emails /\ e \in Known /\ req[w].row \in Account /\ users[e] \in Account
      /\ req[w].row.version < MaxVersion /\ req[w].row.version \in 1..MaxVersion
      /\ req[w].row.status = "active" => users[e].status = "active"
  BY RequestTypes, KnownType DEF Relies, Account
<1>2. \A row : SparesLogins(e, row)
  <2>1. /\ req' \in [Workers -> Request] /\ held[e] = NoWorker /\ held' = held
        /\ \A v \in Workers : req'[v] = req[v] \/ req'[v] = Idle
    BY RequestTypes DEF Bumped, End, TypeOK
  <2>. QED
    BY <1>1, <2>1, FreeRow
<1>3. /\ outdated' \in [Emails -> BOOLEAN]
      /\ outdated[e] => outdated'[e]
      /\ \A f \in Emails \ {e} : outdated'[f] = outdated[f]
      /\ outdated'[e] \/ users[e].version = req[w].row.version
  BY <1>1 DEF Bumped, TypeOK
<1>4. /\ held' \in [Emails -> Workers \union {NoWorker}]
      /\ invites' \in [Emails -> {"none", "open", "expired", "accepted"}]
  BY DEF Bumped, TypeOK
<1>5. /\ req[w].row.version + 1 \in 1..MaxVersion
      /\ users[e].version = req[w].row.version => users[e].version < req[w].row.version + 1
  BY <1>1, CountsAssumption
<1>. QED
  BY <1>1, <1>2, <1>3, <1>4, <1>5

LEMMA RewriteStep ==
  ASSUME IInv, NEW w \in Workers, Rewrite(w)
  PROVE  IInv'
<1>. USE DEF IInv
<1>1. ASSUME NEW t \in tokens, NEW op \in {"change_password", "logout_all"}, Authenticate(w, t, op)
      PROVE  IInv'
  <2>. DEFINE r == [op |-> op, email |-> t.email, row |-> users[t.email]]
  <2>1. t.email \in Known /\ t.email \in Emails /\ users[t.email] \in Account
    BY KnownType DEF Bound
  <2>2. r \in Request /\ users[t.email].version < MaxVersion
    BY <1>1, <2>1 DEF Request, Authenticate
  <2>3. Relies(w)'
    BY <1>1, <2>1, <2>2 DEF Authenticate, Relies, TypeOK, Known
  <2>. QED
    BY <1>1, <2>2, <2>3, RequestOnly DEF Authenticate, TypeOK
<1>2. ASSUME NEW e \in Emails, BeginReset(w, e)
      PROVE  IInv'
  <2>. DEFINE r == [op |-> "reset", email |-> e, row |-> users[e]]
  <2>1. e \in Known /\ users[e] \in Account
    BY <1>2, KnownType DEF BeginReset
  <2>2. r \in Request /\ users[e].version < MaxVersion
    BY <1>2, <2>1 DEF Request, BeginReset
  <2>3. Relies(w)'
    BY <1>2, <2>1, <2>2 DEF BeginReset, Relies, TypeOK, Known
  <2>. QED
    BY <1>2, <2>2, <2>3, RequestOnly DEF BeginReset, TypeOK
<1>3. CASE ChangeRefused(w)
  <2>1. Idle \in Request /\ Relies(w)'
    BY <1>3 DEF ChangeRefused, End, Relies, TypeOK, Request, Idle
  <2>. QED
    BY <1>3, <2>1, RequestOnly DEF ChangeRefused, End, TypeOK
<1>4. ASSUME NEW password \in Passwords, ChangePassword(w, password)
      PROVE  IInv'
  <2>. DEFINE e == req[w].email
              loaded == [req[w].row EXCEPT !.password = password, !.version = @ + 1]
              row == [users[e] EXCEPT !.password = password, !.version = loaded.version]
              token == Issued(e, loaded)
  <2>1. /\ Bumped(w) /\ req[w].op = "change_password" /\ refused' = refused
        /\ lockouts' = lockouts /\ tokens' = tokens \union {token}
    BY <1>4 DEF ChangePassword
  <2>2. /\ e \in Known /\ e \in Emails /\ users[e] \in Account /\ req[w].row \in Account
        /\ req[w].row.version + 1 \in 1..MaxVersion
    BY <2>1, BumpedFrame
  <2>3. /\ loaded \in Account /\ loaded.version = req[w].row.version + 1
        /\ loaded.password = password /\ loaded.status = req[w].row.status
    BY <2>2 DEF Account
  <2>4. /\ row \in Account /\ row.version = req[w].row.version + 1 /\ row.password = password
        /\ row.status = users[e].status /\ row.attempts = users[e].attempts
    BY <2>2, <2>3 DEF Account
  <2>5. /\ token \in Token /\ token.email = e /\ token.version = row.version
        /\ token.password = row.password
        /\ token.active => row.status = "active"
    <3>1. loaded.status = "active" => row.status = "active"
      <4>. HIDE DEF loaded, row
      <4>. QED
        BY <2>1, <2>3, <2>4, BumpedFrame
    <3>. HIDE DEF loaded, row
    <3>. QED
      BY <2>2, <2>3, <2>4, <3>1, IssuedType
  <2>6. users' = [users EXCEPT ![e] = row]
    BY <1>4, <2>2, <2>3 DEF ChangePassword
  <2>7. /\ refused'[e] = row.attempts /\ refused'[e] <= MaxFailed - 1 + lockouts'[e]
        /\ refused' \in [Emails -> Nat] /\ lockouts' \in [Emails -> Nat]
    BY <2>1, <2>2, <2>4 DEF Counted, TypeOK
  <2>. HIDE DEF loaded, row, token
  <2>8. Writes(e, row, token)
    BY <2>1, <2>2, <2>4, <2>5, <2>6, <2>7, BumpedFrame DEF Writes
  <2>. QED
    BY <2>2, <2>4, <2>5, <2>8, AccountWritten
<1>5. CASE LogoutAll(w)
  <2>. DEFINE e == req[w].email
              row == [users[e] EXCEPT !.version = req[w].row.version + 1]
              token == Issued(e, row)
  <2>1. /\ Bumped(w) /\ req[w].op = "logout_all" /\ refused' = refused
        /\ lockouts' = lockouts /\ tokens' = tokens
    BY <1>5 DEF LogoutAll
  <2>2. /\ e \in Known /\ e \in Emails /\ users[e] \in Account
        /\ req[w].row.version + 1 \in 1..MaxVersion
    BY <2>1, BumpedFrame
  <2>3. /\ row \in Account /\ row.version = req[w].row.version + 1
        /\ row.status = users[e].status /\ row.attempts = users[e].attempts
    BY <2>2 DEF Account
  <2>4. /\ token \in Token /\ token.email = e /\ token.version = row.version
        /\ token.password = row.password
        /\ token.active => row.status = "active"
    BY <2>2, <2>3, IssuedType
  <2>5. users' = [users EXCEPT ![e] = row]
    BY <1>5 DEF LogoutAll
  <2>6. /\ refused'[e] = row.attempts /\ refused'[e] <= MaxFailed - 1 + lockouts'[e]
        /\ refused' \in [Emails -> Nat] /\ lockouts' \in [Emails -> Nat]
    BY <2>1, <2>2, <2>3 DEF Counted, TypeOK
  <2>. HIDE DEF row, token
  <2>7. Writes(e, row, token)
    BY <2>1, <2>2, <2>3, <2>4, <2>5, <2>6, BumpedFrame DEF Writes
  <2>. QED
    BY <2>2, <2>3, <2>4, <2>7, AccountWritten
<1>6. ASSUME NEW password \in Passwords, Reset(w, password)
      PROVE  IInv'
  <2>. DEFINE e == req[w].email
              cleared == req[w].row.attempts # 0
              row == [users[e] EXCEPT
                        !.password = password, !.version = req[w].row.version + 1,
                        !.attempts = IF cleared THEN 0 ELSE @,
                        !.lock = IF req[w].row.lock # "never" THEN "never" ELSE @]
              token == Issued(e, row)
  <2>1. /\ Bumped(w) /\ req[w].op = "reset" /\ tokens' = tokens
        /\ refused' = [refused EXCEPT ![e] = IF cleared THEN 0 ELSE @]
        /\ lockouts' = [lockouts EXCEPT ![e] = IF cleared THEN 0 ELSE @]
    BY <1>6 DEF Reset
  <2>2. /\ e \in Known /\ e \in Emails /\ users[e] \in Account
        /\ req[w].row.version + 1 \in 1..MaxVersion
    BY <2>1, BumpedFrame
  <2>3. /\ row \in Account /\ row.version = req[w].row.version + 1
        /\ row.status = users[e].status
        /\ row.attempts = IF cleared THEN 0 ELSE users[e].attempts
    <3>. DEFINE attempts == IF cleared THEN 0 ELSE users[e].attempts
                lock == IF req[w].row.lock # "never" THEN "never" ELSE users[e].lock
    <3>1. attempts \in 0..MaxAttempts /\ lock \in {"never", "on", "over"}
      BY <2>2, CountsAssumption DEF Account
    <3>2. row = [users[e] EXCEPT !.password = password, !.version = req[w].row.version + 1,
                                 !.attempts = attempts, !.lock = lock]
      OBVIOUS
    <3>. HIDE DEF attempts, lock
    <3>. HIDE DEF row
    <3>3. row \in Account /\ row.version = req[w].row.version + 1
          /\ row.status = users[e].status /\ row.attempts = attempts
      BY <2>2, <3>1, <3>2 DEF Account
    <3>. QED
      BY <3>3 DEF attempts
  <2>4. /\ token \in Token /\ token.email = e /\ token.version = row.version
        /\ token.password = row.password
        /\ token.active => row.status = "active"
    <3>. HIDE DEF row
    <3>. QED
      BY <2>2, <2>3, IssuedType
  <2>5. users' = [users EXCEPT ![e] = row]
    BY <1>6 DEF Reset
  <2>6. /\ refused' \in [Emails -> Nat] /\ lockouts' \in [Emails -> Nat]
        /\ refused'[e] = IF cleared THEN 0 ELSE refused[e]
        /\ lockouts'[e] = IF cleared THEN 0 ELSE lockouts[e]
        /\ \A f \in Emails \ {e} : refused'[f] = refused[f] /\ lockouts'[f] = lockouts[f]
    BY <2>1, <2>2 DEF TypeOK
  <2>7. refused'[e] = row.attempts /\ refused'[e] <= MaxFailed - 1 + lockouts'[e]
    <3>1. refused[e] = users[e].attempts /\ refused[e] <= MaxFailed - 1 + lockouts[e]
      BY <2>2 DEF Counted
    <3>. QED
      BY <2>3, <2>6, <3>1, CountsAssumption
  <2>. HIDE DEF row, token
  <2>8. Writes(e, row, token)
    BY <2>1, <2>2, <2>3, <2>4, <2>5, <2>6, <2>7, BumpedFrame DEF Writes
  <2>. QED
    BY <2>2, <2>3, <2>4, <2>8, AccountWritten
<1>. QED
  BY <1>1, <1>2, <1>3, <1>4, <1>5, <1>6 DEF Rewrite

(* What happens to an account outside of a login or a change of password.   *)
LEMMA SubscribeExistingStep ==
  ASSUME IInv, NEW e \in Emails, NEW password \in Passwords, SubscribeExisting(e, password)
  PROVE  IInv'
<1>. DEFINE row == [users[e] EXCEPT !.subscribed = TRUE]
            token == Issued(e, users[e])
<1>. USE DEF IInv
<1>1. e \in Known /\ users[e] \in Account
  BY KnownType DEF SubscribeExisting
<1>2. /\ row \in Account /\ row.version = users[e].version
      /\ row.password = users[e].password
      /\ row.status = users[e].status /\ row.attempts = users[e].attempts
  BY <1>1 DEF Account
<1>3. /\ token \in Token /\ token.email = e /\ token.version = row.version
      /\ token.password = row.password
      /\ token.active => row.status = "active"
  <2>. HIDE DEF row
  <2>. QED
    BY <1>1, <1>2, IssuedType
<1>4. /\ users' = [users EXCEPT ![e] = row] /\ tokens' = tokens \union {token}
      /\ held[e] = NoWorker
      /\ UNCHANGED <<invites, held, req, refused, lockouts, outdated>>
  BY DEF SubscribeExisting, history
<1>. HIDE DEF row, token
<1>5. SparesLogins(e, row)
  BY <1>4, FreeRow DEF TypeOK
<1>6. refused'[e] = row.attempts /\ refused'[e] <= MaxFailed - 1 + lockouts'[e]
  BY <1>1, <1>2, <1>4 DEF Counted
<1>7. Writes(e, row, token)
  BY <1>2, <1>3, <1>4, <1>5, <1>6 DEF Writes, TypeOK
<1>. QED
  BY <1>1, <1>2, <1>3, <1>7, AccountWritten

LEMMA AcceptInviteStep ==
  ASSUME IInv, NEW e \in Emails, NEW password \in Passwords, AcceptInvite(e, password)
  PROVE  IInv'
<1>. DEFINE row == [users[e] EXCEPT !.password = password, !.status = "active"]
            token == [email |-> e, version |-> users[e].version,
                      password |-> password, active |-> TRUE]
<1>. USE DEF IInv
<1>1. e \in Known /\ users[e] \in Account /\ users[e].status # "active"
  BY KnownType DEF AcceptInvite
<1>2. /\ row \in Account /\ row.version = users[e].version /\ row.password = password
      /\ row.status = "active" /\ row.attempts = users[e].attempts
  BY <1>1 DEF Account
<1>3. /\ token \in Token /\ token.email = e /\ token.version = users[e].version
      /\ token.password = password
  BY <1>1 DEF Token, Account
<1>4. /\ users' = [users EXCEPT ![e] = row] /\ tokens' = tokens \union {token}
      /\ held[e] = NoWorker
      /\ invites' \in [Emails -> {"none", "open", "expired", "accepted"}]
      /\ UNCHANGED <<held, req, refused, lockouts, outdated>>
  BY DEF AcceptInvite, history, TypeOK
<1>. HIDE DEF row, token
<1>5. SparesLogins(e, row)
  BY <1>4, FreeRow DEF TypeOK
<1>6. refused'[e] = row.attempts /\ refused'[e] <= MaxFailed - 1 + lockouts'[e]
  BY <1>1, <1>2, <1>4 DEF Counted
<1>7. Writes(e, row, token)
  BY <1>1, <1>2, <1>3, <1>4, <1>5, <1>6 DEF Writes, TypeOK
<1>. QED
  BY <1>1, <1>2, <1>3, <1>7, AccountWritten

LEMMA LockEndsStep ==
  ASSUME IInv, NEW e \in Emails, LockEnds(e)
  PROVE  IInv'
<1>. DEFINE row == [users[e] EXCEPT !.lock = "over"]
            token == Issued(e, row)
<1>. USE DEF IInv
<1>1. e \in Known /\ users[e] \in Account
  BY KnownType DEF LockEnds
<1>2. /\ row \in Account /\ row.version = users[e].version
      /\ row.password = users[e].password
      /\ row.status = users[e].status /\ row.attempts = users[e].attempts
  BY <1>1 DEF Account
<1>3. users' = [users EXCEPT ![e] = row]
  BY DEF LockEnds
<1>. HIDE DEF row
<1>4. /\ token \in Token /\ token.email = e /\ token.version = row.version
      /\ token.password = row.password
      /\ token.active => row.status = "active"
  BY <1>2, IssuedType
<1>. HIDE DEF token
<1>5. UNCHANGED <<invites, held, tokens, req, refused, lockouts, outdated>>
  BY DEF LockEnds, history
<1>6. SparesLogins(e, row)
  BY <1>2, <1>5 DEF SparesLogins, TypeOK
<1>7. refused'[e] = row.attempts /\ refused'[e] <= MaxFailed - 1 + lockouts'[e]
  BY <1>1, <1>2, <1>5 DEF Counted
<1>8. Writes(e, row, token)
  BY <1>2, <1>3, <1>4, <1>5, <1>6, <1>7 DEF Writes, TypeOK
<1>. QED
  BY <1>1, <1>2, <1>4, <1>8, AccountWritten

LEMMA SameAccounts ==
  ASSUME IInv, UNCHANGED <<users, held, tokens, req, history>>,
         invites' \in [Emails -> {"none", "open", "expired", "accepted"}]
  PROVE  IInv'
BY DEF IInv, TypeOK, Relies, Counted, Bound, Known, history

-----------------------------------------------------------------------------
LEMMA NextIInv == IInv /\ [Next]_vars => IInv'
<1>. SUFFICES ASSUME IInv, [Next]_vars PROVE IInv'
  OBVIOUS
<1>1. ASSUME NEW w \in Workers, Create(w) \/ Login(w) \/ Rewrite(w)
      PROVE  IInv'
  BY <1>1, CreateStep, LoginStep, RewriteStep
<1>2. ASSUME NEW e \in Emails, NEW password \in Passwords,
             SubscribeExisting(e, password) \/ AcceptInvite(e, password)
      PROVE  IInv'
  BY <1>2, SubscribeExistingStep, AcceptInviteStep
<1>3. ASSUME NEW e \in Emails, InviteExpires(e)
      PROVE  IInv'
  <2>1. invites' \in [Emails -> {"none", "open", "expired", "accepted"}]
    BY <1>3 DEF InviteExpires, IInv, TypeOK
  <2>. QED
    BY <1>3, <2>1, SameAccounts DEF InviteExpires
<1>4. ASSUME NEW e \in Emails, LockEnds(e)
      PROVE  IInv'
  BY <1>4, LockEndsStep
<1>5. CASE UNCHANGED vars
  BY <1>5, SameAccounts DEF vars, history, IInv, TypeOK
<1>. QED
  BY <1>1, <1>2, <1>3, <1>4, <1>5 DEF Next

(* The inductive invariant holds in every reachable state.                  *)
THEOREM Invariant == Spec => []IInv
<1>. QED
  BY InitIInv, NextIInv, PTL DEF Spec

(* Every row, token and request has its type in every reachable state,      *)
(* whatever requests run at the same time: a version is one an account can  *)
(* have had, and a request that went on with a row holds the row of an      *)
(* account.  The counts of attempts and versions keep to the bounds of the  *)
(* model, which are not bounds of the code: auth.py:89 counts on after a    *)
(* lock-out has ended.                                                      *)
THEOREM TypeCorrect == Spec => []TypeOK
<1>1. IInv => TypeOK
  BY DEF IInv
<1>. QED
  BY <1>1, Invariant, PTL

(* Wrong passwords are never lost, however many logins run at once          *)
(* (auth.py login reads the row FOR UPDATE): from the MaxFailed-th on, each *)
(* of them has locked the account.                                          *)
THEOREM GuessesBounded == Spec => []GuessesAreBounded
<1>1. IInv => GuessesAreBounded
  BY DEF IInv, Counted, GuessesAreBounded
<1>. QED
  BY <1>1, Invariant, PTL

(* An access token dies with the password it was issued under (auth.py      *)
(* change_password, logout_all; create_admin.py), unless a version was      *)
(* computed from an outdated row or the token was issued while the account  *)
(* was disabled.                                                            *)
THEOREM TokensDie == Spec => []TokensMatchPassword
<1>1. IInv => TokensMatchPassword
  <2>. SUFFICES ASSUME IInv, NEW t \in tokens, Accepted(t), t.active, ~outdated[t.email]
                PROVE  t.password = users[t.email].password
    BY DEF TokensMatchPassword
  <2>. QED
    BY DEF IInv, Bound, Accepted
<1>. QED
  BY <1>1, Invariant, PTL
=============================================================================
