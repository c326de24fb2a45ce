---------------------------- MODULE BillingProofs ----------------------------
(***************************************************************************)
(* Proofs about Billing, for any number of requests, payments and plans:   *)
(* its types, that it implements PaymentLifecycle, the quota of exports    *)
(* and that what is active does not lapse.                                 *)
(***************************************************************************)
EXTENDS Billing, TLAPS

(* What a request that deals with a payment may rely on while it waits.     *)
Held(w) ==
  /\ req[w].at = "initialize" =>
       req[w].pay \in Payments /\ req[w].plan \in Plans /\ pay[req[w].pay].status = "none"
  /\ req[w].at = "ask" =>
       /\ req[w].pay \in Payments
       /\ payLock[req[w].pay] = w /\ pay[req[w].pay].status = "pending"
  /\ req[w].at = "activate" =>
       /\ req[w].pay \in Payments
       /\ granted[req[w].pay] = 0 /\ pay[req[w].pay].status = "succeeded"
  /\ req[w].at \in {"delete", "delete_references"} => req[w].plan \in Plans

(* Two requests never open the same payment, nor activate for it.           *)
Apart ==
  \A v, w \in Workers :
    /\ req[v].at \in {"initialize", "activate"} /\ req[w].at = req[v].at
    /\ req[v].pay = req[w].pay
    => v = w

(* The usage row counts every export, of whatever tier.                     *)
Counted == proExports <= used

(* Nothing is granted for a payment that has not succeeded.                 *)
Ungranted == \A p \in Payments : pay[p].status \in {"none", "pending"} => granted[p] = 0

IInv == TypeOK /\ (\A w \in Workers : Held(w)) /\ Apart /\ Counted /\ Ungranted

-----------------------------------------------------------------------------
LEMMA IdleType == Idle \in Request /\ Idle.at = "idle" /\ Idle.pay = NoPayment
BY DEF Idle, NoCopy, Request, Loaded, Statuses, Tiers

LEMMA InitIInv == Init => IInv
<1>. SUFFICES ASSUME Init PROVE IInv
  OBVIOUS
<1>1. sub \in Subscription /\ trialOver \in BOOLEAN /\ used \in Nat /\ proExports \in Nat
  BY DEF Init, NoSubscription, Subscription, Statuses, Tiers
<1>2. plans \in [Plans -> Plan]
  BY DEF Init, Plan, Tiers
<1>3. /\ pay \in [Payments -> Payment] /\ granted \in [Payments -> Nat]
      /\ payLock \in [Payments -> Workers \union {NoWorker}]
      /\ provider \in [Payments -> {"unsettled", "paid", "failed"}]
  BY DEF Init, Payment
<1>4. req \in [Workers -> Request] /\ \A w \in Workers : req[w].at = "idle"
  BY IdleType DEF Init
<1>5. TypeOK
  BY <1>1, <1>2, <1>3, <1>4 DEF TypeOK
<1>6. (\A w \in Workers : Held(w)) /\ Apart /\ Counted /\ Ungranted
  BY <1>4 DEF Held, Apart, Counted, Ungranted, Init
<1>. QED
  BY <1>5, <1>6 DEF IInv

(* A step of one request that is about no payment afterwards and changes    *)
(* none: what the others rely on stays.                                     *)
LEMMA QuietRequest ==
  ASSUME IInv, NEW w \in Workers, NEW r \in Request,
         req' = [req EXCEPT ![w] = r],
         r.at \notin {"initialize", "ask", "activate"},
         r.at \in {"delete", "delete_references"} => r.plan \in Plans,
         pay' \in [Payments -> Payment],
         \A p \in Payments : pay'[p].status = pay[p].status,
         granted' = granted,
         \A p \in Payments, v \in Workers \ {w} : payLock[p] = v => payLock'[p] = v
  PROVE  /\ req' \in [Workers -> Request]
         /\ (\A v \in Workers : Held(v)') /\ Apart' /\ Ungranted'
<1>. USE DEF IInv
<1>1. /\ req \in [Workers -> Request] /\ req' \in [Workers -> Request]
      /\ req'[w] = r /\ \A v \in Workers \ {w} : req'[v] = req[v]
  BY DEF TypeOK
<1>2. ASSUME NEW v \in Workers
      PROVE  Held(v)'
  <2>1. CASE v = w
    BY <1>1, <2>1 DEF Held
  <2>2. CASE v # w
    <3>1. req'[v] = req[v] /\ Held(v)
      BY <1>1, <2>2
    <3>2. req[v].pay \in Payments =>
            /\ pay'[req[v].pay].status = pay[req[v].pay].status
            /\ payLock[req[v].pay] = v => payLock'[req[v].pay] = v
      BY <2>2
    <3>. QED
      BY <3>1, <3>2 DEF Held
  <2>. QED
    BY <2>1, <2>2
<1>3. Apart'
  BY <1>1 DEF Apart
<1>4. Ungranted'
  BY DEF Ungranted
<1>. QED
  BY <1>1, <1>2, <1>3, <1>4

-----------------------------------------------------------------------------
(* What the pure functions and the requests return has the right type.      *)
LEMMA SubscriptionTypes ==
  ASSUME TypeOK
  PROVE  /\ NewTrial \in Subscription /\ Expired(sub) \in Subscription
         /\ \A st \in Statuses : [sub EXCEPT !.status = st] \in Subscription
BY DEF TypeOK, NewTrial, Expired, Subscription, Statuses, Tiers

LEMMA StartType ==
  ASSUME NEW c \in Loaded, NEW to \in {"view", "export", "record", "cancel", "gate"},
         NEW r, r = [Idle EXCEPT !.at = to, !.copy = c]
  PROVE  r \in Request /\ r.at = to
BY IdleType DEF Request, Idle

LEMMA CopyType ==
  /\ NoCopy \in Loaded
  /\ \A s \in Subscription : CopyOf(s) \in Loaded
BY DEF NoCopy, CopyOf, Loaded, Subscription, Statuses, Tiers

LEMMA EnsureStep ==
  ASSUME IInv, NEW w \in Workers,
         \/ \E to \in {"view", "export"} : Ensure(w, to)
         \/ \E to \in {"record", "cancel"} : Contextualize(w, to)
  PROVE  IInv'
<1>. USE DEF IInv
<1>1. sub' \in Subscription
  BY SubscriptionTypes DEF Ensure, Contextualize, TypeOK
<1>2. PICK to \in {"view", "export", "record", "cancel"}, c \in Loaded :
        Starts(w, to, c) /\ UNCHANGED <<trialOver, used, proExports, plans, payVars>>
  BY <1>1, CopyType DEF Ensure, Contextualize
<1>3. PICK r \in Request : r.at = to /\ req' = [req EXCEPT ![w] = r]
  BY <1>2, StartType DEF Starts
<1>4. /\ req' \in [Workers -> Request] /\ (\A v \in Workers : Held(v)') /\ Apart' /\ Ungranted'
  BY <1>2, <1>3, QuietRequest DEF payVars, TypeOK
<1>. QED
  BY <1>1, <1>2, <1>4 DEF TypeOK, Counted, payVars

(* A request ends without having changed the status of a payment.           *)
LEMMA EndsQuietly ==
  ASSUME IInv, NEW w \in Workers, Ends(w),
         pay' \in [Payments -> Payment],
         \A p \in Payments : pay'[p].status = pay[p].status,
         granted' = granted,
         \A p \in Payments, v \in Workers \ {w} : payLock[p] = v => payLock'[p] = v
  PROVE  /\ req' \in [Workers -> Request]
         /\ (\A v \in Workers : Held(v)') /\ Apart' /\ Ungranted'
BY IdleType, QuietRequest DEF Ends

LEMMA ContextSteps ==
  ASSUME IInv, NEW w \in Workers, Context(w) \/ Gate(w)
  PROVE  IInv'
<1>. USE DEF IInv
<1>1. /\ UNCHANGED <<trialOver, used, proExports, plans, pay, payLock, provider, granted>>
      /\ sub' \in Subscription
  BY SubscriptionTypes DEF Context, Gate, subVars, payVars, TypeOK
<1>2. CASE Ends(w)
  <2>1. /\ req' \in [Workers -> Request] /\ (\A v \in Workers : Held(v)') /\ Apart' /\ Ungranted'
    BY <1>1, <1>2, EndsQuietly DEF TypeOK
  <2>. QED
    BY <1>1, <2>1 DEF TypeOK, Counted
<1>3. CASE Context(w) /\ ~Ends(w)
  <2>1. Starts(w, "gate", CopyOf(sub')) /\ CopyOf(sub') \in Loaded
    BY <1>1, <1>3, CopyType DEF Context
  <2>2. PICK r \in Request : r.at = "gate" /\ req' = [req EXCEPT ![w] = r]
    BY <2>1, StartType DEF Starts
  <2>3. /\ req' \in [Workers -> Request] /\ (\A v \in Workers : Held(v)') /\ Apart' /\ Ungranted'
    BY <1>1, <2>2, QuietRequest DEF TypeOK
  <2>. QED
    BY <1>1, <2>3 DEF TypeOK, Counted
<1>4. CASE Gate(w) /\ ~Ends(w)
  <2>. DEFINE r == [req[w] EXCEPT !.at = "export_gated"]
  <2>1. r \in Request /\ r.at = "export_gated"
    BY DEF TypeOK, Request
  <2>2. req' = [req EXCEPT ![w] = r]
    BY <1>4 DEF Gate, Goes
  <2>. HIDE DEF r
  <2>3. /\ req' \in [Workers -> Request] /\ (\A v \in Workers : Held(v)') /\ Apart' /\ Ungranted'
    BY <1>1, <2>1, <2>2, QuietRequest DEF TypeOK
  <2>. QED
    BY <1>1, <2>3 DEF TypeOK, Counted
<1>. QED
  BY <1>2, <1>3, <1>4

LEMMA ExportSteps ==
  ASSUME IInv, NEW w \in Workers, Record(w) \/ Cancel(w) \/ PlanNotFound(w)
  PROVE  IInv'
<1>. USE DEF IInv
<1>1. /\ Ends(w) /\ UNCHANGED <<trialOver, plans, pay, payLock, provider, granted>>
  BY DEF Record, Cancel, PlanNotFound, subVars, payVars
<1>2. /\ req' \in [Workers -> Request] /\ (\A v \in Workers : Held(v)') /\ Apart' /\ Ungranted'
  BY <1>1, EndsQuietly DEF TypeOK
<1>3. sub' \in Subscription
  BY SubscriptionTypes DEF Record, Cancel, PlanNotFound, subVars, TypeOK, Statuses
<1>4. used' \in Nat /\ proExports' \in Nat /\ Counted'
  <2>1. CASE Record(w)
    <3>1. used \in Nat /\ proExports \in Nat
      BY DEF TypeOK
    <3>2. UNCHANGED <<used, proExports>> \/ Counts(w, used)
      BY <2>1 DEF Record
    <3>. QED
      BY <3>1, <3>2 DEF Counts, Counted
  <2>2. CASE Cancel(w) \/ PlanNotFound(w)
    BY <2>2 DEF Cancel, PlanNotFound, subVars, TypeOK, Counted
  <2>. QED
    BY <2>1, <2>2
<1>. QED
  BY <1>1, <1>2, <1>3, <1>4 DEF TypeOK

-----------------------------------------------------------------------------
(* Checkout and verification.                                               *)
LEMMA CheckoutSteps ==
  ASSUME IInv, NEW w \in Workers,
         (\E p \in Payments, q \in Plans : BeginCheckout(w, p, q)) \/ CommitCheckout(w)
  PROVE  IInv'
<1>. USE DEF IInv
<1>0. req \in [Workers -> Request] /\ pay \in [Payments -> Payment]
  BY DEF TypeOK
<1>1. ASSUME NEW p \in Payments, NEW q \in Plans, BeginCheckout(w, p, q)
      PROVE  IInv'
  <2>. DEFINE r == [Idle EXCEPT !.at = "initialize", !.pay = p, !.plan = q]
  <2>1. r \in Request /\ r.at = "initialize" /\ r.pay = p /\ r.plan = q
    BY IdleType DEF Request, Idle
  <2>2. /\ req' = [req EXCEPT ![w] = r] /\ pay[p].status = "none"
        /\ \A v \in Workers : req[v].pay # p
        /\ UNCHANGED <<sub, trialOver, used, proExports, plans, pay, payLock, provider, granted>>
    BY <1>1 DEF BeginCheckout, subVars, payVars
  <2>. HIDE DEF r
  <2>3. /\ req' \in [Workers -> Request] /\ req'[w] = r
        /\ \A v \in Workers \ {w} : req'[v] = req[v]
    BY <1>0, <2>1, <2>2
  <2>4. \A v \in Workers : Held(v)'
    BY <2>1, <2>2, <2>3 DEF Held
  <2>5. Apart'
    BY <2>1, <2>2, <2>3 DEF Apart
  <2>. QED
    BY <2>2, <2>3, <2>4, <2>5 DEF TypeOK, Counted, Ungranted
<1>2. CASE CommitCheckout(w)
  <2>. DEFINE p == req[w].pay
              x == [status |-> "pending", plan |-> req[w].plan]
  <2>1. /\ p \in Payments /\ pay[p].status = "none" /\ req[w].at = "initialize"
        /\ x \in Payment /\ x.status = "pending"
    BY <1>2 DEF CommitCheckout, Held, Payment
  <2>2. /\ pay' = [pay EXCEPT ![p] = x] /\ Ends(w)
        /\ UNCHANGED <<sub, trialOver, used, proExports, plans, payLock, provider, granted>>
    BY <1>2 DEF CommitCheckout, subVars
  <2>3. /\ req' \in [Workers -> Request] /\ req'[w] = Idle
        /\ \A v \in Workers \ {w} : req'[v] = req[v]
    BY <1>0, <2>2, IdleType DEF Ends
  <2>. HIDE DEF x
  <2>4. pay' \in [Payments -> Payment] /\ \A y \in Payments \ {p} : pay'[y] = pay[y]
    BY <1>0, <2>1, <2>2
  <2>5. ASSUME NEW v \in Workers PROVE Held(v)'
    <3>1. CASE v = w
      BY <2>3, <3>1, IdleType DEF Held
    <3>2. CASE v # w
      <4>1. req'[v] = req[v] /\ Held(v)
        BY <2>3, <3>2
      <4>2. req[v].at \in {"initialize", "ask", "activate"} => req[v].pay # p
        BY <2>1, <3>2 DEF Held, Apart
      <4>. QED
        BY <2>2, <2>4, <4>1, <4>2 DEF Held
    <3>. QED
      BY <3>1, <3>2
  <2>6. Apart'
    BY <2>3, IdleType DEF Apart
  <2>7. Ungranted'
    BY <2>1, <2>2, <2>4 DEF Ungranted
  <2>. QED
    BY <2>2, <2>3, <2>4, <2>5, <2>6, <2>7 DEF TypeOK, Counted
<1>. QED
  BY <1>1, <1>2

LEMMA BeginVerifyStep ==
  ASSUME IInv, NEW w \in Workers, NEW p \in Payments, BeginVerify(w, p)
  PROVE  IInv'
<1>. USE DEF IInv
<1>0. /\ req \in [Workers -> Request] /\ pay[p] \in Payment
      /\ payLock \in [Payments -> Workers \union {NoWorker}] /\ NoWorker \notin Workers
  BY NullsAssumption DEF TypeOK
<1>. DEFINE r == [Idle EXCEPT !.at = "ask", !.pay = p, !.plan = pay[p].plan]
<1>1. r \in Request /\ r.at = "ask" /\ r.pay = p
  <2>1. pay[p].plan \in Plans \union {NoPlan}
    BY <1>0 DEF Payment
  <2>. QED
    BY <2>1, IdleType DEF Request, Idle
<1>2. /\ req' = [req EXCEPT ![w] = r] /\ payLock' = [payLock EXCEPT ![p] = w]
      /\ pay[p].status = "pending" /\ payLock[p] = NoWorker
      /\ UNCHANGED <<sub, trialOver, used, proExports, plans, pay, provider, granted>>
  BY DEF BeginVerify, subVars
<1>. HIDE DEF r
<1>3. /\ req' \in [Workers -> Request] /\ req'[w] = r
      /\ \A v \in Workers \ {w} : req'[v] = req[v]
      /\ payLock' \in [Payments -> Workers \union {NoWorker}] /\ payLock'[p] = w
      /\ \A y \in Payments \ {p} : payLock'[y] = payLock[y]
  BY <1>0, <1>1, <1>2
<1>4. ASSUME NEW v \in Workers PROVE Held(v)'
  <2>1. CASE v = w
    BY <1>1, <1>2, <1>3, <2>1 DEF Held
  <2>2. CASE v # w
    <3>1. req'[v] = req[v] /\ Held(v)
      BY <1>3, <2>2
    <3>2. req[v].at = "ask" => req[v].pay # p
      BY <1>0, <1>2 DEF Held
    <3>. QED
      BY <1>2, <1>3, <3>1, <3>2 DEF Held
  <2>. QED
    BY <2>1, <2>2
<1>5. Apart'
  BY <1>1, <1>3 DEF Apart
<1>. QED
  BY <1>2, <1>3, <1>4, <1>5 DEF TypeOK, Counted, Ungranted

LEMMA ConcludeSteps ==
  ASSUME IInv, NEW w \in Workers, Succeed(w) \/ Fail(w)
  PROVE  IInv'
<1>. USE DEF IInv
<1>. DEFINE p == req[w].pay
<1>0. /\ req \in [Workers -> Request] /\ pay \in [Payments -> Payment]
      /\ payLock \in [Payments -> Workers \union {NoWorker}]
      /\ req[w].at = "ask" /\ p \in Payments /\ payLock[p] = w
      /\ pay[p].status = "pending" /\ pay[p] \in Payment
  BY DEF TypeOK, Held, Succeed, Fail
<1>1. PICK st \in {"succeeded", "failed"} :
        /\ pay' = [pay EXCEPT ![p].status = st]
        /\ payLock' = [payLock EXCEPT ![p] = NoWorker]
        /\ UNCHANGED <<sub, trialOver, used, proExports, plans, provider, granted>>
        /\ \/ st = "succeeded" /\ req' = [req EXCEPT ![w].at = "activate"]
           \/ st = "failed" /\ req' = [req EXCEPT ![w] = Idle]
  BY DEF Succeed, Fail, Goes, Ends, subVars
<1>2. /\ [pay[p] EXCEPT !.status = st] \in Payment
      /\ [pay[p] EXCEPT !.status = st].status = st
  BY <1>0 DEF Payment
<1>3. /\ pay' \in [Payments -> Payment] /\ pay'[p].status = st
      /\ \A y \in Payments \ {p} : pay'[y] = pay[y] /\ payLock'[y] = payLock[y]
      /\ payLock' \in [Payments -> Workers \union {NoWorker}]
  BY <1>0, <1>1, <1>2
<1>4. /\ req' \in [Workers -> Request] /\ \A v \in Workers \ {w} : req'[v] = req[v]
      /\ \/ st = "succeeded" /\ req'[w].at = "activate" /\ req'[w].pay = p
         \/ st = "failed" /\ req'[w].at = "idle"
  <2>1. /\ [req[w] EXCEPT !.at = "activate"] \in Request
        /\ [req[w] EXCEPT !.at = "activate"].at = "activate"
        /\ [req[w] EXCEPT !.at = "activate"].pay = p
    BY <1>0 DEF Request
  <2>. QED
    BY <1>0, <1>1, <2>1, IdleType
<1>. HIDE DEF p
<1>5. \A v \in Workers : req[v].at \in {"initialize", "activate"} => req[v].pay # p
  BY <1>0 DEF Held
<1>6. granted[p] = 0
  BY <1>0 DEF Ungranted
<1>7. ASSUME NEW v \in Workers PROVE Held(v)'
  <2>1. CASE v = w
    BY <1>0, <1>1, <1>3, <1>4, <1>6, <2>1 DEF Held
  <2>2. CASE v # w
    <3>1. req'[v] = req[v] /\ Held(v)
      BY <1>4, <2>2
    <3>2. req[v].at \in {"initialize", "ask", "activate"} => req[v].pay # p
      BY <1>0, <1>5, <2>2 DEF Held
    <3>. QED
      BY <1>1, <1>3, <3>1, <3>2 DEF Held
  <2>. QED
    BY <2>1, <2>2
<1>8. Apart'
  BY <1>4, <1>5 DEF Apart
<1>9. Ungranted'
  BY <1>0, <1>1, <1>3 DEF Ungranted
<1>. QED
  BY <1>1, <1>3, <1>4, <1>7, <1>8, <1>9 DEF TypeOK, Counted

LEMMA ActivateStep ==
  ASSUME IInv, NEW w \in Workers, Activate(w)
  PROVE  IInv'
<1>. USE DEF IInv
<1>. DEFINE p == req[w].pay
<1>0. /\ req \in [Workers -> Request] /\ granted \in [Payments -> Nat]
      /\ req[w].at = "activate" /\ p \in Payments /\ req[w] \in Request
      /\ granted[p] = 0 /\ pay[p].status = "succeeded"
  BY DEF TypeOK, Held, Activate
<1>1. PICK tier \in Tiers : Activated(w, tier)
  <2>1. CASE req[w].plan = NoPlan /\ Activated(w, "professional")
    BY <2>1 DEF Tiers
  <2>2. CASE req[w].plan \in Plans /\ Activated(w, plans[req[w].plan].tier)
    BY <2>2 DEF TypeOK, Plan
  <2>. QED
    BY <2>1, <2>2 DEF Activate
<1>2. /\ sub' = [status |-> "active", tier |-> tier, plan |-> req[w].plan]
      /\ granted' = [granted EXCEPT ![p] = granted[p] + 1] /\ Ends(w)
      /\ UNCHANGED <<trialOver, used, proExports, plans, pay, payLock, provider>>
  BY <1>1 DEF Activated
<1>3. sub' \in Subscription
  BY <1>0, <1>2 DEF Subscription, Statuses, Request
<1>4. /\ req' \in [Workers -> Request] /\ req'[w] = Idle
      /\ \A v \in Workers \ {w} : req'[v] = req[v]
      /\ granted' \in [Payments -> Nat]
      /\ \A y \in Payments \ {p} : granted'[y] = granted[y]
  BY <1>0, <1>2, IdleType DEF Ends
<1>. HIDE DEF p
<1>5. ASSUME NEW v \in Workers PROVE Held(v)'
  <2>1. CASE v = w
    BY <1>4, <2>1, IdleType DEF Held
  <2>2. CASE v # w
    <3>1. req'[v] = req[v] /\ Held(v)
      BY <1>4, <2>2
    <3>2. req[v].at = "activate" => req[v].pay # p
      BY <1>0, <2>2 DEF Apart, p
    <3>. QED
      BY <1>2, <1>4, <3>1, <3>2 DEF Held
  <2>. QED
    BY <2>1, <2>2
<1>6. Apart'
  BY <1>4, IdleType DEF Apart
<1>7. Ungranted'
  BY <1>0, <1>2, <1>4 DEF Ungranted
<1>. QED
  BY <1>2, <1>3, <1>4, <1>5, <1>6, <1>7 DEF TypeOK, Counted

-----------------------------------------------------------------------------
(* Plans, time and failures.                                                *)
LEMMA DeleteSteps ==
  ASSUME IInv, NEW w \in Workers,
         (\E q \in Plans : BeginDelete(w, q)) \/ LockPlan(w) \/ CommitDelete(w)
  PROVE  IInv'
<1>. USE DEF IInv
<1>0. req[w] \in Request /\ req \in [Workers -> Request]
  BY DEF TypeOK
<1>1. ASSUME NEW q \in Plans, BeginDelete(w, q)
      PROVE  IInv'
  <2>. DEFINE r == [Idle EXCEPT !.at = "delete", !.plan = q]
  <2>1. r \in Request /\ r.at = "delete" /\ r.plan = q
    BY IdleType DEF Request, Idle
  <2>2. /\ req' = [req EXCEPT ![w] = r]
        /\ UNCHANGED <<sub, trialOver, used, proExports, plans, pay, payLock, provider, granted>>
    BY <1>1 DEF BeginDelete, subVars, payVars
  <2>. HIDE DEF r
  <2>3. /\ req' \in [Workers -> Request]
        /\ (\A v \in Workers : Held(v)') /\ Apart' /\ Ungranted'
    BY <2>1, <2>2, QuietRequest DEF TypeOK
  <2>. QED
    BY <2>2, <2>3 DEF TypeOK, Counted
<1>2. CASE LockPlan(w)
  <2>. DEFINE r == [req[w] EXCEPT !.at = "delete_references"]
  <2>1. r \in Request /\ r.at = "delete_references" /\ r.plan \in Plans
    BY <1>0, <1>2 DEF Request, LockPlan, Held
  <2>2. /\ req' = [req EXCEPT ![w] = r]
        /\ UNCHANGED <<sub, trialOver, used, proExports, plans, pay, payLock, provider, granted>>
    BY <1>2 DEF LockPlan, Goes, subVars, payVars
  <2>. HIDE DEF r
  <2>3. /\ req' \in [Workers -> Request]
        /\ (\A v \in Workers : Held(v)') /\ Apart' /\ Ungranted'
    BY <2>1, <2>2, QuietRequest DEF TypeOK
  <2>. QED
    BY <2>2, <2>3 DEF TypeOK, Counted
<1>3. CASE CommitDelete(w)
  <2>. DEFINE q == req[w].plan
  <2>1. /\ Ends(w) /\ plans' = [plans EXCEPT ![q].here = FALSE]
        /\ pay' = [p \in Payments |-> IF pay[p].plan = q
                                      THEN [pay[p] EXCEPT !.plan = NoPlan] ELSE pay[p]]
        /\ sub' = IF sub.plan = q THEN [sub EXCEPT !.plan = NoPlan] ELSE sub
        /\ UNCHANGED <<trialOver, used, proExports, payLock, provider, granted>>
    BY <1>3 DEF CommitDelete
  <2>2. q \in Plans
    BY <1>3 DEF CommitDelete, Held
  <2>3. plans' \in [Plans -> Plan]
    BY <2>1, <2>2 DEF TypeOK, Plan
  <2>4. sub' \in Subscription
    BY <2>1 DEF TypeOK, Subscription
  <2>5. ASSUME NEW p \in Payments
        PROVE  pay'[p] \in Payment /\ pay'[p].status = pay[p].status
    BY <2>1 DEF TypeOK, Payment
  <2>6. pay' \in [Payments -> Payment]
    <3>. HIDE DEF q
    <3>. QED
      BY <2>1, <2>5
  <2>7. /\ req' \in [Workers -> Request]
        /\ (\A v \in Workers : Held(v)') /\ Apart' /\ Ungranted'
    BY <2>1, <2>5, <2>6, EndsQuietly
  <2>. QED
    BY <2>1, <2>3, <2>4, <2>6, <2>7 DEF TypeOK, Counted
<1>. QED
  BY <1>1, <1>2, <1>3

(* A step of nobody's request.                                              *)
LEMMA OtherSteps ==
  ASSUME IInv,
         \/ \E p \in Payments, outcome \in {"paid", "failed"} : Settle(p, outcome)
         \/ \E u \in AdminUpdates : AdminUpdate(u)
         \/ \E q \in Plans, u \in PlanUpdates : UpdatePlan(q, u)
         \/ EndTrial \/ NextDay
  PROVE  IInv'
<1>. USE DEF IInv
<1>0. /\ pay' = pay /\ payLock' = payLock /\ granted' = granted
      /\ req \in [Workers -> Request]
  BY DEF Settle, AdminUpdate, UpdatePlan, EndTrial, NextDay, payVars, TypeOK
<1>1. /\ req' \in [Workers -> Request]
      /\ \A v \in Workers : /\ req'[v].at = req[v].at /\ req'[v].pay = req[v].pay
                            /\ req'[v].plan = req[v].plan
  BY <1>0 DEF Settle, AdminUpdate, UpdatePlan, EndTrial, NextDay
<1>2. (\A v \in Workers : Held(v)') /\ Apart' /\ Ungranted'
  BY <1>0, <1>1 DEF Held, Apart, Ungranted
<1>3. sub' \in Subscription
  <2>1. ASSUME NEW u \in AdminUpdates, AdminUpdate(u)
        PROVE  sub' \in Subscription
    <3>1. u.status \in Statuses /\ u.tier \in Tiers
      BY AdminAssumption DEF Statuses, Tiers
    <3>2. [sub EXCEPT !.status = u.status] \in Subscription
      BY <3>1 DEF TypeOK, Subscription
    <3>3. [[sub EXCEPT !.status = u.status] EXCEPT !.tier = u.tier] \in Subscription
      BY <3>1, <3>2 DEF Subscription
    <3>4. sub' = [[sub EXCEPT !.status = u.status] EXCEPT !.tier = u.tier]
      BY <2>1 DEF AdminUpdate
    <3>. QED
      BY <3>3, <3>4
  <2>. QED
    BY <2>1 DEF Settle, UpdatePlan, EndTrial, NextDay, subVars, TypeOK
<1>4. plans' \in [Plans -> Plan]
  <2>1. ASSUME NEW q \in Plans, NEW u \in PlanUpdates, UpdatePlan(q, u)
        PROVE  plans' \in [Plans -> Plan]
    <3>. DEFINE x0 == [plans[q] EXCEPT !.active = u.active]
                x == [x0 EXCEPT !.tier = u.tier]
    <3>1. u.active \in BOOLEAN /\ u.tier \in Tiers
      BY AdminAssumption DEF Tiers
    <3>2. x0 \in Plan
      BY <3>1 DEF TypeOK, Plan
    <3>3. x \in Plan
      BY <3>1, <3>2 DEF Plan
    <3>4. plans' = [plans EXCEPT ![q] = x]
      BY <2>1 DEF UpdatePlan, TypeOK
    <3>. HIDE DEF x
    <3>. QED
      BY <3>3, <3>4 DEF TypeOK
  <2>. QED
    BY <2>1 DEF Settle, AdminUpdate, EndTrial, NextDay, TypeOK
<1>5. provider' \in [Payments -> {"unsettled", "paid", "failed"}]
  BY DEF Settle, AdminUpdate, UpdatePlan, EndTrial, NextDay, payVars, TypeOK
<1>6. trialOver' \in BOOLEAN
  BY DEF Settle, AdminUpdate, UpdatePlan, EndTrial, NextDay, subVars, TypeOK
<1>7. used' \in Nat /\ proExports' \in Nat /\ Counted'
  <2>1. CASE NextDay
    BY <2>1 DEF NextDay, Counted
  <2>2. CASE ~NextDay
    <3>1. used' = used /\ proExports' = proExports
      BY <2>2 DEF Settle, AdminUpdate, UpdatePlan, EndTrial, subVars
    <3>. QED
      BY <3>1 DEF TypeOK, Counted
  <2>. QED
    BY <2>1, <2>2
<1>. QED
  BY <1>0, <1>1, <1>2, <1>3, <1>4, <1>5, <1>6, <1>7 DEF TypeOK

LEMMA AbortStep ==
  ASSUME IInv, NEW w \in Workers, Abort(w)
  PROVE  IInv'
<1>. USE DEF IInv
<1>1. /\ Ends(w) /\ UNCHANGED <<sub, trialOver, used, proExports, plans, pay, provider, granted>>
      /\ payLock' = [p \in Payments |-> IF payLock[p] = w THEN NoWorker ELSE payLock[p]]
  BY DEF Abort, subVars
<1>2. /\ payLock' \in [Payments -> Workers \union {NoWorker}]
      /\ \A p \in Payments, v \in Workers \ {w} : payLock[p] = v => payLock'[p] = v
  BY <1>1 DEF TypeOK
<1>3. /\ req' \in [Workers -> Request]
      /\ (\A v \in Workers : Held(v)') /\ Apart' /\ Ungranted'
  BY <1>1, <1>2, EndsQuietly DEF TypeOK
<1>. QED
  BY <1>1, <1>2, <1>3 DEF TypeOK, Counted

-----------------------------------------------------------------------------
LEMMA NextIInv == IInv /\ [Next]_vars => IInv'
<1>. SUFFICES ASSUME IInv, [Next]_vars PROVE IInv'
  OBVIOUS
<1>1. ASSUME NEW w \in Workers,
             \/ \E to \in {"view", "export"} : Ensure(w, to)
             \/ \E to \in {"record", "cancel"} : Contextualize(w, to)
      PROVE  IInv'
  BY <1>1, EnsureStep
<1>2. ASSUME NEW w \in Workers, Context(w) \/ Gate(w)
      PROVE  IInv'
  BY <1>2, ContextSteps
<1>3. ASSUME NEW w \in Workers, Record(w) \/ Cancel(w) \/ PlanNotFound(w)
      PROVE  IInv'
  BY <1>3, ExportSteps
<1>4. ASSUME NEW w \in Workers,
             (\E p \in Payments, q \in Plans : BeginCheckout(w, p, q)) \/ CommitCheckout(w)
      PROVE  IInv'
  BY <1>4, CheckoutSteps
<1>5. ASSUME NEW w \in Workers, \E p \in Payments : BeginVerify(w, p)
      PROVE  IInv'
  BY <1>5, BeginVerifyStep
<1>6. ASSUME NEW w \in Workers, Succeed(w) \/ Fail(w)
      PROVE  IInv'
  BY <1>6, ConcludeSteps
<1>7. ASSUME NEW w \in Workers, Activate(w) \/ Abort(w)
      PROVE  IInv'
  BY <1>7, ActivateStep, AbortStep
<1>8. ASSUME NEW w \in Workers,
             (\E q \in Plans : BeginDelete(w, q)) \/ LockPlan(w) \/ CommitDelete(w)
      PROVE  IInv'
  BY <1>8, DeleteSteps
<1>9. CASE UNCHANGED vars
  BY <1>9 DEF vars, IInv, TypeOK, Held, Apart, Counted, Ungranted
<1>. QED
  BY <1>1, <1>2, <1>3, <1>4, <1>5, <1>6, <1>7, <1>8, <1>9, OtherSteps DEF Next

LEMMA Inductive == Spec => []IInv
BY InitIInv, NextIInv, PTL DEF Spec

-----------------------------------------------------------------------------
(* The rows, the locks and the requests on them keep their types.           *)
THEOREM TypeCorrect == Spec => []TypeOK
BY Inductive, PTL DEF IInv

(* The steps of Billing as steps of PaymentLifecycle.                       *)
LEMMA LifecycleInit == Init => Lifecycle!Init
BY DEF Init, Lifecycle!Init

LEMMA ConcludingSteps ==
  ASSUME IInv, NEW w \in Workers, CommitCheckout(w) \/ Succeed(w) \/ Fail(w)
  PROVE  Lifecycle!Next
<1>. USE DEF IInv
<1>0. Held(w)
  OBVIOUS
<1>p. PICK p \in Payments : p = req[w].pay
  BY <1>0 DEF CommitCheckout, Succeed, Fail, Held
<1>1. /\ UNCHANGED <<provider, granted>>
      /\ \E st \in {"pending", "succeeded", "failed"} :
           /\ \A r \in Payments : pay'[r].status = IF r = p THEN st ELSE pay[r].status
           /\ IF st = "pending" THEN pay[p].status = "none" ELSE pay[p].status = "pending"
           /\ st = "succeeded" => provider[p] = "paid"
           /\ st = "failed" => provider[p] = "failed"
  <2>1. CASE CommitCheckout(w)
    BY <1>0, <1>p, <2>1 DEF CommitCheckout, Held, TypeOK, subVars
  <2>2. CASE Succeed(w)
    BY <1>0, <1>p, <2>2 DEF Succeed, Held, TypeOK, Payment
  <2>3. CASE Fail(w)
    BY <1>0, <1>p, <2>3 DEF Fail, Held, TypeOK, Payment
  <2>. QED
    BY <2>1, <2>2, <2>3
<1>2. PICK st \in {"pending", "succeeded", "failed"} :
        /\ \A r \in Payments : pay'[r].status = IF r = p THEN st ELSE pay[r].status
        /\ IF st = "pending" THEN pay[p].status = "none" ELSE pay[p].status = "pending"
        /\ st = "succeeded" => provider[p] = "paid"
        /\ st = "failed" => provider[p] = "failed"
  BY <1>1
<1>3. [r \in Payments |-> pay'[r].status]
        = [[r \in Payments |-> pay[r].status] EXCEPT ![p] = st]
  BY <1>1, <1>2
<1>4. Lifecycle!Open(p) \/ Lifecycle!Conclude(p)
  BY <1>1, <1>2, <1>3 DEF Lifecycle!Open, Lifecycle!Conclude
<1>. QED
  BY <1>4 DEF Lifecycle!Next

LEMMA GrantingStep ==
  ASSUME IInv, NEW w \in Workers, Activate(w)
  PROVE  Lifecycle!Next
<1>. USE DEF IInv
<1>. DEFINE p == req[w].pay
<1>1. req[w].at = "activate" /\ UNCHANGED <<pay, provider>>
      /\ granted' = [granted EXCEPT ![p] = @ + 1]
  BY DEF Activate, Activated
<1>2. p \in Payments /\ granted[p] = 0 /\ pay[p].status = "succeeded"
  BY <1>1 DEF Held
<1>. HIDE DEF p
<1>3. granted' = [granted EXCEPT ![p] = 1]
  BY <1>1, <1>2
<1>4. Lifecycle!Grant(p)
  BY <1>1, <1>2, <1>3 DEF Lifecycle!Grant
<1>. QED
  BY <1>2, <1>4 DEF Lifecycle!Next

LEMMA LifecycleNext == IInv /\ [Next]_vars => [Lifecycle!Next]_(Lifecycle!vars)
<1>. SUFFICES ASSUME IInv, [Next]_vars PROVE Lifecycle!Next \/ UNCHANGED Lifecycle!vars
  OBVIOUS
<1>1. ASSUME NEW w \in Workers, CommitCheckout(w) \/ Succeed(w) \/ Fail(w) \/ Activate(w)
      PROVE  Lifecycle!Next
  BY <1>1, ConcludingSteps, GrantingStep
<1>2. ASSUME NEW p \in Payments, NEW outcome \in {"paid", "failed"}, Settle(p, outcome)
      PROVE  Lifecycle!Next
  <2>1. Lifecycle!Settle(p, outcome)
    BY <1>2 DEF Settle, Lifecycle!Settle
  <2>. QED
    BY <2>1 DEF Lifecycle!Next
<1>3. ASSUME NEW w \in Workers, CommitDelete(w)
      PROVE  UNCHANGED Lifecycle!vars
  <2>1. /\ UNCHANGED <<provider, granted>>
        /\ \A p \in Payments : pay'[p] = IF pay[p].plan = req[w].plan
                                         THEN [pay[p] EXCEPT !.plan = NoPlan] ELSE pay[p]
    BY <1>3 DEF CommitDelete
  <2>2. \A p \in Payments : pay'[p].status = pay[p].status
    BY <2>1 DEF IInv, TypeOK, Payment
  <2>. QED
    BY <2>1, <2>2 DEF Lifecycle!vars
<1>4. ASSUME UNCHANGED <<pay, provider, granted>>
      PROVE  UNCHANGED Lifecycle!vars
  BY <1>4 DEF Lifecycle!vars
<1>5. ASSUME NEW w \in Workers,
             \/ \E to \in {"view", "export"} : Ensure(w, to)
             \/ \E to \in {"record", "cancel"} : Contextualize(w, to)
             \/ Context(w) \/ Gate(w) \/ Record(w) \/ Cancel(w)
             \/ \E p \in Payments, q \in Plans : BeginCheckout(w, p, q)
             \/ \E p \in Payments : BeginVerify(w, p)
             \/ PlanNotFound(w) \/ (\E q \in Plans : BeginDelete(w, q)) \/ LockPlan(w)
             \/ Abort(w)
      PROVE  UNCHANGED <<pay, provider, granted>>
  BY <1>5 DEF Ensure, Contextualize, Context, Gate, Record, Cancel, BeginCheckout, BeginVerify,
              PlanNotFound, BeginDelete, LockPlan, Abort, payVars
<1>6. ASSUME \/ \E u \in AdminUpdates : AdminUpdate(u)
             \/ \E q \in Plans, u \in PlanUpdates : UpdatePlan(q, u)
             \/ EndTrial \/ NextDay \/ UNCHANGED vars
      PROVE  UNCHANGED <<pay, provider, granted>>
  BY <1>6 DEF AdminUpdate, UpdatePlan, EndTrial, NextDay, payVars, vars
<1>. QED
  BY <1>1, <1>2, <1>3, <1>4, <1>5, <1>6 DEF Next

(* A payment is a payment of PaymentLifecycle: it is concluded once, with    *)
(* the provider's own answer, and granted at most once, whichever webhooks,  *)
(* polls, rollbacks and plan deletions overlap.                              *)
THEOREM ImplementsPromise == Spec => ImplementsLifecycle
BY LifecycleInit, LifecycleNext, Inductive, PTL DEF Spec, ImplementsLifecycle, Lifecycle!Spec

-----------------------------------------------------------------------------
(* The lock on the subscription is enough for the quota: the usage is read   *)
(* under it, by whatever copy of the subscription the tier is decided.       *)
THEOREM QuotaKept == Spec => []ExportsWithinQuota
<1>1. Init => ExportsWithinQuota
  BY QuotaAssumption DEF Init, ExportsWithinQuota
<1>2. ASSUME IInv, ExportsWithinQuota, NEW w \in Workers, Record(w)
      PROVE  ExportsWithinQuota'
  <2>0. used \in Nat /\ proExports \in Nat /\ proExports <= used /\ Quota \in Nat
    BY <1>2, QuotaAssumption DEF IInv, TypeOK, Counted
  <2>1. CASE proExports' = proExports
    BY <2>1, <1>2 DEF ExportsWithinQuota
  <2>2. CASE proExports' # proExports
    <3>1. CanExport(Recorded(w), used) /\ Counts(w, used)
      BY <1>2, <2>2 DEF Record
    <3>2. EffectiveTier(Recorded(w)) = "professional" /\ proExports' = proExports + 1
      BY <2>2, <3>1 DEF Counts
    <3>3. used < Quota
      BY <3>1, <3>2 DEF CanExport
    <3>. QED
      BY <2>0, <3>2, <3>3 DEF ExportsWithinQuota
  <2>. QED
    BY <2>1, <2>2
<1>3. IInv /\ ExportsWithinQuota /\ [Next]_vars => ExportsWithinQuota'
  <2>. SUFFICES ASSUME IInv, ExportsWithinQuota, [Next]_vars PROVE ExportsWithinQuota'
    OBVIOUS
  <2>1. CASE \E w \in Workers : Record(w)
    BY <1>2, <2>1
  <2>2. CASE NextDay
    BY <2>2, QuotaAssumption DEF NextDay, ExportsWithinQuota
  <2>3. CASE ~(\E w \in Workers : Record(w)) /\ ~NextDay
    <3>1. proExports' = proExports
      BY <2>3 DEF Next, vars, Ensure, Contextualize, Context, Gate, Cancel, BeginCheckout,
                  CommitCheckout, Settle, BeginVerify, Succeed, Fail, Activate, Activated,
                  PlanNotFound, AdminUpdate, UpdatePlan, BeginDelete, LockPlan, CommitDelete,
                  EndTrial, Abort, subVars
    <3>. QED
      BY <3>1 DEF ExportsWithinQuota
  <2>. QED
    BY <2>1, <2>2, <2>3
<1>. QED
  BY <1>1, <1>3, Inductive, PTL DEF Spec

(* An active subscription lapses only by an admin: what is expired is a      *)
(* trial under the lock on its row, or a copy that is rolled back.           *)
THEOREM ActiveStays == Spec => PaidStaysActive
<1>1. ASSUME IInv, [Next]_vars, sub.status = "active", sub'.status = "expired"
      PROVE  \E u \in AdminUpdates : AdminUpdate(u)
  <2>0. sub \in Subscription
    BY <1>1 DEF IInv, TypeOK
  <2>1. ASSUME NEW w \in Workers,
               \/ \E to \in {"view", "export"} : Ensure(w, to)
               \/ \E to \in {"record", "cancel"} : Contextualize(w, to)
               \/ Context(w)
        PROVE  FALSE
    BY <1>1, <2>1 DEF Ensure, Contextualize, Context, Expired, Lapsed, NewTrial
  <2>2. ASSUME NEW w \in Workers, Cancel(w) \/ Activate(w) \/ CommitDelete(w)
        PROVE  FALSE
    BY <1>1, <2>0, <2>2 DEF Cancel, Activate, Activated, CommitDelete, Subscription
  <2>3. ASSUME NEW w \in Workers,
               \/ Gate(w) \/ Record(w) \/ CommitCheckout(w) \/ Succeed(w) \/ Fail(w)
               \/ \E p \in Payments, q \in Plans : BeginCheckout(w, p, q)
               \/ \E p \in Payments : BeginVerify(w, p)
               \/ PlanNotFound(w) \/ (\E q \in Plans : BeginDelete(w, q)) \/ LockPlan(w)
               \/ Abort(w)
        PROVE  FALSE
    <3>1. sub' = sub
      BY <2>3 DEF Gate, Record, CommitCheckout, Succeed, Fail, BeginCheckout, BeginVerify,
                  PlanNotFound, BeginDelete, LockPlan, Abort, subVars
    <3>. QED
      BY <1>1, <3>1
  <2>4. ASSUME \/ \E p \in Payments, outcome \in {"paid", "failed"} : Settle(p, outcome)
               \/ \E q \in Plans, u \in PlanUpdates : UpdatePlan(q, u)
               \/ EndTrial \/ NextDay \/ UNCHANGED vars
        PROVE  FALSE
    <3>1. sub' = sub
      BY <2>4 DEF Settle, UpdatePlan, EndTrial, NextDay, subVars, vars
    <3>. QED
      BY <1>1, <3>1
  <2>. QED
    BY <1>1, <2>1, <2>2, <2>3, <2>4 DEF Next
<1>2. IInv /\ [Next]_vars =>
        [sub.status = "active" /\ sub'.status = "expired" =>
           \E u \in AdminUpdates : AdminUpdate(u)]_vars
  BY <1>1
<1>. QED
  BY <1>2, Inductive, PTL DEF Spec, PaidStaysActive
=============================================================================
