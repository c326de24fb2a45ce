------------------------------ MODULE Billing ------------------------------
(***************************************************************************)
(* The subscription of one subscriber: trial, checkout through Chapa,      *)
(* activation, cancellation, exports against the daily quota, and the      *)
(* plans an admin keeps, as app/services/subscriptions.py, chapa.py and    *)
(* subscription_plans.py run them.                                         *)
(*                                                                         *)
(* A request has one AsyncSession.  Its identity map keeps a row only as   *)
(* long as something refers to the object, as the SubscriptionContext of a *)
(* route does: then a later SELECT ... FOR UPDATE locks the row but gives  *)
(* back the object as it was loaded, and a commit writes the columns whose *)
(* value differs from the loaded one.  A row nothing refers to is read     *)
(* anew.  A rollback discards what was not committed.                      *)
(* The row of the subscription is never locked across a wait, so that each *)
(* transaction on it is one step; the row of a payment is locked while     *)
(* Chapa is asked about it.                                                *)
(***************************************************************************)
EXTENDS Naturals, FiniteSets

CONSTANTS
  Workers,    \* requests that may run at the same time
  NoWorker,   \* nobody: the owner of a row that is not locked
  Payments,   \* payments a checkout may open
  NoPayment,
  Plans,      \* subscription_plans there are at the start
  NoPlan,     \* plan_id IS NULL
  Quota,      \* settings.pro_exports_per_day
  MaxExports, \* bound: exports of one day
  AdminUpdates, \* what admins set: records of a status and a tier
  PlanUpdates   \* what admins set of a plan: records of active and tier

ASSUME NullsAssumption ==
  NoWorker \notin Workers /\ NoPayment \notin Payments /\ NoPlan \notin Plans
ASSUME QuotaAssumption == Quota \in Nat /\ MaxExports \in Nat
ASSUME AdminAssumption ==
  /\ AdminUpdates \subseteq [status: {"none", "trial", "active", "expired", "cancelled"},
                            tier: {"public", "professional", "enterprise"}]
  /\ PlanUpdates \subseteq [active: BOOLEAN, tier: {"public", "professional", "enterprise"}]

VARIABLES
  sub,        \* subscriptions: the row of the subscriber, "absent" before the first
  trialOver,  \* trial_ends_at is in the past
  used,       \* subscription_usage.exports_count of today, 0 for no row
  plans,      \* subscription_plans
  pay,        \* payment_transactions
  payLock,    \* who holds the row of each payment
  provider,   \* what Chapa would answer about each payment
  req,        \* the requests in progress
  granted,    \* history: activations for each payment
  proExports  \* history: exports of today granted to the professional tier

vars == <<sub, trialOver, used, plans, pay, payLock, provider, req, granted, proExports>>

Tiers == {"public", "professional", "enterprise"}
Statuses == {"none", "trial", "active", "expired", "cancelled"}
Subscription == [status: Statuses \union {"absent"}, tier: Tiers, plan: Plans \union {NoPlan}]
Loaded == [status: Statuses \union {"absent"}, tier: Tiers]
Plan == [here: BOOLEAN, active: BOOLEAN, tier: Tiers]
Payment == [status: {"none", "pending", "succeeded", "failed"}, plan: Plans \union {NoPlan}]

\* at: what the request does next.  copy: the subscription its context refers
\* to, "absent" for none; pay, plan: the payment and the plan it is about.
Request ==
  [at: {"idle", "view", "export", "gate", "export_gated", "record", "cancel",
        "initialize", "ask", "activate", "delete", "delete_references"},
   copy: Loaded, pay: Payments \union {NoPayment}, plan: Plans \union {NoPlan}]

NoSubscription == [status |-> "absent", tier |-> "public", plan |-> NoPlan]
NoCopy == [status |-> "absent", tier |-> "public"]
Idle == [at |-> "idle", copy |-> NoCopy, pay |-> NoPayment, plan |-> NoPlan]

TypeOK ==
  /\ sub \in Subscription
  /\ trialOver \in BOOLEAN
  /\ used \in Nat
  /\ plans \in [Plans -> Plan]
  /\ pay \in [Payments -> Payment]
  /\ payLock \in [Payments -> Workers \union {NoWorker}]
  /\ provider \in [Payments -> {"unsettled", "paid", "failed"}]
  /\ req \in [Workers -> Request]
  /\ granted \in [Payments -> Nat]
  /\ proExports \in Nat

Init ==
  /\ sub = NoSubscription
  /\ trialOver = FALSE
  /\ used = 0
  /\ plans \in [Plans -> [here: {TRUE}, active: {TRUE}, tier: {"professional", "enterprise"}]]
  /\ pay = [p \in Payments |-> [status |-> "none", plan |-> NoPlan]]
  /\ payLock = [p \in Payments |-> NoWorker]
  /\ provider = [p \in Payments |-> "unsettled"]
  /\ req = [w \in Workers |-> Idle]
  /\ granted = [p \in Payments |-> 0]
  /\ proExports = 0

subVars == <<sub, trialOver, used, proExports>>
payVars == <<pay, payLock, provider, granted>>

-----------------------------------------------------------------------------
(* Pure functions of SubscriptionService.                                   *)

\* _new_trial_subscription
NewTrial == [status |-> "trial", tier |-> "professional", plan |-> NoPlan]

\* _apply_lazy_expiry does something: only a trial expires.
Lapsed(s) == s.status = "trial" /\ trialOver

\* _apply_lazy_expiry
Expired(s) == IF Lapsed(s) THEN [s EXCEPT !.status = "expired"] ELSE s

\* get_effective_tier
EffectiveTier(s) ==
  IF s.status \in {"trial", "active"} /\ ~(s.status = "trial" /\ trialOver)
  THEN s.tier ELSE "public"

\* can_access(EXPORT), export_quota: n exports were recorded today.
CanExport(s, n) ==
  \/ EffectiveTier(s) = "enterprise"
  \/ EffectiveTier(s) = "professional" /\ n < Quota

-----------------------------------------------------------------------------
(* The subscriber's requests.                                               *)

Goes(w, to) == req' = [req EXCEPT ![w].at = to]
Ends(w) == req' = [req EXCEPT ![w] = Idle]
Starts(w, to, copy) ==
  req' = [req EXCEPT ![w] = [Idle EXCEPT !.at = to, !.copy = copy]]

\* The subscription as the SubscriptionContext of a request refers to it.
CopyOf(s) == [status |-> s.status, tier |-> s.tier]

\* get_current_subscriber: ensure_subscription creates a trial where there is
\* none; the row it returns is dropped.
Ensure(w, to) ==
  /\ req[w].at = "idle"
  /\ sub' = IF sub.status = "absent" THEN NewTrial ELSE sub
  /\ Starts(w, to, NoCopy)
  /\ UNCHANGED <<trialOver, used, proExports, plans, payVars>>

\* get_subscription_context comes before get_current_subscriber: the context
\* refers to the row it expired, or to none if there was none.
Contextualize(w, to) ==
  /\ req[w].at = "idle"
  /\ sub' = IF sub.status = "absent" THEN NewTrial ELSE Expired(sub)
  /\ Starts(w, to, IF sub.status = "absent" THEN NoCopy ELSE CopyOf(sub'))
  /\ UNCHANGED <<trialOver, used, proExports, plans, payVars>>

\* get_context_for_user: the row is locked, expired and committed; the route of
\* an export goes on to refer to it.
Context(w) ==
  /\ req[w].at \in {"view", "export"}
  /\ sub' = Expired(sub)
  /\ IF req[w].at = "view" THEN Ends(w) ELSE Starts(w, "gate", CopyOf(sub'))
  /\ UNCHANGED <<trialOver, used, proExports, plans, payVars>>

\* require_feature(EXPORT), with the exports counted so far.
Gate(w) ==
  /\ req[w].at = "gate"
  /\ IF CanExport(req[w].copy, used) THEN Goes(w, "export_gated") ELSE Ends(w)
  /\ UNCHANGED <<subVars, plans, payVars>>

\* The subscription record_export gets when it has locked the row.
Recorded(w) == IF req[w].copy = NoCopy THEN sub ELSE req[w].copy

Counts(w, n) ==
  /\ used < MaxExports
  /\ used' = n + 1
  /\ proExports' = IF EffectiveTier(Recorded(w)) = "professional"
                   THEN proExports + 1 ELSE proExports

RecordByTheGate(w) ==
  /\ req[w].at \in {"export_gated", "record"}
  /\ IF req[w].at = "export_gated" \/ CanExport(Recorded(w), used) THEN Counts(w, used)
     ELSE UNCHANGED <<used, proExports>>
  /\ Ends(w)
  /\ UNCHANGED <<sub, trialOver, plans, payVars>>

RecordCommitsExpiry(w) ==
  /\ req[w].at \in {"export_gated", "record"}
  /\ IF CanExport(Recorded(w), used) THEN Counts(w, used)
     ELSE UNCHANGED <<used, proExports>>
  /\ sub' = IF Lapsed(Recorded(w)) THEN [sub EXCEPT !.status = "expired"] ELSE sub
  /\ Ends(w)
  /\ UNCHANGED <<trialOver, plans, payVars>>

\* record_export: under the lock on the subscription the usage is read anew and
\* counted.  A trial that is over is expired on the object, which then allows
\* no export, so that the refusal rolls the expiry back.
Record(w) ==
  /\ req[w].at \in {"export_gated", "record"}
  /\ IF CanExport(Recorded(w), used) THEN Counts(w, used)
     ELSE UNCHANGED <<used, proExports>>
  /\ Ends(w)
  /\ UNCHANGED <<sub, trialOver, plans, payVars>>

\* cancel_subscription: a status that was loaded as cancelled is not written.
Cancel(w) ==
  /\ req[w].at = "cancel"
  /\ sub' = IF req[w].copy.status = "cancelled" THEN sub
            ELSE [sub EXCEPT !.status = "cancelled"]
  /\ Ends(w)
  /\ UNCHANGED <<trialOver, used, proExports, plans, payVars>>

-----------------------------------------------------------------------------
(* Checkout and its verification.                                           *)

\* create_checkout: the plan is selected, the payment flushed (which holds a
\* key-share lock on the plan), and Chapa asked for a checkout page.
BeginCheckout(w, p, q) ==
  /\ req[w].at = "idle" /\ sub.status # "absent"
  /\ plans[q].here /\ plans[q].active
  /\ \A v \in Workers : ~(req[v].at = "delete_references" /\ req[v].plan = q)
  /\ pay[p].status = "none" /\ \A v \in Workers : req[v].pay # p
  /\ req' = [req EXCEPT ![w] = [Idle EXCEPT !.at = "initialize", !.pay = p, !.plan = q]]
  /\ UNCHANGED <<subVars, plans, payVars>>

CommitCheckout(w) ==
  /\ req[w].at = "initialize"
  /\ pay' = [pay EXCEPT ![req[w].pay] = [status |-> "pending", plan |-> req[w].plan]]
  /\ Ends(w)
  /\ UNCHANGED <<subVars, plans, payLock, provider, granted>>

\* Chapa: the customer pays or does not; what was paid can be reversed.
Settle(p, outcome) ==
  /\ pay[p].status # "none"
  /\ provider[p] = "unsettled" \/ (provider[p] = "paid" /\ outcome = "failed")
  /\ provider' = [provider EXCEPT ![p] = outcome]
  /\ UNCHANGED <<subVars, plans, pay, payLock, req, granted>>

BeginVerifyUnlocked(w, p) ==
  /\ req[w].at = "idle"
  /\ pay[p].status = "pending"
  /\ req' = [req EXCEPT ![w] = [Idle EXCEPT !.at = "ask", !.pay = p, !.plan = pay[p].plan]]
  /\ UNCHANGED <<subVars, plans, payVars>>

\* verify_and_finalize, for a webhook or for get_checkout_status: the payment is
\* locked; one that is not pending is left alone.
BeginVerify(w, p) ==
  /\ req[w].at = "idle"
  /\ pay[p].status = "pending" /\ payLock[p] = NoWorker
  /\ payLock' = [payLock EXCEPT ![p] = w]
  /\ req' = [req EXCEPT ![w] = [Idle EXCEPT !.at = "ask", !.pay = p, !.plan = pay[p].plan]]
  /\ UNCHANGED <<subVars, plans, pay, provider, granted>>

\* Chapa answered: a success is committed before the subscription is touched.
Succeed(w) ==
  /\ req[w].at = "ask" /\ provider[req[w].pay] = "paid"
  /\ pay' = [pay EXCEPT ![req[w].pay].status = "succeeded"]
  /\ payLock' = [payLock EXCEPT ![req[w].pay] = NoWorker]
  /\ Goes(w, "activate")
  /\ UNCHANGED <<subVars, plans, provider, granted>>

Fail(w) ==
  /\ req[w].at = "ask" /\ provider[req[w].pay] = "failed"
  /\ pay' = [pay EXCEPT ![req[w].pay].status = "failed"]
  /\ payLock' = [payLock EXCEPT ![req[w].pay] = NoWorker]
  /\ Ends(w)
  /\ UNCHANGED <<subVars, plans, provider, granted>>

Activated(w, tier) ==
  /\ sub' = [status |-> "active", tier |-> tier, plan |-> req[w].plan]
  /\ granted' = [granted EXCEPT ![req[w].pay] = @ + 1]
  /\ Ends(w)
  /\ UNCHANGED <<trialOver, used, proExports, plans, pay, payLock, provider>>

ActivateWithoutDefault(w) ==
  /\ req[w].at = "activate"
  /\ \/ req[w].plan = NoPlan /\ Activated(w, NoPlan)
     \/ /\ req[w].plan \in Plans /\ plans[req[w].plan].here
        /\ Activated(w, plans[req[w].plan].tier)

\* activate_subscription, with the tier the plan has now; without a plan it is
\* professional.  A plan that is being deleted is waited for.
Activate(w) ==
  /\ req[w].at = "activate"
  /\ \/ req[w].plan = NoPlan /\ Activated(w, "professional")
     \/ /\ req[w].plan \in Plans /\ plans[req[w].plan].here
        /\ \A v \in Workers : ~(req[v].at = "delete_references" /\ req[v].plan = req[w].plan)
        /\ Activated(w, plans[req[w].plan].tier)

\* get_plan raises PlanNotFoundError, after the payment has been committed.
PlanNotFound(w) ==
  /\ req[w].at = "activate" /\ req[w].plan \in Plans /\ ~plans[req[w].plan].here
  /\ Ends(w)
  /\ UNCHANGED <<subVars, plans, payVars>>

-----------------------------------------------------------------------------
(* The admin's requests.                                                    *)

\* admin_update_subscription
AdminUpdate(u) ==
  /\ sub.status # "absent"
  /\ sub' = [sub EXCEPT !.status = u.status, !.tier = u.tier]
  /\ UNCHANGED <<trialOver, used, proExports, plans, payVars, req>>

\* update_plan
UpdatePlan(q, u) ==
  /\ plans[q].here
  /\ \A v \in Workers : ~(req[v].at = "delete_references" /\ req[v].plan = q)
  /\ plans' = [plans EXCEPT ![q].active = u.active, ![q].tier = u.tier]
  /\ UNCHANGED <<subVars, payVars, req>>

\* Nothing committed refers to plan q (count_references).
Unreferenced(q) == sub.plan # q /\ \A p \in Payments : pay[p].plan # q

BeginDelete(w, q) ==
  /\ req[w].at = "idle" /\ plans[q].here /\ Unreferenced(q)
  /\ req' = [req EXCEPT ![w] = [Idle EXCEPT !.at = "delete", !.plan = q]]
  /\ UNCHANGED <<subVars, plans, payVars>>

\* The DELETE waits for the checkouts that hold a key-share lock on the plan.
LockPlan(w) ==
  /\ req[w].at = "delete" /\ plans[req[w].plan].here
  /\ \A v \in Workers : req[v].plan = req[w].plan =>
       req[v].at \notin {"initialize", "delete_references"}
  /\ Goes(w, "delete_references")
  /\ UNCHANGED <<subVars, plans, payVars>>

\* ON DELETE SET NULL waits for the payments that are locked, and is committed.
CommitDelete(w) ==
  /\ req[w].at = "delete_references"
  /\ LET q == req[w].plan IN
       /\ \A p \in Payments : pay[p].plan = q => payLock[p] = NoWorker
       /\ plans' = [plans EXCEPT ![q].here = FALSE]
       /\ pay' = [p \in Payments |-> IF pay[p].plan = q
                                     THEN [pay[p] EXCEPT !.plan = NoPlan] ELSE pay[p]]
       /\ sub' = IF sub.plan = q THEN [sub EXCEPT !.plan = NoPlan] ELSE sub
  /\ Ends(w)
  /\ UNCHANGED <<trialOver, used, proExports, payLock, provider, granted>>

-----------------------------------------------------------------------------
(* Time and failures.                                                       *)

EndTrial ==
  /\ ~trialOver /\ sub.status # "absent"
  /\ trialOver' = TRUE
  /\ UNCHANGED <<sub, used, proExports, plans, payVars, req>>

\* Another day has another usage row.
NextDay ==
  /\ used' = 0 /\ proExports' = 0
  /\ UNCHANGED <<sub, trialOver, plans, payVars, req>>

\* Chapa fails or has no final answer, a constraint fails or the process dies:
\* the open transaction is rolled back and its locks are released.
Abort(w) ==
  /\ req[w].at # "idle"
  /\ payLock' = [p \in Payments |-> IF payLock[p] = w THEN NoWorker ELSE payLock[p]]
  /\ Ends(w)
  /\ UNCHANGED <<subVars, plans, pay, provider, granted>>

Next ==
  \/ \E w \in Workers :
       \/ \E to \in {"view", "export"} : Ensure(w, to)
       \/ \E to \in {"record", "cancel"} : Contextualize(w, to)
       \/ Context(w)
       \/ Gate(w)
       \/ Record(w)
       \/ Cancel(w)
       \/ \E p \in Payments, q \in Plans : BeginCheckout(w, p, q)
       \/ CommitCheckout(w)
       \/ \E p \in Payments : BeginVerify(w, p)
       \/ Succeed(w)
       \/ Fail(w)
       \/ Activate(w)
       \/ PlanNotFound(w)
       \/ \E q \in Plans : BeginDelete(w, q)
       \/ LockPlan(w)
       \/ CommitDelete(w)
       \/ Abort(w)
  \/ \E p \in Payments, outcome \in {"paid", "failed"} : Settle(p, outcome)
  \/ \E u \in AdminUpdates : AdminUpdate(u)
  \/ \E q \in Plans, u \in PlanUpdates : UpdatePlan(q, u)
  \/ EndTrial
  \/ NextDay

Spec == Init /\ [][Next]_vars

-----------------------------------------------------------------------------
(* Properties.                                                              *)

\* What a payment promises: one conclusion, one the provider gave, one grant.
Lifecycle == INSTANCE PaymentLifecycle WITH
  status <- [p \in Payments |-> pay[p].status]

\* Every step of every request keeps the promise of PaymentLifecycle.
ImplementsLifecycle == Lifecycle!Spec

\* The professional tier exports no more than its daily quota, whichever
\* requests pass the gate of require_feature together.
ExportsWithinQuota == proExports <= Quota

\* A subscription that is active expires only by an admin who says so: never
\* because a request still holds it as the trial it was, not even in
\* record_export, which sets the expiry on such a copy under the lock.
PaidStaysActive ==
  [][sub.status = "active" /\ sub'.status = "expired" =>
       \E u \in AdminUpdates : AdminUpdate(u)]_vars

\* tests/test_chapa_service.py: a verified success activates the subscription.
SucceededIsActivated ==
  \A p \in Payments : pay[p].status = "succeeded" =>
    granted[p] = 1 \/ \E w \in Workers : req[w].at = "activate" /\ req[w].pay = p
=============================================================================
