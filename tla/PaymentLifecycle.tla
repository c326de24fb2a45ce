-------------------------- MODULE PaymentLifecycle --------------------------
(***************************************************************************)
(* What the billing of waga promises about each payment, whoever notifies, *)
(* polls or crashes: it is concluded once, with an outcome the provider    *)
(* really gave, and what was paid for is granted at most once.             *)
(***************************************************************************)
EXTENDS Naturals

CONSTANT Payments

VARIABLES
  status,    \* payment_transactions.status, "none" before the checkout
  provider,  \* what Chapa would answer about the payment now
  granted    \* how often the subscription was activated for it

vars == <<status, provider, granted>>

Init ==
  /\ status = [p \in Payments |-> "none"]
  /\ provider = [p \in Payments |-> "unsettled"]
  /\ granted = [p \in Payments |-> 0]

Open(p) ==
  /\ status[p] = "none"
  /\ status' = [status EXCEPT ![p] = "pending"]
  /\ UNCHANGED <<provider, granted>>

\* The customer pays or does not; what was paid can be reversed.
Settle(p, outcome) ==
  /\ status[p] # "none"
  /\ provider[p] = "unsettled" \/ (provider[p] = "paid" /\ outcome = "failed")
  /\ provider' = [provider EXCEPT ![p] = outcome]
  /\ UNCHANGED <<status, granted>>

Conclude(p) ==
  /\ status[p] = "pending"
  /\ \/ provider[p] = "paid" /\ status' = [status EXCEPT ![p] = "succeeded"]
     \/ provider[p] = "failed" /\ status' = [status EXCEPT ![p] = "failed"]
  /\ UNCHANGED <<provider, granted>>

Grant(p) ==
  /\ status[p] = "succeeded" /\ granted[p] = 0
  /\ granted' = [granted EXCEPT ![p] = 1]
  /\ UNCHANGED <<status, provider>>

Next ==
  \E p \in Payments :
    \/ Open(p) \/ Conclude(p) \/ Grant(p)
    \/ \E outcome \in {"paid", "failed"} : Settle(p, outcome)

Spec == Init /\ [][Next]_vars
=============================================================================
