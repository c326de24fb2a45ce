----------------------------- MODULE MC_Billing -----------------------------
(* One subscriber and one plan.  The admin grants a trial, takes everything  *)
(* back or hands out the enterprise tier, and withdraws the plan.            *)
EXTENDS Billing, TLC

MCAdminUpdates == {[status |-> "trial", tier |-> "enterprise"],
                   [status |-> "cancelled", tier |-> "professional"]}
MCPlanUpdates == {[active |-> FALSE, tier |-> "professional"]}
Symmetry == Permutations(Workers) \union Permutations(Payments)
=============================================================================
