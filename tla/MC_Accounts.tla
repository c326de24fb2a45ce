----------------------------- MODULE MC_Accounts -----------------------------
(* One account and two requests at a time; two wrong passwords lock.         *)
EXTENDS Accounts, TLC

Symmetry == Permutations(Workers)
=============================================================================
