------------------------- MODULE MC_AgentOnboarding -------------------------
(* Two people, two applications and a code, of one use or of many.           *)
EXTENDS AgentOnboarding, TLC

Symmetry == Permutations(People) \union Permutations(Applications)
              \union Permutations(Codes) \union Permutations(Workers)
=============================================================================
