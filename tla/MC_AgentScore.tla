--------------------------- MODULE MC_AgentScore ---------------------------
(* One agent (rows of different agents share nothing), two or three          *)
(* reports, two overlapping requests.  With a limit of one flag the second   *)
(* report is flagged after a reinstatement; with three the limit is reached  *)
(* by no report too many.                                                    *)
EXTENDS AgentScore, TLC

PointsFlagValue == -15
Symmetry == Permutations(ClientIds) \union Permutations(Workers)
=============================================================================
