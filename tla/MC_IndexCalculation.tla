------------------------ MODULE MC_IndexCalculation ------------------------
(* Three reports of two agents on one cell: all of one window, the oldest   *)
(* outside the window of the newest, or two received at one time, by        *)
(* agents and users at two prices.                                          *)
EXTENDS IndexCalculation, TLC

CONSTANTS r1, r2, r3, a1, a2

Says(at, price, source, agent) ==
  [at |-> at, price |-> price, source |-> source, agent |-> agent]

MCBatches ==
  {r1 :> Says(1, p, "agent", a1) @@ r2 :> Says(2, 4, s, a1) @@ r3 :> Says(t, 1, "agent", b)
     : p \in {1, 4}, s \in {"agent", "user"}, t \in {2, 3, 4}, b \in {a1, a2}}

MCSourceWeight == [agent |-> 4, user |-> 2]

Symmetry == Permutations(Workers)
=============================================================================
