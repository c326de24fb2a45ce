SPECIFICATION Spec
CONSTANTS
  Agents = {a1}
  ClientIds = {c1, c2, c3}
  Workers = {w1, w2}
  NoClient = NoClient
  PointsPending = 1
  PointsAccept = 10
  PointsFlag <- PointsFlagValue
  BanFlagLimit = 3
  RedeemMin = 10
  MaxHooks = 0
SYMMETRY Symmetry
CHECK_DEADLOCK FALSE
INVARIANT ScoreIsSpentOnce
