SPECIFICATION Spec
CONSTANTS
  Agents = {a1}
  ClientIds = {c1, c2}
  Workers = {w1, w2}
  NoClient = NoClient
  PointsPending = 1
  PointsAccept = 10
  PointsFlag <- PointsFlagValue
  BanFlagLimit = 1
  RedeemMin = 10
  MaxHooks = 1
SYMMETRY Symmetry
CHECK_DEADLOCK FALSE
INVARIANTS
  TypeOK
  LedgerExact
  CountersMatchVerdicts
  PayoutsAreEarned
  CreditedOncePerSubmission
  AcceptedIsIndexed
PROPERTIES
  FlagLimitBans
  OnlyApprovalLiftsBan
