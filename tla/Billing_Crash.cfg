SPECIFICATION Spec
CONSTANTS
  Workers = {w1, w2}
  NoWorker = NoWorker
  Payments = {p1}
  NoPayment = NoPayment
  Plans = {plan}
  NoPlan = NoPlan
  Quota = 1
  MaxExports = 1
  AdminUpdates <- MCAdminUpdates
  PlanUpdates <- MCPlanUpdates
SYMMETRY Symmetry
CHECK_DEADLOCK FALSE
INVARIANT SucceededIsActivated
