SPECIFICATION Spec
CONSTANTS
  Workers = {w1, w2}
  NoWorker = NoWorker
  Payments = {p1}
  NoPayment = NoPayment
  Plans = {plan}
  NoPlan = NoPlan
  Quota = 2
  MaxExports = 3
  AdminUpdates <- MCAdminUpdates
  PlanUpdates <- MCPlanUpdates
SYMMETRY Symmetry
CHECK_DEADLOCK FALSE
INVARIANTS
  TypeOK
  ExportsWithinQuota
PROPERTIES
  ImplementsLifecycle
  PaidStaysActive
