SPECIFICATION Spec
CONSTANTS
  People = {p1, p2}
  Applications = {i1, i2}
  Codes = {c1}
  UseLimits = {0, 2}
  Workers = {w1, w2}
  MaxActivations = 3
  None = None
SYMMETRY Symmetry
CHECK_DEADLOCK FALSE
INVARIANTS
  TypeOK
  InviteCounted
  ApprovedIsAgent
PROPERTY BanLiftedKnowingly
