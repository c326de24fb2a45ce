SPECIFICATION Spec
CONSTANTS
  r1 = r1
  r2 = r2
  r3 = r3
  a1 = a1
  a2 = a2
  Reports = {r1, r2, r3}
  Agents = {a1, a2}
  Prices = {1, 4}
  Times = {1, 2, 3, 4}
  Batches <- MCBatches
  SourceWeight <- MCSourceWeight
  Window = 2
  Threshold = 2
  Workers = {w1, w2}
  MaxStarts = 4
  MaxMethods = 2
  None = None
SYMMETRY Symmetry
CHECK_DEADLOCK FALSE
INVARIANTS
  TypeOK
  IndexedOnce
  ValuesSplitWeight
  CountsAcceptedOnly
PROPERTY SameAgentMeets
