SPECIFICATION Spec
CONSTANTS
  Workers = {w1, w2, w3}
  NoWorker = NoWorker
  MaxSessions = 4
  MaxVersion = 3
SYMMETRY Symmetry
CHECK_DEADLOCK FALSE
INVARIANTS
  TypeOK
  OneLivePerFamily
  FamiliesAreChains
PROPERTIES
  NoSessionSurvives
  ReuseRevokesWhatItSaw
  AccessEndsWithLogoutAll
