SPECIFICATION FairSpec
CONSTANTS
  Workers = {w1, w2}
  NoWorker = NoWorker
  MaxSessions = 3
  MaxVersion = 2
CHECK_DEADLOCK FALSE
PROPERTY RequestsEnd
