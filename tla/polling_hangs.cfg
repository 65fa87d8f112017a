SPECIFICATION FairSpec
CONSTANTS
  w1 = w1
  w2 = w2
  Workers = {w1, w2}
  Modes = {"polling"}
  JobsCap = 1
  UpdatesCap = 1
  MaxUpdates = 4
PROPERTY BlocksUntilCancelled
CHECK_DEADLOCK FALSE
