SPECIFICATION FairSpec
CONSTANTS
  w1 = w1
  w2 = w2
  Workers = {w1, w2}
  Modes = {"polling", "webhook"}
  JobsCap = 2
  UpdatesCap = 1
  MaxUpdates = 5
INVARIANT TypeOK
PROPERTIES
  ImplementsJobRunner
  StopsUnlessStuck
  UpdatesAreHandled
CHECK_DEADLOCK FALSE
