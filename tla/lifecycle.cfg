SPECIFICATION FairSpec
CONSTANTS
  Topics <- MCTopics
  Handlers <- MCHandlers
  Data <- MCData
  Configs <- MCConfigs
  Failures = {"database", "api", "webhook", "listen"}
  InboxCap = 1
  MaxUpdates = 2
INVARIANTS
  TypeOK
  AcceptedConfigWorks
  EveryEventHasAudience
  ServesUntilBothStop
PROPERTIES
  ImplementsPubSub
  CutOffHasACause
  EndsOnSignal
  PostsReachQueue
CHECK_DEADLOCK FALSE
