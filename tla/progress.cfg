SPECIFICATION LateFairSpec
CONSTANTS
  NoRow = NoRow
  u1 = u1
  u2 = u2
  w1 = w1
  w2 = w2
  boss = boss
  guest = guest
  Users = {u1, u2}
  Workers = {w1}
  Admins = {boss}
  Moderators = {boss}
  Inputs = {"photo", "policy_accept"}
  Faults = {"send"}
  MaxPosts = 2
  Verdicts = {"accept", "reject"}
  MaxClicks = 1
  MaxRestarts = 1
INVARIANTS
  DocRefIsOwnUpload
  DecisionNeedsUpload
PROPERTIES
  WorkersComeBack
  UploadsLeaveTheQueue
CHECK_DEADLOCK FALSE
