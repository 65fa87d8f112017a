SPECIFICATION RacesSpec
CONSTANTS
  NoRow = NoRow
  u1 = u1
  u2 = u2
  w1 = w1
  w2 = w2
  boss = boss
  guest = guest
  Users = {u1}
  Workers = {w1, w2}
  Admins = {boss, guest}
  Moderators = {boss}
  Inputs = {"start", "line", "photo", "policy_accept", "policy_decline"}
  Faults = {}
  MaxPosts = 1
  Verdicts = {"accept", "reject"}
  MaxClicks = 2
  MaxRestarts = 0
SYMMETRY Symmetry
INVARIANTS
  RowsInStep
  StatusHasVerdict
  SubmittedAcceptedTerms
PROPERTY LateStartKeepsProgress
CHECK_DEADLOCK FALSE
