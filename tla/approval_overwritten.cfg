SPECIFICATION LateSpec
CONSTANTS
  NoRow = NoRow
  u1 = u1
  u2 = u2
  w1 = w1
  w2 = w2
  boss = boss
  guest = guest
  Users = {u1}
  Workers = {w1}
  Admins = {boss}
  Moderators = {boss}
  Inputs = {"photo"}
  Faults = {}
  MaxPosts = 1
  Verdicts = {"accept"}
  MaxClicks = 1
  MaxRestarts = 0
INVARIANT ToldApprovedIsApproved
CHECK_DEADLOCK FALSE
