SPECIFICATION Spec
CONSTANTS
  NoRow = NoRow
  u1 = u1
  u2 = u2
  w1 = w1
  w2 = w2
  boss = boss
  guest = guest
  Users = {u1}
  Workers = {w1}
  Admins = {boss}
  Moderators = {boss}
  Inputs = {"start", "short", "line", "country", "own_contact", "other_contact", "photo", "policy_accept", "policy_decline"}
  Faults = {"db", "send", "kill"}
  MaxPosts = 1
  Verdicts = {"accept", "reject"}
  MaxClicks = 1
  MaxRestarts = 1
INVARIANTS
  TypeOK
  RowsInStep
  GovReplyNeverPanics
  SubmittedAcceptedTerms
  NewsIsOfDecision
CHECK_DEADLOCK FALSE
