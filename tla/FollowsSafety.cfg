SPECIFICATION FollowsSpec
CONSTANTS
  Users = {u1, u2}
  Browsers = {u1}
  RequestIDs = {q1, q2, q3}
  Handlers = {h1, h2}
  None = None
  MaxNotices = 2
  MaxReceipts = 4
SYMMETRY FollowsSymmetry
CHECK_DEADLOCK FALSE
INVARIANTS
  FollowersAgree
  LatestChoiceStands
  ToldPerFollow
