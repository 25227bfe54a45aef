SPECIFICATION ModerationSpec
CONSTANTS
  u1 = u1
  u2 = u2
  c1 = c1
  Users = {u1, u2}
  Contents = {c1}
  Author <- AuthorOne
  FirstAdmins = {u1}
  RequestIDs = {q1, q2}
  Handlers = {h1, h2}
  None = None
  Reporters = {u2}
  Reported = {c1}
  MaxReports = 2
  MaxActions = 2
SYMMETRY ModerationSymmetry
INVARIANTS
  AdministratorRemains
  OneOpenReport
  AuditExplainsState
  ReportsAudited
  ToldTheTruth
