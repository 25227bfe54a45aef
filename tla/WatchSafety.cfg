SPECIFICATION Spec
CONSTANTS
  a = a
  b = b
  Viewers = {a}
  Sessions = {1, 2}
  ViewerOf <- Tabs
  Handlers = {h1, h2}
  None = None
  Duration = 2
  QualifyMin = 1
  Cap = 2
  Lifetime = 3
  DayLength = 2
  Skew = 1
  MaxClock = 3
  MaxSeq = 2
  Deltas = {2}
SYMMETRY HandlerSymmetry
CHECK_DEADLOCK FALSE
INVARIANTS
  CreditWithinElapsed
  WatchTimeAgrees
  CountersAgree
  TabsShareTime
PROPERTY SeqGuardsCredit
