SPECIFICATION BoundedLoopSpec
CONSTANTS
  Videos = {}
  Partitions = {p1}
  Workers = {w1, w2}
  Records = {good}
  Invalid = {}
  None = None
  MaxLog = 2
  MaxFaults = 2
  FaultKinds = {"rebalance"}
CHECK_DEADLOCK FALSE
INVARIANT TrackerCurrent
