SPECIFICATION BoundedLoopSpec
CONSTANTS
  Videos = {}
  Partitions = {p1}
  Workers = {w1, w2}
  Records = {good, bad}
  Invalid = {bad}
  None = None
  MaxLog = 3
  MaxFaults = 3
  FaultKinds = {"rebalance", "commit", "crash", "poll"}
SYMMETRY WorkerSymmetry
CHECK_DEADLOCK FALSE
INVARIANT NothingSkipped
