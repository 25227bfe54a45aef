SPECIFICATION PipelineSpec
CONSTANTS
  Videos = {v1, v2}
  Workers = {w1, w2}
  None = None
  WorkerID <- OwnIDs
  MaxAttempts = 2
  Milestones <- OneMilestone
  Partitions = {p1}
  PartitionOf <- OnePartition
  Records = {1, 2, 3, 4}
  Invalid = {}
  MaxLog = 4
  Dispatchers = {d1}
  BatchSize = 2
  MaxEvents = 4
  MaxFaults = 1
  FaultKinds = {"dispatcher", "unacked", "publish", "mark", "lease", "timeout", "claim", "reply", "crash", "commit", "poll", "rebalance"}
SYMMETRY PipelineSymmetry
CHECK_DEADLOCK FALSE
INVARIANTS
  NoLostJob
  TablesInv
  AttemptsInv
PROPERTIES
  JobMonotone
  LifecycleSpec
