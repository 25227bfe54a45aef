SPECIFICATION FairPipelineSpec
CONSTANTS
  Videos = {v1}
  Workers = {w1}
  None = None
  WorkerID <- OwnIDs
  MaxAttempts = 2
  Milestones <- OneMilestone
  Partitions = {p1}
  PartitionOf <- OnePartition
  Records = {1, 2}
  Invalid = {}
  MaxLog = 2
  Dispatchers = {d1}
  BatchSize = 2
  MaxEvents = 2
  MaxFaults = 2
  FaultKinds = {"crash"}
CHECK_DEADLOCK FALSE
PROPERTY Settles
