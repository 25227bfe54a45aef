SPECIFICATION FairPipelineSpec
CONSTANTS
  Videos = {v1}
  Workers = {w1}
  None = None
  WorkerID <- OwnIDs
  MaxAttempts = 2
  Milestones <- OneMilestone
  Partitions = {p1}
  PartitionOf <- OnePartition
  Records = {1, 2}
  Invalid = {}
  MaxLog = 4
  Dispatchers = {d1, d2}
  BatchSize = 2
  MaxEvents = 2
  MaxFaults = 2
  FaultKinds = {"dispatcher", "unacked", "publish", "mark", "lease", "commit", "crash"}
CHECK_DEADLOCK FALSE
INVARIANTS
  PublishedInLog
  DuplicatesAreFaults
PROPERTIES
  EveryRowPublished
  SettlesOrExhausted
