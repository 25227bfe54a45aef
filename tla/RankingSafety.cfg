SPECIFICATION FairRankingSpec
CONSTANTS
  Videos = {v1}
  Rows <- GrowingRows
  Builders = {b1, b2}
  Requests = {r1}
  Slots = 1
  None = None
  MaxVersion = 1
  MaxFaults = 1
INVARIANTS
  TimestampHonest
  NothingHiddenListed
PROPERTIES
  SnapshotForward
  RankingCatchesUp
