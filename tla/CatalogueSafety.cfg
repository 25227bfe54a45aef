SPECIFICATION FairCatalogueSpec
CONSTANTS
  s1 = s1
  c1 = c1
  c2 = c2
  tags = tags
  Categories = {c1, c2}
  Values <- SomeEnabled
  FirstValue = {c1, c2}
  Servers = {s1}
  Callers = {k1, k2}
  ServerOf <- OneServer
  None = None
  MaxChanges = 1
  Videos = {v1}
  TagSets = {none, tags}
  NoTags = none
  Patches <- SomePatches
  Handlers = {h1, h2}
INVARIANTS
  ProcessedHasSource
PROPERTIES
  LeavingCancelsNobody
  LeftOutKept
  CacheConverges
