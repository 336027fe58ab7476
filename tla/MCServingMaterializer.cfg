CONSTANTS
  NumTables = 2
  Partitions = {p1}
  Messages <- MCMessages
  OffsetSpan = 4
  Deployments <- MCSeparate
  RebuildRaw = TRUE
  MaxLog = 3
  MaxCommits = 2
  MaxFaults = 2
SPECIFICATION FairSpec
INVARIANTS
  WatermarkIsEarned
  WatermarkCoversTheLakehouse
PROPERTIES
  ImplementsContract
  CommitsAreCaughtUp
CHECK_DEADLOCK FALSE
