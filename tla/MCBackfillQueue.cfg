CONSTANTS
  Jobs = {j1}
  NumChunks = 2
  JobOf <- MCJobOf
  Executors = {e1, e2}
  Parts = {f1, f2}
  MaxAttempts = 2
  ChunksPerPass = 2
  MaxFaults = 2
SPECIFICATION FairSpec
INVARIANTS
  TypeOK
  FinishedIsWritten
  RetriesEndInTime
PROPERTIES
  WaitingChunkIsSettled
CHECK_DEADLOCK FALSE
