SPECIFICATION TablesSpec
CONSTANTS
  Numbers <- MCNumbers
  Regexes <- MCRegexes
  Requests <- MCRequests
  Files = {"f1", "f2", "f3"}
  BatchOf <- MCBatchOf
  TenantOf = "t1"
  Namespaces = {incremental, rebuild}
  MaxDefinitions = 2
  MaxLoads = 2
  MaxBackfills = 1
SYMMETRY Symmetry
INVARIANTS
  AcceptedIsUnderstood
  BackfillMatchesStream
  CurrentAgreesWithHistory
  FunnelsAreExact
CHECK_DEADLOCK FALSE
