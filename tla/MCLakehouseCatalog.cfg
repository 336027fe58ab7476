SPECIFICATION Spec
CONSTANTS
    p1 = p1
    p2 = p2
    b1 = b1
    b2 = b2
    b3 = b3
    Nil = Nil
    Procs = {p1, p2}
    Batches = {b1, b2, b3}
    Lines <- MCLines
    Props <- MCProps
    RowsPerChunk = 2
    MinInputFiles = 2
    MaxOps = 3
    MaxFaults = 1
INVARIANTS
    AcceptedRowsStay
    RowsAppearOnce
    RecordsFollowTheTable
PROPERTY
    ImplementsEventTable
CHECK_DEADLOCK FALSE
