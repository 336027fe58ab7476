SPECIFICATION MCSpec
CONSTANTS
    request = request
    r1 = r1
    r2 = r2
    w1 = w1
    Slugs = {request}
    Outputs <- MCOutputs
    Requests = {r1, r2}
    Workers = {w1}
    Times = {1, 2}
    Windows <- MCWindows
    MaxClock = 2
    MaxRows = 3
    MaxCommits = 2
    MaxAsked = 2
    MaxFaults = 1
SYMMETRY Processes
INVARIANTS
    CoveredWindowIsIndexed
    PromotedReadsAreComplete
PROPERTY
    DeletionIsFinal
CHECK_DEADLOCK FALSE
