SPECIFICATION Spec
CONSTANTS
    r1 = r1
    r2 = r2
    Requests = {r1, r2}
    NrBlocks = 3
    MinNr = 2
    MaxLoads = 2
    MaxRequests = 4
    MaxAttaches = 2
SYMMETRY Symmetry
INVARIANTS
    NothingIsLeftBehind
    PoolsOutliveUsers
    OutstandingIsKnown
CHECK_DEADLOCK FALSE
