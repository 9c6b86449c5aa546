SPECIFICATION FairSpec
CONSTANTS
    Threads = {t1, t2}
    Volumes = {v1, v2}
    Ops <- MCOps
    RS_SUPPORT = TRUE
    MaxRequests = 3
    MaxStarts = 2
INVARIANTS
    ListFollowsDriver
    FaultNeedsClash
PROPERTIES
    ThreadEndsOrIsStuck
CHECK_DEADLOCK FALSE
