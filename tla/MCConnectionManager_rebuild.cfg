SPECIFICATION FairSpec
CONSTANTS
    Dncs = {d1}
    Addrs = {a1}
    NNodes = 1
    NSocks = 3
    MaxTry = 2
    Procs = {p1}
    Unloaders = {}
    Workers = {w1, w2}
INVARIANTS
    HandlerKeepsSocket
    StallsAreKnown
PROPERTIES
    LostConnectionIsTakenDown
CHECK_DEADLOCK FALSE
