SPECIFICATION Spec
CONSTANTS
    Dncs = {d1, d2}
    Addrs = {a1}
    NNodes = 2
    NSocks = 2
    MaxTry = 0
    Procs = {p1, p2}
    Unloaders = {p1, p2}
    Workers = {w1}
SYMMETRY Symmetry
INVARIANTS
    OneContainerPerAddress
    ReleasedByOne
    DeadlockIsKnown
CHECK_DEADLOCK FALSE
