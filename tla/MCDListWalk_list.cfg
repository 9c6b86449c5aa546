SPECIFICATION ListSpec
CONSTANTS
    Data = {x1, x2, x3}
    ListHead = head
    Walkers = {w1, w2}
SYMMETRY Symmetry
INVARIANTS
    RingIsWhole
    IteratorIsValid
    WalkIsExact
CHECK_DEADLOCK FALSE
