SPECIFICATION Spec
CONSTANTS
    Blocks <- BlocksDef
    Senders = {s1}
    Takers = {t1, t2}
SYMMETRY Symmetry
INVARIANTS
    FaultNeedsRemoval
    MissedIsGone
CHECK_DEADLOCK FALSE
