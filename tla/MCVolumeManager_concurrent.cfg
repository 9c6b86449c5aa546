SPECIFICATION Spec
CONSTANTS
    IDs = {i1, i2}
    NullIDs = {}
    NSlots = 2
    Ptrs = {v1, v2}
    Procs = {p1, p2, p3}
    Users = {u1, u2}
SYMMETRY Symmetry
INVARIANTS
    NoDuplicateID
    TableHoldsLiveVolumes
    ReservationHasOwner
    NoLostVolume
    OpenCounterIsExact
    OpenVolumeIsKept
CHECK_DEADLOCK FALSE
