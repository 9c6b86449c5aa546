SPECIFICATION Spec
CONSTANTS
    CHUNK_SIZE = 64
    INT_BITS = 32
    DMS_UTEST = TRUE
    Kreqs <- MCKreqs
    Cuts = {1, 3}
INVARIANTS
    DiosPartitionRequest
    CutIsLongestRun
    DioEndsWithLastCommit
CHECK_DEADLOCK FALSE
