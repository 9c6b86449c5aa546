SPECIFICATION Spec
CONSTANTS
    Threads = {t1, t2}
    MAP_SIZE = 2
    Blocks = {0, 1, 4}
    MaxCount = 2
    CacheSize = 2
    Objects = {1, 2}
    Copies = {1, 2, 3}
    MaxFailures = 1
SYMMETRY Symmetry
INVARIANTS
    TreeIsLru
    LeafLivesWhileUsed
    OopsNeedsFailure
CHECK_DEADLOCK FALSE
