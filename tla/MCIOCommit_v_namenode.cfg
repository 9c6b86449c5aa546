SPECIFICATION FairSpec
CONSTANTS
    k1 = k1
    k2 = k2
    d1 = d1
    d2 = d2
    d3 = d3
    l1 = l1
    l2 = l2
    l3 = l3
    dn1 = dn1
    dn2 = dn2
    Kreqs = {k1}
    Dios = {d1}
    LRs = {l1}
    DNs = {dn1, dn2}
    KreqOf <- OneWriteKreqOf
    DioOf <- OneWriteDioOf
    Op <- OneWriteOp
    Replicas <- OneWriteReplicas
    AckInit <- AckZero
    TagDepth = 2
PROPERTY AllDiskAcksCommitToNamenode
CHECK_DEADLOCK FALSE
