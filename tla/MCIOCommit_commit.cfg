SPECIFICATION FairSpec
CONSTANTS
    k1 = k1
    k2 = k2
    d1 = d1
    d2 = d2
    d3 = d3
    l1 = l1
    l2 = l2
    l3 = l3
    dn1 = dn1
    dn2 = dn2
    Kreqs = {k1, k2}
    Dios = {d1, d2, d3}
    LRs = {l1, l2, l3}
    DNs = {dn1, dn2}
    KreqOf <- MixedKreqOf
    DioOf <- MixedDioOf
    Op <- MixedOp
    Replicas <- MixedReplicas
    AckInit <- AckReplicas
    TagDepth = 1
INVARIANTS
    EndedAtMostOnce
    EndedOnlyWhenAllCommitted
    NoUseAfterRelease
    NoDanglingPdio
    ResultIsReal
    LastAnswersAreCounted
PROPERTIES
    ImplementsFairBlockRequest
CHECK_DEADLOCK FALSE
