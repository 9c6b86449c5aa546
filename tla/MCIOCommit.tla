----------------------------- MODULE MCIOCommit -----------------------------
(***************************************************************************)
(* Small instances of IOCommit.  The structure is fixed per run by picking *)
(* one of the layouts below in the configuration.                          *)
(***************************************************************************)
EXTENDS IOCommitRefinement

CONSTANTS k1, k2, d1, d2, d3, l1, l2, l3, dn1, dn2

\* A write that was cut in two dios, the first with two replicas, and a read, on the
\* same datanodes.
MixedKreqOf == [d \in {d1, d2, d3} |-> IF d = d3 THEN k2 ELSE k1]
MixedDioOf == [l \in {l1, l2, l3} |-> IF l = l1 THEN d1 ELSE IF l = l2 THEN d2 ELSE d3]
MixedOp == [d \in {d1, d2, d3} |-> IF d = d3 THEN "READ" ELSE "WRITE"]
MixedReplicas ==
    [l \in {l1, l2, l3} |-> IF l = l1 THEN {dn1, dn2} ELSE IF l = l2 THEN {dn2} ELSE {dn1}]

\* One write with one located request on two datanodes.
OneWriteKreqOf == [d \in {d1} |-> k1]
OneWriteDioOf == [l \in {l1} |-> d1]
OneWriteOp == [d \in {d1} |-> "WRITE"]
OneWriteReplicas == [l \in {l1} |-> {dn1, dn2}]

\* No statement of the driver stores a value in wmem_ack or wdisk_ack: they keep
\* the zero of the memset in Create_Located_Requests.
AckZero == [l \in LRs |-> 0]
\* What "number of waiting mem/disk ack" asks for.
AckReplicas == [l \in LRs |-> Cardinality(Replicas[l])]
=============================================================================
