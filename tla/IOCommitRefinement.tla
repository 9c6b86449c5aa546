------------------------- MODULE IOCommitRefinement -------------------------
(***************************************************************************)
(* The commit path implements BlockRequest: the blocks of a located        *)
(* request are settled together, when Commit_LB_List_by_Range removes them *)
(* from the logical block list of their dio.                               *)
(***************************************************************************)
EXTENDS IOCommit

LRsOfKreq(k) == {l \in LRs : KreqOf[DioOf[l]] = k}

AbsPhase ==
    [k \in Kreqs |-> CASE kstate[k] \in {"queued", "started"} -> "queued"
                       [] kstate[k] = "inflight" -> "open"
                       [] kstate[k] = "failed" -> "aborted"
                       [] kstate[k] = "ended" -> "ended"]

AbsUnsettled == [k \in Kreqs |-> {l \in LRsOfKreq(k) : l \in lbs[DioOf[l]]}]

AbsAnswers == [l \in LRs |-> UNION {sent[DioOf[l]][dn] : dn \in Replicas[l]}]

AbsResult == [k \in Kreqs |-> IF endings[k] = 0 THEN "none" ELSE kresult[k]]

Request == INSTANCE BlockRequest
    WITH Blocks <- LRs, BlocksOf <- [k \in Kreqs |-> LRsOfKreq(k)],
         Answers <- Acks, phase <- AbsPhase, unsettled <- AbsUnsettled,
         answers <- AbsAnswers, result <- AbsResult

\* Every step of the receivers, interleaved in any way, is a step of an abstract
\* request or changes nothing an issuer of requests can see (the levels of completion
\* from __VolumeIO_Commiter to DMS_End_Request_Handler); and with receivers that keep
\* running, a request whose blocks are all settled ends.
ImplementsFairBlockRequest == Request!FairSpec
=============================================================================
