--------------------------- MODULE IOCommitProofs ---------------------------
(***************************************************************************)
(* Proofs about the commit path, for any number of requests, dios, located *)
(* requests and datanodes, and for any initial value of the ack counters:  *)
(* first who owns a request, then what the path stores and forgets, the    *)
(* result a request is ended with, the pointer from the metadata to the    *)
(* dio, that all this implements the safety of BlockRequest, and how many  *)
(* last answers the counter of disk answers has counted.                   *)
(***************************************************************************)
EXTENDS IOCommitRefinement, FiniteSetTheorems, TLAPS

-----------------------------------------------------------------------------
(* Type correctness.                                                        *)

\* The record of a receiver that is not inside the committer is well formed.
LEMMA IdleThreadType == IdleThread \in Threads
<1>1. PICK k \in Kreqs : TRUE
  BY NonEmptyAssumption
<1>2. PICK d \in Dios : KreqOf[d] = k
  BY NonEmptyAssumption
<1>3. PICK l \in LRs : DioOf[l] = d
  BY NonEmptyAssumption
<1>4. /\ (CHOOSE c \in Dios : TRUE) \in Dios
      /\ (CHOOSE c \in LRs : TRUE) \in LRs
  BY <1>2, <1>3
<1>5. QED
  BY <1>4 DEF IdleThread, Threads, PCs, Acks, GoodAcks

\* The number of located requests of a dio is a number.
LEMMA WaitingType == \A d \in Dios : Cardinality(LRsOf(d)) \in Nat
<1> TAKE d \in Dios
<1>1. IsFiniteSet(LRsOf(d))
  BY StructureAssumption, FS_Subset DEF LRsOf
<1>2. QED
  BY <1>1, FS_CardinalityType

\* Giving one receiver a well-formed record keeps them all well formed.
LEMMA UpdateType ==
    ASSUME thr \in [DNs -> Threads], NEW dn \in DNs, NEW t \in Threads,
           thr' = [thr EXCEPT ![dn] = t]
    PROVE  thr' \in [DNs -> Threads]
OBVIOUS

\* Moving one receiver to another control point keeps its record well formed.
LEMMA GotoType ==
    ASSUME thr \in [DNs -> Threads], NEW dn \in DNs, NEW pc \in PCs, Goto(dn, pc)
    PROVE  thr' \in [DNs -> Threads]
BY DEF Goto, Threads

\* So does the end of a payload tag.
LEMMA NextTagType ==
    ASSUME thr \in [DNs -> Threads], NEW dn \in DNs, NextTag(dn)
    PROVE  thr' \in [DNs -> Threads]
BY GotoType DEF NextTag, AfterTag, PCs

\* Ending a request keeps the types of what the block layer sees.
LEMMA EndRequestType ==
    ASSUME kstate \in [Kreqs -> {"queued", "started", "inflight", "failed", "ended"}],
           special \in [Kreqs -> BOOLEAN], endings \in [Kreqs -> Nat],
           kresult \in [Kreqs -> Results],
           NEW k \in Kreqs, NEW r \in Results, End_Request(k, r)
    PROVE  /\ kstate' \in [Kreqs -> {"queued", "started", "inflight", "failed", "ended"}]
           /\ special' \in [Kreqs -> BOOLEAN]
           /\ endings' \in [Kreqs -> Nat]
           /\ kresult' \in [Kreqs -> Results]
<1>1. special' \in [Kreqs -> BOOLEAN]
  BY DEF End_Request
<1>2. endings' \in [Kreqs -> Nat]
  BY DEF End_Request
<1>3. kresult' \in [Kreqs -> Results]
  BY DEF End_Request
<1>4. kstate' \in [Kreqs -> {"queued", "started", "inflight", "failed", "ended"}]
  BY DEF End_Request
<1>5. QED
  BY <1>1, <1>2, <1>3, <1>4

\* The initial state is well typed.
LEMMA InitTypeOK == Init => TypeOK
BY IdleThreadType DEF Init, TypeOK, Results, Acks, GoodAcks

\* Every step of the request handlers and of the namenode keeps the types.
LEMMA RequestTypeOK ==
    ASSUME TypeOK, NEW k \in Kreqs,
           \/ DMS_Request_Handler(k) \/ VolumeIO_Handler(k) \/ Make_DIO_Request_Fail(k)
    PROVE  TypeOK'
<1>1. CASE DMS_Request_Handler(k)
  BY <1>1 DEF TypeOK, DMS_Request_Handler, iovars, metavars, lrvars
<1>2. CASE VolumeIO_Handler(k)
  BY <1>2 DEF TypeOK, VolumeIO_Handler, iovars, metavars, lrvars, DiosOf, LRsOf
<1>3. CASE Make_DIO_Request_Fail(k)
  <2>1. "EXCEPTION" \in Results
    BY DEF Results, Acks, GoodAcks
  <2>2. /\ kstate' \in [Kreqs -> {"queued", "started", "inflight", "failed", "ended"}]
        /\ special' \in [Kreqs -> BOOLEAN]
        /\ endings' \in [Kreqs -> Nat]
        /\ kresult' \in [Kreqs -> Results]
    <3>1. CASE End_Request(k, "EXCEPTION")
      BY <2>1, <3>1, EndRequestType DEF TypeOK
    <3>2. CASE kstate' = [kstate EXCEPT ![k] = "failed"]
               /\ UNCHANGED <<special, endings, kresult>>
      BY <3>2 DEF TypeOK
    <3>3. QED
      BY <1>3, <3>1, <3>2 DEF Make_DIO_Request_Fail
  <2>3. QED
    BY <1>3, <2>2 DEF TypeOK, Make_DIO_Request_Fail, iovars, metavars, lrvars
<1>4. QED
  BY <1>1, <1>2, <1>3

\* What a datanode has sent stays a set of acknowledgements.
LEMMA AnswerType ==
    ASSUME sent \in [Dios -> [DNs -> SUBSET Acks]],
           NEW dn \in DNs, NEW d \in Dios, NEW ack \in Acks, Answer(dn, d, ack)
    PROVE  sent' \in [Dios -> [DNs -> SUBSET Acks]]
BY DEF Answer

\* So does every step of the namenode and of a datanode that starts the committer.
LEMMA ResponseTypeOK ==
    ASSUME TypeOK,
           \/ \E d \in Dios : Process_Namenode_Response(d)
           \/ \E dn \in DNs : \/ Process_Datanode_Response(dn)
                              \/ Drop_Datanode_Response(dn)
    PROVE  TypeOK'
<1>1. ASSUME NEW d \in Dios, Process_Namenode_Response(d)
      PROVE  TypeOK'
  <2>1. /\ wmem' \in [LRs -> Int]
        /\ wdisk' \in [LRs -> Int]
    <3>1. \A l \in LRs : AckInit[l] \in Int
      BY AckInitAssumption
    <3>2. wmem' \in [LRs -> Int]
      BY <1>1, <3>1 DEF TypeOK, Process_Namenode_Response
    <3>3. wdisk' \in [LRs -> Int]
      BY <1>1, <3>1 DEF TypeOK, Process_Namenode_Response
    <3>4. QED
      BY <3>2, <3>3
  <2>2. waiting' \in [Dios -> Int]
    <3>1. Cardinality(LRsOf(d)) \in Int
      BY WaitingType
    <3>2. QED
      BY <1>1, <3>1 DEF TypeOK, Process_Namenode_Response
  <2>3. /\ located' \in [Dios -> BOOLEAN]
        /\ pdio' \in [Dios -> BOOLEAN]
        /\ dnTags' \in [Dios -> SUBSET DNs]
    BY <1>1 DEF TypeOK, Process_Namenode_Response
  <2>4. QED
    BY <1>1, <2>1, <2>2, <2>3 DEF TypeOK, Process_Namenode_Response, kvars, iovars
<1>2. ASSUME NEW dn \in DNs, Process_Datanode_Response(dn)
      PROVE  TypeOK'
  <2>1. PICK d \in Dios, ack \in Acks :
          /\ Answer(dn, d, ack)
          /\ dnTags' = [dnTags EXCEPT ![d] = @ \ {dn}]
          /\ thr' = [thr EXCEPT ![dn] =
                [IdleThread EXCEPT !.pc = "policy", !.dio = d, !.ack = ack,
                                   !.todo = LRsOn(d, dn)]]
    BY <1>2 DEF Process_Datanode_Response
  <2>2. sent' \in [Dios -> [DNs -> SUBSET Acks]]
    BY <2>1, AnswerType DEF TypeOK
  <2>3. thr' \in [DNs -> Threads]
    <3>1. LRsOn(d, dn) \subseteq LRs
      BY DEF LRsOn, LRsOf
    <3>2. [IdleThread EXCEPT !.pc = "policy", !.dio = d, !.ack = ack,
                             !.todo = LRsOn(d, dn)] \in Threads
      BY <3>1, IdleThreadType DEF Threads, PCs
    <3>3. QED
      BY <2>1, <3>2 DEF TypeOK
  <2>4. QED
    BY <1>2, <2>1, <2>2, <2>3
       DEF TypeOK, Process_Datanode_Response, kvars, iovars, lrvars
<1>3. ASSUME NEW dn \in DNs, Drop_Datanode_Response(dn)
      PROVE  TypeOK'
  <2>1. PICK d \in Dios, ack \in Acks : Answer(dn, d, ack)
    BY <1>3 DEF Drop_Datanode_Response
  <2>2. QED
    BY <1>3, <2>1, AnswerType
       DEF TypeOK, Drop_Datanode_Response, kvars, iovars, metavars, lrvars
<1>4. QED
  BY <1>1, <1>2, <1>3

\* So does every step of a receiver inside the committer.
LEMMA CommiterTypeOK ==
    ASSUME TypeOK, NEW dn \in DNs, Commiter(dn)
    PROVE  TypeOK'
<1>0. thr[dn] \in Threads
  BY DEF TypeOK
<1>1. /\ thr[dn].dio \in Dios
      /\ thr[dn].lr \in LRs
      /\ thr[dn].ack \in Acks
      /\ thr[dn].todo \subseteq LRs
      /\ thr[dn].done \in Nat
      /\ KreqOf[thr[dn].dio] \in Kreqs
  BY <1>0, StructureAssumption DEF Threads
<1>2. CASE Update_and_Commit_to_User_Policy(dn)
  <2>1. PICK l \in thr[dn].todo :
          /\ Record(l, dn, thr[dn].ack)
          /\ \/ Policy_Mem(dn, l)
             \/ Policy_Disk(dn, l)
             \/ Policy_ReadError(dn, l)
             \/ Policy_WriteError(dn, l)
    BY <1>2 DEF Update_and_Commit_to_User_Policy
  <2>2. l \in LRs
    BY <1>1, <2>1
  <2>3. dnResult' \in [LRs -> [DNs -> Acks \cup {"none"}]]
    BY <1>1, <2>1, <2>2 DEF TypeOK, Record, Acks, GoodAcks
  <2>4. /\ wmem' \in [LRs -> Int]
        /\ wdisk' \in [LRs -> Int]
    BY <2>1, <2>2 DEF TypeOK, Policy_Mem, Policy_Disk, Policy_ReadError, Policy_WriteError
  <2>5. AfterTag(thr[dn].todo \ {l}) \in PCs
    BY DEF AfterTag, PCs
  <2>6. thr' \in [DNs -> Threads]
    <3>1. CASE Policy_Mem(dn, l)
      <4> DEFINE pc == IF LastAck(wmem[l]) THEN "testandset" ELSE AfterTag(thr[dn].todo \ {l})
      <4>1. pc \in PCs
        BY <2>5 DEF PCs
      <4>2. thr' = [thr EXCEPT ![dn] =
                      [thr[dn] EXCEPT !.lr = l, !.todo = thr[dn].todo \ {l}, !.pc = pc]]
        BY <3>1 DEF Policy_Mem
      <4> HIDE DEF pc
      <4>3. [thr[dn] EXCEPT !.lr = l, !.todo = thr[dn].todo \ {l}, !.pc = pc] \in Threads
        BY <1>0, <4>1, <2>2 DEF Threads
      <4>4. QED
        BY <4>2, <4>3, UpdateType DEF TypeOK
    <3>2. CASE Policy_Disk(dn, l)
      <4> DEFINE n == thr[dn].done + (IF LastAck(wdisk[l]) THEN 1 ELSE 0)
      <4>1. n \in Nat
        BY <1>1
      <4>2. thr' = [thr EXCEPT ![dn] =
                      [thr[dn] EXCEPT !.lr = l, !.todo = thr[dn].todo \ {l},
                                      !.pc = "testandset", !.done = n]]
        BY <3>2 DEF Policy_Disk
      <4> HIDE DEF n
      <4>3. [thr[dn] EXCEPT !.lr = l, !.todo = thr[dn].todo \ {l},
                            !.pc = "testandset", !.done = n] \in Threads
        BY <1>0, <4>1, <2>2 DEF Threads, PCs
      <4>4. QED
        BY <4>2, <4>3, UpdateType DEF TypeOK
    <3>3. CASE Policy_ReadError(dn, l)
      <4> DEFINE pc == AfterTag(thr[dn].todo \ {l})
      <4>1. thr' = [thr EXCEPT ![dn] =
                      [thr[dn] EXCEPT !.lr = l, !.todo = thr[dn].todo \ {l}, !.pc = pc]]
        BY <3>3 DEF Policy_ReadError
      <4>2. pc \in PCs
        BY <2>5
      <4> HIDE DEF pc
      <4>3. [thr[dn] EXCEPT !.lr = l, !.todo = thr[dn].todo \ {l}, !.pc = pc] \in Threads
        BY <1>0, <4>2, <2>2 DEF Threads
      <4>4. QED
        BY <4>1, <4>3, UpdateType DEF TypeOK
    <3>4. CASE Policy_WriteError(dn, l)
      <4> DEFINE c == LastAck(wmem[l])
      <4>1. c \in BOOLEAN
        BY DEF LastAck
      <4>2. thr' = [thr EXCEPT ![dn] =
                      [thr[dn] EXCEPT !.lr = l, !.todo = thr[dn].todo \ {l},
                                      !.pc = "errdisk", !.cuser = c]]
        BY <3>4 DEF Policy_WriteError
      <4> HIDE DEF c
      <4>3. [thr[dn] EXCEPT !.lr = l, !.todo = thr[dn].todo \ {l},
                            !.pc = "errdisk", !.cuser = c] \in Threads
        BY <1>0, <4>1, <2>2 DEF Threads, PCs
      <4>4. QED
        BY <4>2, <4>3, UpdateType DEF TypeOK
    <3>5. QED
      BY <2>1, <3>1, <3>2, <3>3, <3>4
  <2>7. QED
    BY <1>2, <2>3, <2>4, <2>6
       DEF TypeOK, Update_and_Commit_to_User_Policy, kvars, iovars, metavars
<1>3. CASE Update_Disk_Ack_on_Error(dn)
  <2>1. AfterTag(thr[dn].todo) \in PCs
    BY DEF AfterTag, PCs
  <2>2. thr' \in [DNs -> Threads]
    <3> DEFINE l == thr[dn].lr
               n == thr[dn].done + (IF LastAck(wdisk[l]) THEN 1 ELSE 0)
               pc == IF LastAck(wdisk[l]) \/ thr[dn].cuser
                     THEN "testandset" ELSE AfterTag(thr[dn].todo)
    <3>1. n \in Nat
      BY <1>1
    <3>2. pc \in PCs
      BY <2>1 DEF PCs
    <3>3. thr' = [thr EXCEPT ![dn] = [thr[dn] EXCEPT !.done = n, !.pc = pc]]
      BY <1>3 DEF Update_Disk_Ack_on_Error
    <3> HIDE DEF n, pc
    <3>4. [thr[dn] EXCEPT !.done = n, !.pc = pc] \in Threads
      BY <1>0, <3>1, <3>2 DEF Threads
    <3>5. QED
      BY <3>3, <3>4, UpdateType DEF TypeOK
  <2>3. QED
    BY <1>1, <1>3, <2>2 DEF TypeOK, Update_Disk_Ack_on_Error, kvars, iovars, metavars
<1>4. CASE Commit_LBs_to_DMS_IO(dn)
  <2>1. thr' \in [DNs -> Threads]
    BY <1>4, GotoType, NextTagType DEF TypeOK, Commit_LBs_to_DMS_IO, PCs
  <2>2. QED
    BY <1>1, <1>4, <2>1 DEF TypeOK, Commit_LBs_to_DMS_IO, kvars, iovars, metavars
<1>5. CASE Set_DIO_Result(dn)
  <2>1. thr' \in [DNs -> Threads]
    BY <1>5, GotoType DEF TypeOK, Set_DIO_Result, PCs
  <2>2. QED
    BY <1>1, <1>5, <2>1 DEF TypeOK, Set_DIO_Result, FirstResult, Results, kvars, metavars, lrvars
<1>6. CASE Commit_LB_List_by_Range(dn)
  <2>1. thr' \in [DNs -> Threads]
    BY <1>6, GotoType, NextTagType DEF TypeOK, Commit_LB_List_by_Range, PCs
  <2>2. QED
    BY <1>1, <1>6, <2>1 DEF TypeOK, Commit_LB_List_by_Range, kvars, metavars, lrvars
<1>7. CASE Set_IOR_Result(dn)
  <2>1. thr' \in [DNs -> Threads]
    BY <1>7, GotoType DEF TypeOK, Set_IOR_Result, PCs
  <2>2. QED
    BY <1>1, <1>7, <2>1 DEF TypeOK, Set_IOR_Result, FirstResult, kvars, metavars, lrvars
<1>8. CASE Remove_and_Release_DIO(dn)
  <2>1. thr' \in [DNs -> Threads]
    BY <1>8, GotoType DEF TypeOK, Remove_and_Release_DIO, AfterUnlink, PCs
  <2>2. dioList' \in [Kreqs -> SUBSET Dios]
    <3> DEFINE k == KreqOf[thr[dn].dio]
    <3>1. dioList[k] \ {thr[dn].dio} \in SUBSET Dios
      BY <1>1 DEF TypeOK
    <3>2. \/ dioList' = [dioList EXCEPT ![k] = dioList[k] \ {thr[dn].dio}]
          \/ dioList' = dioList
      BY <1>8 DEF Remove_and_Release_DIO
    <3>3. QED
      BY <3>1, <3>2, <1>1 DEF TypeOK
  <2>3. dioState' \in [Dios -> {"none", "live", "released"}]
    BY <1>1, <1>8 DEF TypeOK, Remove_and_Release_DIO
  <2>4. QED
    BY <1>8, <2>1, <2>2, <2>3 DEF TypeOK, Remove_and_Release_DIO, kvars, metavars, lrvars
<1>9. CASE DMS_End_Request_Handler(dn)
  <2>1. thr' \in [DNs -> Threads]
    BY <1>9, GotoType DEF TypeOK, DMS_End_Request_Handler, PCs
  <2>2. QED
    BY <1>9, <2>1 DEF TypeOK, DMS_End_Request_Handler, kvars, iovars, metavars, lrvars
<1>10. CASE Complete_Request(dn)
  <2> DEFINE k == KreqOf[thr[dn].dio]
  <2>1. thr' \in [DNs -> Threads]
    BY <1>10, GotoType DEF TypeOK, Complete_Request, PCs
  <2>2. /\ kstate' \in [Kreqs -> {"queued", "started", "inflight", "failed", "ended"}]
        /\ special' \in [Kreqs -> BOOLEAN]
        /\ endings' \in [Kreqs -> Nat]
        /\ kresult' \in [Kreqs -> Results]
    <3>1. k \in Kreqs /\ iorResult[k] \in Results
      BY <1>1 DEF TypeOK
    <3>2. End_Request(k, iorResult[k])
      BY <1>10 DEF Complete_Request
    <3>3. QED
      BY <3>1, <3>2, EndRequestType DEF TypeOK
  <2>3. QED
    BY <1>10, <2>1, <2>2 DEF TypeOK, Complete_Request, iovars, metavars, lrvars
<1>11. CASE Set_Pdio_NULL(dn)
  <2>1. thr' \in [DNs -> Threads]
    BY <1>11, NextTagType DEF TypeOK, Set_Pdio_NULL
  <2>2. QED
    BY <1>1, <1>11, <2>1 DEF TypeOK, Set_Pdio_NULL, kvars, iovars, lrvars
<1>12. CASE Update_and_Commit_to_Namenode_Policy(dn)
  <2>1. thr' \in [DNs -> Threads]
    <3> DEFINE d == thr[dn].dio
               c == ReachesZero(waiting[d], thr[dn].done)
    <3>1. c \in BOOLEAN
      BY DEF ReachesZero
    <3>2. thr' = [thr EXCEPT ![dn] = [thr[dn] EXCEPT !.pc = "committags", !.cnn = c]]
      BY <1>12 DEF Update_and_Commit_to_Namenode_Policy
    <3> HIDE DEF c
    <3>3. [thr[dn] EXCEPT !.pc = "committags", !.cnn = c] \in Threads
      BY <1>0, <3>1 DEF Threads, PCs
    <3>4. QED
      BY <3>2, <3>3, UpdateType DEF TypeOK
  <2>2. QED
    BY <1>1, <1>12, <2>1
       DEF TypeOK, Update_and_Commit_to_Namenode_Policy, kvars, iovars, lrvars
<1>13. CASE Commit_Datanode_Tags(dn)
  <2>1. thr' \in [DNs -> Threads]
    BY <1>13, GotoType, IdleThreadType DEF TypeOK, Commit_Datanode_Tags, Return, PCs
  <2>2. QED
    BY <1>1, <1>13, <2>1 DEF TypeOK, Commit_Datanode_Tags, kvars, iovars, lrvars
<1>14. CASE Commit_to_Namenode(dn)
  <2>1. thr' \in [DNs -> Threads]
    BY <1>14, IdleThreadType DEF TypeOK, Commit_to_Namenode, Return
  <2>2. QED
    BY <1>1, <1>14, <2>1 DEF TypeOK, Commit_to_Namenode, kvars, iovars, lrvars
<1>15. QED
  BY <1>2, <1>3, <1>4, <1>5, <1>6, <1>7, <1>8, <1>9, <1>10, <1>11, <1>12, <1>13, <1>14
     DEF Commiter

\* Every state of every behaviour of the commit path is well typed.
THEOREM TypeCorrect == Spec => []TypeOK
<1>1. TypeOK /\ [Next]_vars => TypeOK'
  <2> SUFFICES ASSUME TypeOK, [Next]_vars
               PROVE  TypeOK'
    OBVIOUS
  <2>1. CASE Next
    BY <2>1, RequestTypeOK, ResponseTypeOK, CommiterTypeOK DEF Next
  <2>2. CASE UNCHANGED vars
    BY <2>2 DEF TypeOK, vars, kvars, iovars, metavars, lrvars
  <2>3. QED
    BY <2>1, <2>2
<1>2. QED
  BY <1>1, InitTypeOK, PTL DEF Spec

-----------------------------------------------------------------------------
(* Ownership.                                                               *)

\* Nothing is owned initially.
LEMMA InitOwnership == Init => OwnershipInv
<1> SUFFICES ASSUME Init PROVE OwnershipInv
  OBVIOUS
<1>1. \A dn \in DNs : thr[dn].pc = "idle"
  BY DEF Init, IdleThread
<1>2. KreqInv
  BY DEF Init, KreqInv, DiosOf
<1>3. DioInv /\ LRInv
  BY StructureAssumption DEF Init, DioInv, LRInv
<1>4. ThreadInv /\ UniqueInv
  BY <1>1 DEF ThreadInv, UniqueInv, ThreadOK, ClaimsLR, ClaimsDio, ClaimsKreq
<1>5. QED
  BY <1>2, <1>3, <1>4 DEF OwnershipInv

\* A step that only moves one receiver keeps the ownership, if the receiver may be
\* at its new control point and owns nothing it did not own before.
LEMMA ThreadStep ==
    ASSUME TypeOK, OwnershipInv, NEW dn \in DNs, NEW t,
           thr' = [thr EXCEPT ![dn] = t],
           UNCHANGED <<kstate, special, endings, dioList, dioState, lbs, located, committed>>,
           ThreadOK(t),
           \A l \in LRs : ClaimsLR(t, l) => ClaimsLR(thr[dn], l),
           \A d \in Dios : ClaimsDio(t, d) => ClaimsDio(thr[dn], d),
           \A k \in Kreqs : ClaimsKreq(t, k) => ClaimsKreq(thr[dn], k)
    PROVE  OwnershipInv'
<1>1. /\ thr'[dn] = t
      /\ \A o \in DNs : o # dn => thr'[o] = thr[o]
  BY DEF TypeOK
<1>2. KreqInv' /\ DioInv' /\ LRInv'
  BY DEF OwnershipInv, KreqInv, DioInv, LRInv
<1>3. ThreadInv'
  <2> SUFFICES ASSUME NEW o \in DNs
               PROVE  ThreadOK(thr[o])'
    BY DEF ThreadInv
  <2>1. ThreadOK(thr'[o])
    BY <1>1 DEF OwnershipInv, ThreadInv
  <2>2. QED
    BY <2>1 DEF ThreadOK, ClaimsLR, ClaimsDio, ClaimsKreq
<1>4. UniqueInv'
  <2> SUFFICES ASSUME NEW o \in DNs, NEW p \in DNs, o # p
               PROVE  /\ \A l \in LRs : ~(ClaimsLR(thr'[o], l) /\ ClaimsLR(thr'[p], l))
                      /\ \A d \in Dios : ~(ClaimsDio(thr'[o], d) /\ ClaimsDio(thr'[p], d))
                      /\ \A k \in Kreqs : ~(ClaimsKreq(thr'[o], k) /\ ClaimsKreq(thr'[p], k))
    BY DEF UniqueInv, ClaimsLR, ClaimsDio, ClaimsKreq
  <2>1. QED
    BY <1>1 DEF OwnershipInv, UniqueInv
<1>5. QED
  BY <1>2, <1>3, <1>4 DEF OwnershipInv

\* Control points at which a receiver owns nothing and has no located request at hand.
Quiet == {"policy", "nnpolicy", "clearpdio", "committags", "commitnn"}

\* A receiver may go to a quiet control point, with less to do, at any time.
LEMMA QuietStep ==
    ASSUME TypeOK, OwnershipInv, NEW dn \in DNs, NEW t,
           thr' = [thr EXCEPT ![dn] = t],
           UNCHANGED <<kstate, special, endings, dioList, dioState, lbs, located, committed>>,
           \/ /\ t.pc \in Quiet
              /\ located[t.dio]
              /\ t.todo \subseteq LRsOf(t.dio)
           \/ /\ t.pc \in {"errdisk", "testandset"}
              /\ located[t.dio]
              /\ t.todo \subseteq LRsOf(t.dio)
              /\ DioOf[t.lr] = t.dio
           \/ t.pc = "idle"
    PROVE  OwnershipInv'
<1>1. ThreadOK(t)
  BY DEF ThreadOK, ClaimsLR, ClaimsDio, ClaimsKreq, Quiet
<1>2. /\ \A l \in LRs : ~ClaimsLR(t, l)
      /\ \A d \in Dios : ~ClaimsDio(t, d)
      /\ \A k \in Kreqs : ~ClaimsKreq(t, k)
  BY DEF ClaimsLR, ClaimsDio, ClaimsKreq, Quiet
<1>3. QED
  BY <1>1, <1>2, ThreadStep

\* The same when only the control point changes.
LEMMA QuietGoto ==
    ASSUME TypeOK, OwnershipInv, NEW dn \in DNs, NEW pc \in Quiet,
           Goto(dn, pc), thr[dn].pc # "idle",
           UNCHANGED <<kstate, special, endings, dioList, dioState, lbs, located, committed>>
    PROVE  OwnershipInv'
<1> DEFINE t == [thr[dn] EXCEPT !.pc = pc]
<1>1. thr[dn] \in Threads
  BY DEF TypeOK
<1>2. t.pc = pc /\ t.dio = thr[dn].dio /\ t.todo = thr[dn].todo
  BY <1>1 DEF Threads
<1>3. located[thr[dn].dio] /\ thr[dn].todo \subseteq LRsOf(thr[dn].dio)
  BY DEF OwnershipInv, ThreadInv, ThreadOK
<1>4. thr' = [thr EXCEPT ![dn] = t]
  BY DEF Goto
<1> HIDE DEF t
<1>5. QED
  BY <1>2, <1>3, <1>4, QuietStep

\* The counters of a located request never disturb the ownership.
LEMMA PolicyOwnership ==
    ASSUME TypeOK, OwnershipInv, NEW dn \in DNs,
           \/ Update_and_Commit_to_User_Policy(dn)
           \/ Update_Disk_Ack_on_Error(dn)
    PROVE  OwnershipInv'
<1>0. /\ thr[dn] \in Threads
      /\ UNCHANGED <<kstate, special, endings, dioList, dioState, lbs, located, committed>>
  BY DEF TypeOK, Update_and_Commit_to_User_Policy, Update_Disk_Ack_on_Error,
         kvars, iovars, metavars
<1>1. thr[dn].pc # "idle" =>
        located[thr[dn].dio] /\ thr[dn].todo \subseteq LRsOf(thr[dn].dio)
  BY DEF OwnershipInv, ThreadInv, ThreadOK
<1>2. \A todo : AfterTag(todo) \in Quiet
  BY DEF AfterTag, Quiet
<1>3. CASE Update_and_Commit_to_User_Policy(dn)
  <2>1. PICK l \in thr[dn].todo :
          \/ Policy_Mem(dn, l)
          \/ Policy_Disk(dn, l)
          \/ Policy_ReadError(dn, l)
          \/ Policy_WriteError(dn, l)
    BY <1>3 DEF Update_and_Commit_to_User_Policy
  <2>2. /\ located[thr[dn].dio]
        /\ thr[dn].todo \ {l} \subseteq LRsOf(thr[dn].dio)
        /\ DioOf[l] = thr[dn].dio
    BY <1>1, <1>3, <2>1 DEF Update_and_Commit_to_User_Policy, LRsOf
  <2>3. \E t : /\ thr' = [thr EXCEPT ![dn] = t]
              /\ t.pc \in Quiet \cup {"errdisk", "testandset"}
              /\ t.dio = thr[dn].dio
              /\ t.todo = thr[dn].todo \ {l}
              /\ t.lr = l
    <3>1. CASE Policy_Mem(dn, l)
      <4> DEFINE pc == IF LastAck(wmem[l]) THEN "testandset" ELSE AfterTag(thr[dn].todo \ {l})
                 t == [thr[dn] EXCEPT !.lr = l, !.todo = thr[dn].todo \ {l}, !.pc = pc]
      <4>1. thr' = [thr EXCEPT ![dn] = t]
        BY <3>1 DEF Policy_Mem
      <4>2. pc \in Quiet \cup {"errdisk", "testandset"}
        BY <1>2
      <4> HIDE DEF pc
      <4>3. t.pc = pc /\ t.dio = thr[dn].dio /\ t.todo = thr[dn].todo \ {l} /\ t.lr = l
        BY <1>0 DEF Threads
      <4> HIDE DEF t
      <4>4. QED
        BY <4>1, <4>2, <4>3
    <3>2. CASE Policy_Disk(dn, l)
      <4> DEFINE n == thr[dn].done + (IF LastAck(wdisk[l]) THEN 1 ELSE 0)
                 t == [thr[dn] EXCEPT !.lr = l, !.todo = thr[dn].todo \ {l},
                                      !.pc = "testandset", !.done = n]
      <4>1. thr' = [thr EXCEPT ![dn] = t]
        BY <3>2 DEF Policy_Disk
      <4> HIDE DEF n
      <4>2. /\ t.pc = "testandset" /\ t.dio = thr[dn].dio
            /\ t.todo = thr[dn].todo \ {l} /\ t.lr = l
        BY <1>0 DEF Threads
      <4> HIDE DEF t
      <4>3. QED
        BY <4>1, <4>2
    <3>3. CASE Policy_ReadError(dn, l)
      <4> DEFINE pc == AfterTag(thr[dn].todo \ {l})
                 t == [thr[dn] EXCEPT !.lr = l, !.todo = thr[dn].todo \ {l}, !.pc = pc]
      <4>1. thr' = [thr EXCEPT ![dn] = t]
        BY <3>3 DEF Policy_ReadError
      <4>2. pc \in Quiet
        BY <1>2
      <4> HIDE DEF pc
      <4>3. t.pc = pc /\ t.dio = thr[dn].dio /\ t.todo = thr[dn].todo \ {l} /\ t.lr = l
        BY <1>0 DEF Threads
      <4> HIDE DEF t
      <4>4. QED
        BY <4>1, <4>2, <4>3
    <3>4. CASE Policy_WriteError(dn, l)
      <4> DEFINE c == LastAck(wmem[l])
                 t == [thr[dn] EXCEPT !.lr = l, !.todo = thr[dn].todo \ {l},
                                      !.pc = "errdisk", !.cuser = c]
      <4>1. thr' = [thr EXCEPT ![dn] = t]
        BY <3>4 DEF Policy_WriteError
      <4> HIDE DEF c
      <4>2. /\ t.pc = "errdisk" /\ t.dio = thr[dn].dio
            /\ t.todo = thr[dn].todo \ {l} /\ t.lr = l
        BY <1>0 DEF Threads
      <4> HIDE DEF t
      <4>3. QED
        BY <4>1, <4>2
    <3>5. QED
      BY <2>1, <3>1, <3>2, <3>3, <3>4
  <2>4. PICK t : /\ thr' = [thr EXCEPT ![dn] = t]
                 /\ t.pc \in Quiet \cup {"errdisk", "testandset"}
                 /\ t.dio = thr[dn].dio
                 /\ t.todo = thr[dn].todo \ {l}
                 /\ t.lr = l
    BY <2>3
  <2>5. /\ located[t.dio]
        /\ t.todo \subseteq LRsOf(t.dio)
        /\ DioOf[t.lr] = t.dio
    BY <2>2, <2>4
  <2>6. QED
    BY <1>0, <2>4, <2>5, QuietStep
<1>4. CASE Update_Disk_Ack_on_Error(dn)
  <2> DEFINE n == thr[dn].done + (IF LastAck(wdisk[thr[dn].lr]) THEN 1 ELSE 0)
             pc == IF LastAck(wdisk[thr[dn].lr]) \/ thr[dn].cuser
                   THEN "testandset" ELSE AfterTag(thr[dn].todo)
             t == [thr[dn] EXCEPT !.done = n, !.pc = pc]
  <2>1. thr' = [thr EXCEPT ![dn] = t]
    BY <1>4 DEF Update_Disk_Ack_on_Error
  <2>2. pc \in Quiet \cup {"testandset"}
    BY <1>2
  <2>3. /\ located[thr[dn].dio]
        /\ thr[dn].todo \subseteq LRsOf(thr[dn].dio)
        /\ DioOf[thr[dn].lr] = thr[dn].dio
    BY <1>4 DEF Update_Disk_Ack_on_Error, OwnershipInv, ThreadInv, ThreadOK
  <2> HIDE DEF n, pc
  <2>4. t.pc = pc /\ t.dio = thr[dn].dio /\ t.todo = thr[dn].todo /\ t.lr = thr[dn].lr
    BY <1>0 DEF Threads
  <2> HIDE DEF t
  <2>5. /\ t.pc \in Quiet \cup {"testandset"}
        /\ located[t.dio]
        /\ t.todo \subseteq LRsOf(t.dio)
        /\ DioOf[t.lr] = t.dio
    BY <2>2, <2>3, <2>4
  <2>6. QED
    BY <1>0, <2>1, <2>5, QuietStep
<1>5. QED
  BY <1>3, <1>4

\* Neither do the steps after the last payload tag.
LEMMA TailOwnership ==
    ASSUME TypeOK, OwnershipInv, NEW dn \in DNs,
           \/ Set_Pdio_NULL(dn)
           \/ Update_and_Commit_to_Namenode_Policy(dn)
           \/ Commit_Datanode_Tags(dn)
           \/ Commit_to_Namenode(dn)
    PROVE  OwnershipInv'
<1>0. /\ thr[dn] \in Threads
      /\ UNCHANGED <<kstate, special, endings, dioList, dioState, lbs, located, committed>>
  BY DEF TypeOK, Set_Pdio_NULL, Update_and_Commit_to_Namenode_Policy,
         Commit_Datanode_Tags, Commit_to_Namenode, kvars, iovars, lrvars
<1>1. Return(dn) => OwnershipInv'
  <2>1. IdleThread.pc = "idle"
    BY DEF IdleThread
  <2>2. QED
    BY <1>0, <2>1, QuietStep DEF Return
<1>2. CASE Set_Pdio_NULL(dn)
  BY <1>0, <1>2, QuietGoto DEF Set_Pdio_NULL, NextTag, AfterTag, Quiet
<1>3. CASE Update_and_Commit_to_Namenode_Policy(dn)
  <2> DEFINE c == ReachesZero(waiting[thr[dn].dio], thr[dn].done)
             t == [thr[dn] EXCEPT !.pc = "committags", !.cnn = c]
  <2>1. thr' = [thr EXCEPT ![dn] = t]
    BY <1>3 DEF Update_and_Commit_to_Namenode_Policy
  <2>2. located[thr[dn].dio] /\ thr[dn].todo \subseteq LRsOf(thr[dn].dio)
    BY <1>3 DEF Update_and_Commit_to_Namenode_Policy, OwnershipInv, ThreadInv, ThreadOK
  <2> HIDE DEF c
  <2>3. t.pc = "committags" /\ t.dio = thr[dn].dio /\ t.todo = thr[dn].todo
    BY <1>0 DEF Threads
  <2> HIDE DEF t
  <2>4. QED
    BY <1>0, <2>1, <2>2, <2>3, QuietStep DEF Quiet
<1>4. CASE Commit_Datanode_Tags(dn)
  BY <1>0, <1>1, <1>4, QuietGoto DEF Commit_Datanode_Tags, Quiet
<1>5. CASE Commit_to_Namenode(dn)
  BY <1>1, <1>5 DEF Commit_to_Namenode
<1>6. QED
  BY <1>2, <1>3, <1>4, <1>5

\* What a change of the control point alone leaves in the receivers.
LEMMA GotoFacts ==
    ASSUME TypeOK, NEW dn \in DNs, NEW pc \in PCs, Goto(dn, pc)
    PROVE  /\ thr'[dn].pc = pc
           /\ thr'[dn].dio = thr[dn].dio
           /\ thr'[dn].lr = thr[dn].lr
           /\ thr'[dn].todo = thr[dn].todo
           /\ \A o \in DNs : o # dn => thr'[o] = thr[o]
<1> DEFINE t == [thr[dn] EXCEPT !.pc = pc]
<1>1. thr' = [thr EXCEPT ![dn] = t]
  BY DEF Goto
<1>2. /\ t.pc = pc /\ t.dio = thr[dn].dio
      /\ t.lr = thr[dn].lr /\ t.todo = thr[dn].todo
  BY DEF TypeOK, Threads
<1> HIDE DEF t
<1>3. thr'[dn] = t /\ \A o \in DNs : o # dn => thr'[o] = thr[o]
  BY <1>1 DEF TypeOK
<1>4. QED
  BY <1>2, <1>3

\* Storing a result passes on what the receiver owns.
LEMMA ResultOwnership ==
    ASSUME TypeOK, OwnershipInv, NEW dn \in DNs, Set_DIO_Result(dn) \/ Set_IOR_Result(dn)
    PROVE  OwnershipInv'
<1>0. UNCHANGED <<kstate, special, endings, dioList, dioState, lbs, located, committed>>
  BY DEF Set_DIO_Result, Set_IOR_Result, kvars, metavars, lrvars
<1> DEFINE t == thr'[dn]
<1>1. \/ /\ thr[dn].pc = "dioresult" /\ Goto(dn, "removelbs")
      \/ /\ thr[dn].pc = "iorresult" /\ Goto(dn, "unlink")
  BY DEF Set_DIO_Result, Set_IOR_Result
<1>2. /\ \/ thr[dn].pc = "dioresult" /\ t.pc = "removelbs"
         \/ thr[dn].pc = "iorresult" /\ t.pc = "unlink"
      /\ t.dio = thr[dn].dio /\ t.lr = thr[dn].lr /\ t.todo = thr[dn].todo
      /\ \A o \in DNs : o # dn => thr'[o] = thr[o]
  BY <1>1, GotoFacts DEF PCs
<1>3. thr' = [thr EXCEPT ![dn] = t]
  BY <1>1 DEF Goto, TypeOK
<1> HIDE DEF t
<1>4. ThreadOK(thr[dn])
  BY DEF OwnershipInv, ThreadInv
<1>5. ThreadOK(t)
  BY <1>2, <1>4 DEF ThreadOK, ClaimsLR, ClaimsDio, ClaimsKreq
<1>6. /\ \A l \in LRs : ClaimsLR(t, l) => ClaimsLR(thr[dn], l)
      /\ \A d \in Dios : ClaimsDio(t, d) => ClaimsDio(thr[dn], d)
      /\ \A k \in Kreqs : ClaimsKreq(t, k) => ClaimsKreq(thr[dn], k)
  BY <1>2 DEF ClaimsLR, ClaimsDio, ClaimsKreq
<1>7. QED
  BY <1>0, <1>3, <1>5, <1>6, ThreadStep

\* COMMITTED_USER_BIT: the receiver that sets it owns the located request.
LEMMA TestAndSetOwnership ==
    ASSUME TypeOK, OwnershipInv, NEW dn \in DNs, Commit_LBs_to_DMS_IO(dn)
    PROVE  OwnershipInv'
<1> DEFINE l == thr[dn].lr
           t == thr'[dn]
<1>0. /\ UNCHANGED <<kstate, special, endings, dioList, dioState, lbs, located>>
      /\ committed' = [committed EXCEPT ![l] = TRUE]
      /\ thr[dn].pc = "testandset"
      /\ l \in LRs
  BY DEF TypeOK, Threads, Commit_LBs_to_DMS_IO, kvars, iovars, metavars
<1>1. \/ ~committed[l] /\ Goto(dn, "dioresult")
      \/ Goto(dn, AfterTag(thr[dn].todo))
  BY DEF Commit_LBs_to_DMS_IO, MayCommit, NextTag
<1>2. AfterTag(thr[dn].todo) \in PCs /\ AfterTag(thr[dn].todo) \in {"policy", "nnpolicy"}
  BY DEF AfterTag, PCs
<1>3. /\ \/ ~committed[l] /\ t.pc = "dioresult"
         \/ t.pc \in {"policy", "nnpolicy"}
      /\ t.dio = thr[dn].dio /\ t.lr = l /\ t.todo = thr[dn].todo
      /\ \A o \in DNs : o # dn => thr'[o] = thr[o]
  BY <1>1, <1>2, GotoFacts DEF PCs
<1>4. /\ located[thr[dn].dio] /\ thr[dn].todo \subseteq LRsOf(thr[dn].dio)
      /\ DioOf[l] = thr[dn].dio /\ thr[dn].dio \in Dios
  BY <1>0 DEF OwnershipInv, ThreadInv, ThreadOK, TypeOK, Threads
<1>5. dioState[DioOf[l]] # "none"
  BY <1>4 DEF OwnershipInv, DioInv
<1>6. ~committed[l] => l \in lbs[DioOf[l]]
  BY <1>0, <1>5 DEF OwnershipInv, LRInv
<1>7. /\ \A m \in LRs : committed[m] => committed'[m]
      /\ committed'[l]
      /\ \A m \in LRs : m # l => (committed'[m] <=> committed[m])
  BY <1>0 DEF TypeOK
<1> HIDE DEF t, l
<1>8. KreqInv' /\ DioInv'
  BY <1>0 DEF OwnershipInv, KreqInv, DioInv
<1>9. LRInv'
  BY <1>0, <1>5, <1>7 DEF OwnershipInv, LRInv
<1>10. ThreadInv'
  <2> SUFFICES ASSUME NEW o \in DNs
               PROVE  ThreadOK(thr[o])'
    BY DEF ThreadInv
  <2>1. CASE o = dn
    BY <2>1, <1>0, <1>3, <1>4, <1>6, <1>7
       DEF t, ThreadOK, ClaimsLR, ClaimsDio, ClaimsKreq
  <2>2. CASE o # dn
    <3>1. ThreadOK(thr[o])
      BY DEF OwnershipInv, ThreadInv
    <3>2. thr'[o] = thr[o]
      BY <2>2, <1>3
    <3>3. QED
      BY <3>1, <3>2, <1>0, <1>7 DEF ThreadOK, ClaimsLR, ClaimsDio, ClaimsKreq
  <2>3. QED
    BY <2>1, <2>2
<1>11. UniqueInv'
  \* Nobody owns l before: an owner of l needs l to be committed.
  <2>1. ~committed[l] => \A o \in DNs : ~ClaimsLR(thr[o], l)
    BY <1>0 DEF OwnershipInv, ThreadInv, ThreadOK
  <2>2. \A m \in LRs : ClaimsLR(t, m) => m = l /\ ~committed[l]
    BY <1>3 DEF ClaimsLR
  <2>3. /\ \A d \in Dios : ~ClaimsDio(t, d)
        /\ \A k \in Kreqs : ~ClaimsKreq(t, k)
    BY <1>3 DEF ClaimsDio, ClaimsKreq
  <2> SUFFICES ASSUME NEW o \in DNs, NEW p \in DNs, o # p
               PROVE  /\ \A m \in LRs : ~(ClaimsLR(thr'[o], m) /\ ClaimsLR(thr'[p], m))
                      /\ \A d \in Dios : ~(ClaimsDio(thr'[o], d) /\ ClaimsDio(thr'[p], d))
                      /\ \A k \in Kreqs : ~(ClaimsKreq(thr'[o], k) /\ ClaimsKreq(thr'[p], k))
    BY DEF UniqueInv, ClaimsLR, ClaimsDio, ClaimsKreq
  <2>4. QED
    BY <2>1, <2>2, <2>3, <1>3 DEF t, OwnershipInv, UniqueInv
<1>12. QED
  BY <1>8, <1>9, <1>10, <1>11 DEF OwnershipInv

\* The receiver that empties the logical block list owns the dio.
LEMMA RemoveBlocksOwnership ==
    ASSUME TypeOK, OwnershipInv, NEW dn \in DNs, Commit_LB_List_by_Range(dn)
    PROVE  OwnershipInv'
<1> DEFINE l == thr[dn].lr
           d == thr[dn].dio
           rest == lbs[d] \ {l}
           t == thr'[dn]
<1>0. /\ UNCHANGED <<kstate, special, endings, dioList, dioState, located, committed>>
      /\ lbs' = [lbs EXCEPT ![d] = rest]
      /\ thr[dn].pc = "removelbs"
      /\ l \in LRs /\ d \in Dios
  BY DEF TypeOK, Threads, Commit_LB_List_by_Range, kvars, metavars, lrvars
<1>1. /\ ClaimsLR(thr[dn], l)
      /\ located[d] /\ thr[dn].todo \subseteq LRsOf(d)
      /\ DioOf[l] = d /\ committed[l] /\ l \in lbs[d]
  BY <1>0 DEF OwnershipInv, ThreadInv, ThreadOK, ClaimsLR
<1>2. dioState[d] = "live"
  BY <1>0, <1>1 DEF OwnershipInv, DioInv
<1>3. \/ rest = {} /\ Goto(dn, "iorresult")
      \/ Goto(dn, AfterTag(thr[dn].todo))
  BY DEF Commit_LB_List_by_Range, NextTag
<1>4. AfterTag(thr[dn].todo) \in PCs /\ AfterTag(thr[dn].todo) \in {"policy", "nnpolicy"}
  BY DEF AfterTag, PCs
<1>5. /\ \/ rest = {} /\ t.pc = "iorresult"
         \/ t.pc \in {"policy", "nnpolicy"}
      /\ t.dio = d /\ t.todo = thr[dn].todo
      /\ \A o \in DNs : o # dn => thr'[o] = thr[o]
  BY <1>3, <1>4, GotoFacts DEF PCs
<1>6. /\ lbs'[d] = rest
      /\ \A e \in Dios : e # d => lbs'[e] = lbs[e]
      /\ \A e \in Dios : lbs'[e] \subseteq lbs[e]
  BY <1>0 DEF TypeOK
\* No other receiver owns l, and none owns d: its list still held l.
<1>7. \A o \in DNs : o # dn => ~ClaimsLR(thr[o], l) /\ ~ClaimsDio(thr[o], d)
  BY <1>0, <1>1 DEF OwnershipInv, ThreadInv, ThreadOK, UniqueInv
<1> HIDE DEF t, l, d, rest
<1>8. KreqInv'
  BY <1>0 DEF OwnershipInv, KreqInv
<1>9. DioInv'
  BY <1>0, <1>2, <1>6 DEF OwnershipInv, DioInv
<1>10. LRInv'
  <2> SUFFICES ASSUME NEW m \in LRs
               PROVE  /\ dioState[DioOf[m]] = "none" => ~committed[m]
                      /\ dioState[DioOf[m]] # "none" /\ ~committed[m] => m \in lbs'[DioOf[m]]
    BY <1>0 DEF LRInv
  <2>1. DioOf[m] \in Dios
    BY StructureAssumption
  <2>2. QED
    BY <2>1, <1>0, <1>1, <1>6 DEF OwnershipInv, LRInv, rest
<1>11. ThreadInv'
  <2> SUFFICES ASSUME NEW o \in DNs
               PROVE  ThreadOK(thr[o])'
    BY DEF ThreadInv
  <2>1. CASE o = dn
    BY <2>1, <1>0, <1>1, <1>2, <1>5, <1>6
       DEF t, ThreadOK, ClaimsLR, ClaimsDio, ClaimsKreq
  <2>2. CASE o # dn
    <3>1. ThreadOK(thr[o])
      BY DEF OwnershipInv, ThreadInv
    <3>2. thr'[o] = thr[o]
      BY <2>2, <1>5
    <3>3. \A m \in LRs : ClaimsLR(thr[o], m) => m # l
      BY <2>2, <1>7
    <3>4. \A m \in LRs : m # l /\ m \in lbs[DioOf[m]] => m \in lbs'[DioOf[m]]
      BY <1>6, StructureAssumption DEF rest
    <3>5. \A e \in Dios : lbs[e] = {} => lbs'[e] = {}
      BY <1>6
    <3>6. QED
      BY <3>1, <3>2, <3>3, <3>4, <3>5, <1>0 DEF ThreadOK, ClaimsLR, ClaimsDio, ClaimsKreq
  <2>3. QED
    BY <2>1, <2>2
<1>12. UniqueInv'
  <2>1. /\ \A m \in LRs : ~ClaimsLR(t, m)
        /\ \A e \in Dios : ClaimsDio(t, e) => e = d
        /\ \A k \in Kreqs : ~ClaimsKreq(t, k)
    BY <1>5 DEF ClaimsLR, ClaimsDio, ClaimsKreq
  <2> SUFFICES ASSUME NEW o \in DNs, NEW p \in DNs, o # p
               PROVE  /\ \A m \in LRs : ~(ClaimsLR(thr'[o], m) /\ ClaimsLR(thr'[p], m))
                      /\ \A e \in Dios : ~(ClaimsDio(thr'[o], e) /\ ClaimsDio(thr'[p], e))
                      /\ \A k \in Kreqs : ~(ClaimsKreq(thr'[o], k) /\ ClaimsKreq(thr'[p], k))
    BY DEF UniqueInv, ClaimsLR, ClaimsDio, ClaimsKreq
  <2>2. QED
    BY <2>1, <1>5, <1>7 DEF t, OwnershipInv, UniqueInv
<1>13. QED
  BY <1>8, <1>9, <1>10, <1>11, <1>12 DEF OwnershipInv

\* The receiver that empties the dio list owns the kernel request.
LEMMA UnlinkOwnership ==
    ASSUME TypeOK, OwnershipInv, NEW dn \in DNs, Remove_and_Release_DIO(dn)
    PROVE  OwnershipInv'
<1> DEFINE d == thr[dn].dio
           k == KreqOf[d]
           rest == dioList[k] \ {d}
           t == thr'[dn]
<1>0. /\ UNCHANGED <<kstate, special, endings, lbs, located, committed>>
      /\ thr[dn].pc = "unlink"
      /\ d \in Dios /\ k \in Kreqs
  BY StructureAssumption DEF TypeOK, Threads, Remove_and_Release_DIO, kvars, metavars, lrvars
<1>1. /\ ClaimsDio(thr[dn], d)
      /\ located[d] /\ thr[dn].todo \subseteq LRsOf(d)
      /\ dioState[d] = "live" /\ lbs[d] = {}
  BY <1>0 DEF OwnershipInv, ThreadInv, ThreadOK, ClaimsDio
<1>2. d \in dioList[k]
  BY <1>0, <1>1 DEF OwnershipInv, KreqInv, DiosOf
<1>3. /\ dioList' = [dioList EXCEPT ![k] = rest]
      /\ dioState' = [dioState EXCEPT ![d] = "released"]
      /\ Goto(dn, AfterUnlink(rest))
  BY <1>2 DEF Remove_and_Release_DIO
<1>4. /\ \/ rest = {} /\ t.pc = "end"
         \/ t.pc = "clearpdio"
      /\ t.dio = d /\ t.todo = thr[dn].todo
      /\ \A o \in DNs : o # dn => thr'[o] = thr[o]
  BY <1>3, GotoFacts DEF PCs, AfterUnlink
<1>5. /\ dioList'[k] = rest
      /\ \A j \in Kreqs : j # k => dioList'[j] = dioList[j]
      /\ dioState'[d] = "released"
      /\ \A e \in Dios : e # d => dioState'[e] = dioState[e]
  BY <1>0, <1>3 DEF TypeOK
<1>6. kstate[k] \notin {"queued", "started", "failed", "ended"}
  BY <1>0, <1>1, <1>2 DEF OwnershipInv, KreqInv, DioInv
<1>7. kstate[k] = "inflight"
  BY <1>0, <1>6 DEF TypeOK
\* No other receiver owns d, and none owns k: its list still held d.
<1>8. \A o \in DNs : o # dn => ~ClaimsDio(thr[o], d) /\ ~ClaimsKreq(thr[o], k)
  BY <1>0, <1>1, <1>2 DEF OwnershipInv, ThreadInv, ThreadOK, UniqueInv
\* The blocks of d are all gone.
<1>9. \A l \in LRs : DioOf[l] = d => committed[l]
  BY <1>0, <1>1 DEF OwnershipInv, LRInv
<1>10. k = KreqOf[d]
  OBVIOUS
<1> HIDE DEF t, d, k, rest
<1>11. KreqInv'
  <2> SUFFICES ASSUME NEW j \in Kreqs
               PROVE  /\ special[j] <=> kstate[j] = "inflight"
                      /\ endings[j] = IF kstate[j] = "ended" THEN 1 ELSE 0
                      /\ dioList'[j] = {e \in DiosOf(j) : dioState'[e] = "live"}
                      /\ kstate[j] = "ended" => dioList'[j] = {}
    BY <1>0 DEF KreqInv
  <2>1. dioList[j] = {e \in DiosOf(j) : dioState[e] = "live"}
    BY DEF OwnershipInv, KreqInv
  <2>2. dioList'[j] = {e \in DiosOf(j) : dioState'[e] = "live"}
    <3>1. CASE j = k
      BY <3>1, <2>1, <1>5 DEF rest, DiosOf
    <3>2. CASE j # k
      <4>1. \A e \in DiosOf(j) : e # d
        BY <3>2, <1>10 DEF DiosOf
      <4>2. QED
        BY <3>2, <4>1, <2>1, <1>5 DEF DiosOf
    <3>3. QED
      BY <3>1, <3>2
  <2>3. kstate[j] = "ended" => dioList'[j] = {}
    BY <1>5, <1>7 DEF OwnershipInv, KreqInv
  <2>4. QED
    BY <2>2, <2>3 DEF OwnershipInv, KreqInv
<1>12. DioInv'
  <2> SUFFICES ASSUME NEW e \in Dios
               PROVE  /\ dioState'[e] = "none" <=>
                            kstate[KreqOf[e]] \in {"queued", "started", "failed"}
                      /\ located[e] => dioState'[e] # "none"
                      /\ lbs[e] \subseteq LRsOf(e)
                      /\ dioState'[e] # "live" => lbs[e] = {}
    BY <1>0 DEF DioInv
  <2>1. CASE e = d
    BY <2>1, <1>0, <1>1, <1>5, <1>7, <1>10 DEF LRsOf
  <2>2. CASE e # d
    BY <2>2, <1>5 DEF OwnershipInv, DioInv
  <2>3. QED
    BY <2>1, <2>2
<1>13. LRInv'
  <2> SUFFICES ASSUME NEW l \in LRs
               PROVE  /\ dioState'[DioOf[l]] = "none" => ~committed[l]
                      /\ dioState'[DioOf[l]] # "none" /\ ~committed[l] => l \in lbs[DioOf[l]]
    BY <1>0 DEF LRInv
  <2>1. DioOf[l] \in Dios
    BY StructureAssumption
  <2>2. QED
    BY <2>1, <1>5, <1>9 DEF OwnershipInv, LRInv
<1>14. ThreadInv'
  <2> SUFFICES ASSUME NEW o \in DNs
               PROVE  ThreadOK(thr[o])'
    BY DEF ThreadInv
  <2>1. CASE o = dn
    BY <2>1, <1>0, <1>1, <1>4, <1>5, <1>7, <1>10
       DEF t, ThreadOK, ClaimsLR, ClaimsDio, ClaimsKreq
  <2>2. CASE o # dn
    <3>1. ThreadOK(thr[o])
      BY DEF OwnershipInv, ThreadInv
    <3>2. thr'[o] = thr[o]
      BY <2>2, <1>4
    <3>3. /\ \A e \in Dios : ClaimsDio(thr[o], e) => e # d
          /\ \A j \in Kreqs : ClaimsKreq(thr[o], j) => j # k
      BY <2>2, <1>8
    <3>4. QED
      BY <3>1, <3>2, <3>3, <1>0, <1>5 DEF ThreadOK, ClaimsLR, ClaimsDio, ClaimsKreq
  <2>3. QED
    BY <2>1, <2>2
<1>15. UniqueInv'
  <2>1. /\ \A m \in LRs : ~ClaimsLR(t, m)
        /\ \A e \in Dios : ~ClaimsDio(t, e)
        /\ \A j \in Kreqs : ClaimsKreq(t, j) => j = k
    BY <1>4, <1>10 DEF ClaimsLR, ClaimsDio, ClaimsKreq
  <2> SUFFICES ASSUME NEW o \in DNs, NEW p \in DNs, o # p
               PROVE  /\ \A m \in LRs : ~(ClaimsLR(thr'[o], m) /\ ClaimsLR(thr'[p], m))
                      /\ \A e \in Dios : ~(ClaimsDio(thr'[o], e) /\ ClaimsDio(thr'[p], e))
                      /\ \A j \in Kreqs : ~(ClaimsKreq(thr'[o], j) /\ ClaimsKreq(thr'[p], j))
    BY DEF UniqueInv, ClaimsLR, ClaimsDio, ClaimsKreq
  <2>2. QED
    BY <2>1, <1>4, <1>8 DEF t, OwnershipInv, UniqueInv
<1>16. QED
  BY <1>11, <1>12, <1>13, <1>14, <1>15 DEF OwnershipInv

\* Testing kreq->special keeps or gives up what the receiver owns.
LEMMA TestSpecialOwnership ==
    ASSUME TypeOK, OwnershipInv, NEW dn \in DNs, DMS_End_Request_Handler(dn)
    PROVE  OwnershipInv'
<1> DEFINE t == thr'[dn]
           pc == IF special[KreqOf[thr[dn].dio]] THEN "complete" ELSE "clearpdio"
<1>0. UNCHANGED <<kstate, special, endings, dioList, dioState, lbs, located, committed>>
  BY DEF DMS_End_Request_Handler, kvars, iovars, metavars, lrvars
<1>1. thr[dn].pc = "end" /\ Goto(dn, pc) /\ pc \in {"complete", "clearpdio"}
  BY DEF DMS_End_Request_Handler
<1> HIDE DEF pc
<1>2. /\ t.pc = pc /\ t.dio = thr[dn].dio /\ t.lr = thr[dn].lr /\ t.todo = thr[dn].todo
      /\ thr' = [thr EXCEPT ![dn] = t]
  <2>1. pc \in PCs
    BY <1>1 DEF PCs
  <2>2. thr' = [thr EXCEPT ![dn] = t]
    BY <1>1 DEF Goto, TypeOK
  <2>3. QED
    BY <1>1, <2>1, <2>2, GotoFacts
<1> HIDE DEF t
<1>3. ThreadOK(thr[dn])
  BY DEF OwnershipInv, ThreadInv
<1>4. ThreadOK(t)
  BY <1>1, <1>2, <1>3 DEF ThreadOK, ClaimsLR, ClaimsDio, ClaimsKreq
<1>5. /\ \A l \in LRs : ClaimsLR(t, l) => ClaimsLR(thr[dn], l)
      /\ \A d \in Dios : ClaimsDio(t, d) => ClaimsDio(thr[dn], d)
      /\ \A k \in Kreqs : ClaimsKreq(t, k) => ClaimsKreq(thr[dn], k)
  BY <1>1, <1>2 DEF ClaimsLR, ClaimsDio, ClaimsKreq
<1>6. QED
  BY <1>0, <1>2, <1>4, <1>5, ThreadStep

\* The owner of a kernel request ends it, and nobody else does.
LEMMA EndOwnership ==
    ASSUME TypeOK, OwnershipInv, NEW dn \in DNs, Complete_Request(dn)
    PROVE  OwnershipInv'
<1> DEFINE k == KreqOf[thr[dn].dio]
           t == thr'[dn]
<1>0. /\ UNCHANGED <<dioList, dioState, lbs, located, committed>>
      /\ thr[dn].pc = "complete"
      /\ Goto(dn, "clearpdio")
      /\ k \in Kreqs
  BY StructureAssumption
     DEF TypeOK, Threads, Complete_Request, iovars, metavars, lrvars
<1>1. /\ ClaimsKreq(thr[dn], k)
      /\ located[thr[dn].dio] /\ thr[dn].todo \subseteq LRsOf(thr[dn].dio)
      /\ kstate[k] = "inflight" /\ dioList[k] = {}
  BY <1>0 DEF OwnershipInv, ThreadInv, ThreadOK, ClaimsKreq
<1>2. special[k] /\ endings[k] = 0
  BY <1>0, <1>1 DEF OwnershipInv, KreqInv
<1>3. /\ kstate' = [kstate EXCEPT ![k] = "ended"]
      /\ special' = [special EXCEPT ![k] = FALSE]
      /\ endings' = [endings EXCEPT ![k] = endings[k] + 1]
  BY DEF Complete_Request, End_Request
<1>4. /\ t.pc = "clearpdio" /\ t.dio = thr[dn].dio /\ t.todo = thr[dn].todo
      /\ \A o \in DNs : o # dn => thr'[o] = thr[o]
  BY <1>0, GotoFacts DEF PCs
<1>5. /\ kstate'[k] = "ended" /\ ~special'[k] /\ endings'[k] = 1
      /\ \A j \in Kreqs : j # k =>
            /\ kstate'[j] = kstate[j]
            /\ special'[j] <=> special[j]
            /\ endings'[j] = endings[j]
  BY <1>0, <1>2, <1>3 DEF TypeOK
<1>6. \A o \in DNs : o # dn => ~ClaimsKreq(thr[o], k)
  BY <1>0, <1>1 DEF OwnershipInv, UniqueInv
<1> HIDE DEF t, k
<1>7. KreqInv'
  <2> SUFFICES ASSUME NEW j \in Kreqs
               PROVE  /\ special'[j] <=> kstate'[j] = "inflight"
                      /\ endings'[j] = IF kstate'[j] = "ended" THEN 1 ELSE 0
                      /\ dioList[j] = {e \in DiosOf(j) : dioState[e] = "live"}
                      /\ kstate'[j] = "ended" => dioList[j] = {}
    BY <1>0 DEF KreqInv
  <2>1. CASE j = k
    BY <2>1, <1>1, <1>5 DEF OwnershipInv, KreqInv
  <2>2. CASE j # k
    BY <2>2, <1>5 DEF OwnershipInv, KreqInv
  <2>3. QED
    BY <2>1, <2>2
<1>8. DioInv'
  <2> SUFFICES ASSUME NEW e \in Dios
               PROVE  /\ dioState[e] = "none" <=>
                            kstate'[KreqOf[e]] \in {"queued", "started", "failed"}
                      /\ located[e] => dioState[e] # "none"
                      /\ lbs[e] \subseteq LRsOf(e)
                      /\ dioState[e] # "live" => lbs[e] = {}
    BY <1>0 DEF DioInv
  <2>1. KreqOf[e] \in Kreqs
    BY StructureAssumption
  <2>2. QED
    BY <2>1, <1>1, <1>5 DEF OwnershipInv, DioInv
<1>9. LRInv'
  BY <1>0 DEF OwnershipInv, LRInv
<1>10. ThreadInv'
  <2> SUFFICES ASSUME NEW o \in DNs
               PROVE  ThreadOK(thr[o])'
    BY DEF ThreadInv
  <2>1. CASE o = dn
    BY <2>1, <1>0, <1>1, <1>4 DEF t, ThreadOK, ClaimsLR, ClaimsDio, ClaimsKreq
  <2>2. CASE o # dn
    <3>1. ThreadOK(thr[o])
      BY DEF OwnershipInv, ThreadInv
    <3>2. thr'[o] = thr[o]
      BY <2>2, <1>4
    <3>3. \A j \in Kreqs : ClaimsKreq(thr[o], j) => kstate'[j] = kstate[j]
      BY <2>2, <1>5, <1>6
    <3>4. QED
      BY <3>1, <3>2, <3>3, <1>0 DEF ThreadOK, ClaimsLR, ClaimsDio, ClaimsKreq
  <2>3. QED
    BY <2>1, <2>2
<1>11. UniqueInv'
  <2>1. /\ \A m \in LRs : ~ClaimsLR(t, m)
        /\ \A e \in Dios : ~ClaimsDio(t, e)
        /\ \A j \in Kreqs : ~ClaimsKreq(t, j)
    BY <1>4 DEF ClaimsLR, ClaimsDio, ClaimsKreq
  <2> SUFFICES ASSUME NEW o \in DNs, NEW p \in DNs, o # p
               PROVE  /\ \A m \in LRs : ~(ClaimsLR(thr'[o], m) /\ ClaimsLR(thr'[p], m))
                      /\ \A e \in Dios : ~(ClaimsDio(thr'[o], e) /\ ClaimsDio(thr'[p], e))
                      /\ \A j \in Kreqs : ~(ClaimsKreq(thr'[o], j) /\ ClaimsKreq(thr'[p], j))
    BY DEF UniqueInv, ClaimsLR, ClaimsDio, ClaimsKreq
  <2>2. QED
    BY <2>1, <1>4 DEF t, OwnershipInv, UniqueInv
<1>12. QED
  BY <1>7, <1>8, <1>9, <1>10, <1>11 DEF OwnershipInv

\* Starting, building and aborting a request touch nothing that is owned.
LEMMA RequestOwnership ==
    ASSUME TypeOK, OwnershipInv, NEW k \in Kreqs,
           \/ DMS_Request_Handler(k) \/ VolumeIO_Handler(k) \/ Make_DIO_Request_Fail(k)
    PROVE  OwnershipInv'
<1>1. ASSUME NEW state \in {"started", "failed"},
             kstate[k] \in {"queued", "started"},
             kstate' = [kstate EXCEPT ![k] = state],
             UNCHANGED <<special, endings, dioList, dioState, lbs, located, committed, thr>>
      PROVE  OwnershipInv'
  <2>1. /\ kstate'[k] = state
        /\ \A j \in Kreqs : j # k => kstate'[j] = kstate[j]
    BY <1>1 DEF TypeOK
  <2>2. KreqInv'
    BY <1>1, <2>1 DEF OwnershipInv, KreqInv
  <2>3. DioInv'
    <3> SUFFICES ASSUME NEW e \in Dios
                 PROVE  /\ dioState[e] = "none" <=>
                              kstate'[KreqOf[e]] \in {"queued", "started", "failed"}
                        /\ located[e] => dioState[e] # "none"
                        /\ lbs[e] \subseteq LRsOf(e)
                        /\ dioState[e] # "live" => lbs[e] = {}
      BY <1>1 DEF DioInv
    <3>1. KreqOf[e] \in Kreqs
      BY StructureAssumption
    <3>2. QED
      BY <3>1, <1>1, <2>1 DEF OwnershipInv, DioInv
  <2>4. LRInv'
    BY <1>1 DEF OwnershipInv, LRInv
  <2>5. ThreadInv'
    <3> SUFFICES ASSUME NEW o \in DNs
                 PROVE  ThreadOK(thr[o])'
      BY DEF ThreadInv
    <3>1. ThreadOK(thr[o])
      BY DEF OwnershipInv, ThreadInv
    <3>2. \A j \in Kreqs : kstate[j] = "inflight" => kstate'[j] = "inflight"
      BY <1>1, <2>1
    <3>3. QED
      BY <3>1, <3>2, <1>1 DEF ThreadOK, ClaimsLR, ClaimsDio, ClaimsKreq
  <2>6. UniqueInv'
    BY <1>1 DEF OwnershipInv, UniqueInv, ClaimsLR, ClaimsDio, ClaimsKreq
  <2>7. QED
    BY <2>2, <2>3, <2>4, <2>5, <2>6 DEF OwnershipInv
<1>2. CASE DMS_Request_Handler(k)
  BY <1>1, <1>2 DEF DMS_Request_Handler, iovars, metavars, lrvars
<1>3. CASE Make_DIO_Request_Fail(k)
  <2>1. kstate[k] = "started" /\ ~special[k]
    BY <1>3 DEF Make_DIO_Request_Fail, OwnershipInv, KreqInv
  <2>2. QED
    BY <1>1, <1>3, <2>1 DEF Make_DIO_Request_Fail, End_Request, iovars, metavars, lrvars
<1>4. CASE VolumeIO_Handler(k)
  <2>0. /\ kstate[k] = "started"
        /\ UNCHANGED <<endings, located, committed, thr>>
    BY <1>4 DEF VolumeIO_Handler, metavars, lrvars
  <2>1. /\ kstate'[k] = "inflight" /\ special'[k] /\ dioList'[k] = DiosOf(k)
        /\ \A j \in Kreqs : j # k =>
              /\ kstate'[j] = kstate[j]
              /\ special'[j] <=> special[j]
              /\ dioList'[j] = dioList[j]
    BY <1>4 DEF VolumeIO_Handler, TypeOK
  <2>2. \A e \in Dios : /\ KreqOf[e] = k => dioState'[e] = "live" /\ lbs'[e] = LRsOf(e)
                        /\ KreqOf[e] # k => dioState'[e] = dioState[e] /\ lbs'[e] = lbs[e]
    BY <1>4 DEF VolumeIO_Handler
  \* No dio of k exists yet, so that nobody can own one, or one of its blocks.
  <2>3. \A e \in Dios : KreqOf[e] = k => dioState[e] = "none" /\ ~located[e]
    BY <2>0 DEF OwnershipInv, DioInv
  <2>4. KreqInv'
    <3> SUFFICES ASSUME NEW j \in Kreqs
                 PROVE  /\ special'[j] <=> kstate'[j] = "inflight"
                        /\ endings[j] = IF kstate'[j] = "ended" THEN 1 ELSE 0
                        /\ dioList'[j] = {e \in DiosOf(j) : dioState'[e] = "live"}
                        /\ kstate'[j] = "ended" => dioList'[j] = {}
      BY <2>0 DEF KreqInv
    <3>1. CASE j = k
      BY <3>1, <2>0, <2>1, <2>2 DEF OwnershipInv, KreqInv, DiosOf
    <3>2. CASE j # k
      BY <3>2, <2>1, <2>2 DEF OwnershipInv, KreqInv, DiosOf
    <3>3. QED
      BY <3>1, <3>2
  <2>5. DioInv'
    <3> SUFFICES ASSUME NEW e \in Dios
                 PROVE  /\ dioState'[e] = "none" <=>
                              kstate'[KreqOf[e]] \in {"queued", "started", "failed"}
                        /\ located[e] => dioState'[e] # "none"
                        /\ lbs'[e] \subseteq LRsOf(e)
                        /\ dioState'[e] # "live" => lbs'[e] = {}
      BY <2>0 DEF DioInv
    <3>1. KreqOf[e] \in Kreqs
      BY StructureAssumption
    <3>2. QED
      BY <3>1, <2>1, <2>2 DEF OwnershipInv, DioInv
  <2>6. LRInv'
    <3> SUFFICES ASSUME NEW l \in LRs
                 PROVE  /\ dioState'[DioOf[l]] = "none" => ~committed[l]
                        /\ dioState'[DioOf[l]] # "none" /\ ~committed[l]
                              => l \in lbs'[DioOf[l]]
      BY <2>0 DEF LRInv
    <3>1. DioOf[l] \in Dios /\ l \in LRsOf(DioOf[l])
      BY StructureAssumption DEF LRsOf
    <3>2. QED
      BY <3>1, <2>2 DEF OwnershipInv, LRInv
  <2>7. ThreadInv'
    <3> SUFFICES ASSUME NEW o \in DNs
                 PROVE  ThreadOK(thr[o])'
      BY DEF ThreadInv
    <3>1. ThreadOK(thr[o])
      BY DEF OwnershipInv, ThreadInv
    <3>2. \A l \in LRs : ClaimsLR(thr[o], l) => lbs'[DioOf[l]] = lbs[DioOf[l]]
      <4> SUFFICES ASSUME NEW l \in LRs, ClaimsLR(thr[o], l)
                   PROVE  lbs'[DioOf[l]] = lbs[DioOf[l]]
        OBVIOUS
      <4>1. DioOf[l] \in Dios /\ located[DioOf[l]]
        BY <3>1, StructureAssumption DEF ThreadOK, ClaimsLR
      <4>2. QED
        BY <4>1, <2>2, <2>3
    <3>3. \A e \in Dios : ClaimsDio(thr[o], e) =>
            dioState'[e] = dioState[e] /\ lbs'[e] = lbs[e]
      BY <3>1, <2>2, <2>3 DEF ThreadOK
    <3>4. \A j \in Kreqs : ClaimsKreq(thr[o], j) =>
            kstate'[j] = kstate[j] /\ dioList'[j] = dioList[j]
      BY <3>1, <2>0, <2>1 DEF ThreadOK
    <3>5. QED
      BY <3>1, <3>2, <3>3, <3>4, <2>0 DEF ThreadOK, ClaimsLR, ClaimsDio, ClaimsKreq
  <2>8. UniqueInv'
    BY <2>0 DEF OwnershipInv, UniqueInv, ClaimsLR, ClaimsDio, ClaimsKreq
  <2>9. QED
    BY <2>4, <2>5, <2>6, <2>7, <2>8 DEF OwnershipInv
<1>5. QED
  BY <1>2, <1>3, <1>4

\* Neither do the answers of the namenode and of the datanodes.
LEMMA ResponseOwnership ==
    ASSUME TypeOK, OwnershipInv,
           \/ \E d \in Dios : Process_Namenode_Response(d)
           \/ \E dn \in DNs : \/ Process_Datanode_Response(dn)
                              \/ Drop_Datanode_Response(dn)
    PROVE  OwnershipInv'
<1>1. ASSUME NEW d \in Dios, Process_Namenode_Response(d)
      PROVE  OwnershipInv'
  <2>1. /\ UNCHANGED <<kstate, special, endings, dioList, dioState, lbs, committed, thr>>
        /\ dioState[d] = "live"
        /\ located' = [located EXCEPT ![d] = TRUE]
    BY <1>1 DEF Process_Namenode_Response, kvars, iovars
  <2>2. \A e \in Dios : (located'[e] <=> located[e]) \/ (e = d /\ located'[e])
    BY <2>1 DEF TypeOK
  <2>3. KreqInv' /\ LRInv'
    BY <2>1 DEF OwnershipInv, KreqInv, LRInv
  <2>4. DioInv'
    BY <2>1, <2>2 DEF OwnershipInv, DioInv
  <2>5. ThreadInv'
    <3> SUFFICES ASSUME NEW o \in DNs
                 PROVE  ThreadOK(thr[o])'
      BY DEF ThreadInv
    <3>1. ThreadOK(thr[o]) /\ thr[o].dio \in Dios
      BY DEF OwnershipInv, ThreadInv, TypeOK, Threads
    <3>2. QED
      BY <3>1, <2>1, <2>2 DEF ThreadOK, ClaimsLR, ClaimsDio, ClaimsKreq
  <2>6. UniqueInv'
    BY <2>1 DEF OwnershipInv, UniqueInv, ClaimsLR, ClaimsDio, ClaimsKreq
  <2>7. QED
    BY <2>3, <2>4, <2>5, <2>6 DEF OwnershipInv
<1>2. ASSUME NEW dn \in DNs, Process_Datanode_Response(dn)
      PROVE  OwnershipInv'
  <2>1. PICK d \in Dios, ack \in Acks :
          /\ located[d]
          /\ thr' = [thr EXCEPT ![dn] =
                [IdleThread EXCEPT !.pc = "policy", !.dio = d, !.ack = ack,
                                   !.todo = LRsOn(d, dn)]]
    BY <1>2 DEF Process_Datanode_Response, Answer
  <2> DEFINE t == [IdleThread EXCEPT !.pc = "policy", !.dio = d, !.ack = ack,
                                     !.todo = LRsOn(d, dn)]
  <2>2. thr' = [thr EXCEPT ![dn] = t]
    BY <2>1
  <2>3. t.pc = "policy" /\ t.dio = d /\ t.todo = LRsOn(d, dn)
    BY IdleThreadType DEF Threads
  <2> HIDE DEF t
  <2>4. LRsOn(d, dn) \subseteq LRsOf(d)
    BY DEF LRsOn
  <2>5. UNCHANGED <<kstate, special, endings, dioList, dioState, lbs, located, committed>>
    BY <1>2 DEF Process_Datanode_Response, kvars, iovars, lrvars
  <2>6. t.pc \in Quiet /\ located[t.dio] /\ t.todo \subseteq LRsOf(t.dio)
    BY <2>1, <2>3, <2>4 DEF Quiet
  <2>7. QED
    BY <2>2, <2>5, <2>6, QuietStep
<1>3. ASSUME NEW dn \in DNs, Drop_Datanode_Response(dn)
      PROVE  OwnershipInv'
  <2>1. UNCHANGED <<kstate, special, endings, dioList, dioState, lbs, located, committed, thr>>
    BY <1>3 DEF Drop_Datanode_Response, kvars, iovars, metavars, lrvars
  <2>2. KreqInv' /\ DioInv' /\ LRInv'
    BY <2>1 DEF OwnershipInv, KreqInv, DioInv, LRInv
  <2>3. ThreadInv'
    BY <2>1 DEF OwnershipInv, ThreadInv, ThreadOK, ClaimsLR, ClaimsDio, ClaimsKreq
  <2>4. UniqueInv'
    BY <2>1 DEF OwnershipInv, UniqueInv, ClaimsLR, ClaimsDio, ClaimsKreq
  <2>5. QED
    BY <2>2, <2>3, <2>4 DEF OwnershipInv
<1>4. QED
  BY <1>1, <1>2, <1>3

\* However the receivers interleave, no two of them own the same located request, dio
\* or kernel request, and what is passed up a level is complete.
THEOREM Ownership == Spec => []OwnershipInv
<1>1. TypeOK /\ OwnershipInv /\ [Next]_vars => OwnershipInv'
  <2> SUFFICES ASSUME TypeOK, OwnershipInv, [Next]_vars
               PROVE  OwnershipInv'
    OBVIOUS
  <2>1. CASE UNCHANGED vars
    BY <2>1 DEF vars, kvars, iovars, metavars, lrvars, OwnershipInv, KreqInv, DioInv,
                LRInv, ThreadInv, UniqueInv, ThreadOK, ClaimsLR, ClaimsDio, ClaimsKreq
  <2>2. ASSUME NEW k \in Kreqs,
               DMS_Request_Handler(k) \/ VolumeIO_Handler(k) \/ Make_DIO_Request_Fail(k)
        PROVE  OwnershipInv'
    BY <2>2, RequestOwnership
  <2>3. ASSUME NEW dn \in DNs, Commiter(dn)
        PROVE  OwnershipInv'
    BY <2>3, PolicyOwnership, TestAndSetOwnership, ResultOwnership, RemoveBlocksOwnership,
       UnlinkOwnership, TestSpecialOwnership, EndOwnership, TailOwnership DEF Commiter
  <2>4. QED
    BY <2>1, <2>2, <2>3, ResponseOwnership DEF Next
<1>2. QED
  BY <1>1, InitOwnership, TypeCorrect, PTL DEF Spec

\* DMS_End_Request_Handler completes a kernel request at most once.
THEOREM AtMostOneEnding == Spec => []EndedAtMostOnce
<1>1. OwnershipInv => EndedAtMostOnce
  BY DEF OwnershipInv, KreqInv, EndedAtMostOnce
<1>2. QED
  BY <1>1, Ownership, PTL

\* A request is ended only when all its located requests have been committed.
THEOREM EndingIsComplete == Spec => []EndedOnlyWhenAllCommitted
<1>1. TypeOK /\ OwnershipInv => EndedOnlyWhenAllCommitted
  <2> SUFFICES ASSUME TypeOK, OwnershipInv, NEW k \in Kreqs, endings[k] > 0
               PROVE  /\ dioList[k] = {}
                      /\ \A l \in LRs : KreqOf[DioOf[l]] = k =>
                            committed[l] /\ l \notin lbs[DioOf[l]]
    BY DEF EndedOnlyWhenAllCommitted
  <2>1. kstate[k] = "ended"
    BY DEF OwnershipInv, KreqInv
  <2>2. dioList[k] = {} /\ \A d \in DiosOf(k) : dioState[d] # "live"
    BY <2>1 DEF OwnershipInv, KreqInv
  <2>3. ASSUME NEW l \in LRs, KreqOf[DioOf[l]] = k
        PROVE  committed[l] /\ l \notin lbs[DioOf[l]]
    <3>1. DioOf[l] \in Dios /\ DioOf[l] \in DiosOf(k)
      BY <2>3, StructureAssumption DEF DiosOf
    <3>2. dioState[DioOf[l]] # "none" /\ lbs[DioOf[l]] = {}
      BY <2>1, <2>2, <2>3, <3>1 DEF OwnershipInv, DioInv
    <3>3. QED
      BY <3>2 DEF OwnershipInv, LRInv
  <2>4. QED
    BY <2>2, <2>3
<1>2. QED
  BY <1>1, TypeCorrect, Ownership, PTL

\* No receiver uses a dio that another receiver has released.
THEOREM DiosAreUsedLive == Spec => []NoUseAfterRelease
<1>1. TypeOK /\ OwnershipInv => NoUseAfterRelease
  <2> SUFFICES ASSUME TypeOK, OwnershipInv, NEW dn \in DNs,
                      thr[dn].pc \in {"dioresult", "removelbs", "iorresult", "unlink"}
               PROVE  dioState[thr[dn].dio] = "live"
    BY DEF NoUseAfterRelease
  <2>1. /\ ThreadOK(thr[dn])
        /\ thr[dn].dio \in Dios /\ thr[dn].lr \in LRs
    BY DEF OwnershipInv, ThreadInv, TypeOK, Threads
  <2>2. CASE thr[dn].pc \in {"dioresult", "removelbs"}
    <3>1. thr[dn].lr \in lbs[thr[dn].dio]
      BY <2>1, <2>2 DEF ThreadOK, ClaimsLR
    <3>2. QED
      BY <2>1, <3>1 DEF OwnershipInv, DioInv
  <2>3. CASE thr[dn].pc \in {"iorresult", "unlink"}
    BY <2>1, <2>3 DEF ThreadOK, ClaimsDio
  <2>4. QED
    BY <2>2, <2>3
<1>2. QED
  BY <1>1, TypeCorrect, Ownership, PTL

-----------------------------------------------------------------------------
(* Results and pointers.                                                    *)

\* An answer that some datanode has given about dio d, or about a dio of request k.
SentAbout(d, r) == \E dn \in DNs : r \in sent[d][dn]
SentFor(k, r) == \E d \in DiosOf(k) : SentAbout(d, r)

\* Every result is the initial `true` or an answer; what is passed on is an answer.
StoredInv ==
    /\ \A d \in Dios : dioResult[d] = "true" \/ SentAbout(d, dioResult[d])
    /\ \A k \in Kreqs : iorResult[k] = "true" \/ SentFor(k, iorResult[k])
    /\ \A k \in Kreqs : endings[k] > 0 => SentFor(k, kresult[k])

CarriedOK(t, dn) ==
    /\ t.pc # "idle" => t.ack \in sent[t.dio][dn]
    /\ t.pc \in {"removelbs", "iorresult"} => dioResult[t.dio] # "true"
    /\ t.pc \in {"unlink", "end", "complete"} => iorResult[KreqOf[t.dio]] # "true"

CarriedInv == \A dn \in DNs : CarriedOK(thr[dn], dn)

ResultInv == StoredInv /\ CarriedInv

-----------------------------------------------------------------------------
(* The control flow of a receiver.                                          *)

\* Where a receiver that takes a step inside the committer may come from and go to.
Flow(from, to) ==
    /\ from # "idle"
    /\ to = "removelbs" => from = "dioresult"
    /\ to = "iorresult" => from = "removelbs"
    /\ to = "unlink" => from = "iorresult"
    /\ to = "end" => from = "unlink"
    /\ to = "complete" => from = "end"
    /\ from = "end" => to \in {"complete", "clearpdio"}
    /\ from = "complete" => to = "clearpdio"

\* The receiver follows the flow, and keeps its dio and its answer until it returns.
Shape(dn) ==
    /\ thr' = [thr EXCEPT ![dn] = thr'[dn]]
    /\ Flow(thr[dn].pc, thr'[dn].pc)
    /\ thr'[dn].pc # "idle" => thr'[dn].dio = thr[dn].dio /\ thr'[dn].ack = thr[dn].ack

\* A step that gives the receiver the record t has this shape if t has.
LEMMA UpdateShape ==
    ASSUME TypeOK, NEW dn \in DNs, NEW t, thr' = [thr EXCEPT ![dn] = t],
           Flow(thr[dn].pc, t.pc),
           t.pc # "idle" => t.dio = thr[dn].dio /\ t.ack = thr[dn].ack
    PROVE  Shape(dn)
<1>1. thr'[dn] = t
  BY DEF TypeOK
<1>2. QED
  BY <1>1 DEF Shape

\* A step that only moves the receiver, or takes it out of the committer.
LEMMA GotoShape ==
    ASSUME TypeOK, NEW dn \in DNs, NEW pc \in PCs, Goto(dn, pc), Flow(thr[dn].pc, pc)
    PROVE  Shape(dn)
<1> DEFINE t == [thr[dn] EXCEPT !.pc = pc]
<1>1. thr' = [thr EXCEPT ![dn] = t]
  BY DEF Goto
<1>2. t.pc = pc /\ t.dio = thr[dn].dio /\ t.ack = thr[dn].ack
  BY DEF TypeOK, Threads
<1> HIDE DEF t
<1>3. QED
  BY <1>1, <1>2, UpdateShape

\* A step in which the receiver returns to its loop.
LEMMA ReturnShape ==
    ASSUME TypeOK, NEW dn \in DNs, Return(dn), Flow(thr[dn].pc, "idle")
    PROVE  Shape(dn)
<1>1. IdleThread.pc = "idle"
  BY DEF IdleThread
<1>2. QED
  BY <1>1, UpdateShape DEF Return

\* The end of a payload tag, from any control point but those that end a request.
LEMMA NextTagShape ==
    ASSUME TypeOK, NEW dn \in DNs, NextTag(dn),
           thr[dn].pc \notin {"idle", "end", "complete"}
    PROVE  Shape(dn)
<1>1. \A todo : AfterTag(todo) \in {"nnpolicy", "policy"}
  BY DEF AfterTag
<1>2. QED
  BY <1>1, GotoShape DEF NextTag, Flow, PCs

\* The commit policies.
LEMMA PolicyShape ==
    ASSUME TypeOK, NEW dn \in DNs,
           \/ Update_and_Commit_to_User_Policy(dn)
           \/ Update_Disk_Ack_on_Error(dn)
    PROVE  Shape(dn)
<1>0. thr[dn] \in Threads /\ thr[dn].pc \in {"policy", "errdisk"}
  BY DEF TypeOK, Update_and_Commit_to_User_Policy, Update_Disk_Ack_on_Error
<1>1. \A todo : AfterTag(todo) \in {"nnpolicy", "policy"}
  BY DEF AfterTag
<1>2. ASSUME NEW pc \in {"policy", "nnpolicy", "errdisk", "testandset"}
      PROVE  Flow(thr[dn].pc, pc)
  BY <1>0, <1>2 DEF Flow
<1>3. ASSUME NEW l \in LRs, Policy_Mem(dn, l)
      PROVE  Shape(dn)
  <2> DEFINE pc == IF LastAck(wmem[l]) THEN "testandset" ELSE AfterTag(thr[dn].todo \ {l})
             t == [thr[dn] EXCEPT !.lr = l, !.todo = thr[dn].todo \ {l}, !.pc = pc]
  <2>1. thr' = [thr EXCEPT ![dn] = t]
    BY <1>3 DEF Policy_Mem
  <2>2. pc \in {"policy", "nnpolicy", "errdisk", "testandset"}
    BY <1>1
  <2> HIDE DEF pc
  <2>3. t.pc = pc /\ t.dio = thr[dn].dio /\ t.ack = thr[dn].ack
    BY <1>0 DEF Threads
  <2> HIDE DEF t
  <2>4. QED
    BY <1>2, <2>1, <2>2, <2>3, UpdateShape
<1>4. ASSUME NEW l \in LRs, Policy_Disk(dn, l)
      PROVE  Shape(dn)
  <2> DEFINE n == thr[dn].done + (IF LastAck(wdisk[l]) THEN 1 ELSE 0)
             t == [thr[dn] EXCEPT !.lr = l, !.todo = thr[dn].todo \ {l},
                                  !.pc = "testandset", !.done = n]
  <2>1. thr' = [thr EXCEPT ![dn] = t]
    BY <1>4 DEF Policy_Disk
  <2> HIDE DEF n
  <2>2. t.pc = "testandset" /\ t.dio = thr[dn].dio /\ t.ack = thr[dn].ack
    BY <1>0 DEF Threads
  <2> HIDE DEF t
  <2>3. QED
    BY <1>2, <2>1, <2>2, UpdateShape
<1>5. ASSUME NEW l \in LRs, Policy_ReadError(dn, l)
      PROVE  Shape(dn)
  <2> DEFINE pc == AfterTag(thr[dn].todo \ {l})
             t == [thr[dn] EXCEPT !.lr = l, !.todo = thr[dn].todo \ {l}, !.pc = pc]
  <2>1. thr' = [thr EXCEPT ![dn] = t]
    BY <1>5 DEF Policy_ReadError
  <2>2. pc \in {"policy", "nnpolicy", "errdisk", "testandset"}
    BY <1>1
  <2> HIDE DEF pc
  <2>3. t.pc = pc /\ t.dio = thr[dn].dio /\ t.ack = thr[dn].ack
    BY <1>0 DEF Threads
  <2> HIDE DEF t
  <2>4. QED
    BY <1>2, <2>1, <2>2, <2>3, UpdateShape
<1>6. ASSUME NEW l \in LRs, Policy_WriteError(dn, l)
      PROVE  Shape(dn)
  <2> DEFINE c == LastAck(wmem[l])
             t == [thr[dn] EXCEPT !.lr = l, !.todo = thr[dn].todo \ {l},
                                  !.pc = "errdisk", !.cuser = c]
  <2>1. thr' = [thr EXCEPT ![dn] = t]
    BY <1>6 DEF Policy_WriteError
  <2> HIDE DEF c
  <2>2. t.pc = "errdisk" /\ t.dio = thr[dn].dio /\ t.ack = thr[dn].ack
    BY <1>0 DEF Threads
  <2> HIDE DEF t
  <2>3. QED
    BY <1>2, <2>1, <2>2, UpdateShape
<1>7. CASE Update_and_Commit_to_User_Policy(dn)
  <2>1. thr[dn].todo \subseteq LRs
    BY <1>0 DEF Threads
  <2>2. QED
    BY <1>3, <1>4, <1>5, <1>6, <1>7, <2>1 DEF Update_and_Commit_to_User_Policy
<1>8. CASE Update_Disk_Ack_on_Error(dn)
  <2> DEFINE n == thr[dn].done + (IF LastAck(wdisk[thr[dn].lr]) THEN 1 ELSE 0)
             pc == IF LastAck(wdisk[thr[dn].lr]) \/ thr[dn].cuser
                   THEN "testandset" ELSE AfterTag(thr[dn].todo)
             t == [thr[dn] EXCEPT !.done = n, !.pc = pc]
  <2>1. thr' = [thr EXCEPT ![dn] = t]
    BY <1>8 DEF Update_Disk_Ack_on_Error
  <2>2. pc \in {"policy", "nnpolicy", "errdisk", "testandset"}
    BY <1>1
  <2> HIDE DEF n, pc
  <2>3. t.pc = pc /\ t.dio = thr[dn].dio /\ t.ack = thr[dn].ack
    BY <1>0 DEF Threads
  <2> HIDE DEF t
  <2>4. QED
    BY <1>2, <2>1, <2>2, <2>3, UpdateShape
<1>9. QED
  BY <1>7, <1>8

\* Every step of the committer has this shape.
LEMMA CommiterShape ==
    ASSUME TypeOK, NEW dn \in DNs, Commiter(dn)
    PROVE  Shape(dn)
<1>1. CASE Update_and_Commit_to_User_Policy(dn) \/ Update_Disk_Ack_on_Error(dn)
  BY <1>1, PolicyShape
<1>2. CASE Commit_LBs_to_DMS_IO(dn)
  BY <1>2, GotoShape, NextTagShape DEF Commit_LBs_to_DMS_IO, Flow, PCs
<1>3. CASE Set_DIO_Result(dn)
  BY <1>3, GotoShape DEF Set_DIO_Result, Flow, PCs
<1>4. CASE Commit_LB_List_by_Range(dn)
  BY <1>4, GotoShape, NextTagShape DEF Commit_LB_List_by_Range, Flow, PCs
<1>5. CASE Set_IOR_Result(dn)
  BY <1>5, GotoShape DEF Set_IOR_Result, Flow, PCs
<1>6. CASE Remove_and_Release_DIO(dn)
  <2>1. \E pc \in {"end", "clearpdio"} : Goto(dn, pc)
    BY <1>6 DEF Remove_and_Release_DIO, AfterUnlink
  <2>2. thr[dn].pc = "unlink"
    BY <1>6 DEF Remove_and_Release_DIO
  <2>3. QED
    BY <2>1, <2>2, GotoShape DEF Flow, PCs
<1>7. CASE DMS_End_Request_Handler(dn)
  BY <1>7, GotoShape DEF DMS_End_Request_Handler, Flow, PCs
<1>8. CASE Complete_Request(dn)
  BY <1>8, GotoShape DEF Complete_Request, Flow, PCs
<1>9. CASE Set_Pdio_NULL(dn)
  BY <1>9, NextTagShape DEF Set_Pdio_NULL
<1>10. CASE Update_and_Commit_to_Namenode_Policy(dn)
  <2> DEFINE c == ReachesZero(waiting[thr[dn].dio], thr[dn].done)
             t == [thr[dn] EXCEPT !.pc = "committags", !.cnn = c]
  <2>1. thr' = [thr EXCEPT ![dn] = t] /\ thr[dn].pc = "nnpolicy"
    BY <1>10 DEF Update_and_Commit_to_Namenode_Policy
  <2> HIDE DEF c
  <2>2. t.pc = "committags" /\ t.dio = thr[dn].dio /\ t.ack = thr[dn].ack
    BY DEF TypeOK, Threads
  <2> HIDE DEF t
  <2>3. QED
    BY <2>1, <2>2, UpdateShape DEF Flow
<1>11. CASE Commit_Datanode_Tags(dn)
  BY <1>11, GotoShape, ReturnShape DEF Commit_Datanode_Tags, Flow, PCs
<1>12. CASE Commit_to_Namenode(dn)
  BY <1>12, ReturnShape DEF Commit_to_Namenode, Flow
<1>13. QED
  BY <1>1, <1>2, <1>3, <1>4, <1>5, <1>6, <1>7, <1>8, <1>9, <1>10, <1>11, <1>12
     DEF Commiter

-----------------------------------------------------------------------------
(* No dangling pointer from the metadata to the dio.                        *)

\* A receiver that stays between the release of a dio and Set_Pdio_NULL keeps being
\* the one that is going to clear the pointer.
LEMMA WitnessStays ==
    ASSUME TypeOK, NEW dn \in DNs, Shape(dn), NEW d \in Dios, NEW o \in DNs,
           thr[o].dio = d, thr[o].pc \in {"end", "complete", "clearpdio"},
           o = dn => thr[dn].pc # "clearpdio"
    PROVE  thr'[o].dio = d /\ thr'[o].pc \in {"end", "complete", "clearpdio"}
<1>1. CASE o = dn
  BY <1>1 DEF Shape, Flow
<1>2. CASE o # dn
  BY <1>2 DEF Shape, TypeOK
<1>3. QED
  BY <1>1, <1>2

\* Remove_and_Release_DIO, Set_Pdio_NULL: dmeta->pdio never points to a released dio once the receiver that released it has
\* left Commit_LBs_to_DMS_IO.
THEOREM PointersAreCleared == Spec => []NoDanglingPdio
<1>1. Init => NoDanglingPdio
  BY DEF Init, NoDanglingPdio
<1>2. TypeOK /\ NoDanglingPdio /\ [Next]_vars => NoDanglingPdio'
  <2> SUFFICES ASSUME TypeOK, NoDanglingPdio, [Next]_vars,
                      NEW d \in Dios, pdio'[d], dioState'[d] = "released"
               PROVE  \E o \in DNs : thr'[o].dio = d
                                     /\ thr'[o].pc \in {"end", "complete", "clearpdio"}
    BY DEF NoDanglingPdio
  <2>1. ASSUME UNCHANGED thr, pdio[d], dioState[d] = "released"
        PROVE  \E o \in DNs : thr'[o].dio = d
                              /\ thr'[o].pc \in {"end", "complete", "clearpdio"}
    BY <2>1 DEF NoDanglingPdio
  <2>2. CASE UNCHANGED vars
    BY <2>1, <2>2 DEF vars, iovars, metavars
  <2>3. ASSUME NEW k \in Kreqs,
               DMS_Request_Handler(k) \/ VolumeIO_Handler(k) \/ Make_DIO_Request_Fail(k)
        PROVE  \E o \in DNs : thr'[o].dio = d
                              /\ thr'[o].pc \in {"end", "complete", "clearpdio"}
    <3>1. UNCHANGED <<thr, pdio>> /\ dioState[d] = "released"
      BY <2>3 DEF DMS_Request_Handler, VolumeIO_Handler, Make_DIO_Request_Fail,
                  iovars, metavars, TypeOK
    <3>2. QED
      BY <2>1, <3>1
  <2>4. ASSUME NEW e \in Dios, Process_Namenode_Response(e)
        PROVE  \E o \in DNs : thr'[o].dio = d
                              /\ thr'[o].pc \in {"end", "complete", "clearpdio"}
    <3>1. UNCHANGED <<thr, dioState>> /\ dioState[e] = "live"
      BY <2>4 DEF Process_Namenode_Response, iovars
    <3>2. pdio[d]
      BY <2>4, <3>1 DEF Process_Namenode_Response, TypeOK
    <3>3. QED
      BY <2>1, <3>1, <3>2
  <2>5. ASSUME NEW dn \in DNs, Process_Datanode_Response(dn) \/ Drop_Datanode_Response(dn)
        PROVE  \E o \in DNs : thr'[o].dio = d
                              /\ thr'[o].pc \in {"end", "complete", "clearpdio"}
    <3>1. /\ UNCHANGED <<pdio, dioState>>
          /\ thr[dn].pc = "idle"
          /\ \A o \in DNs : o # dn => thr'[o] = thr[o]
      BY <2>5 DEF Process_Datanode_Response, Drop_Datanode_Response, iovars, metavars, TypeOK
    <3>2. PICK o \in DNs : /\ thr[o].dio = d
                           /\ thr[o].pc \in {"end", "complete", "clearpdio"}
      BY <3>1 DEF NoDanglingPdio
    <3>3. thr'[o] = thr[o]
      BY <3>1, <3>2
    <3>4. QED
      BY <3>2, <3>3
  <2>6. ASSUME NEW dn \in DNs, Commiter(dn)
        PROVE  \E o \in DNs : thr'[o].dio = d
                              /\ thr'[o].pc \in {"end", "complete", "clearpdio"}
    <3>1. Shape(dn)
      BY <2>6, CommiterShape
    <3>2. CASE Remove_and_Release_DIO(dn) /\ dioState[d] # "released"
      <4>1. thr[dn].dio = d /\ \E pc \in {"end", "clearpdio"} : Goto(dn, pc)
        BY <3>2 DEF Remove_and_Release_DIO, AfterUnlink, TypeOK
      <4>2. thr'[dn].dio = d /\ thr'[dn].pc \in {"end", "clearpdio"}
        BY <4>1, GotoFacts DEF PCs
      <4>3. QED
        BY <4>2
    <3>3. CASE Set_Pdio_NULL(dn)
      <4>1. thr[dn].dio # d /\ pdio[d] /\ UNCHANGED dioState
        BY <3>3 DEF Set_Pdio_NULL, iovars, TypeOK
      <4>2. PICK o \in DNs : /\ thr[o].dio = d
                             /\ thr[o].pc \in {"end", "complete", "clearpdio"}
        BY <4>1 DEF NoDanglingPdio
      <4>3. QED
        BY <3>1, <4>1, <4>2, WitnessStays
    <3>4. CASE ~Set_Pdio_NULL(dn)
               /\ (Remove_and_Release_DIO(dn) => dioState[d] = "released")
      <4>1. pdio[d] /\ dioState[d] = "released"
        BY <2>6, <3>4 DEF Commiter, Update_and_Commit_to_User_Policy,
           Update_Disk_Ack_on_Error, Commit_LBs_to_DMS_IO, Set_DIO_Result,
           Commit_LB_List_by_Range, Set_IOR_Result, Remove_and_Release_DIO,
           DMS_End_Request_Handler, Complete_Request,
           Update_and_Commit_to_Namenode_Policy, Commit_Datanode_Tags,
           Commit_to_Namenode, iovars, metavars
      <4>2. thr[dn].pc # "clearpdio"
        BY <2>6, <3>4 DEF Commiter, Update_and_Commit_to_User_Policy,
           Update_Disk_Ack_on_Error, Commit_LBs_to_DMS_IO, Set_DIO_Result,
           Commit_LB_List_by_Range, Set_IOR_Result, Remove_and_Release_DIO,
           DMS_End_Request_Handler, Complete_Request,
           Update_and_Commit_to_Namenode_Policy, Commit_Datanode_Tags,
           Commit_to_Namenode
      <4>3. PICK o \in DNs : /\ thr[o].dio = d
                             /\ thr[o].pc \in {"end", "complete", "clearpdio"}
        BY <4>1 DEF NoDanglingPdio
      <4>4. QED
        BY <3>1, <4>2, <4>3, WitnessStays
    <3>5. QED
      BY <3>2, <3>3, <3>4
  <2>7. QED
    BY <2>2, <2>3, <2>4, <2>5, <2>6 DEF Next
<1>3. QED
  BY <1>1, <1>2, TypeCorrect, PTL DEF Spec

-----------------------------------------------------------------------------
(* The result of a request.                                                 *)

\* An acknowledgement is never the initial value of a result.
LEMMA AckIsNotInitial == \A a \in Acks : a # "true"
BY DEF Acks, GoodAcks

\* What a datanode has answered stays answered.
LEMMA AnswersStay ==
    ASSUME TypeOK, [Next]_vars
    PROVE  \A d \in Dios, dn \in DNs : sent[d][dn] \subseteq sent'[d][dn]
<1>1. ASSUME NEW e \in DNs, NEW c \in Dios, NEW ack \in Acks, Answer(e, c, ack)
      PROVE  \A d \in Dios, dn \in DNs : sent[d][dn] \subseteq sent'[d][dn]
  BY <1>1 DEF Answer, TypeOK
<1>2. ASSUME NEW e \in DNs, Process_Datanode_Response(e) \/ Drop_Datanode_Response(e)
      PROVE  \A d \in Dios, dn \in DNs : sent[d][dn] \subseteq sent'[d][dn]
  BY <1>1, <1>2 DEF Process_Datanode_Response, Drop_Datanode_Response
<1>3. ASSUME NEW e \in DNs, Commiter(e)
      PROVE  sent' = sent
  BY <1>3 DEF Commiter, Update_and_Commit_to_User_Policy,
     Update_Disk_Ack_on_Error, Commit_LBs_to_DMS_IO, Set_DIO_Result,
     Commit_LB_List_by_Range, Set_IOR_Result, Remove_and_Release_DIO,
     DMS_End_Request_Handler, Complete_Request, Set_Pdio_NULL,
     Update_and_Commit_to_Namenode_Policy, Commit_Datanode_Tags, Commit_to_Namenode
<1>4. ASSUME NEW k \in Kreqs,
             DMS_Request_Handler(k) \/ VolumeIO_Handler(k) \/ Make_DIO_Request_Fail(k)
      PROVE  sent' = sent
  BY <1>4 DEF DMS_Request_Handler, VolumeIO_Handler, Make_DIO_Request_Fail
<1>5. ASSUME NEW d \in Dios, Process_Namenode_Response(d)
      PROVE  sent' = sent
  BY <1>5 DEF Process_Namenode_Response
<1>6. UNCHANGED vars => sent' = sent
  BY DEF vars
<1>7. QED
  BY <1>2, <1>3, <1>4, <1>5, <1>6 DEF Next

\* A step that stores no result keeps the stored ones real.
LEMMA StoredFrame ==
    ASSUME StoredInv, UNCHANGED <<endings, kresult, iorResult, dioResult>>,
           \A d \in Dios, dn \in DNs : sent[d][dn] \subseteq sent'[d][dn]
    PROVE  StoredInv'
<1>1. \A d \in Dios : dioResult'[d] = "true" \/ \E dn \in DNs : dioResult'[d] \in sent'[d][dn]
  BY DEF StoredInv, SentAbout
<1>2. \A k \in Kreqs : iorResult'[k] = "true"
        \/ \E d \in DiosOf(k), dn \in DNs : iorResult'[k] \in sent'[d][dn]
  BY DEF StoredInv, SentFor, SentAbout, DiosOf
<1>3. \A k \in Kreqs : endings'[k] > 0 =>
        \E d \in DiosOf(k), dn \in DNs : kresult'[k] \in sent'[d][dn]
  BY DEF StoredInv, SentFor, SentAbout, DiosOf
<1>4. QED
  BY <1>1, <1>2, <1>3 DEF StoredInv, SentFor, SentAbout

\* A step of one receiver leaves what the others carry, if no result becomes `true` again.
LEMMA CarriedStep ==
    ASSUME TypeOK, TypeOK', CarriedInv, NEW dn \in DNs, thr' = [thr EXCEPT ![dn] = thr'[dn]],
           \A d \in Dios, o \in DNs : sent[d][o] \subseteq sent'[d][o],
           \A d \in Dios : dioResult[d] # "true" => dioResult'[d] # "true",
           \A k \in Kreqs : iorResult[k] # "true" => iorResult'[k] # "true",
           CarriedOK(thr[dn], dn)'
    PROVE  CarriedInv'
<1> SUFFICES ASSUME NEW o \in DNs
             PROVE  CarriedOK(thr[o], o)'
  BY DEF CarriedInv
<1>1. CASE o = dn
  BY <1>1
<1>2. CASE o # dn
  <2>1. thr'[o] = thr[o] /\ CarriedOK(thr[o], o)
    BY <1>2 DEF TypeOK, CarriedInv
  <2>2. thr[o].dio \in Dios /\ KreqOf[thr[o].dio] \in Kreqs
    BY StructureAssumption DEF TypeOK, Threads
  <2>3. QED
    BY <2>1, <2>2 DEF CarriedOK
<1>3. QED
  BY <1>1, <1>2

\* The steps of the committer that store no result.
LEMMA PassingResult ==
    ASSUME TypeOK, TypeOK', ResultInv, NEW dn \in DNs, Commiter(dn),
           ~Set_DIO_Result(dn), ~Set_IOR_Result(dn), ~Complete_Request(dn)
    PROVE  ResultInv'
<1>1. UNCHANGED <<endings, kresult, iorResult, dioResult>>
  BY DEF Commiter, Update_and_Commit_to_User_Policy,
     Update_Disk_Ack_on_Error, Commit_LBs_to_DMS_IO,
     Commit_LB_List_by_Range, Remove_and_Release_DIO,
     DMS_End_Request_Handler, Set_Pdio_NULL,
     Update_and_Commit_to_Namenode_Policy, Commit_Datanode_Tags, Commit_to_Namenode,
     kvars, iovars
<1>2. thr[dn].pc \notin {"dioresult", "iorresult"}
  BY DEF Commiter, Update_and_Commit_to_User_Policy,
     Update_Disk_Ack_on_Error, Commit_LBs_to_DMS_IO,
     Commit_LB_List_by_Range, Remove_and_Release_DIO,
     DMS_End_Request_Handler, Set_Pdio_NULL,
     Update_and_Commit_to_Namenode_Policy, Commit_Datanode_Tags, Commit_to_Namenode
<1>3. \A d \in Dios, o \in DNs : sent[d][o] \subseteq sent'[d][o]
  BY AnswersStay DEF Next
<1>4. Shape(dn)
  BY CommiterShape
<1>5. CarriedOK(thr[dn], dn) /\ thr[dn].dio \in Dios
  BY DEF ResultInv, CarriedInv, TypeOK, Threads
<1>6. CarriedOK(thr[dn], dn)'
  BY <1>1, <1>2, <1>3, <1>4, <1>5 DEF CarriedOK, Shape, Flow
<1>7. CarriedInv'
  BY <1>1, <1>3, <1>4, <1>6, CarriedStep DEF Shape, ResultInv
<1>8. QED
  BY <1>1, <1>3, <1>7, StoredFrame DEF ResultInv

\* The steps of the committer that store one: each takes it from the level below.
LEMMA StoringResult ==
    ASSUME TypeOK, TypeOK', ResultInv, NEW dn \in DNs,
           \/ Set_DIO_Result(dn)
           \/ Set_IOR_Result(dn)
           \/ Complete_Request(dn)
    PROVE  ResultInv'
<1> DEFINE d == thr[dn].dio
           k == KreqOf[d]
           ack == thr[dn].ack
<1>0. d \in Dios /\ k \in Kreqs /\ d \in DiosOf(k) /\ ack \in Acks
  BY StructureAssumption DEF TypeOK, Threads, DiosOf
<1>1. sent' = sent
  BY DEF Set_DIO_Result, Set_IOR_Result, Complete_Request
<1>2. Shape(dn) /\ thr[dn].pc # "idle"
  BY CommiterShape DEF Commiter, Shape, Flow
<1>3. CarriedOK(thr[dn], dn) /\ ack \in sent[d][dn]
  BY <1>2 DEF ResultInv, CarriedInv, CarriedOK
<1>4. CASE Set_DIO_Result(dn)
  <2>1. /\ UNCHANGED <<endings, kresult, iorResult>>
        /\ dioResult' = [dioResult EXCEPT ![d] = FirstResult(dioResult[d], ack)]
        /\ thr[dn].pc = "dioresult"
    BY <1>4 DEF Set_DIO_Result, kvars
  <2>2. \/ dioResult'[d] = dioResult[d] /\ dioResult[d] # "true"
        \/ dioResult'[d] = ack
    BY <1>0, <2>1 DEF FirstResult, TypeOK
  <2>3. \A c \in Dios : c # d => dioResult'[c] = dioResult[c]
    BY <1>0, <2>1 DEF TypeOK
  <2>4. dioResult'[d] # "true" /\ SentAbout(d, dioResult'[d])
    BY <1>0, <1>3, <2>2, AckIsNotInitial DEF ResultInv, StoredInv, SentAbout
  <2>5. \A c \in Dios : dioResult'[c] = "true" \/ SentAbout(c, dioResult'[c])
    BY <2>3, <2>4 DEF ResultInv, StoredInv
  <2>6. StoredInv'
    BY <1>1, <2>1, <2>5 DEF ResultInv, StoredInv, SentFor, SentAbout
  <2>7. CarriedOK(thr[dn], dn)'
    BY <1>1, <1>2, <1>3, <2>1, <2>4 DEF CarriedOK, Shape, Flow
  <2>8. CarriedInv'
    BY <1>1, <1>2, <2>1, <2>3, <2>4, <2>7, CarriedStep DEF Shape, ResultInv
  <2>9. QED
    BY <2>6, <2>8 DEF ResultInv
<1>5. CASE Set_IOR_Result(dn)
  <2>1. /\ UNCHANGED <<endings, kresult, dioResult>>
        /\ iorResult' = [iorResult EXCEPT ![k] = FirstResult(iorResult[k], dioResult[d])]
        /\ thr[dn].pc = "iorresult"
    BY <1>5 DEF Set_IOR_Result, kvars
  <2>2. dioResult[d] # "true" /\ SentAbout(d, dioResult[d])
    BY <1>0, <1>3, <2>1 DEF CarriedOK, ResultInv, StoredInv
  <2>3. \/ iorResult'[k] = iorResult[k] /\ iorResult[k] # "true"
        \/ iorResult'[k] = dioResult[d]
    BY <1>0, <2>1 DEF FirstResult, TypeOK
  <2>4. \A c \in Kreqs : c # k => iorResult'[c] = iorResult[c]
    BY <1>0, <2>1 DEF TypeOK
  <2>5. iorResult'[k] # "true" /\ SentFor(k, iorResult'[k])
    BY <1>0, <2>2, <2>3 DEF ResultInv, StoredInv, SentFor
  <2>6. \A c \in Kreqs : iorResult'[c] = "true" \/ SentFor(c, iorResult'[c])
    BY <2>4, <2>5 DEF ResultInv, StoredInv
  <2>7. StoredInv'
    BY <1>1, <2>1, <2>6 DEF ResultInv, StoredInv, SentFor, SentAbout
  <2>8. CarriedOK(thr[dn], dn)'
    BY <1>1, <1>2, <1>3, <2>1, <2>2, <2>5 DEF CarriedOK, Shape, Flow
  <2>9. CarriedInv'
    BY <1>1, <1>2, <2>1, <2>4, <2>5, <2>8, CarriedStep DEF Shape, ResultInv
  <2>10. QED
    BY <2>7, <2>9 DEF ResultInv
<1>6. CASE Complete_Request(dn)
  <2>1. /\ UNCHANGED <<iorResult, dioResult>>
        /\ endings' = [endings EXCEPT ![k] = @ + 1]
        /\ kresult' = [kresult EXCEPT ![k] = iorResult[k]]
        /\ thr[dn].pc = "complete"
    BY <1>6 DEF Complete_Request, End_Request, iovars
  <2>2. iorResult[k] # "true" /\ SentFor(k, iorResult[k])
    BY <1>0, <1>3, <2>1 DEF CarriedOK, ResultInv, StoredInv
  <2>3. kresult'[k] = iorResult[k]
        /\ \A c \in Kreqs : c # k => kresult'[c] = kresult[c] /\ endings'[c] = endings[c]
    BY <1>0, <2>1 DEF TypeOK
  <2>4. \A c \in Kreqs : endings'[c] > 0 => SentFor(c, kresult'[c])
    BY <2>2, <2>3 DEF ResultInv, StoredInv
  <2>5. StoredInv'
    BY <1>1, <2>1, <2>4 DEF ResultInv, StoredInv, SentFor, SentAbout
  <2>6. CarriedOK(thr[dn], dn)'
    BY <1>1, <1>2, <1>3, <2>1, <2>2 DEF CarriedOK, Shape, Flow
  <2>7. CarriedInv'
    BY <1>1, <1>2, <2>1, <2>6, CarriedStep DEF Shape, ResultInv
  <2>8. QED
    BY <2>5, <2>7 DEF ResultInv
<1>7. QED
  BY <1>4, <1>5, <1>6

\* The steps outside the committer store no result; CREATE_DIO_FAIL does not either,
\* because kreq->special is not set yet.
LEMMA OutsideResult ==
    ASSUME TypeOK, TypeOK', OwnershipInv, ResultInv,
           \/ \E k \in Kreqs : \/ DMS_Request_Handler(k)
                               \/ VolumeIO_Handler(k)
                               \/ Make_DIO_Request_Fail(k)
           \/ \E d \in Dios : Process_Namenode_Response(d)
           \/ \E dn \in DNs : \/ Process_Datanode_Response(dn)
                              \/ Drop_Datanode_Response(dn)
    PROVE  ResultInv'
<1>1. UNCHANGED <<endings, kresult, iorResult, dioResult>>
  <2>1. ASSUME NEW k \in Kreqs, Make_DIO_Request_Fail(k)
        PROVE  UNCHANGED <<endings, kresult, iorResult, dioResult>>
    <3>1. ~special[k]
      BY <2>1 DEF Make_DIO_Request_Fail, OwnershipInv, KreqInv
    <3>2. QED
      BY <2>1, <3>1 DEF Make_DIO_Request_Fail, iovars
  <2>2. QED
    BY <2>1 DEF DMS_Request_Handler, VolumeIO_Handler, Process_Namenode_Response,
       Process_Datanode_Response, Drop_Datanode_Response, kvars, iovars
<1>2. \A d \in Dios, o \in DNs : sent[d][o] \subseteq sent'[d][o]
  BY AnswersStay DEF Next
<1>3. StoredInv'
  BY <1>1, <1>2, StoredFrame DEF ResultInv
<1>4. ASSUME UNCHANGED thr
      PROVE  CarriedInv'
  <2> SUFFICES ASSUME NEW o \in DNs
               PROVE  CarriedOK(thr[o], o)'
    BY DEF CarriedInv
  <2>1. CarriedOK(thr[o], o) /\ thr[o].dio \in Dios
    BY DEF ResultInv, CarriedInv, TypeOK, Threads
  <2>2. QED
    BY <1>1, <1>2, <1>4, <2>1 DEF CarriedOK
<1>5. ASSUME NEW dn \in DNs, Process_Datanode_Response(dn)
      PROVE  CarriedInv'
  <2>1. PICK d \in Dios, ack \in Acks :
          /\ Answer(dn, d, ack)
          /\ thr' = [thr EXCEPT ![dn] =
                [IdleThread EXCEPT !.pc = "policy", !.dio = d, !.ack = ack,
                                   !.todo = LRsOn(d, dn)]]
    BY <1>5 DEF Process_Datanode_Response
  <2> DEFINE t == [IdleThread EXCEPT !.pc = "policy", !.dio = d, !.ack = ack,
                                     !.todo = LRsOn(d, dn)]
  <2>2. thr' = [thr EXCEPT ![dn] = t]
    BY <2>1
  <2>3. t.pc = "policy" /\ t.dio = d /\ t.ack = ack
    BY IdleThreadType DEF Threads
  <2> HIDE DEF t
  <2>4. thr'[dn] = t
    BY <2>2 DEF TypeOK
  <2>5. ack \in sent'[d][dn]
    BY <2>1 DEF Answer, TypeOK
  <2>6. CarriedOK(thr[dn], dn)'
    BY <2>3, <2>4, <2>5 DEF CarriedOK
  <2>7. QED
    BY <1>1, <1>2, <2>2, <2>4, <2>6, CarriedStep DEF ResultInv
<1>6. CarriedInv'
  BY <1>4, <1>5 DEF DMS_Request_Handler, VolumeIO_Handler, Make_DIO_Request_Fail,
     Process_Namenode_Response, Drop_Datanode_Response
<1>7. QED
  BY <1>3, <1>6 DEF ResultInv

\* What is stored is an answer, or initial, in every reachable state.
LEMMA ResultsHold == Spec => []ResultInv
<1>1. Init => ResultInv
  <2> SUFFICES ASSUME Init
               PROVE  ResultInv
    OBVIOUS
  <2>1. StoredInv
    BY DEF Init, StoredInv
  <2>2. \A dn \in DNs : thr[dn].pc = "idle"
    BY DEF Init, IdleThread
  <2>3. QED
    BY <2>1, <2>2 DEF ResultInv, CarriedInv, CarriedOK
<1>2. TypeOK /\ TypeOK' /\ OwnershipInv /\ ResultInv /\ [Next]_vars => ResultInv'
  <2> SUFFICES ASSUME TypeOK, TypeOK', OwnershipInv, ResultInv, [Next]_vars
               PROVE  ResultInv'
    OBVIOUS
  <2>1. CASE UNCHANGED vars
    BY <2>1 DEF vars, kvars, iovars, ResultInv, StoredInv, CarriedInv, CarriedOK,
                SentFor, SentAbout
  <2>2. ASSUME NEW dn \in DNs, Commiter(dn)
        PROVE  ResultInv'
    BY <2>2, PassingResult, StoringResult
  <2>3. QED
    BY <2>1, <2>2, OutsideResult DEF Next
<1>3. QED
  BY <1>1, <1>2, TypeCorrect, Ownership, PTL DEF Spec

\* Set_DIO_Result, Set_IOR_Result, DMS_End_Request_Handler: a request is ended with
\* an answer that a datanode gave about one of its dios.
THEOREM ResultsAreReal == Spec => []ResultIsReal
<1>1. ResultInv => ResultIsReal
  BY DEF ResultInv, StoredInv, ResultIsReal, SentFor, SentAbout
<1>2. QED
  BY <1>1, ResultsHold, PTL

-----------------------------------------------------------------------------
(* What is asked of whom, and who works on it.                              *)

\* Only datanodes that store something of a dio answer about it, and a receiver works on
\* located requests that its datanode stores.
AskedInv == \A d \in Dios, dn \in DNs : sent[d][dn] # {} => LRsOn(d, dn) # {}

WorksOn(t, dn) ==
    /\ t.pc # "idle" => t.todo \subseteq LRsOn(t.dio, dn)
    /\ t.pc \in {"errdisk", "testandset", "dioresult", "removelbs"} => t.lr \in LRsOn(t.dio, dn)

PlacedInv == AskedInv /\ \A dn \in DNs : WorksOn(thr[dn], dn)

-----------------------------------------------------------------------------
(* What a receiver works on.                                                *)

\* A receiver's record t, in place of its present one, keeps to its datanode.
LEMMA WorkStep ==
    ASSUME TypeOK, NEW dn \in DNs, NEW t, thr' = [thr EXCEPT ![dn] = t],
           \A o \in DNs : WorksOn(thr[o], o), WorksOn(t, dn)
    PROVE  \A o \in DNs : WorksOn(thr'[o], o)
BY DEF TypeOK

\* A receiver that moves on within a payload tag keeps to its datanode.
LEMMA WorkGoto ==
    ASSUME TypeOK, NEW dn \in DNs, NEW pc, Goto(dn, pc), thr[dn].pc # "idle",
           \A o \in DNs : WorksOn(thr[o], o),
           pc \in {"testandset", "dioresult", "removelbs"}
             => thr[dn].pc \in {"errdisk", "testandset", "dioresult", "removelbs"},
           pc # "errdisk"
    PROVE  \A o \in DNs : WorksOn(thr'[o], o)
<1> DEFINE t == [thr[dn] EXCEPT !.pc = pc]
<1>1. thr' = [thr EXCEPT ![dn] = t]
  BY DEF Goto
<1>2. t.pc = pc /\ t.dio = thr[dn].dio /\ t.todo = thr[dn].todo /\ t.lr = thr[dn].lr
  BY DEF TypeOK, Threads
<1> HIDE DEF t
<1>3. WorksOn(t, dn)
  BY <1>2 DEF WorksOn
<1>4. QED
  BY <1>1, <1>3, WorkStep

\* The policies take a located request of the payload tags.
LEMMA WorkPolicy ==
    ASSUME TypeOK, NEW dn \in DNs, \A o \in DNs : WorksOn(thr[o], o),
           \/ Update_and_Commit_to_User_Policy(dn)
           \/ Update_Disk_Ack_on_Error(dn)
    PROVE  \A o \in DNs : WorksOn(thr'[o], o)
<1>0. thr[dn] \in Threads /\ thr[dn].pc \in {"policy", "errdisk"} /\ WorksOn(thr[dn], dn)
  BY DEF TypeOK, Update_and_Commit_to_User_Policy, Update_Disk_Ack_on_Error
<1>1. ASSUME NEW l \in thr[dn].todo, NEW t, thr' = [thr EXCEPT ![dn] = t],
             t.dio = thr[dn].dio, t.lr = l, t.todo = thr[dn].todo \ {l}
      PROVE  \A o \in DNs : WorksOn(thr'[o], o)
  <2>1. WorksOn(t, dn)
    BY <1>0, <1>1 DEF WorksOn
  <2>2. QED
    BY <1>1, <2>1, WorkStep
<1>2. ASSUME NEW l \in thr[dn].todo, Policy_Mem(dn, l)
      PROVE  \A o \in DNs : WorksOn(thr'[o], o)
  <2> DEFINE x == IF LastAck(wmem[l]) THEN "testandset" ELSE AfterTag(thr[dn].todo \ {l})
             t == [thr[dn] EXCEPT !.lr = l, !.todo = thr[dn].todo \ {l}, !.pc = x]
  <2>1. thr' = [thr EXCEPT ![dn] = t]
    BY <1>2 DEF Policy_Mem
  <2> HIDE DEF x
  <2>2. t.dio = thr[dn].dio /\ t.lr = l /\ t.todo = thr[dn].todo \ {l}
    BY <1>0 DEF Threads
  <2> HIDE DEF t
  <2>3. QED
    BY <1>1, <2>1, <2>2
<1>3. ASSUME NEW l \in thr[dn].todo, Policy_Disk(dn, l)
      PROVE  \A o \in DNs : WorksOn(thr'[o], o)
  <2> DEFINE x == thr[dn].done + (IF LastAck(wdisk[l]) THEN 1 ELSE 0)
             t == [thr[dn] EXCEPT !.lr = l, !.todo = thr[dn].todo \ {l}, !.pc = "testandset", !.done = x]
  <2>1. thr' = [thr EXCEPT ![dn] = t]
    BY <1>3 DEF Policy_Disk
  <2> HIDE DEF x
  <2>2. t.dio = thr[dn].dio /\ t.lr = l /\ t.todo = thr[dn].todo \ {l}
    BY <1>0 DEF Threads
  <2> HIDE DEF t
  <2>3. QED
    BY <1>1, <2>1, <2>2
<1>4. ASSUME NEW l \in thr[dn].todo, Policy_ReadError(dn, l)
      PROVE  \A o \in DNs : WorksOn(thr'[o], o)
  <2> DEFINE x == AfterTag(thr[dn].todo \ {l})
             t == [thr[dn] EXCEPT !.lr = l, !.todo = thr[dn].todo \ {l}, !.pc = x]
  <2>1. thr' = [thr EXCEPT ![dn] = t]
    BY <1>4 DEF Policy_ReadError
  <2> HIDE DEF x
  <2>2. t.dio = thr[dn].dio /\ t.lr = l /\ t.todo = thr[dn].todo \ {l}
    BY <1>0 DEF Threads
  <2> HIDE DEF t
  <2>3. QED
    BY <1>1, <2>1, <2>2
<1>5. ASSUME NEW l \in thr[dn].todo, Policy_WriteError(dn, l)
      PROVE  \A o \in DNs : WorksOn(thr'[o], o)
  <2> DEFINE x == LastAck(wmem[l])
             t == [thr[dn] EXCEPT !.lr = l, !.todo = thr[dn].todo \ {l}, !.pc = "errdisk", !.cuser = x]
  <2>1. thr' = [thr EXCEPT ![dn] = t]
    BY <1>5 DEF Policy_WriteError
  <2> HIDE DEF x
  <2>2. t.dio = thr[dn].dio /\ t.lr = l /\ t.todo = thr[dn].todo \ {l}
    BY <1>0 DEF Threads
  <2> HIDE DEF t
  <2>3. QED
    BY <1>1, <2>1, <2>2
<1>6. CASE Update_Disk_Ack_on_Error(dn)
  <2> DEFINE l == thr[dn].lr
             n == thr[dn].done + (IF LastAck(wdisk[l]) THEN 1 ELSE 0)
             pc == IF LastAck(wdisk[l]) \/ thr[dn].cuser
                   THEN "testandset" ELSE AfterTag(thr[dn].todo)
             t == [thr[dn] EXCEPT !.done = n, !.pc = pc]
  <2>1. thr' = [thr EXCEPT ![dn] = t] /\ thr[dn].pc = "errdisk"
    BY <1>6 DEF Update_Disk_Ack_on_Error
  <2> HIDE DEF n, pc
  <2>2. t.dio = thr[dn].dio /\ t.lr = thr[dn].lr /\ t.todo = thr[dn].todo
    BY <1>0 DEF Threads
  <2> HIDE DEF t
  <2>3. WorksOn(t, dn)
    BY <1>0, <2>1, <2>2 DEF WorksOn
  <2>4. QED
    BY <2>1, <2>3, WorkStep
<1>7. QED
  BY <1>2, <1>3, <1>4, <1>5, <1>6 DEF Update_and_Commit_to_User_Policy

\* So does every other step of the committer.
LEMMA WorkCommiter ==
    ASSUME TypeOK, NEW dn \in DNs, \A o \in DNs : WorksOn(thr[o], o), Commiter(dn)
    PROVE  \A o \in DNs : WorksOn(thr'[o], o)
<1>0. thr[dn] \in Threads
  BY DEF TypeOK
<1>1. CASE Update_and_Commit_to_User_Policy(dn) \/ Update_Disk_Ack_on_Error(dn)
  BY <1>1, WorkPolicy
<1>2. ASSUME NextTag(dn), thr[dn].pc # "idle"
      PROVE  \A o \in DNs : WorksOn(thr'[o], o)
  BY <1>2, WorkGoto DEF NextTag, AfterTag
<1>3. ASSUME Return(dn)
      PROVE  \A o \in DNs : WorksOn(thr'[o], o)
  <2>1. WorksOn(IdleThread, dn)
    BY DEF WorksOn, IdleThread
  <2>2. QED
    BY <1>3, <2>1, WorkStep DEF Return
<1>4. CASE Commit_LBs_to_DMS_IO(dn)
  BY <1>2, <1>4, WorkGoto DEF Commit_LBs_to_DMS_IO
<1>5. CASE Set_DIO_Result(dn)
  BY <1>5, WorkGoto DEF Set_DIO_Result
<1>6. CASE Commit_LB_List_by_Range(dn)
  BY <1>2, <1>6, WorkGoto DEF Commit_LB_List_by_Range
<1>7. CASE Set_IOR_Result(dn)
  BY <1>7, WorkGoto DEF Set_IOR_Result
<1>8. CASE Remove_and_Release_DIO(dn)
  BY <1>8, WorkGoto DEF Remove_and_Release_DIO, AfterUnlink
<1>9. CASE DMS_End_Request_Handler(dn)
  BY <1>9, WorkGoto DEF DMS_End_Request_Handler
<1>10. CASE Complete_Request(dn)
  BY <1>10, WorkGoto DEF Complete_Request
<1>11. CASE Set_Pdio_NULL(dn)
  BY <1>2, <1>11 DEF Set_Pdio_NULL
<1>12. CASE Update_and_Commit_to_Namenode_Policy(dn)
  <2> DEFINE x == ReachesZero(waiting[thr[dn].dio], thr[dn].done)
             t == [thr[dn] EXCEPT !.pc = "committags", !.cnn = x]
  <2>1. thr' = [thr EXCEPT ![dn] = t] /\ thr[dn].pc = "nnpolicy"
    BY <1>12 DEF Update_and_Commit_to_Namenode_Policy
  <2> HIDE DEF x
  <2>2. t.pc = "committags" /\ t.dio = thr[dn].dio /\ t.todo = thr[dn].todo
    BY <1>0 DEF Threads
  <2> HIDE DEF t
  <2>3. WorksOn(t, dn)
    BY <2>1, <2>2 DEF WorksOn
  <2>4. QED
    BY <2>1, <2>3, WorkStep
<1>13. CASE Commit_Datanode_Tags(dn)
  BY <1>3, <1>13, WorkGoto DEF Commit_Datanode_Tags
<1>14. CASE Commit_to_Namenode(dn)
  BY <1>3, <1>14 DEF Commit_to_Namenode
<1>15. QED
  BY <1>1, <1>4, <1>5, <1>6, <1>7, <1>8, <1>9, <1>10, <1>11, <1>12, <1>13, <1>14
  DEF Commiter

\* Get_Datanode_Tag_from_Datanode_Tags: a datanode answers about what was sent to it.
LEMMA AnswerPlaced ==
    ASSUME TypeOK, PlacedInv, NEW dn \in DNs,
           Process_Datanode_Response(dn) \/ Drop_Datanode_Response(dn)
    PROVE  PlacedInv'
<1>1. PICK d \in Dios, ack \in Acks : Answer(dn, d, ack) /\
        \/ thr' = thr
        \/ thr' = [thr EXCEPT ![dn] =
              [IdleThread EXCEPT !.pc = "policy", !.dio = d, !.ack = ack, !.todo = LRsOn(d, dn)]]
  BY DEF Process_Datanode_Response, Drop_Datanode_Response
<1>2. AskedInv'
  <2> SUFFICES ASSUME NEW e \in Dios, NEW o \in DNs, sent'[e][o] # {}
               PROVE  LRsOn(e, o) # {}
    BY DEF AskedInv, LRsOn, LRsOf
  <2>1. CASE e = d /\ o = dn
    BY <1>1, <2>1 DEF Answer
  <2>2. CASE ~(e = d /\ o = dn)
    <3>1. sent' = [sent EXCEPT ![d][dn] = @ \cup {ack}]
      BY <1>1 DEF Answer
    <3>2. sent'[e][o] = sent[e][o]
      BY <2>2, <3>1 DEF TypeOK
    <3>3. QED
      BY <3>2 DEF PlacedInv, AskedInv
  <2>3. QED
    BY <2>1, <2>2
<1>3. CASE thr' = thr
  BY <1>2, <1>3 DEF PlacedInv, WorksOn, LRsOn, LRsOf
<1>4. CASE thr' # thr
  <2> DEFINE t == [IdleThread EXCEPT !.pc = "policy", !.dio = d, !.ack = ack, !.todo = LRsOn(d, dn)]
  <2>1. thr' = [thr EXCEPT ![dn] = t]
    BY <1>1, <1>4
  <2>2. t.pc = "policy" /\ t.dio = d /\ t.todo = LRsOn(d, dn)
    BY IdleThreadType DEF Threads
  <2> HIDE DEF t
  <2>3. WorksOn(t, dn)
    BY <2>2 DEF WorksOn
  <2>4. \A o \in DNs : WorksOn(thr'[o], o)
    BY <2>1, <2>3, WorkStep DEF PlacedInv
  <2>5. QED
    BY <1>2, <2>4 DEF PlacedInv, WorksOn, LRsOn, LRsOf
<1>5. QED
  BY <1>3, <1>4

LEMMA Placed == Spec => []PlacedInv
<1>1. Init => PlacedInv
  BY DEF Init, PlacedInv, AskedInv, WorksOn, IdleThread
<1>2. TypeOK /\ PlacedInv /\ [Next]_vars => PlacedInv'
  <2> SUFFICES ASSUME TypeOK, PlacedInv, [Next]_vars
               PROVE  PlacedInv'
    OBVIOUS
  <2>1. CASE UNCHANGED <<sent, thr>>
    BY <2>1 DEF PlacedInv, AskedInv, WorksOn, LRsOn, LRsOf
  <2>2. ASSUME NEW dn \in DNs, Commiter(dn)
        PROVE  PlacedInv'
    <3>1. \A o \in DNs : WorksOn(thr'[o], o)
      BY <2>2, WorkCommiter DEF PlacedInv
    <3>2. UNCHANGED sent
      BY <2>2 DEF Commiter, Update_and_Commit_to_User_Policy, Update_Disk_Ack_on_Error,
         Commit_LBs_to_DMS_IO, Set_DIO_Result, Commit_LB_List_by_Range, Set_IOR_Result,
         Remove_and_Release_DIO, DMS_End_Request_Handler, Complete_Request, Set_Pdio_NULL,
         Update_and_Commit_to_Namenode_Policy, Commit_Datanode_Tags, Commit_to_Namenode
    <3>3. QED
      BY <3>1, <3>2 DEF PlacedInv, AskedInv, WorksOn, LRsOn, LRsOf
  <2>3. ASSUME NEW k \in Kreqs,
               DMS_Request_Handler(k) \/ VolumeIO_Handler(k) \/ Make_DIO_Request_Fail(k)
        PROVE  UNCHANGED <<sent, thr>>
    BY <2>3 DEF DMS_Request_Handler, VolumeIO_Handler, Make_DIO_Request_Fail
  <2>4. ASSUME NEW d \in Dios, Process_Namenode_Response(d)
        PROVE  UNCHANGED <<sent, thr>>
    BY <2>4 DEF Process_Namenode_Response
  <2>5. CASE UNCHANGED vars
    BY <2>1, <2>5 DEF vars
  <2>6. QED
    BY <2>1, <2>2, <2>3, <2>4, <2>5, AnswerPlaced DEF Next
<1>3. QED
  BY <1>1, <1>2, TypeCorrect, PTL DEF Spec

-----------------------------------------------------------------------------
(* Steps of an abstract request.                                            *)

\* What an issuer of requests cannot see.
LEMMA Stutter ==
    ASSUME UNCHANGED <<kstate, endings, kresult, lbs, sent>>
    PROVE  UNCHANGED Request!bvars
BY DEF Request!bvars, AbsPhase, AbsUnsettled, AbsAnswers, AbsResult, LRsOfKreq

\* __VolumeIO_Handler opens the request, and the CREATE_DIO_FAIL exit aborts it.
LEMMA HandlerStep ==
    ASSUME TypeOK, OwnershipInv, NEW k \in Kreqs,
           DMS_Request_Handler(k) \/ VolumeIO_Handler(k) \/ Make_DIO_Request_Fail(k)
    PROVE  [Request!Next]_Request!bvars
<1>1. CASE DMS_Request_Handler(k)
  <2>1. AbsPhase' = AbsPhase
    BY <1>1 DEF DMS_Request_Handler, AbsPhase, TypeOK
  <2>2. AbsUnsettled' = AbsUnsettled /\ AbsAnswers' = AbsAnswers /\ AbsResult' = AbsResult
    BY <1>1 DEF DMS_Request_Handler, iovars, AbsUnsettled, AbsAnswers, AbsResult, LRsOfKreq
  <2>3. QED
    BY <2>1, <2>2 DEF Request!bvars
<1>2. CASE VolumeIO_Handler(k)
  <2>1. AbsPhase[k] = "queued" /\ AbsPhase' = [AbsPhase EXCEPT ![k] = "open"]
    BY <1>2 DEF VolumeIO_Handler, AbsPhase, TypeOK
  <2>2. AbsUnsettled' = [AbsUnsettled EXCEPT ![k] = [j \in Kreqs |-> LRsOfKreq(j)][k]]
    BY <1>2, StructureAssumption
    DEF VolumeIO_Handler, AbsUnsettled, LRsOfKreq, LRsOf, TypeOK
  <2>3. AbsAnswers' = AbsAnswers /\ AbsResult' = AbsResult
    BY <1>2 DEF VolumeIO_Handler, AbsAnswers, AbsResult
  <2>4. Request!Open(k)
    BY <2>1, <2>2, <2>3 DEF Request!Open
  <2>5. QED
    BY <2>4 DEF Request!Next
<1>3. CASE Make_DIO_Request_Fail(k)
  <2>1. ~special[k]
    BY <1>3 DEF Make_DIO_Request_Fail, OwnershipInv, KreqInv
  <2>2. AbsPhase[k] = "queued" /\ AbsPhase' = [AbsPhase EXCEPT ![k] = "aborted"]
    <3>1. kstate[k] = "started" /\ kstate' = [kstate EXCEPT ![k] = "failed"]
      BY <1>3, <2>1 DEF Make_DIO_Request_Fail
    <3>2. QED
      BY <3>1 DEF AbsPhase, TypeOK
  <2>3. AbsUnsettled' = AbsUnsettled /\ AbsAnswers' = AbsAnswers /\ AbsResult' = AbsResult
    BY <1>3, <2>1 DEF Make_DIO_Request_Fail, iovars, AbsUnsettled, AbsAnswers, AbsResult, LRsOfKreq
  <2>4. Request!Abort(k)
    BY <2>2, <2>3 DEF Request!Abort
  <2>5. QED
    BY <2>4 DEF Request!Next
<1>4. QED
  BY <1>1, <1>2, <1>3

\* Membership in a union of values of a function.
LEMMA UnionOfValues ==
    ASSUME NEW f, NEW S, NEW x
    PROVE  x \in UNION {f[o] : o \in S} <=> \E o \in S : x \in f[o]
OBVIOUS

\* A datanode answers about the located requests it stores.
LEMMA AnswerStep ==
    ASSUME TypeOK, OwnershipInv, NEW dn \in DNs,
           Process_Datanode_Response(dn) \/ Drop_Datanode_Response(dn)
    PROVE  [Request!Next]_Request!bvars
<1>1. PICK d \in Dios, ack \in Acks : Answer(dn, d, ack)
  BY DEF Process_Datanode_Response, Drop_Datanode_Response
<1>2. UNCHANGED <<kstate, endings, kresult, lbs>>
  BY DEF Process_Datanode_Response, Drop_Datanode_Response, kvars, iovars
<1> DEFINE k == KreqOf[d]
           B == LRsOn(d, dn)
<1>3. k \in Kreqs /\ B \in SUBSET LRs /\ B \subseteq [j \in Kreqs |-> LRsOfKreq(j)][k]
  BY StructureAssumption DEF LRsOn, LRsOf, LRsOfKreq
<1>4. AbsPhase[k] \in {"open", "ended"}
  <2>1. kstate[k] \in {"inflight", "ended"}
    BY <1>1, <1>3 DEF Answer, OwnershipInv, DioInv, TypeOK
  <2>2. QED
    BY <1>3, <2>1 DEF AbsPhase
<1>5. AbsAnswers' = [l \in LRs |-> IF l \in B THEN AbsAnswers[l] \cup {ack} ELSE AbsAnswers[l]]
  <2>1. sent' = [sent EXCEPT ![d][dn] = @ \cup {ack}]
    BY <1>1 DEF Answer
  <2>2. ASSUME NEW l \in LRs
        PROVE  AbsAnswers'[l] = IF l \in B THEN AbsAnswers[l] \cup {ack} ELSE AbsAnswers[l]
    <3>1. DioOf[l] \in Dios /\ Replicas[l] \subseteq DNs
      BY StructureAssumption
    <3>2. CASE l \in B
      <4>1. DioOf[l] = d /\ dn \in Replicas[l]
        BY <3>2 DEF LRsOn, LRsOf
      <4>2. \A o \in Replicas[l] :
              sent'[d][o] = IF o = dn THEN sent[d][o] \cup {ack} ELSE sent[d][o]
        BY <2>1, <3>1, <4>1 DEF TypeOK
      <4>3. UNION {sent'[d][o] : o \in Replicas[l]} = (UNION {sent[d][o] : o \in Replicas[l]}) \cup {ack}
        <5> DEFINE U == UNION {sent[d][o] : o \in Replicas[l]}
                   V == UNION {sent'[d][o] : o \in Replicas[l]}
        <5>1. \A x : x \in U <=> \E o \in Replicas[l] : x \in sent[d][o]
          BY UnionOfValues
        <5>2. \A x : x \in V <=> \E o \in Replicas[l] : x \in sent'[d][o]
          BY UnionOfValues
        <5> HIDE DEF U, V
        <5>3. ASSUME NEW x
              PROVE  x \in V <=> x \in U \/ x = ack
          <6>1. x \in V <=> \E o \in Replicas[l] : x \in sent'[d][o]
            BY <5>2
          <6>2. x \in U <=> \E o \in Replicas[l] : x \in sent[d][o]
            BY <5>1
          <6>3. \A o \in Replicas[l] : x \in sent'[d][o] <=> x \in sent[d][o] \/ (o = dn /\ x = ack)
            BY <4>2
          <6>4. QED
            BY <4>1, <6>1, <6>2, <6>3
        <5>4. V = U \cup {ack}
          BY <5>3
        <5>5. QED
          BY <5>4 DEF U, V
      <4>4. AbsAnswers[l] = UNION {sent[d][o] : o \in Replicas[l]}
        BY <4>1 DEF AbsAnswers
      <4>5. AbsAnswers'[l] = UNION {sent'[d][o] : o \in Replicas[l]}
        BY <4>1 DEF AbsAnswers
      <4> HIDE DEF B
      <4>6. QED
        BY <3>2, <4>3, <4>4, <4>5
    <3>3. CASE l \notin B
      <4>1. \A o \in Replicas[l] : sent'[DioOf[l]][o] = sent[DioOf[l]][o]
        BY <2>1, <3>1, <3>3 DEF TypeOK, LRsOn, LRsOf
      <4>2. QED
        BY <3>3, <4>1 DEF AbsAnswers
    <3>4. QED
      BY <3>2, <3>3
  <2>3. QED
    BY <2>2 DEF AbsAnswers
<1>6. AbsPhase' = AbsPhase /\ AbsUnsettled' = AbsUnsettled /\ AbsResult' = AbsResult
  BY <1>2 DEF AbsPhase, AbsUnsettled, AbsResult, LRsOfKreq
<1> HIDE DEF k, B
<1>7. Request!Answer(k, B, ack)
  BY <1>3, <1>4, <1>5, <1>6 DEF Request!Answer
<1>8. QED
  BY <1>3, <1>7 DEF Request!Next

\* Commit_LB_List_by_Range settles the blocks of the located request a receiver holds.
LEMMA SettleStep ==
    ASSUME TypeOK, OwnershipInv, ResultInv, PlacedInv, NEW dn \in DNs,
           Commit_LB_List_by_Range(dn)
    PROVE  [Request!Next]_Request!bvars
<1> DEFINE d == thr[dn].dio
           l == thr[dn].lr
           k == KreqOf[d]
<1>1. thr[dn].pc = "removelbs" /\ lbs' = [lbs EXCEPT ![d] = lbs[d] \ {l}]
      /\ UNCHANGED <<kstate, endings, kresult, sent>>
  BY DEF Commit_LB_List_by_Range, kvars
<1>2. d \in Dios /\ l \in LRs /\ k \in Kreqs
  BY StructureAssumption DEF TypeOK, Threads
<1>3. DioOf[l] = d /\ l \in lbs[d]
  BY <1>1, <1>2 DEF OwnershipInv, ThreadInv, ThreadOK, ClaimsLR
<1>4. l \in AbsUnsettled[k]
  BY <1>2, <1>3 DEF AbsUnsettled, LRsOfKreq
<1>5. AbsAnswers[l] # {}
  <2>1. thr[dn].ack \in sent[d][dn]
    BY <1>1 DEF ResultInv, CarriedInv, CarriedOK
  <2>2. dn \in Replicas[l]
    BY <1>1 DEF PlacedInv, WorksOn, LRsOn
  <2>3. QED
    BY <1>2, <1>3, <2>1, <2>2 DEF AbsAnswers
<1>6. AbsUnsettled' = [AbsUnsettled EXCEPT ![k] = @ \ {l}]
  <2>1. ASSUME NEW j \in Kreqs
        PROVE  AbsUnsettled'[j] = IF j = k THEN AbsUnsettled[j] \ {l} ELSE AbsUnsettled[j]
    <3>1. \A m \in LRs : DioOf[m] \in Dios
      BY StructureAssumption
    <3>2. \A m \in LRs : m \in lbs'[DioOf[m]] <=> m \in lbs[DioOf[m]] /\ m # l
      BY <1>1, <1>2, <1>3, <3>1 DEF TypeOK
    <3>3. QED
      BY <1>3, <3>2 DEF AbsUnsettled, LRsOfKreq
  <2> HIDE DEF k, l
  <2>3. AbsUnsettled' = [j \in Kreqs |-> AbsUnsettled'[j]]
    BY DEF AbsUnsettled
  <2>4. AbsUnsettled = [j \in Kreqs |-> AbsUnsettled[j]]
    BY DEF AbsUnsettled
  <2>5. QED
    BY <1>2, <2>1, <2>3, <2>4
<1>7. AbsPhase' = AbsPhase /\ AbsAnswers' = AbsAnswers /\ AbsResult' = AbsResult
  BY <1>1 DEF AbsPhase, AbsAnswers, AbsResult
<1> HIDE DEF d, l, k
<1>8. Request!Settle(k, l)
  BY <1>4, <1>5, <1>6, <1>7 DEF Request!Settle
<1>9. QED
  BY <1>2, <1>8 DEF Request!Next

\* Complete_Request ends the request with an answer about one of its blocks.
LEMMA EndStep ==
    ASSUME TypeOK, OwnershipInv, ResultInv, PlacedInv, NEW dn \in DNs, Complete_Request(dn)
    PROVE  [Request!Next]_Request!bvars
<1> DEFINE k == KreqOf[thr[dn].dio]
           a == iorResult[k]
<1>1. thr[dn].pc = "complete" /\ End_Request(k, a) /\ UNCHANGED <<lbs, sent>>
  BY DEF Complete_Request, iovars
<1>2. thr[dn].dio \in Dios /\ k \in Kreqs
  BY StructureAssumption DEF TypeOK, Threads
<1>3. kstate[k] = "inflight" /\ dioList[k] = {} /\ endings[k] = 0
  <2>1. kstate[k] = "inflight" /\ dioList[k] = {}
    BY <1>1, <1>2 DEF OwnershipInv, ThreadInv, ThreadOK, ClaimsKreq
  <2>2. QED
    BY <1>2, <2>1 DEF OwnershipInv, KreqInv
<1>4. AbsPhase[k] = "open" /\ AbsPhase' = [AbsPhase EXCEPT ![k] = "ended"]
  BY <1>1, <1>2, <1>3 DEF End_Request, AbsPhase, TypeOK
<1>5. AbsUnsettled[k] = {}
  <2>1. ASSUME NEW m \in LRs, KreqOf[DioOf[m]] = k
        PROVE  m \notin lbs[DioOf[m]]
    <3>1. DioOf[m] \in Dios
      BY StructureAssumption
    <3>2. dioState[DioOf[m]] # "live"
      BY <1>2, <1>3, <2>1, <3>1 DEF OwnershipInv, KreqInv, DiosOf
    <3>3. QED
      BY <3>1, <3>2 DEF OwnershipInv, DioInv
  <2>2. QED
    BY <1>2, <2>1 DEF AbsUnsettled, LRsOfKreq
<1>6. a \in UNION {AbsAnswers[m] : m \in [j \in Kreqs |-> LRsOfKreq(j)][k]}
  <2>1. a # "true"
    BY <1>1 DEF ResultInv, CarriedInv, CarriedOK
  <2>2. PICK d \in DiosOf(k), o \in DNs : a \in sent[d][o]
    BY <1>2, <2>1 DEF ResultInv, StoredInv, SentFor, SentAbout
  <2>3. PICK m \in LRsOn(d, o) : TRUE
    BY <2>2 DEF PlacedInv, AskedInv, DiosOf
  <2>4. m \in LRsOfKreq(k) /\ a \in AbsAnswers[m]
    BY <2>2, <2>3 DEF LRsOn, LRsOf, LRsOfKreq, AbsAnswers, DiosOf
  <2>5. QED
    BY <1>2, <2>4
<1>7. AbsResult' = [AbsResult EXCEPT ![k] = a]
  <2>1. endings' = [endings EXCEPT ![k] = endings[k] + 1] /\ kresult' = [kresult EXCEPT ![k] = a]
    BY <1>1 DEF End_Request
  <2>2. endings'[k] = 1 /\ kresult'[k] = a
    BY <1>2, <1>3, <2>1 DEF TypeOK
  <2>3. \A j \in Kreqs : j # k => endings'[j] = endings[j] /\ kresult'[j] = kresult[j]
    BY <2>1 DEF TypeOK
  <2> HIDE DEF k, a
  <2>4. ASSUME NEW j \in Kreqs
        PROVE  AbsResult'[j] = IF j = k THEN a ELSE AbsResult[j]
    BY <2>2, <2>3 DEF AbsResult
  <2>5. AbsResult' = [j \in Kreqs |-> AbsResult'[j]]
    BY DEF AbsResult
  <2>6. AbsResult = [j \in Kreqs |-> AbsResult[j]]
    BY DEF AbsResult
  <2>7. QED
    BY <1>2, <2>4, <2>5, <2>6
<1>8. AbsUnsettled' = AbsUnsettled /\ AbsAnswers' = AbsAnswers
  BY <1>1 DEF AbsUnsettled, AbsAnswers, LRsOfKreq
<1> HIDE DEF k, a
<1>9. Request!End(k)
  BY <1>4, <1>5, <1>6, <1>7, <1>8 DEF Request!End
<1>10. QED
  BY <1>2, <1>9 DEF Request!Next

\* Every interleaving of the receivers is a behaviour of abstract requests: a request is
\* opened or aborted by __VolumeIO_Handler, settled block by block in the list of its dio,
\* and ended once by DMS_End_Request_Handler, complete and with an answer about one of its
\* blocks.  The safety of ImplementsFairBlockRequest, for any instance.
THEOREM Implementation == Spec => Request!Spec
<1>1. Init => Request!Init
  <2> SUFFICES ASSUME Init
               PROVE  Request!Init
    OBVIOUS
  <2>1. \A l \in LRs : DioOf[l] \in Dios /\ Replicas[l] \subseteq DNs
    BY StructureAssumption
  <2>2. AbsAnswers = [l \in LRs |-> {}]
    BY <2>1 DEF Init, AbsAnswers
  <2>3. AbsPhase = [k \in Kreqs |-> "queued"] /\ AbsResult = [k \in Kreqs |-> "none"]
    BY DEF Init, AbsPhase, AbsResult
  <2>4. AbsUnsettled = [k \in Kreqs |-> {}]
    <3>1. \A k \in Kreqs : {l \in LRsOfKreq(k) : l \in lbs[DioOf[l]]} = {}
      BY <2>1 DEF Init, LRsOfKreq
    <3>2. QED
      BY <3>1 DEF AbsUnsettled
  <2>5. QED
    BY <2>2, <2>3, <2>4 DEF Request!Init
<1>2. TypeOK /\ OwnershipInv /\ ResultInv /\ PlacedInv /\ [Next]_vars
        => [Request!Next]_Request!bvars
  <2> SUFFICES ASSUME TypeOK, OwnershipInv, ResultInv, PlacedInv, [Next]_vars
               PROVE  [Request!Next]_Request!bvars
    OBVIOUS
  <2>1. ASSUME NEW d \in Dios, Process_Namenode_Response(d)
        PROVE  [Request!Next]_Request!bvars
    BY <2>1, Stutter DEF Process_Namenode_Response, kvars, iovars
  <2>2. ASSUME NEW dn \in DNs, Commiter(dn)
        PROVE  [Request!Next]_Request!bvars
    <3>1. CASE Commit_LB_List_by_Range(dn)
      BY <3>1, SettleStep
    <3>2. CASE Complete_Request(dn)
      BY <3>2, EndStep
    <3>3. CASE ~Commit_LB_List_by_Range(dn) /\ ~Complete_Request(dn)
      <4>1. UNCHANGED <<kstate, endings, kresult, lbs, sent>>
        BY <2>2, <3>3 DEF Commiter, Update_and_Commit_to_User_Policy, Update_Disk_Ack_on_Error,
           Commit_LBs_to_DMS_IO, Set_DIO_Result, Set_IOR_Result,
           Remove_and_Release_DIO, DMS_End_Request_Handler, Set_Pdio_NULL,
           Update_and_Commit_to_Namenode_Policy, Commit_Datanode_Tags, Commit_to_Namenode,
           kvars, iovars
      <4>2. QED
        BY <4>1, Stutter
    <3>4. QED
      BY <3>1, <3>2, <3>3
  <2>3. CASE UNCHANGED vars
    BY <2>3, Stutter DEF vars, kvars, iovars
  <2>4. QED
    BY <2>1, <2>2, <2>3, HandlerStep, AnswerStep DEF Next
<1>3. QED
  BY <1>1, <1>2, TypeCorrect, Ownership, ResultsHold, Placed, PTL DEF Spec, Request!Spec

-----------------------------------------------------------------------------
(* The count of the disk answers.                                          *)
(*                                                                         *)
(* wdisk_ack of a located request goes down once for every datanode that   *)
(* has given its last answer.  No answer is counted twice, since a last    *)
(* answer follows no other (AnswersInv: AckOK); and none is dropped        *)
(* uncounted, since a tag that is not in the list is with the receiver, or *)
(* was released after such an answer (Tagged), and what the receiver took  *)
(* is in its hands until it is recorded (Kept).                            *)

(* What a receiver's step does to its own work.                             *)

FinalAnswers == {"READ_ACK", "WDISK_ACK", "EXCEPTION"}

\* A receiver is on its payload tags, has left them, holds its datanode's tag.
Handles(t) == t.pc \notin {"idle", "nnpolicy", "committags", "commitnn"}
Goes(t) == Handles(t) \/ (t.pc = "nnpolicy" /\ t.todo = {})
Holding(t) == t.pc \notin {"idle", "commitnn"}

Only(dn) == \A o \in DNs \ {dn} : thr'[o] = thr[o]
SameWork(t, u) == u.dio = t.dio /\ u.ack = t.ack
metadata == <<located, dnTags, sent>>

\* A step of the levels below: it only moves the receiver.
Moves(dn) ==
    /\ UNCHANGED <<metadata, dnResult, wdisk>> /\ Only(dn)
    /\ SameWork(thr[dn], thr'[dn]) /\ thr'[dn].todo = thr[dn].todo
    /\ Handles(thr[dn]) /\ Goes(thr'[dn])
    /\ "errdisk" \notin {thr[dn].pc, thr'[dn].pc}

\* The payload tag of l is taken, and the answer recorded: it counts, or counts not, or
\* counts with the next step.
TakesTag(dn, l) ==
    /\ thr[dn].pc = "policy" /\ l \in thr[dn].todo
    /\ UNCHANGED metadata /\ Only(dn)
    /\ Record(l, dn, thr[dn].ack)
    /\ SameWork(thr[dn], thr'[dn])
    /\ thr'[dn].todo = thr[dn].todo \ {l} /\ thr'[dn].lr = l
    /\ Goes(thr'[dn])
    /\ \/ UNCHANGED wdisk /\ thr[dn].ack \notin LastAnswers(thr[dn].dio) /\ thr'[dn].pc # "errdisk"
       \/ UNCHANGED wdisk /\ thr[dn].ack = "EXCEPTION" /\ Op[thr[dn].dio] = "WRITE" /\ thr'[dn].pc = "errdisk"
       \/ /\ wdisk' = [wdisk EXCEPT ![l] = @ - 1]
          /\ thr[dn].ack \in LastAnswers(thr[dn].dio) /\ thr'[dn].pc # "errdisk"

\* The second half of a write error.
TakesError(dn) ==
    /\ thr[dn].pc = "errdisk" /\ Goes(thr'[dn]) /\ thr'[dn].pc # "errdisk"
    /\ UNCHANGED <<metadata, dnResult>> /\ Only(dn)
    /\ SameWork(thr[dn], thr'[dn]) /\ thr'[dn].todo = thr[dn].todo
    /\ wdisk' = [wdisk EXCEPT ![thr[dn].lr] = @ - 1]

\* The finished located requests are reported, the tag goes back, the namenode is told.
Reports(dn) ==
    /\ thr[dn].pc = "nnpolicy" /\ thr'[dn].pc = "committags" /\ Only(dn)
    /\ UNCHANGED <<metadata, dnResult, wdisk>> /\ SameWork(thr[dn], thr'[dn])
PutsBack(dn) ==
    /\ thr[dn].pc = "committags" /\ thr'[dn].pc \in {"idle", "commitnn"} /\ Only(dn)
    /\ UNCHANGED <<located, sent, dnResult, wdisk>>
    /\ dnTags' = [dnTags EXCEPT ![thr[dn].dio] = IF TagStays(thr[dn].ack) THEN @ \cup {dn} ELSE @]
Commits(dn) ==
    /\ thr[dn].pc = "commitnn" /\ thr'[dn].pc = "idle" /\ Only(dn)
    /\ UNCHANGED <<metadata, dnResult, wdisk>>

\* A step that only changes a receiver's control point moves it.
LEMMA GotoMoves ==
    ASSUME TypeOK, NEW dn \in DNs, NEW pc, Goto(dn, pc), Handles(thr[dn]), thr[dn].pc # "errdisk",
           pc \notin {"idle", "committags", "commitnn", "errdisk"}, pc = "nnpolicy" => thr[dn].todo = {},
           UNCHANGED <<metadata, dnResult, wdisk>>
    PROVE  Moves(dn)
<1> DEFINE t == [thr[dn] EXCEPT !.pc = pc]
<1>1. thr' = [thr EXCEPT ![dn] = t]
  BY DEF Goto
<1>2. t.pc = pc /\ t.dio = thr[dn].dio /\ t.ack = thr[dn].ack /\ t.todo = thr[dn].todo
  BY DEF TypeOK, Threads
<1> HIDE DEF t
<1>3. thr'[dn] = t /\ Only(dn)
  BY <1>1 DEF TypeOK, Only
<1>4. QED
  BY <1>2, <1>3 DEF Moves, SameWork, Goes, Handles

\* The steps through the four levels move the receiver.
LEMMA LevelsMove ==
    ASSUME TypeOK, NEW dn \in DNs,
           \/ Commit_LBs_to_DMS_IO(dn) \/ Set_DIO_Result(dn) \/ Commit_LB_List_by_Range(dn)
           \/ Set_IOR_Result(dn) \/ Remove_and_Release_DIO(dn) \/ DMS_End_Request_Handler(dn)
           \/ Complete_Request(dn) \/ Set_Pdio_NULL(dn)
    PROVE  Moves(dn)
<1>1. \A todo : AfterTag(todo) \in {"nnpolicy", "policy"} /\ (AfterTag(todo) = "nnpolicy" => todo = {})
  BY DEF AfterTag
<1>2. /\ thr[dn].pc \in {"testandset", "dioresult", "removelbs", "iorresult", "unlink", "end",
                         "complete", "clearpdio"}
      /\ UNCHANGED <<metadata, dnResult, wdisk>>
  BY DEF metadata, Commit_LBs_to_DMS_IO, Set_DIO_Result, Commit_LB_List_by_Range, Set_IOR_Result,
     Remove_and_Release_DIO, DMS_End_Request_Handler, Complete_Request, Set_Pdio_NULL,
     metavars, lrvars
<1>3. ASSUME NEW pc \in {"dioresult", "removelbs", "iorresult", "unlink", "end", "complete",
                         "clearpdio", "policy", "nnpolicy"},
             pc = "nnpolicy" => thr[dn].todo = {}, Goto(dn, pc)
      PROVE  Moves(dn)
  BY <1>2, <1>3, GotoMoves DEF Handles
<1>4. NextTag(dn) => Moves(dn)
  BY <1>1, <1>3 DEF NextTag
<1>5. CASE Commit_LBs_to_DMS_IO(dn)
  BY <1>3, <1>4, <1>5 DEF Commit_LBs_to_DMS_IO
<1>6. CASE Set_DIO_Result(dn) \/ Set_IOR_Result(dn)
  BY <1>3, <1>6 DEF Set_DIO_Result, Set_IOR_Result
<1>7. CASE Commit_LB_List_by_Range(dn)
  BY <1>3, <1>4, <1>7 DEF Commit_LB_List_by_Range
<1>8. CASE Remove_and_Release_DIO(dn)
  BY <1>3, <1>8 DEF Remove_and_Release_DIO, AfterUnlink
<1>9. CASE DMS_End_Request_Handler(dn)
  BY <1>3, <1>9 DEF DMS_End_Request_Handler
<1>10. CASE Complete_Request(dn)
  BY <1>3, <1>10 DEF Complete_Request
<1>11. CASE Set_Pdio_NULL(dn)
  BY <1>4, <1>11 DEF Set_Pdio_NULL
<1>12. QED
  BY <1>5, <1>6, <1>7, <1>8, <1>9, <1>10, <1>11

-----------------------------------------------------------------------------
(* Answers.  A datanode gives one last answer about a located request.      *)

AnswersFit ==
    \A d \in Dios, dn \in DNs :
        /\ Op[d] = "READ" => sent[d][dn] \subseteq {"READ_ACK", "EXCEPTION"}
        /\ Op[d] = "WRITE" => "READ_ACK" \notin sent[d][dn]
        /\ ~located[d] => sent[d][dn] = {}
RecordsAreSent == \A l \in LRs, dn \in DNs : dnResult[l][dn] \in sent[DioOf[l]][dn] \cup {"none"}

\* What is at hand follows no exception, and was not recorded as final before.
AckOK(t, dn) ==
    Handles(t) =>
        /\ t.ack # "EXCEPTION" => "EXCEPTION" \notin sent[t.dio][dn]
        /\ t.ack \in FinalAnswers => \A l \in t.todo : dnResult[l][dn] \notin FinalAnswers
        /\ t.pc = "errdisk" => dnResult[t.lr][dn] \in LastAnswers(t.dio)
AnswersInv == AnswersFit /\ RecordsAreSent /\ \A dn \in DNs : AckOK(thr[dn], dn)

\* A last answer is recorded, or in the hands of the receiver.
InHand(t, l) == Handles(t) /\ t.dio = DioOf[l] /\ t.ack \in LastAnswers(DioOf[l]) /\ l \in t.todo
Kept(l, dn) ==
    sent[DioOf[l]][dn] \cap LastAnswers(DioOf[l]) # {} =>
        dnResult[l][dn] \in LastAnswers(DioOf[l]) \/ InHand(thr[dn], l)
KeptInv == \A l \in LRs : \A dn \in Replicas[l] : Kept(l, dn)

\* A tag that is not in the list is with its receiver, or was released.
Tagged(d, dn) ==
    \/ dn \in dnTags[d]
    \/ Holding(thr[dn]) /\ thr[dn].dio = d
    \/ sent[d][dn] \cap {"READ_ACK", "WDISK_ACK"} # {}
TagInv == \A d \in Dios, dn \in DNs : located[d] /\ LRsOn(d, dn) # {} => Tagged(d, dn)

\* Last answers are final, and a dio is a read or a write.
LEMMA LastIsFinal ==
    /\ \A d : LastAnswers(d) \subseteq FinalAnswers
    /\ \A d \in Dios : Op[d] \in {"READ", "WRITE"}
BY StructureAssumption DEF LastAnswers, FinalAnswers

\* Every kind of answer takes one payload tag.
LEMMA PolicyTakes ==
    ASSUME TypeOK, AnswersFit, ResultInv, NEW dn \in DNs, Update_and_Commit_to_User_Policy(dn)
    PROVE  \E l \in thr[dn].todo : TakesTag(dn, l)
<1> DEFINE d == thr[dn].dio
<1>0. /\ thr[dn] \in Threads /\ thr[dn].pc = "policy" /\ UNCHANGED metadata
      /\ d \in Dios /\ thr[dn].ack \in sent[d][dn]
  BY DEF TypeOK, Threads, Update_and_Commit_to_User_Policy, kvars, metavars, metadata, ResultInv,
     CarriedInv, CarriedOK
<1>1. \A todo : AfterTag(todo) \in {"nnpolicy", "policy"} /\ (AfterTag(todo) = "nnpolicy" => todo = {})
  BY DEF AfterTag
<1>2. PICK l \in thr[dn].todo :
         /\ Record(l, dn, thr[dn].ack)
         /\ Policy_Mem(dn, l) \/ Policy_Disk(dn, l) \/ Policy_ReadError(dn, l) \/ Policy_WriteError(dn, l)
  BY DEF Update_and_Commit_to_User_Policy
<1>3. /\ Op[d] = "READ" => LastAnswers(d) = {"READ_ACK"} /\ thr[dn].ack \in {"READ_ACK", "EXCEPTION"}
      /\ Op[d] = "WRITE" => LastAnswers(d) = {"WDISK_ACK", "EXCEPTION"} /\ thr[dn].ack # "READ_ACK"
      /\ Op[d] \in {"READ", "WRITE"}
  BY <1>0, LastIsFinal DEF AnswersFit, LastAnswers
<1> HIDE DEF d
<1>4. ASSUME NEW t, thr' = [thr EXCEPT ![dn] = t], SameWork(thr[dn], t),
             t.todo = thr[dn].todo \ {l}, t.lr = l, Goes(t),
             \/ UNCHANGED wdisk /\ thr[dn].ack \notin LastAnswers(d) /\ t.pc # "errdisk"
             \/ UNCHANGED wdisk /\ thr[dn].ack = "EXCEPTION" /\ Op[d] = "WRITE" /\ t.pc = "errdisk"
             \/ /\ wdisk' = [wdisk EXCEPT ![l] = @ - 1]
                /\ thr[dn].ack \in LastAnswers(d) /\ t.pc # "errdisk"
      PROVE  TakesTag(dn, l)
  <2>1. thr'[dn] = t /\ Only(dn)
    BY <1>4 DEF TypeOK, Only
  <2>2. QED
    BY <1>0, <1>2, <1>4, <2>1 DEF TakesTag, d
<1>5. CASE Policy_Mem(dn, l)
  <2> DEFINE x == IF LastAck(wmem[l]) THEN "testandset" ELSE AfterTag(thr[dn].todo \ {l})
             t == [thr[dn] EXCEPT !.lr = l, !.todo = thr[dn].todo \ {l}, !.pc = x]
  <2>1. thr' = [thr EXCEPT ![dn] = t] /\ UNCHANGED wdisk /\ thr[dn].ack \notin LastAnswers(d)
    BY <1>3, <1>5 DEF Policy_Mem
  <2>2. x \in {"testandset", "policy", "nnpolicy"} /\ (x = "nnpolicy" => thr[dn].todo \ {l} = {})
    BY <1>1
  <2> HIDE DEF x
  <2>3. SameWork(thr[dn], t) /\ t.todo = thr[dn].todo \ {l} /\ t.lr = l /\ t.pc = x
    BY <1>0 DEF Threads, SameWork
  <2> HIDE DEF t
  <2>4. Goes(t) /\ t.pc # "errdisk"
    BY <2>2, <2>3 DEF Goes, Handles
  <2>5. QED
    BY <1>2, <1>4, <2>1, <2>3, <2>4
<1>6. CASE Policy_Disk(dn, l)
  <2> DEFINE x == thr[dn].done + (IF LastAck(wdisk[l]) THEN 1 ELSE 0)
             t == [thr[dn] EXCEPT !.lr = l, !.todo = thr[dn].todo \ {l}, !.pc = "testandset", !.done = x]
  <2>1. /\ thr' = [thr EXCEPT ![dn] = t] /\ wdisk' = [wdisk EXCEPT ![l] = @ - 1]
        /\ thr[dn].ack \in {"WDISK_ACK", "READ_ACK"}
    BY <1>6 DEF Policy_Disk
  <2> HIDE DEF x
  <2>2. SameWork(thr[dn], t) /\ t.todo = thr[dn].todo \ {l} /\ t.lr = l /\ t.pc = "testandset"
    BY <1>0 DEF Threads, SameWork
  <2> HIDE DEF t
  <2>3. Goes(t) /\ t.pc # "errdisk" /\ thr[dn].ack \in LastAnswers(d)
    BY <1>3, <2>1, <2>2 DEF Goes, Handles
  <2>4. QED
    BY <1>2, <1>4, <2>1, <2>2, <2>3
<1>7. CASE Policy_ReadError(dn, l)
  <2> DEFINE x == AfterTag(thr[dn].todo \ {l})
             t == [thr[dn] EXCEPT !.lr = l, !.todo = thr[dn].todo \ {l}, !.pc = x]
  <2>1. thr' = [thr EXCEPT ![dn] = t] /\ UNCHANGED wdisk /\ thr[dn].ack \notin LastAnswers(d)
    BY <1>3, <1>7 DEF Policy_ReadError, d
  <2>2. x \in {"policy", "nnpolicy"} /\ (x = "nnpolicy" => thr[dn].todo \ {l} = {})
    BY <1>1
  <2> HIDE DEF x
  <2>3. SameWork(thr[dn], t) /\ t.todo = thr[dn].todo \ {l} /\ t.lr = l /\ t.pc = x
    BY <1>0 DEF Threads, SameWork
  <2> HIDE DEF t
  <2>4. Goes(t) /\ t.pc # "errdisk"
    BY <2>2, <2>3 DEF Goes, Handles
  <2>5. QED
    BY <1>2, <1>4, <2>1, <2>3, <2>4
<1>8. CASE Policy_WriteError(dn, l)
  <2> DEFINE x == LastAck(wmem[l])
             t == [thr[dn] EXCEPT !.lr = l, !.todo = thr[dn].todo \ {l}, !.pc = "errdisk", !.cuser = x]
  <2>1. /\ thr' = [thr EXCEPT ![dn] = t] /\ UNCHANGED wdisk /\ thr[dn].ack = "EXCEPTION"
        /\ Op[d] = "WRITE"
    BY <1>8 DEF Policy_WriteError, d
  <2> HIDE DEF x
  <2>2. SameWork(thr[dn], t) /\ t.todo = thr[dn].todo \ {l} /\ t.lr = l /\ t.pc = "errdisk"
    BY <1>0 DEF Threads, SameWork
  <2> HIDE DEF t
  <2>3. Goes(t)
    BY <2>2 DEF Goes, Handles
  <2>4. QED
    BY <1>2, <1>4, <2>1, <2>2, <2>3
<1>9. QED
  BY <1>2, <1>5, <1>6, <1>7, <1>8

\* The second half of a write error counts one replica down.
LEMMA ErrorTakes ==
    ASSUME TypeOK, NEW dn \in DNs, Update_Disk_Ack_on_Error(dn)
    PROVE  TakesError(dn)
<1> DEFINE l == thr[dn].lr
           n == thr[dn].done + (IF LastAck(wdisk[l]) THEN 1 ELSE 0)
           pc == IF LastAck(wdisk[l]) \/ thr[dn].cuser THEN "testandset" ELSE AfterTag(thr[dn].todo)
           t == [thr[dn] EXCEPT !.done = n, !.pc = pc]
<1>1. /\ thr[dn].pc = "errdisk" /\ thr' = [thr EXCEPT ![dn] = t]
      /\ wdisk' = [wdisk EXCEPT ![l] = @ - 1] /\ UNCHANGED <<metadata, dnResult>>
  BY DEF Update_Disk_Ack_on_Error, kvars, metavars, metadata
<1>2. pc \in {"testandset", "policy", "nnpolicy"} /\ (pc = "nnpolicy" => thr[dn].todo = {})
  BY DEF AfterTag
<1> HIDE DEF n, pc
<1>3. SameWork(thr[dn], t) /\ t.todo = thr[dn].todo /\ t.pc = pc
  BY DEF TypeOK, Threads, SameWork
<1> HIDE DEF t
<1>4. thr'[dn] = t /\ Only(dn)
  BY <1>1 DEF TypeOK, Only
<1>5. QED
  BY <1>1, <1>2, <1>3, <1>4 DEF TakesError, Goes, Handles

\* Default_Update_and_Commit_to_Namenode_Policy reports.
LEMMA NamenodePolicyReports ==
    ASSUME TypeOK, NEW dn \in DNs, Update_and_Commit_to_Namenode_Policy(dn)
    PROVE  Reports(dn)
<1> DEFINE x == ReachesZero(waiting[thr[dn].dio], thr[dn].done)
           t == [thr[dn] EXCEPT !.pc = "committags", !.cnn = x]
<1>1. /\ thr[dn].pc = "nnpolicy" /\ thr' = [thr EXCEPT ![dn] = t]
      /\ UNCHANGED <<metadata, dnResult, wdisk>>
  BY DEF Update_and_Commit_to_Namenode_Policy, lrvars, metadata
<1> HIDE DEF x
<1>2. t.pc = "committags" /\ SameWork(thr[dn], t)
  BY DEF TypeOK, Threads, SameWork
<1> HIDE DEF t
<1>3. thr'[dn] = t /\ Only(dn)
  BY <1>1 DEF TypeOK, Only
<1>4. QED
  BY <1>1, <1>2, <1>3 DEF Reports

\* Commit_Datanode_Tags puts the tag back, or does not, and goes on or returns.
LEMMA TagsArePutBack ==
    ASSUME TypeOK, NEW dn \in DNs, Commit_Datanode_Tags(dn)
    PROVE  PutsBack(dn)
<1>1. /\ thr[dn].pc = "committags" /\ UNCHANGED <<located, sent, dnResult, wdisk>>
      /\ dnTags' = [dnTags EXCEPT ![thr[dn].dio] = IF TagStays(thr[dn].ack) THEN @ \cup {dn} ELSE @]
  BY DEF Commit_Datanode_Tags, lrvars
<1> DEFINE t == [thr[dn] EXCEPT !.pc = "commitnn"]
<1>2. thr' = [thr EXCEPT ![dn] = IdleThread] \/ thr' = [thr EXCEPT ![dn] = t]
  BY DEF Commit_Datanode_Tags, Return, Goto
<1>3. IdleThread.pc = "idle" /\ t.pc = "commitnn"
  BY DEF TypeOK, Threads, IdleThread
<1> HIDE DEF t
<1>4. Only(dn) /\ thr'[dn] \in {IdleThread, t}
  BY <1>2 DEF TypeOK, Only
<1>5. QED
  BY <1>1, <1>3, <1>4 DEF PutsBack

\* Commit_to_Namenode returns.
LEMMA NamenodeIsTold ==
    ASSUME TypeOK, NEW dn \in DNs, Commit_to_Namenode(dn)
    PROVE  Commits(dn)
<1>1. thr' = [thr EXCEPT ![dn] = IdleThread] /\ IdleThread.pc = "idle"
  BY DEF Commit_to_Namenode, Return, IdleThread
<1>2. thr'[dn].pc = "idle" /\ Only(dn)
  BY <1>1 DEF TypeOK, Only
<1>3. QED
  BY <1>2 DEF Commits, Commit_to_Namenode, lrvars, metadata

\* Every step of a receiver is one of these.
LEMMA CommiterCases ==
    ASSUME TypeOK, AnswersFit, ResultInv, NEW dn \in DNs, Commiter(dn)
    PROVE  \/ Moves(dn) \/ (\E l \in thr[dn].todo : TakesTag(dn, l)) \/ TakesError(dn)
           \/ Reports(dn) \/ PutsBack(dn) \/ Commits(dn)
BY LevelsMove, PolicyTakes, ErrorTakes, NamenodePolicyReports, TagsArePutBack, NamenodeIsTold DEF Commiter


\* What a new answer finds.
LEMMA NewAnswer ==
    ASSUME TypeOK, AnswersFit, NEW dn \in DNs, NEW d \in Dios, NEW ack \in Acks, Answer(dn, d, ack)
    PROVE  /\ "EXCEPTION" \notin sent[d][dn]
           /\ ack \in FinalAnswers => sent[d][dn] \cap FinalAnswers = {}
           /\ Op[d] = "READ" => ack \in {"READ_ACK", "EXCEPTION"}
           /\ Op[d] = "WRITE" => ack # "READ_ACK"
           /\ located[d] /\ LRsOn(d, dn) # {}
           /\ sent' = [sent EXCEPT ![d][dn] = @ \cup {ack}]
<1>1. /\ ack \in Acks \ sent[d][dn] /\ "EXCEPTION" \notin sent[d][dn]
      /\ ack = "EXCEPTION" => sent[d][dn] \cap {"READ_ACK", "WDISK_ACK"} = {}
      /\ ack # "EXCEPTION" => ((Op[d] = "READ") <=> (ack = "READ_ACK"))
      /\ sent' = [sent EXCEPT ![d][dn] = @ \cup {ack}]
  BY DEF Answer, MayAnswer
<1>2. Op[d] \in {"READ", "WRITE"}
  BY StructureAssumption
<1>3. ack \in FinalAnswers => sent[d][dn] \cap FinalAnswers = {}
  BY <1>1, <1>2 DEF FinalAnswers, AnswersFit
<1>4. QED
  BY <1>1, <1>2, <1>3 DEF Answer

\* An answer adds to what its datanode sent about its dio, and to nothing else.
LEMMA SentGrows ==
    ASSUME TypeOK, NEW dn \in DNs, NEW d \in Dios, NEW ack, sent' = [sent EXCEPT ![d][dn] = @ \cup {ack}]
    PROVE  /\ \A e \in Dios, o \in DNs : sent'[e][o] = IF e = d /\ o = dn THEN sent[e][o] \cup {ack} ELSE sent[e][o]
           /\ \A e \in Dios, o \in DNs : sent[e][o] \subseteq sent'[e][o]
<1>1. \A e \in Dios, o \in DNs : sent'[e][o] = IF e = d /\ o = dn THEN sent[e][o] \cup {ack} ELSE sent[e][o]
  BY DEF TypeOK
<1>2. QED
  BY <1>1

\* What a record leaves.
LEMMA Recorded ==
    ASSUME TypeOK, NEW dn \in DNs, NEW l \in LRs, NEW ack, Record(l, dn, ack)
    PROVE  /\ dnResult'[l][dn] = IF dnResult[l][dn] = "WDISK_ACK" THEN "WDISK_ACK" ELSE ack
           /\ \A m \in LRs, o \in DNs : m # l \/ o # dn => dnResult'[m][o] = dnResult[m][o]
BY DEF Record, TypeOK

\* A last answer is recorded where none was before; any other leaves what is recorded.
LEMMA TagRecords ==
    ASSUME TypeOK, AnswersInv, PlacedInv, ResultInv, NEW dn \in DNs, NEW l \in thr[dn].todo, TakesTag(dn, l)
    PROVE  /\ l \in LRs /\ DioOf[l] = thr[dn].dio /\ thr[dn].dio \in Dios /\ dn \in Replicas[l]
           /\ \A m \in LRs, o \in DNs : m # l \/ o # dn => dnResult'[m][o] = dnResult[m][o]
           /\ dnResult'[l][dn] \in {"WDISK_ACK", thr[dn].ack}
           /\ thr[dn].ack \in LastAnswers(DioOf[l]) =>
                /\ dnResult[l][dn] \notin LastAnswers(DioOf[l])
                /\ dnResult'[l][dn] \in LastAnswers(DioOf[l])
           /\ thr[dn].ack \notin LastAnswers(DioOf[l]) =>
                (dnResult'[l][dn] \in LastAnswers(DioOf[l]) <=> dnResult[l][dn] \in LastAnswers(DioOf[l]))
<1> DEFINE a == thr[dn].ack
           d == thr[dn].dio
           r == dnResult[l][dn]
<1>1. /\ d \in Dios /\ l \in LRs /\ DioOf[l] = d /\ dn \in Replicas[l] /\ Handles(thr[dn])
      /\ a \in sent[d][dn] /\ a \in Acks /\ Record(l, dn, a)
  BY DEF TypeOK, Threads, TakesTag, PlacedInv, WorksOn, LRsOn, LRsOf, ResultInv, CarriedInv, CarriedOK,
     Handles
<1>2. /\ dnResult'[l][dn] = IF r = "WDISK_ACK" THEN "WDISK_ACK" ELSE a
      /\ \A m \in LRs, o \in DNs : m # l \/ o # dn => dnResult'[m][o] = dnResult[m][o]
  BY <1>1, Recorded
<1>3. /\ a # "EXCEPTION" => "EXCEPTION" \notin sent[d][dn]
      /\ a \in FinalAnswers => r \notin FinalAnswers
      /\ r \in sent[d][dn] \cup {"none"}
      /\ Op[d] = "READ" => sent[d][dn] \subseteq {"READ_ACK", "EXCEPTION"}
      /\ Op[d] = "WRITE" => "READ_ACK" \notin sent[d][dn]
  BY <1>1 DEF AnswersInv, AnswersFit, RecordsAreSent, AckOK
<1>4. /\ Op[d] \in {"READ", "WRITE"}
      /\ Op[d] = "READ" => LastAnswers(d) = {"READ_ACK"}
      /\ Op[d] = "WRITE" => LastAnswers(d) = {"WDISK_ACK", "EXCEPTION"}
  BY <1>1, LastIsFinal DEF LastAnswers
<1> HIDE DEF a, d, r
<1>5. a \in LastAnswers(d) => r \notin LastAnswers(d) /\ dnResult'[l][dn] \in LastAnswers(d)
  BY <1>2, <1>3, <1>4 DEF FinalAnswers
<1>6. a \notin LastAnswers(d) => (dnResult'[l][dn] \in LastAnswers(d) <=> r \in LastAnswers(d))
  BY <1>1, <1>2, <1>3, <1>4 DEF FinalAnswers
<1>7. QED
  BY <1>1, <1>2, <1>5, <1>6 DEF a, d, r

\* A step that neither sends nor records anything, and moves one receiver.
LEMMA AnswersFrame ==
    ASSUME AnswersInv, NEW dn \in DNs, Only(dn), UNCHANGED <<located, sent, dnResult>>,
           AckOK(thr[dn], dn)'
    PROVE  AnswersInv'
<1>1. \A o \in DNs : AckOK(thr[o], o)'
  <2> TAKE o \in DNs
  <2>1. CASE o = dn
    BY <2>1
  <2>2. CASE o # dn
    BY <2>2 DEF AnswersInv, AckOK, Only
  <2>3. QED
    BY <2>1, <2>2
<1>2. QED
  BY <1>1 DEF AnswersInv, AnswersFit, RecordsAreSent

\* Every step of a receiver keeps the invariant of the answers.
LEMMA CommiterKeepsAnswers ==
    ASSUME TypeOK, AnswersInv, PlacedInv, ResultInv, NEW dn \in DNs, Commiter(dn)
    PROVE  AnswersInv'
<1>1. AnswersFit /\ RecordsAreSent /\ AckOK(thr[dn], dn)
  BY DEF AnswersInv
<1>2. CASE Moves(dn) \/ TakesError(dn)
  <2>1. AckOK(thr[dn], dn)'
    BY <1>1, <1>2 DEF AckOK, Moves, TakesError, SameWork, Handles, metadata
  <2>2. QED
    BY <1>2, <2>1, AnswersFrame DEF Moves, TakesError, metadata
<1>3. CASE Reports(dn) \/ PutsBack(dn) \/ Commits(dn)
  <2>1. ~Handles(thr'[dn]) /\ UNCHANGED <<located, sent, dnResult>> /\ Only(dn)
    BY <1>3 DEF Reports, PutsBack, Commits, metadata, Handles
  <2>2. AckOK(thr[dn], dn)'
    BY <2>1 DEF AckOK, Handles
  <2>3. QED
    BY <2>1, <2>2, AnswersFrame
<1>4. ASSUME NEW l \in thr[dn].todo, TakesTag(dn, l)
      PROVE  AnswersInv'
  <2>1. /\ l \in LRs /\ DioOf[l] = thr[dn].dio /\ thr[dn].dio \in Dios
        /\ \A m \in LRs, o \in DNs : m # l \/ o # dn => dnResult'[m][o] = dnResult[m][o]
        /\ dnResult'[l][dn] = IF dnResult[l][dn] = "WDISK_ACK" THEN "WDISK_ACK" ELSE thr[dn].ack
        /\ thr[dn].ack \in sent[thr[dn].dio][dn] /\ Handles(thr[dn]) /\ thr[dn].todo \subseteq LRs
    <3>1. Record(l, dn, thr[dn].ack) /\ thr[dn].pc = "policy"
      BY <1>4 DEF TakesTag
    <3>2. thr[dn].ack \in sent[thr[dn].dio][dn] /\ Handles(thr[dn]) /\ thr[dn].todo \subseteq LRs
      BY <3>1 DEF ResultInv, CarriedInv, CarriedOK, Handles, TypeOK, Threads
    <3>3. l \in LRs /\ DioOf[l] = thr[dn].dio /\ thr[dn].dio \in Dios
      BY <1>4, TagRecords
    <3>4. QED
      BY <3>1, <3>2, <3>3, Recorded
  <2>2. /\ UNCHANGED <<located, sent>> /\ Only(dn) /\ SameWork(thr[dn], thr'[dn])
        /\ thr'[dn].todo = thr[dn].todo \ {l} /\ thr'[dn].lr = l
        /\ thr'[dn].pc = "errdisk" => thr[dn].ack = "EXCEPTION" /\ Op[thr[dn].dio] = "WRITE"
    BY <1>4 DEF TakesTag, metadata
  <2>3. AnswersFit'
    BY <1>1, <2>2 DEF AnswersFit
  <2>4. RecordsAreSent'
    BY <1>1, <2>1, <2>2 DEF RecordsAreSent
  <2>5. AckOK(thr[dn], dn)'
    <3>1. thr'[dn].pc = "errdisk" => dnResult'[l][dn] \in LastAnswers(thr[dn].dio)
      BY <2>1, <2>2 DEF LastAnswers
    <3>2. \A m \in thr'[dn].todo : dnResult'[m][dn] = dnResult[m][dn]
      BY <2>1, <2>2
    <3>3. QED
      BY <1>1, <2>1, <2>2, <3>1, <3>2 DEF AckOK, SameWork, LastAnswers
  <2>6. ASSUME NEW o \in DNs \ {dn} PROVE AckOK(thr[o], o)'
    <3>1. thr'[o] = thr[o] /\ AckOK(thr[o], o)
      BY <2>2 DEF AnswersInv, Only
    <3>2. \A m \in LRs : dnResult'[m][o] = dnResult[m][o]
      BY <2>1
    <3>3. thr[o].todo \subseteq LRs /\ thr[o].lr \in LRs
      BY DEF TypeOK, Threads
    <3>4. QED
      BY <2>2, <3>1, <3>2, <3>3 DEF AckOK, LastAnswers
  <2>7. QED
    BY <2>3, <2>4, <2>5, <2>6 DEF AnswersInv
<1>5. QED
  BY <1>1, <1>2, <1>3, <1>4, CommiterCases

-----------------------------------------------------------------------------
(* What is answered is recorded.                                            *)

\* A receiver that is on its payload tags has what is left of them at hand.
LEMMA CommiterKeepsKept ==
    ASSUME TypeOK, AnswersInv, PlacedInv, ResultInv, KeptInv, NEW dn \in DNs, Commiter(dn)
    PROVE  KeptInv'
<1> SUFFICES ASSUME NEW l \in LRs, NEW o \in Replicas[l] PROVE Kept(l, o)'
  BY DEF KeptInv
<1>1. o \in DNs /\ Kept(l, o)
  BY StructureAssumption DEF KeptInv
<1>2. CASE Moves(dn) \/ TakesError(dn) \/ Reports(dn) \/ PutsBack(dn) \/ Commits(dn)
  <2>1. UNCHANGED <<sent, dnResult>> /\ Only(dn)
    BY <1>2 DEF Moves, TakesError, Reports, PutsBack, Commits, metadata
  <2>2. InHand(thr[o], l) => InHand(thr[o], l)'
    <3>1. CASE o # dn
      BY <1>1, <2>1, <3>1 DEF InHand, Only, LastAnswers
    <3>2. CASE o = dn /\ (Moves(dn) \/ TakesError(dn))
      BY <3>2 DEF InHand, Moves, TakesError, SameWork, Goes, LastAnswers, Handles
    <3>3. CASE o = dn /\ (Reports(dn) \/ PutsBack(dn) \/ Commits(dn))
      BY <3>3 DEF InHand, Reports, PutsBack, Commits, Handles
    <3>4. QED
      BY <1>2, <3>1, <3>2, <3>3
  <2>3. QED
    BY <1>1, <2>1, <2>2 DEF Kept, LastAnswers
<1>3. ASSUME NEW m \in thr[dn].todo, TakesTag(dn, m) PROVE Kept(l, o)'
  <2>1. /\ UNCHANGED sent /\ Only(dn) /\ SameWork(thr[dn], thr'[dn]) /\ thr'[dn].todo = thr[dn].todo \ {m}
        /\ Goes(thr'[dn])
    BY <1>3 DEF TakesTag, metadata
  <2>2. dnResult[l][o] \in LastAnswers(DioOf[l]) => dnResult'[l][o] \in LastAnswers(DioOf[l])
    BY <1>1, <1>3, TagRecords
  <2>3. InHand(thr[o], l) => InHand(thr[o], l)' \/ dnResult'[l][o] \in LastAnswers(DioOf[l])
    <3>1. CASE o # dn
      BY <1>1, <2>1, <3>1 DEF InHand, Only, LastAnswers
    <3>2. CASE o = dn /\ l = m
      BY <1>3, <3>2, TagRecords DEF InHand
    <3>3. CASE o = dn /\ l # m
      BY <2>1, <3>3 DEF InHand, SameWork, Goes, LastAnswers
    <3>4. QED
      BY <3>1, <3>2, <3>3
  <2>4. QED
    BY <1>1, <2>1, <2>2, <2>3 DEF Kept, LastAnswers
<1>4. QED
  BY <1>2, <1>3, CommiterCases DEF AnswersInv

\* A tag is put back, unless its datanode gave its last answer.
LEMMA CommiterKeepsTags ==
    ASSUME TypeOK, AnswersInv, PlacedInv, ResultInv, TagInv, NEW dn \in DNs, Commiter(dn)
    PROVE  TagInv'
<1> SUFFICES ASSUME NEW d \in Dios, NEW o \in DNs, located'[d], LRsOn(d, o) # {} PROVE Tagged(d, o)'
  BY DEF TagInv
<1>1. CASE Moves(dn) \/ TakesError(dn) \/ Reports(dn) \/ Commits(dn) \/ \E l \in thr[dn].todo : TakesTag(dn, l)
  <2>1. UNCHANGED <<located, dnTags, sent>> /\ Only(dn)
    BY <1>1 DEF Moves, TakesError, Reports, Commits, TakesTag, metadata
  <2>2. Holding(thr[dn]) => Holding(thr'[dn]) /\ thr'[dn].dio = thr[dn].dio
    BY <1>1 DEF Moves, TakesError, Reports, Commits, TakesTag, SameWork, Goes, Handles, Holding
  <2>3. Tagged(d, o)
    BY <2>1 DEF TagInv
  <2>4. QED
    BY <2>1, <2>2, <2>3 DEF Tagged, Holding, Only
<1>2. CASE PutsBack(dn)
  <2>1. Only(dn) /\ UNCHANGED <<located, sent>> /\ thr[dn].pc = "committags"
        /\ dnTags' = [dnTags EXCEPT ![thr[dn].dio] = IF TagStays(thr[dn].ack) THEN @ \cup {dn} ELSE @]
    BY <1>2 DEF PutsBack
  <2>2. /\ dnTags[d] \subseteq dnTags'[d]
        /\ d = thr[dn].dio /\ TagStays(thr[dn].ack) => dn \in dnTags'[d]
    BY <2>1 DEF TypeOK
  <2>3. Tagged(d, o)
    BY <2>1 DEF TagInv
  <2>4. CASE o # dn
    BY <2>1, <2>2, <2>3, <2>4 DEF Tagged, Holding, Only
  <2>5. CASE o = dn
    <3>1. CASE thr[dn].dio = d
      <4>1. thr[dn].ack \in sent[d][dn] /\ thr[dn].ack \in Acks
        BY <2>1, <3>1 DEF ResultInv, CarriedInv, CarriedOK, TypeOK, Threads
      <4>2. TagStays(thr[dn].ack) \/ thr[dn].ack \in {"READ_ACK", "WDISK_ACK"}
        BY <4>1 DEF Acks, GoodAcks, TagStays
      <4>3. QED
        BY <2>1, <2>2, <2>5, <3>1, <4>1, <4>2 DEF Tagged
    <3>2. CASE thr[dn].dio # d
      BY <2>1, <2>2, <2>3, <2>5, <3>2 DEF Tagged
    <3>3. QED
      BY <3>1, <3>2
  <2>6. QED
    BY <2>4, <2>5
<1>3. QED
  BY <1>1, <1>2, CommiterCases DEF AnswersInv

\* An answer that is taken is at hand; one that is dropped follows a last answer, and is none.
LEMMA ResponseKeepsAll ==
    ASSUME TypeOK, AnswersInv, KeptInv, TagInv, NEW dn \in DNs,
           Process_Datanode_Response(dn) \/ Drop_Datanode_Response(dn)
    PROVE  AnswersInv' /\ KeptInv' /\ TagInv' /\ Only(dn) /\ UNCHANGED <<located, wdisk, dnResult>>
           /\ thr'[dn].pc \in {"idle", "policy"}
<1>1. PICK d \in Dios, ack \in Acks :
        /\ Answer(dn, d, ack)
        /\ \/ thr' = thr /\ UNCHANGED dnTags /\ dn \notin dnTags[d]
           \/ /\ dnTags' = [dnTags EXCEPT ![d] = @ \ {dn}]
              /\ thr' = [thr EXCEPT ![dn] =
                    [IdleThread EXCEPT !.pc = "policy", !.dio = d, !.ack = ack, !.todo = LRsOn(d, dn)]]
  BY DEF Process_Datanode_Response, Drop_Datanode_Response, metavars
<1>2. thr[dn].pc = "idle" /\ UNCHANGED <<located, wdisk, dnResult>>
  BY DEF Process_Datanode_Response, Drop_Datanode_Response, metavars, lrvars
<1>3. /\ "EXCEPTION" \notin sent[d][dn]
      /\ ack \in FinalAnswers => sent[d][dn] \cap FinalAnswers = {}
      /\ Op[d] = "READ" => ack \in {"READ_ACK", "EXCEPTION"}
      /\ Op[d] = "WRITE" => ack # "READ_ACK"
      /\ located[d] /\ LRsOn(d, dn) # {}
      /\ sent' = [sent EXCEPT ![d][dn] = @ \cup {ack}]
  BY <1>1, NewAnswer DEF AnswersInv
<1>4. /\ \A e \in Dios, o \in DNs : sent'[e][o] = IF e = d /\ o = dn THEN sent[e][o] \cup {ack} ELSE sent[e][o]
      /\ \A e \in Dios, o \in DNs : sent[e][o] \subseteq sent'[e][o]
  BY <1>3, SentGrows
<1> DEFINE t == [IdleThread EXCEPT !.pc = "policy", !.dio = d, !.ack = ack, !.todo = LRsOn(d, dn)]
           Taken == /\ thr'[dn] = t /\ dnTags' = [dnTags EXCEPT ![d] = @ \ {dn}]
           Dropped == thr' = thr /\ UNCHANGED dnTags /\ dn \notin dnTags[d]
<1>5. t.pc = "policy" /\ t.dio = d /\ t.ack = ack /\ t.todo = LRsOn(d, dn)
  BY IdleThreadType DEF Threads
<1>6. Only(dn) /\ (Taken \/ Dropped)
  BY <1>1 DEF TypeOK, Only
<1> HIDE DEF t
<1>7. AnswersFit'
  BY <1>2, <1>3, <1>4 DEF AnswersInv, AnswersFit
<1>8. RecordsAreSent'
  BY <1>2, <1>4, StructureAssumption DEF AnswersInv, RecordsAreSent
<1>9. ASSUME NEW o \in DNs PROVE AckOK(thr[o], o)'
  <2>1. thr[o].dio \in Dios
    BY DEF TypeOK, Threads
  <2>2. CASE o # dn
    <3>1. sent'[thr[o].dio][o] = sent[thr[o].dio][o] /\ AckOK(thr[o], o) /\ thr'[o] = thr[o]
      BY <1>4, <1>6, <2>1, <2>2 DEF AnswersInv, Only
    <3>2. QED
      BY <1>2, <3>1 DEF AckOK, LastAnswers
  <2>3. CASE o = dn /\ Dropped
    BY <1>2, <2>3 DEF AckOK, Handles
  <2>4. CASE o = dn /\ Taken
    <3>1. ack # "EXCEPTION" => "EXCEPTION" \notin sent'[d][dn]
      BY <1>3, <1>4
    <3>2. ASSUME NEW l \in LRsOn(d, dn), ack \in FinalAnswers
          PROVE  dnResult'[l][dn] \notin FinalAnswers
      <4>1. dnResult[l][dn] \in sent[d][dn] \cup {"none"}
        BY <3>2 DEF AnswersInv, RecordsAreSent, LRsOn, LRsOf
      <4>2. QED
        BY <1>2, <1>3, <3>2, <4>1 DEF FinalAnswers
    <3>3. QED
      BY <1>5, <2>4, <3>1, <3>2 DEF AckOK
  <2>5. QED
    BY <1>6, <2>2, <2>3, <2>4
<1>10. AnswersInv'
  BY <1>7, <1>8, <1>9 DEF AnswersInv
<1>11. ASSUME NEW l \in LRs, NEW o \in Replicas[l] PROVE Kept(l, o)'
  <2>1. o \in DNs /\ DioOf[l] \in Dios /\ Kept(l, o)
    BY StructureAssumption DEF KeptInv
  <2>2. CASE sent'[DioOf[l]][o] \cap LastAnswers(DioOf[l]) = sent[DioOf[l]][o] \cap LastAnswers(DioOf[l])
    <3>1. InHand(thr[o], l) => InHand(thr[o], l)'
      <4>1. CASE o # dn
        BY <1>6, <2>1, <4>1 DEF Only, InHand, LastAnswers
      <4>2. CASE o = dn
        BY <1>2, <4>2 DEF InHand, Handles
      <4>3. QED
        BY <4>1, <4>2
    <3>2. QED
      BY <1>2, <2>1, <2>2, <3>1 DEF Kept, LastAnswers
  <2>3. CASE sent'[DioOf[l]][o] \cap LastAnswers(DioOf[l]) # sent[DioOf[l]][o] \cap LastAnswers(DioOf[l])
    <3>1. DioOf[l] = d /\ o = dn /\ ack \in LastAnswers(d)
      <4>1. sent'[DioOf[l]][o] # sent[DioOf[l]][o]
        BY <2>3
      <4>2. DioOf[l] = d /\ o = dn
        BY <1>4, <2>1, <4>1
      <4>3. sent'[d][dn] = sent[d][dn] \cup {ack}
        BY <1>4
      <4>4. sent'[d][dn] \cap LastAnswers(d) # sent[d][dn] \cap LastAnswers(d)
        <5>1. LastAnswers(d)' = LastAnswers(d)
          BY DEF LastAnswers
        <5>2. QED
          BY <2>3, <4>2, <5>1
      <4>5. QED
        BY <4>2, <4>3, <4>4
    <3>2. ack \in FinalAnswers
      BY <3>1, LastIsFinal
    <3>3. ~Dropped
      <4>1. sent[d][dn] \cap {"READ_ACK", "WDISK_ACK"} = {}
        BY <1>3, <3>2 DEF FinalAnswers
      <4>2. ~Holding(thr[dn])
        BY <1>2 DEF Holding
      <4>3. QED
        BY <1>3, <4>1, <4>2 DEF TagInv, Tagged
    <3>4. l \in LRsOn(d, dn)
      BY <3>1 DEF LRsOn, LRsOf
    <3>5. InHand(thr[o], l)'
      BY <1>5, <1>6, <3>1, <3>3, <3>4 DEF InHand, Handles, LastAnswers
    <3>6. QED
      BY <3>5 DEF Kept
  <2>4. QED
    BY <2>2, <2>3
<1>12. ASSUME NEW e \in Dios, NEW o \in DNs, located'[e], LRsOn(e, o) # {} PROVE Tagged(e, o)'
  <2>1. Tagged(e, o) /\ sent[e][o] \subseteq sent'[e][o]
    BY <1>2, <1>4, <1>12 DEF TagInv
  <2>2. CASE Dropped
    BY <2>1, <2>2 DEF Tagged, Holding
  <2>3. CASE Taken /\ o = dn /\ e = d
    BY <1>5, <2>3 DEF Tagged, Holding
  <2>4. CASE Taken /\ o = dn /\ e # d
    <3>1. dnTags'[e] = dnTags[e]
      BY <2>4 DEF TypeOK
    <3>2. QED
      BY <1>2, <2>1, <2>4, <3>1 DEF Tagged, Holding
  <2>5. CASE Taken /\ o # dn
    <3>1. (o \in dnTags[e] => o \in dnTags'[e]) /\ thr'[o] = thr[o]
      BY <1>6, <2>5 DEF TypeOK, Only
    <3>2. QED
      BY <2>1, <3>1 DEF Tagged, Holding
  <2>6. QED
    BY <1>6, <2>2, <2>3, <2>4, <2>5
<1>13. thr'[dn].pc \in {"idle", "policy"}
  BY <1>2, <1>5, <1>6
<1>14. KeptInv' /\ TagInv'
  BY <1>11, <1>12 DEF KeptInv, TagInv
<1>15. QED
  BY <1>2, <1>6, <1>10, <1>13, <1>14

-----------------------------------------------------------------------------
(* The counter of disk answers.                                             *)

FiniteReplicas == \A l \in LRs : IsFiniteSet(Replicas[l])

\* The datanodes whose last answer about l was counted.
CountedOn(l) ==
    {dn \in Replicas[l] :
        dnResult[l][dn] \in LastAnswers(DioOf[l]) /\ ~(thr[dn].pc = "errdisk" /\ thr[dn].lr = l)}
DiskInv == \A l \in LRs : located[DioOf[l]] => wdisk[l] = AckInit[l] - Cardinality(CountedOn(l))

\* A step that counts nothing.
LEMMA DiskFrame ==
    ASSUME DiskInv, UNCHANGED <<located, wdisk>>, \A l \in LRs : CountedOn(l)' = CountedOn(l)
    PROVE  DiskInv'
BY DEF DiskInv

\* A step that counts a datanode.
LEMMA DiskStep ==
    ASSUME TypeOK, FiniteReplicas, DiskInv, UNCHANGED located,
           NEW l \in LRs, NEW dn \in DNs, dn \notin CountedOn(l), CountedOn(l)' = CountedOn(l) \cup {dn},
           \A m \in LRs : m # l => CountedOn(m)' = CountedOn(m),
           wdisk' = [wdisk EXCEPT ![l] = @ - 1]
    PROVE  DiskInv'
<1> SUFFICES ASSUME NEW m \in LRs, located[DioOf[m]] PROVE wdisk'[m] = AckInit[m] - Cardinality(CountedOn(m)')
  BY DEF DiskInv
<1>1. wdisk[m] = AckInit[m] - Cardinality(CountedOn(m))
  BY DEF DiskInv
<1>2. wdisk[m] \in Int /\ AckInit[m] \in Nat /\ wdisk'[m] = IF m = l THEN wdisk[m] - 1 ELSE wdisk[m]
  BY AckInitAssumption DEF TypeOK
<1>3. CASE m # l
  BY <1>1, <1>2, <1>3
<1>4. CASE m = l
  <2>1. CountedOn(l) \in SUBSET Replicas[l]
    BY DEF CountedOn
  <2>2. IsFiniteSet(CountedOn(l))
    BY <2>1, FS_Subset DEF FiniteReplicas
  <2>3. Cardinality(CountedOn(l) \cup {dn}) = Cardinality(CountedOn(l)) + 1 /\ Cardinality(CountedOn(l)) \in Nat
    BY <2>2, FS_AddElement, FS_CardinalityType
  <2>4. CountedOn(m)' = CountedOn(l) \cup {dn} /\ CountedOn(m) = CountedOn(l)
    BY <1>4
  <2>5. Cardinality(CountedOn(m)') = Cardinality(CountedOn(m)) + 1
    BY <2>3, <2>4
  <2>6. wdisk'[m] = wdisk[m] - 1
    BY <1>2, <1>4
  <2>7. Cardinality(CountedOn(m)) \in Nat /\ AckInit[m] \in Nat /\ wdisk[m] \in Int
    BY <1>2, <2>3, <2>4
  <2>8. QED
    BY <1>1, <2>5, <2>6, <2>7
<1>5. QED
  BY <1>3, <1>4

\* A receiver that records nothing, and is at no error, changes no count.
LEMMA CountFrame ==
    ASSUME NEW dn \in DNs, Only(dn), UNCHANGED dnResult, "errdisk" \notin {thr[dn].pc, thr'[dn].pc}
    PROVE  \A l \in LRs : CountedOn(l)' = CountedOn(l)
<1> TAKE l \in LRs
<1>1. ASSUME NEW o \in Replicas[l]
      PROVE  (thr'[o].pc = "errdisk" /\ thr'[o].lr = l) <=> (thr[o].pc = "errdisk" /\ thr[o].lr = l)
  BY StructureAssumption DEF Only
<1>2. QED
  BY <1>1 DEF CountedOn, LastAnswers

\* Every step of a receiver counts a datanode with a new last answer, or none.
LEMMA CommiterKeepsDisk ==
    ASSUME TypeOK, FiniteReplicas, AnswersInv, PlacedInv, ResultInv, ThreadInv, DiskInv, NEW dn \in DNs,
           Commiter(dn)
    PROVE  DiskInv'
<1>1. CASE Moves(dn) \/ Reports(dn) \/ PutsBack(dn) \/ Commits(dn)
  <2>1. Only(dn) /\ UNCHANGED <<dnResult, wdisk, located>> /\ "errdisk" \notin {thr[dn].pc, thr'[dn].pc}
    BY <1>1 DEF Moves, Reports, PutsBack, Commits, metadata
  <2>2. QED
    BY <2>1, CountFrame, DiskFrame
<1>2. ASSUME NEW l \in thr[dn].todo, TakesTag(dn, l)
      PROVE  DiskInv'
  <2>1. /\ thr[dn].pc = "policy" /\ Only(dn) /\ UNCHANGED located /\ thr'[dn].lr = l
    BY <1>2 DEF TakesTag, metadata
  <2>2. /\ l \in LRs /\ DioOf[l] = thr[dn].dio /\ dn \in Replicas[l]
        /\ \A m \in LRs, o \in DNs : m # l \/ o # dn => dnResult'[m][o] = dnResult[m][o]
        /\ thr[dn].ack \in LastAnswers(DioOf[l]) =>
             /\ dnResult[l][dn] \notin LastAnswers(DioOf[l])
             /\ dnResult'[l][dn] \in LastAnswers(DioOf[l])
        /\ thr[dn].ack \notin LastAnswers(DioOf[l]) =>
             (dnResult'[l][dn] \in LastAnswers(DioOf[l]) <=> dnResult[l][dn] \in LastAnswers(DioOf[l]))
    BY <1>2, TagRecords
  <2>3. ASSUME NEW m \in LRs, NEW o \in Replicas[m], m # l \/ o # dn
        PROVE  o \in CountedOn(m)' <=> o \in CountedOn(m)
    <3>1. o \in DNs /\ dnResult'[m][o] = dnResult[m][o]
      BY <2>2, <2>3, StructureAssumption
    <3>2. (thr'[o].pc = "errdisk" /\ thr'[o].lr = m) <=> (thr[o].pc = "errdisk" /\ thr[o].lr = m)
      BY <2>1, <2>3, <3>1 DEF Only
    <3>3. QED
      BY <3>1, <3>2 DEF CountedOn, LastAnswers
  <2>4. \A m \in LRs : m # l => CountedOn(m)' = CountedOn(m)
    <3>1. \A m \in LRs : CountedOn(m)' \subseteq Replicas[m] /\ CountedOn(m) \subseteq Replicas[m]
      BY DEF CountedOn
    <3>2. QED
      BY <2>3, <3>1
  <2>5. CountedOn(l)' \subseteq Replicas[l] /\ CountedOn(l) \subseteq Replicas[l]
    BY DEF CountedOn
  <2>6. CASE UNCHANGED wdisk /\ (dn \in CountedOn(l)' <=> dn \in CountedOn(l))
    <3>1. CountedOn(l)' = CountedOn(l)
      <4>1. ASSUME NEW o \in Replicas[l] PROVE o \in CountedOn(l)' <=> o \in CountedOn(l)
        <5>1. CASE o = dn
          BY <2>6, <5>1
        <5>2. CASE o # dn
          BY <2>2, <2>3, <5>2
        <5>3. QED
          BY <5>1, <5>2
      <4>2. QED
        BY <2>5, <4>1
    <3>2. QED
      BY <2>1, <2>4, <2>6, <3>1, DiskFrame
  <2>7. CASE wdisk' = [wdisk EXCEPT ![l] = @ - 1] /\ dn \in CountedOn(l)' /\ dn \notin CountedOn(l)
    <3>1. CountedOn(l)' = CountedOn(l) \cup {dn}
      BY <2>2, <2>3, <2>5, <2>7
    <3>2. QED
      BY <2>1, <2>2, <2>4, <2>7, <3>1, DiskStep
  <2>8. CASE UNCHANGED wdisk /\ thr[dn].ack \notin LastAnswers(thr[dn].dio) /\ thr'[dn].pc # "errdisk"
    <3>1. dn \in CountedOn(l)' <=> dn \in CountedOn(l)
      BY <2>1, <2>2, <2>8 DEF CountedOn, LastAnswers
    <3>2. QED
      BY <2>6, <2>8, <3>1
  <2>9. CASE UNCHANGED wdisk /\ thr[dn].ack = "EXCEPTION" /\ Op[thr[dn].dio] = "WRITE" /\ thr'[dn].pc = "errdisk"
    <3>1. thr[dn].ack \in LastAnswers(DioOf[l])
      BY <2>2, <2>9 DEF LastAnswers
    <3>2. dn \notin CountedOn(l) /\ dn \notin CountedOn(l)'
      BY <2>1, <2>2, <2>9, <3>1 DEF CountedOn
    <3>3. QED
      BY <2>6, <2>9, <3>2
  <2>10. CASE /\ wdisk' = [wdisk EXCEPT ![l] = @ - 1]
              /\ thr[dn].ack \in LastAnswers(thr[dn].dio) /\ thr'[dn].pc # "errdisk"
    <3>1. dn \notin CountedOn(l) /\ dn \in CountedOn(l)'
      BY <2>2, <2>10 DEF CountedOn, LastAnswers
    <3>2. QED
      BY <2>7, <2>10, <3>1
  <2>11. QED
    BY <1>2, <2>8, <2>9, <2>10 DEF TakesTag
<1>3. CASE TakesError(dn)
  <2>1. PICK l \in LRs : l = thr[dn].lr
    BY DEF TypeOK, Threads
  <2>2. /\ thr[dn].pc = "errdisk" /\ thr'[dn].pc # "errdisk" /\ Only(dn) /\ UNCHANGED <<located, dnResult>>
        /\ wdisk' = [wdisk EXCEPT ![l] = @ - 1]
    BY <1>3, <2>1 DEF TakesError, metadata
  <2>3. dn \in Replicas[l] /\ dnResult[l][dn] \in LastAnswers(DioOf[l])
    BY <2>1, <2>2 DEF PlacedInv, WorksOn, LRsOn, LRsOf, AnswersInv, AckOK, Handles
  <2>4. dn \notin CountedOn(l) /\ dn \in CountedOn(l)'
    BY <2>1, <2>2, <2>3 DEF CountedOn, LastAnswers
  <2>5. ASSUME NEW m \in LRs, NEW o \in Replicas[m], m # l \/ o # dn
        PROVE  o \in CountedOn(m)' <=> o \in CountedOn(m)
    <3>1. (thr'[o].pc = "errdisk" /\ thr'[o].lr = m) <=> (thr[o].pc = "errdisk" /\ thr[o].lr = m)
      BY <2>1, <2>2, <2>5, StructureAssumption DEF Only
    <3>2. QED
      BY <2>2, <3>1 DEF CountedOn, LastAnswers
  <2>6. \A m \in LRs : CountedOn(m)' \subseteq Replicas[m] /\ CountedOn(m) \subseteq Replicas[m]
    BY DEF CountedOn
  <2>7. CountedOn(l)' = CountedOn(l) \cup {dn} /\ \A m \in LRs : m # l => CountedOn(m)' = CountedOn(m)
    BY <2>3, <2>4, <2>5, <2>6
  <2>8. QED
    BY <2>2, <2>4, <2>7, DiskStep
<1>4. QED
  BY <1>1, <1>2, <1>3, CommiterCases DEF AnswersInv

\* The namenode's answer starts the counters, before anything was answered.
LEMMA NamenodeKeepsAll ==
    ASSUME TypeOK, AnswersInv, KeptInv, TagInv, DiskInv, NEW d \in Dios, Process_Namenode_Response(d)
    PROVE  AnswersInv' /\ KeptInv' /\ TagInv' /\ DiskInv'
<1>1. /\ UNCHANGED <<sent, dnResult, thr>> /\ ~located[d]
      /\ \A e \in Dios : located'[e] <=> (located[e] \/ e = d)
      /\ \A e \in Dios : dnTags'[e] = IF e = d THEN {dn \in DNs : LRsOn(d, dn) # {}} ELSE dnTags[e]
      /\ \A l \in LRs : wdisk'[l] = IF DioOf[l] = d THEN AckInit[l] ELSE wdisk[l]
  BY DEF Process_Namenode_Response, TypeOK
<1>2. AnswersInv'
  BY <1>1 DEF AnswersInv, AnswersFit, RecordsAreSent, AckOK, LastAnswers, Handles
<1>3. KeptInv'
  BY <1>1 DEF KeptInv, Kept, InHand, LastAnswers, Handles
<1>4. TagInv'
  <2> SUFFICES ASSUME NEW e \in Dios, NEW o \in DNs, located'[e], LRsOn(e, o) # {} PROVE Tagged(e, o)'
    BY DEF TagInv
  <2>1. CASE e = d
    BY <1>1, <2>1 DEF Tagged
  <2>2. CASE e # d
    BY <1>1, <2>2 DEF TagInv, Tagged, Holding
  <2>3. QED
    BY <2>1, <2>2
<1>5. DiskInv'
  <2> SUFFICES ASSUME NEW l \in LRs, located'[DioOf[l]] PROVE wdisk'[l] = AckInit[l] - Cardinality(CountedOn(l))
    BY <1>1 DEF DiskInv, CountedOn, LastAnswers
  <2>1. DioOf[l] \in Dios /\ AckInit[l] \in Nat
    BY StructureAssumption, AckInitAssumption
  <2>2. CASE DioOf[l] = d
    <3>1. ASSUME NEW o \in Replicas[l] PROVE dnResult[l][o] \notin LastAnswers(d)
      <4>1. o \in DNs
        BY StructureAssumption
      <4>2. sent[d][o] = {}
        BY <1>1, <4>1 DEF AnswersInv, AnswersFit
      <4>3. dnResult[l][o] = "none"
        BY <2>2, <4>1, <4>2 DEF AnswersInv, RecordsAreSent
      <4>4. QED
        BY <4>3 DEF LastAnswers
    <3>2. CountedOn(l) = {}
      BY <2>2, <3>1 DEF CountedOn
    <3>3. Cardinality(CountedOn(l)) = 0
      BY <3>2, FS_EmptySet
    <3>4. QED
      BY <1>1, <2>1, <2>2, <3>3
  <2>3. CASE DioOf[l] # d
    BY <1>1, <2>1, <2>3 DEF DiskInv
  <2>4. QED
    BY <2>2, <2>3
<1>6. QED
  BY <1>2, <1>3, <1>4, <1>5

-----------------------------------------------------------------------------
(* The invariant and the theorem.                                           *)

CountInv == AnswersInv /\ KeptInv /\ TagInv /\ DiskInv

\* The invariant holds at the start ...
LEMMA InitCount == Init => CountInv
<1> SUFFICES ASSUME Init PROVE CountInv
  OBVIOUS
<1>1. \A dn \in DNs : thr[dn].pc = "idle"
  BY DEF Init, IdleThread
<1>2. \A d \in Dios : ~located[d] /\ \A dn \in DNs : sent[d][dn] = {}
  BY DEF Init
<1>3. \A l \in LRs : DioOf[l] \in Dios /\ Replicas[l] \subseteq DNs
  BY StructureAssumption
<1>4. AnswersInv
  BY <1>1, <1>2, <1>3 DEF Init, AnswersInv, AnswersFit, RecordsAreSent, AckOK, Handles
<1>5. KeptInv /\ TagInv /\ DiskInv
  BY <1>2, <1>3 DEF KeptInv, Kept, TagInv, DiskInv
<1>6. QED
  BY <1>4, <1>5 DEF CountInv

\* ... and after a step that touches none of it ...
LEMMA CountInvFrame ==
    ASSUME CountInv, UNCHANGED <<metadata, dnResult, wdisk, thr>>
    PROVE  CountInv'
<1>1. AnswersInv'
  BY DEF CountInv, AnswersInv, AnswersFit, RecordsAreSent, AckOK, Handles, LastAnswers, metadata
<1>2. KeptInv'
  BY DEF CountInv, KeptInv, Kept, InHand, Handles, LastAnswers, metadata
<1>3. TagInv'
  BY DEF CountInv, TagInv, Tagged, Holding, metadata
<1>4. DiskInv'
  BY DEF CountInv, DiskInv, CountedOn, LastAnswers, metadata
<1>5. QED
  BY <1>1, <1>2, <1>3, <1>4 DEF CountInv

\* ... and after every other ...
LEMMA CountNext ==
    ASSUME FiniteReplicas, TypeOK, OwnershipInv, PlacedInv, ResultInv, CountInv, [Next]_vars
    PROVE  CountInv'
<1>0. AnswersInv /\ KeptInv /\ TagInv /\ DiskInv /\ ThreadInv
  BY DEF CountInv, OwnershipInv
<1>1. ASSUME NEW k \in Kreqs,
             DMS_Request_Handler(k) \/ VolumeIO_Handler(k) \/ Make_DIO_Request_Fail(k)
      PROVE  CountInv'
  BY <1>1, CountInvFrame DEF DMS_Request_Handler, VolumeIO_Handler, Make_DIO_Request_Fail,
     metavars, lrvars, metadata
<1>2. ASSUME NEW d \in Dios, Process_Namenode_Response(d)
      PROVE  CountInv'
  BY <1>0, <1>2, NamenodeKeepsAll DEF CountInv
<1>3. ASSUME NEW dn \in DNs, Process_Datanode_Response(dn) \/ Drop_Datanode_Response(dn)
      PROVE  CountInv'
  <2>1. /\ AnswersInv' /\ KeptInv' /\ TagInv' /\ Only(dn) /\ UNCHANGED <<located, wdisk, dnResult>>
        /\ thr'[dn].pc \in {"idle", "policy"}
    BY <1>0, <1>3, ResponseKeepsAll
  <2>2. thr[dn].pc = "idle"
    BY <1>3 DEF Process_Datanode_Response, Drop_Datanode_Response
  <2>3. DiskInv'
    BY <1>0, <2>1, <2>2, CountFrame, DiskFrame
  <2>4. QED
    BY <2>1, <2>3 DEF CountInv
<1>4. ASSUME NEW dn \in DNs, Commiter(dn)
      PROVE  CountInv'
  BY <1>0, <1>4, CommiterKeepsAnswers, CommiterKeepsKept, CommiterKeepsTags, CommiterKeepsDisk DEF CountInv
<1>5. CASE UNCHANGED vars
  BY <1>5, CountInvFrame DEF vars, metavars, lrvars, metadata
<1>6. QED
  BY <1>1, <1>2, <1>3, <1>4, <1>5 DEF Next

\* ... and implies the property.
LEMMA AllCounted ==
    ASSUME TypeOK, OwnershipInv, CountInv PROVE LastAnswersAreCounted
<1> SUFFICES ASSUME NEW l \in LRs, located[DioOf[l]], \A dn \in Replicas[l] : ~AtWork(dn, DioOf[l])
             PROVE  wdisk[l] = AckInit[l] - Cardinality(Answered(l))
  BY DEF LastAnswersAreCounted
<1>1. ASSUME NEW dn \in Replicas[l]
      PROVE  dn \in CountedOn(l) <=> sent[DioOf[l]][dn] \cap LastAnswers(DioOf[l]) # {}
  <2>1. dn \in DNs /\ ~AtWork(dn, DioOf[l])
    BY StructureAssumption
  <2>2. ~(thr[dn].pc = "errdisk" /\ thr[dn].lr = l)
    BY <2>1 DEF OwnershipInv, ThreadInv, ThreadOK, AtWork
  <2>3. ~InHand(thr[dn], l)
    BY <2>1 DEF InHand, Handles, AtWork
  <2>4. dnResult[l][dn] \in sent[DioOf[l]][dn] \cup {"none"} /\ "none" \notin LastAnswers(DioOf[l])
    BY <2>1 DEF CountInv, AnswersInv, RecordsAreSent, LastAnswers
  <2>5. Kept(l, dn)
    BY DEF CountInv, KeptInv
  <2>6. QED
    BY <2>2, <2>3, <2>4, <2>5 DEF CountedOn, Kept
<1>2. CountedOn(l) = Answered(l)
  BY <1>1 DEF CountedOn, Answered
<1>3. QED
  BY <1>2 DEF CountInv, DiskInv

\* When no receiver is at work on a dio, the disk counter of each of its located requests has gone
\* down once for every datanode that has given its last answer, for any number of datanodes and
\* located requests, any initial counters, and answers that are early, late or dropped
\* (Update_Disk_Ack, Commit_Datanode_Tags): a located request has finitely many replicas.
THEOREM LastAnswersCounted == ASSUME FiniteReplicas PROVE Spec => []LastAnswersAreCounted
<1>1. Init => CountInv
  BY InitCount
<1>2. TypeOK /\ OwnershipInv /\ PlacedInv /\ ResultInv /\ CountInv /\ [Next]_vars => CountInv'
  BY CountNext
<1>3. TypeOK /\ OwnershipInv /\ CountInv => LastAnswersAreCounted
  BY AllCounted
<1>4. QED
  BY <1>1, <1>2, <1>3, TypeCorrect, Ownership, ResultsHold, Placed, PTL DEF Spec

=============================================================================
