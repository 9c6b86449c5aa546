------------------------------ MODULE IOCommit ------------------------------
(***************************************************************************)
(* The commit path of the DMS virtual disk driver.                         *)
(*                                                                         *)
(* A kernel request (kreq) is split into DMS_IOs (dios), each of which     *)
(* carries a list of logical blocks.  The namenode's answer partitions the *)
(* blocks of a dio into located requests (LRs), each stored on a set of    *)
(* datanodes.  One receiver thread per datanode connection hands every     *)
(* acknowledgement to __VolumeIO_Commiter; the threads race through        *)
(*                                                                         *)
(*    LR -> logical block list -> dio -> IO_Request -> kernel request      *)
(*                                                                         *)
(* and whoever empties a level commits the next one.  Every test-and-set,  *)
(* compare-and-exchange, locked list operation and atomic decrement of the *)
(* code is a step of its own.                                              *)
(*                                                                         *)
(* The logical blocks of a dio are kept at the granularity of its LRs: the *)
(* only operation on the list, Commit_LB_List_by_Range, removes the blocks *)
(* of exactly one LR.                                                      *)
(***************************************************************************)
EXTENDS Integers, FiniteSets

CONSTANTS
    Kreqs,      \* kernel requests
    Dios,       \* DMS_IOs, as __Make_DIO_Requst will create them
    LRs,        \* located requests, as the namenode will return them
    DNs,        \* datanodes, one receiver thread each
    KreqOf,     \* the kernel request a dio belongs to
    DioOf,      \* the dio an LR belongs to
    Op,         \* the operation of a dio
    Replicas,   \* the datanodes an LR is sent to
    AckInit,    \* initial value of wmem_ack and wdisk_ack
    TagDepth    \* TCQ_DEPTH, the size of the tag map of the request queue

ASSUME StructureAssumption ==
    /\ KreqOf \in [Dios -> Kreqs]
    /\ DioOf \in [LRs -> Dios]
    /\ Op \in [Dios -> {"READ", "WRITE"}]
    /\ Replicas \in [LRs -> SUBSET DNs]
    /\ IsFiniteSet(LRs)

ASSUME AckInitAssumption == AckInit \in [LRs -> Nat]
ASSUME TagDepthAssumption == TagDepth \in Nat

\* Every request has a dio and every dio a located request: the loop of
\* __Make_DIO_Requst creates a dio while blocks are left, and the kernel
\* submits no empty file-system request.
ASSUME NonEmptyAssumption ==
    /\ Kreqs # {}
    /\ \A k \in Kreqs : \E d \in Dios : KreqOf[d] = k
    /\ \A d \in Dios : \E l \in LRs : DioOf[l] = d

-----------------------------------------------------------------------------
(* Acknowledgements.  A partial acknowledgement (PWMEM_ACK, PWDISK_ACK) is  *)
(* handled like the full one, and the five exception codes like each other. *)

GoodAcks == {"READ_ACK", "WMEM_ACK", "WDISK_ACK"}
Acks == GoodAcks \cup {"EXCEPTION"}

\* "true" is the initial value of dio->result and ior->result; the code then
\* stores the acknowledgement itself.  Error codes are negative.
Results == Acks \cup {"true"}

DiosOf(k) == {d \in Dios : KreqOf[d] = k}
LRsOf(d) == {l \in LRs : DioOf[l] = d}
LRsOn(d, dn) == {l \in LRsOf(d) : dn \in Replicas[l]}

\* What a datanode that has already sent `before` may send about a dio.  A write
\* is acknowledged once from memory and once from disk, in either order ("don't
\* overwrite disk_ack if it reply first"), and fails at most once, before its
\* disk acknowledgement.  A datanode may also stay silent.
MayAnswer(op, before) ==
    {ack \in Acks \ before :
        /\ "EXCEPTION" \notin before
        /\ ack = "EXCEPTION" => before \cap {"READ_ACK", "WDISK_ACK"} = {}
        /\ ack # "EXCEPTION" => (op = "READ") = (ack = "READ_ACK")}

VARIABLES
    kstate,     \* where the kernel request is
    special,    \* kreq->special is set
    endings,    \* history: how often end_that_request_last ran on the request
    kresult,    \* the result it was ended with
    dioList,    \* ior->diolist
    iorResult,  \* ior->result
    dioState,   \* a dio is not allocated yet, live, or released
    lbs,        \* dio->LB_list
    dioResult,  \* dio->result
    located,    \* dio->dmeta is set
    pdio,       \* dmeta->pdio is not NULL
    waiting,    \* dmeta->nr_waiting_lrs
    dnTags,     \* dmeta->dn_tags: datanodes whose tag is in the list
    nnCommits,  \* history: how often the metadata was committed to the namenode
    wmem,       \* lr->wmem_ack
    wdisk,      \* lr->wdisk_ack
    committed,  \* COMMITTED_USER_BIT of lr->commit_state
    dnResult,   \* dn_result of every location of an LR
    sent,       \* the answers each datanode has sent about a dio
    thr         \* the receiver threads

kvars == <<kstate, special, endings, kresult>>
iovars == <<dioList, iorResult, dioState, lbs, dioResult>>
metavars == <<located, pdio, waiting, dnTags, nnCommits>>
lrvars == <<wmem, wdisk, committed, dnResult>>
vars == <<kvars, iovars, metavars, lrvars, sent, thr>>

\* The control points of a receiver thread inside __VolumeIO_Commiter.
PCs == {"idle", "policy", "errdisk", "testandset", "dioresult", "removelbs",
        "iorresult", "unlink", "end", "complete", "clearpdio", "nnpolicy",
        "committags", "commitnn"}

Threads == [pc : PCs, dio : Dios, ack : Acks, todo : SUBSET LRs, lr : LRs,
            done : Nat, cuser : BOOLEAN, cnn : BOOLEAN]

IdleThread == [pc |-> "idle", dio |-> CHOOSE d \in Dios : TRUE,
               ack |-> "EXCEPTION", todo |-> {}, lr |-> CHOOSE l \in LRs : TRUE,
               done |-> 0, cuser |-> FALSE, cnn |-> FALSE]

Init ==
    /\ kstate = [k \in Kreqs |-> "queued"]
    /\ special = [k \in Kreqs |-> FALSE]
    /\ endings = [k \in Kreqs |-> 0]
    /\ kresult = [k \in Kreqs |-> "true"]
    /\ dioList = [k \in Kreqs |-> {}]
    /\ iorResult = [k \in Kreqs |-> "true"]
    /\ dioState = [d \in Dios |-> "none"]
    /\ lbs = [d \in Dios |-> {}]
    /\ dioResult = [d \in Dios |-> "true"]
    /\ located = [d \in Dios |-> FALSE]
    /\ pdio = [d \in Dios |-> FALSE]
    /\ waiting = [d \in Dios |-> 0]
    /\ dnTags = [d \in Dios |-> {}]
    /\ nnCommits = [d \in Dios |-> 0]
    /\ wmem = [l \in LRs |-> 0]
    /\ wdisk = [l \in LRs |-> 0]
    /\ committed = [l \in LRs |-> FALSE]
    /\ dnResult = [l \in LRs |-> [dn \in DNs |-> "none"]]
    /\ sent = [d \in Dios |-> [dn \in DNs |-> {}]]
    /\ thr = [dn \in DNs |-> IdleThread]

-----------------------------------------------------------------------------
(* Plausible slips.  None is used below: with a definition replaced by its  *)
(* slip, a run finds one of its properties violated.                        *)

\* cmpxchg with its operands swapped.
SlipFirstResult(old, new) == IF old = "true" THEN old ELSE new

\* The tag is released with the first answer of a datanode, whatever its kind.
SlipTagStays(ack) == ack = "EXCEPTION"

\* The request is ended with the first dio, with the last but one, or never; the
\* metadata forgets the dio only when the request is ended.
SlipAfterUnlink_First(rest) == "end"
SlipAfterUnlink_OffByOne(rest) == IF Cardinality(rest) <= 1 THEN "end" ELSE "clearpdio"
SlipAfterUnlink_Never(rest) == "clearpdio"
SlipAfterUnlink_KeepPdio(rest) == IF rest = {} THEN "end" ELSE "nnpolicy"

\* A test of COMMITTED_USER_BIT that does not set it.
SlipMayCommit(dn) == pdio[thr[dn].dio]

-----------------------------------------------------------------------------
(* The request handler.                                                     *)

TagsInUse == {k \in Kreqs : kstate[k] \in {"started", "inflight", "failed"}}

\* DMS_Request_Handler takes the next request of the elevator; it stops when
\* the tag map is full.
DMS_Request_Handler(k) ==
    /\ kstate[k] = "queued"
    /\ ~special[k]
    /\ Cardinality(TagsInUse) < TagDepth
    /\ kstate' = [kstate EXCEPT ![k] = "started"]
    /\ UNCHANGED <<special, endings, kresult, iovars, metavars, lrvars, sent, thr>>

\* __VolumeIO_Handler: __Make_DIO_Requst builds the dios, then
\* Add_IO_Reqeust_to_KRequest hangs the IO_Request on the kernel request.
VolumeIO_Handler(k) ==
    /\ kstate[k] = "started"
    /\ kstate' = [kstate EXCEPT ![k] = "inflight"]
    /\ special' = [special EXCEPT ![k] = TRUE]
    /\ dioList' = [dioList EXCEPT ![k] = DiosOf(k)]
    /\ dioState' = [d \in Dios |-> IF KreqOf[d] = k THEN "live" ELSE dioState[d]]
    /\ lbs' = [d \in Dios |-> IF KreqOf[d] = k THEN LRsOf(d) ELSE lbs[d]]
    /\ UNCHANGED <<endings, kresult, iorResult, dioResult, metavars, lrvars, sent, thr>>

\* The part of DMS_End_Request_Handler under the queue lock: the tag is given
\* back, kreq->special reset, and end_that_request_last runs.
End_Request(k, result) ==
    /\ kstate' = [kstate EXCEPT ![k] = "ended"]
    /\ endings' = [endings EXCEPT ![k] = @ + 1]
    /\ kresult' = [kresult EXCEPT ![k] = result]
    /\ special' = [special EXCEPT ![k] = FALSE]

\* The CREATE_DIO_FAIL exit of __Make_DIO_Requst: what was built is released,
\* the request is handed to DMS_End_Request_Handler with result false, which does
\* nothing without kreq->special, and __VolumeIO_Handler has no IO_Request to add.
Make_DIO_Request_Fail(k) ==
    /\ kstate[k] = "started"
    /\ \E d \in DiosOf(k) : Op[d] = "WRITE"
    /\ IF special[k]
       THEN End_Request(k, "EXCEPTION")
       ELSE /\ kstate' = [kstate EXCEPT ![k] = "failed"]
            /\ UNCHANGED <<special, endings, kresult>>
    /\ UNCHANGED <<iovars, metavars, lrvars, sent, thr>>

\* Process_Namenode_Response: the metadata of a dio arrives, its located
\* requests start with AckInit, and the datanode tags are sent.
Process_Namenode_Response(d) ==
    /\ dioState[d] = "live"
    /\ ~located[d]
    /\ located' = [located EXCEPT ![d] = TRUE]
    /\ pdio' = [pdio EXCEPT ![d] = TRUE]
    /\ waiting' = [waiting EXCEPT ![d] = Cardinality(LRsOf(d))]
    /\ dnTags' = [dnTags EXCEPT ![d] = {dn \in DNs : LRsOn(d, dn) # {}}]
    /\ wmem' = [l \in LRs |-> IF DioOf[l] = d THEN AckInit[l] ELSE wmem[l]]
    /\ wdisk' = [l \in LRs |-> IF DioOf[l] = d THEN AckInit[l] ELSE wdisk[l]]
    /\ UNCHANGED <<kvars, iovars, nnCommits, committed, dnResult, sent, thr>>

-----------------------------------------------------------------------------
(* A receiver thread.                                                       *)

\* After one payload tag the loop goes on with the next, or leaves.
AfterTag(todo) == IF todo = {} THEN "nnpolicy" ELSE "policy"

\* atomic_dec_and_test of a counter.
LastAck(counter) == counter = 1

\* cmpxchg(result, true, new).
FirstResult(old, new) == IF old = "true" THEN new ELSE old

\* n times atomic_dec_and_test of a counter: one of them reaches zero.
ReachesZero(counter, n) == 1 <= counter /\ counter <= n

\* Where a thread goes that has unlinked a dio, with `rest` still in the list.
AfterUnlink(rest) == IF rest = {} THEN "end" ELSE "clearpdio"

\* The thread goes on at pc; NextTag when the current payload tag is finished.
Goto(dn, pc) == thr' = [thr EXCEPT ![dn] = [@ EXCEPT !.pc = pc]]
Return(dn) == thr' = [thr EXCEPT ![dn] = IdleThread]
NextTag(dn) == Goto(dn, AfterTag(thr[dn].todo))

\* A datanode sends `ack` about d; it can only know of d once its request is out.
Answer(dn, d, ack) ==
    /\ located[d]
    /\ LRsOn(d, dn) # {}
    /\ ack \in MayAnswer(Op[d], sent[d][dn])
    /\ sent' = [sent EXCEPT ![d][dn] = @ \cup {ack}]

\* Get_Datanode_Tag_from_Datanode_Tags takes the datanode's tag out of dn_tags,
\* and the committer starts on its payload tags, one per LR of the datanode.
\* (Datanode_Receiver is unfinished: it names no tag and passes `false` for the
\* answer.  The answer the committer tells apart is the sub_type of the response.)
Process_Datanode_Response(dn) ==
    /\ thr[dn].pc = "idle"
    /\ \E d \in Dios, ack \in Acks :
          /\ Answer(dn, d, ack)
          /\ dn \in dnTags[d]
          /\ dnTags' = [dnTags EXCEPT ![d] = @ \ {dn}]
          /\ thr' = [thr EXCEPT ![dn] =
                [IdleThread EXCEPT !.pc = "policy", !.dio = d, !.ack = ack,
                                   !.todo = LRsOn(d, dn)]]
    /\ UNCHANGED <<kvars, iovars, located, pdio, waiting, nnCommits, lrvars>>

\* An answer whose tag was removed by an earlier one is dropped.
Drop_Datanode_Response(dn) ==
    /\ thr[dn].pc = "idle"
    /\ \E d \in Dios, ack \in Acks : Answer(dn, d, ack) /\ dn \notin dnTags[d]
    /\ UNCHANGED <<kvars, iovars, metavars, lrvars, thr>>

\* Update_Datanode_Location_Result, inlined: a disk acknowledgement stays.
Record(l, dn, ack) ==
    dnResult' = [dnResult EXCEPT ![l][dn] = IF @ = "WDISK_ACK" THEN @ ELSE ack]

\* __Update_and_Commit_to_User_Policy for one payload tag l, per kind of answer.
\* Update_Mem_Ack: commit to the user when the last memory answer is in.
Policy_Mem(dn, l) ==
    /\ thr[dn].ack = "WMEM_ACK"
    /\ wmem' = [wmem EXCEPT ![l] = @ - 1]
    /\ thr' = [thr EXCEPT ![dn] =
                 [@ EXCEPT !.lr = l, !.todo = thr[dn].todo \ {l},
                           !.pc = IF LastAck(wmem[l]) THEN "testandset"
                                  ELSE AfterTag(thr[dn].todo \ {l})]]
    /\ UNCHANGED wdisk

\* Update_Disk_Ack: any disk answer commits to the user; the last one finishes
\* the located request.
Policy_Disk(dn, l) ==
    /\ thr[dn].ack \in {"WDISK_ACK", "READ_ACK"}
    /\ wdisk' = [wdisk EXCEPT ![l] = @ - 1]
    /\ thr' = [thr EXCEPT ![dn] =
                 [@ EXCEPT !.lr = l, !.todo = thr[dn].todo \ {l}, !.pc = "testandset",
                           !.done = thr[dn].done + (IF LastAck(wdisk[l]) THEN 1 ELSE 0)]]
    /\ UNCHANGED wmem

\* An exception on a read changes no counter and commits nothing.
Policy_ReadError(dn, l) ==
    /\ thr[dn].ack = "EXCEPTION" /\ Op[thr[dn].dio] = "READ"
    /\ thr' = [thr EXCEPT ![dn] =
                 [@ EXCEPT !.lr = l, !.todo = thr[dn].todo \ {l},
                           !.pc = AfterTag(thr[dn].todo \ {l})]]
    /\ UNCHANGED <<wmem, wdisk>>

\* An exception on a write counts as a memory answer, then as a disk answer.
Policy_WriteError(dn, l) ==
    /\ thr[dn].ack = "EXCEPTION" /\ Op[thr[dn].dio] = "WRITE"
    /\ wmem' = [wmem EXCEPT ![l] = @ - 1]
    /\ thr' = [thr EXCEPT ![dn] =
                 [@ EXCEPT !.lr = l, !.todo = thr[dn].todo \ {l}, !.pc = "errdisk",
                           !.cuser = LastAck(wmem[l])]]
    /\ UNCHANGED wdisk

Update_and_Commit_to_User_Policy(dn) ==
    /\ thr[dn].pc = "policy"
    /\ \E l \in thr[dn].todo :
          /\ Record(l, dn, thr[dn].ack)
          /\ \/ Policy_Mem(dn, l)
             \/ Policy_Disk(dn, l)
             \/ Policy_ReadError(dn, l)
             \/ Policy_WriteError(dn, l)
    /\ UNCHANGED <<kvars, iovars, metavars, committed, sent>>

\* The second half of a write error: Update_Disk_Ack(dmeta, lr, ack, retcode).
Update_Disk_Ack_on_Error(dn) ==
    LET l == thr[dn].lr IN
    /\ thr[dn].pc = "errdisk"
    /\ wdisk' = [wdisk EXCEPT ![l] = @ - 1]
    /\ thr' = [thr EXCEPT ![dn] =
                 [@ EXCEPT !.done = thr[dn].done + (IF LastAck(wdisk[l]) THEN 1 ELSE 0),
                           !.pc = IF LastAck(wdisk[l]) \/ thr[dn].cuser
                                  THEN "testandset" ELSE AfterTag(thr[dn].todo)]]
    /\ UNCHANGED <<kvars, iovars, metavars, wmem, committed, dnResult, sent>>

\* Commit_LBs_to_DMS_IO: the first thread to set COMMITTED_USER_BIT commits the
\* blocks of the LR, if dmeta->pdio is still set.
MayCommit(dn) == ~committed[thr[dn].lr] /\ pdio[thr[dn].dio]
Commit_LBs_to_DMS_IO(dn) ==
    /\ thr[dn].pc = "testandset"
    /\ committed' = [committed EXCEPT ![thr[dn].lr] = TRUE]
    /\ IF MayCommit(dn)
       THEN Goto(dn, "dioresult")
       ELSE NextTag(dn)
    /\ UNCHANGED <<kvars, iovars, metavars, wmem, wdisk, dnResult, sent>>

\* Commit_LB_to_DMS_IO, first half: cmpxchg(dio->result, true, result).
Set_DIO_Result(dn) ==
    LET d == thr[dn].dio IN
    /\ thr[dn].pc = "dioresult"
    /\ dioResult' = [dioResult EXCEPT ![d] = FirstResult(dioResult[d], thr[dn].ack)]
    /\ Goto(dn, "removelbs")
    /\ UNCHANGED <<kvars, dioList, iorResult, dioState, lbs, metavars, lrvars, sent>>

\* Commit_LB_List_by_Range, under the list's lock: remove the blocks of the LR
\* and report whether the list is empty now.
Commit_LB_List_by_Range(dn) ==
    LET d == thr[dn].dio
        rest == lbs[d] \ {thr[dn].lr} IN
    /\ thr[dn].pc = "removelbs"
    /\ lbs' = [lbs EXCEPT ![d] = rest]
    /\ IF rest = {} THEN Goto(dn, "iorresult") ELSE NextTag(dn)
    /\ UNCHANGED <<kvars, dioList, iorResult, dioState, dioResult, metavars, lrvars, sent>>

\* Commit_DIO_to_IO_Request, first half: cmpxchg(ior->result, true, dio->result).
Set_IOR_Result(dn) ==
    LET d == thr[dn].dio
        k == KreqOf[d] IN
    /\ thr[dn].pc = "iorresult"
    /\ iorResult' = [iorResult EXCEPT ![k] = FirstResult(iorResult[k], dioResult[d])]
    /\ Goto(dn, "unlink")
    /\ UNCHANGED <<kvars, dioList, dioState, lbs, dioResult, metavars, lrvars, sent>>

\* Remove_and_Release_DIO_from_IO_Reqeust: unlink the dio under the list's lock,
\* release it, and go on to end the request if the list became empty.  A dio
\* that is not in the list is left alone.
Remove_and_Release_DIO(dn) ==
    LET d == thr[dn].dio
        k == KreqOf[d]
        rest == dioList[k] \ {d} IN
    /\ thr[dn].pc = "unlink"
    /\ IF d \in dioList[k]
       THEN /\ dioList' = [dioList EXCEPT ![k] = rest]
            /\ dioState' = [dioState EXCEPT ![d] = "released"]
            /\ Goto(dn, AfterUnlink(rest))
       ELSE /\ UNCHANGED <<dioList, dioState>>
            /\ Goto(dn, "clearpdio")
    /\ UNCHANGED <<kvars, iorResult, lbs, dioResult, metavars, lrvars, sent>>

\* DMS_End_Request_Handler tests kreq->special without the queue lock ...
DMS_End_Request_Handler(dn) ==
    /\ thr[dn].pc = "end"
    /\ Goto(dn, IF special[KreqOf[thr[dn].dio]] THEN "complete" ELSE "clearpdio")
    /\ UNCHANGED <<kvars, iovars, metavars, lrvars, sent>>

\* ... and ends the request, with ior->result, under the lock.
Complete_Request(dn) ==
    LET k == KreqOf[thr[dn].dio] IN
    /\ thr[dn].pc = "complete"
    /\ End_Request(k, iorResult[k])
    /\ Goto(dn, "clearpdio")
    /\ UNCHANGED <<iovars, metavars, lrvars, sent>>

\* Back in Commit_LBs_to_DMS_IO: the dio is gone, forget it.
Set_Pdio_NULL(dn) ==
    /\ thr[dn].pc = "clearpdio"
    /\ pdio' = [pdio EXCEPT ![thr[dn].dio] = FALSE]
    /\ NextTag(dn)
    /\ UNCHANGED <<kvars, iovars, located, waiting, dnTags, nnCommits, lrvars, sent>>

\* Default_Update_and_Commit_to_Namenode_Policy: one decrement per finished LR;
\* the thread that reaches zero commits to the namenode.
Update_and_Commit_to_Namenode_Policy(dn) ==
    LET d == thr[dn].dio
        n == thr[dn].done IN
    /\ thr[dn].pc = "nnpolicy"
    /\ waiting' = [waiting EXCEPT ![d] = @ - n]
    /\ thr' = [thr EXCEPT ![dn] =
                 [@ EXCEPT !.pc = "committags",
                           !.cnn = ReachesZero(waiting[d], n)]]
    /\ UNCHANGED <<kvars, iovars, located, pdio, dnTags, nnCommits, lrvars, sent>>

\* Commit_Datanode_Tags: the tag goes back after a memory answer or an error,
\* and is released after a disk or read answer.
TagStays(ack) == ack \in {"WMEM_ACK", "EXCEPTION"}
Commit_Datanode_Tags(dn) ==
    LET d == thr[dn].dio IN
    /\ thr[dn].pc = "committags"
    /\ dnTags' = [dnTags EXCEPT ![d] = IF TagStays(thr[dn].ack) THEN @ \cup {dn} ELSE @]
    /\ IF thr[dn].cnn THEN Goto(dn, "commitnn") ELSE Return(dn)
    /\ UNCHANGED <<kvars, iovars, located, pdio, waiting, nnCommits, lrvars, sent>>

Commit_to_Namenode(dn) ==
    /\ thr[dn].pc = "commitnn"
    /\ nnCommits' = [nnCommits EXCEPT ![thr[dn].dio] = @ + 1]
    /\ Return(dn)
    /\ UNCHANGED <<kvars, iovars, located, pdio, waiting, dnTags, lrvars, sent>>

-----------------------------------------------------------------------------

Commiter(dn) ==
    \/ Update_and_Commit_to_User_Policy(dn)
    \/ Update_Disk_Ack_on_Error(dn)
    \/ Commit_LBs_to_DMS_IO(dn)
    \/ Set_DIO_Result(dn)
    \/ Commit_LB_List_by_Range(dn)
    \/ Set_IOR_Result(dn)
    \/ Remove_and_Release_DIO(dn)
    \/ DMS_End_Request_Handler(dn)
    \/ Complete_Request(dn)
    \/ Set_Pdio_NULL(dn)
    \/ Update_and_Commit_to_Namenode_Policy(dn)
    \/ Commit_Datanode_Tags(dn)
    \/ Commit_to_Namenode(dn)

Next ==
    \/ \E k \in Kreqs :
          \/ DMS_Request_Handler(k)
          \/ VolumeIO_Handler(k)
          \/ Make_DIO_Request_Fail(k)
    \/ \E d \in Dios : Process_Namenode_Response(d)
    \/ \E dn \in DNs :
          \/ Process_Datanode_Response(dn)
          \/ Drop_Datanode_Response(dn)
          \/ Commiter(dn)

Spec == Init /\ [][Next]_vars

\* A receiver that is inside the committer is a runnable kernel thread that
\* never waits: the scheduler runs it until it returns.
FairSpec == Spec /\ \A dn \in DNs : WF_vars(Commiter(dn))

-----------------------------------------------------------------------------
(* Properties.                                                              *)

TypeOK ==
    /\ kstate \in [Kreqs -> {"queued", "started", "inflight", "failed", "ended"}]
    /\ special \in [Kreqs -> BOOLEAN]
    /\ endings \in [Kreqs -> Nat]
    /\ kresult \in [Kreqs -> Results]
    /\ dioList \in [Kreqs -> SUBSET Dios]
    /\ iorResult \in [Kreqs -> Results]
    /\ dioState \in [Dios -> {"none", "live", "released"}]
    /\ lbs \in [Dios -> SUBSET LRs]
    /\ dioResult \in [Dios -> Results]
    /\ located \in [Dios -> BOOLEAN]
    /\ pdio \in [Dios -> BOOLEAN]
    /\ waiting \in [Dios -> Int]
    /\ dnTags \in [Dios -> SUBSET DNs]
    /\ nnCommits \in [Dios -> Nat]
    /\ wmem \in [LRs -> Int]
    /\ wdisk \in [LRs -> Int]
    /\ committed \in [LRs -> BOOLEAN]
    /\ dnResult \in [LRs -> [DNs -> Acks \cup {"none"}]]
    /\ sent \in [Dios -> [DNs -> SUBSET Acks]]
    /\ thr \in [DNs -> Threads]

\* However the receivers interleave, a kernel request is ended at most once
\* (DMS_End_Request_Handler runs end_that_request_last, and a second run would
\* complete a request the block layer has already reused).
EndedAtMostOnce == \A k \in Kreqs : endings[k] <= 1

\* A request is ended only when the blocks of all its located requests have
\* been committed: no dio of it is still linked, and no block is outstanding.
EndedOnlyWhenAllCommitted ==
    \A k \in Kreqs : endings[k] > 0 =>
        /\ dioList[k] = {}
        /\ \A l \in LRs : KreqOf[DioOf[l]] = k => committed[l] /\ l \notin lbs[DioOf[l]]

\* No receiver is inside the part of the committer that dereferences a dio
\* after another receiver has released it.
NoUseAfterRelease ==
    \A dn \in DNs :
        thr[dn].pc \in {"dioresult", "removelbs", "iorresult", "unlink"}
            => dioState[thr[dn].dio] = "live"

\* dmeta->pdio never points to a released dio once the receiver that released
\* it has left Commit_LBs_to_DMS_IO.
NoDanglingPdio ==
    \A d \in Dios : pdio[d] /\ dioState[d] = "released" =>
        \E dn \in DNs : thr[dn].dio = d /\ thr[dn].pc \in {"end", "complete", "clearpdio"}

\* A request is ended with a result that a datanode really sent about one of its
\* dios, whatever the order in which the receivers store their results.
ResultIsReal ==
    \A k \in Kreqs : endings[k] > 0 =>
        \E d \in DiosOf(k), dn \in DNs : kresult[k] \in sent[d][dn]

\* Early, late or dropped answers and errors that stand for two of them do not disturb the
\* count of the disk answers: when no receiver is at work on a dio, wdisk_ack of each of its
\* located requests has gone down once for every datanode that has given its last answer, and
\* for nothing else (Update_Disk_Ack, Commit_Datanode_Tags), whatever it started with.
LastAnswers(d) == IF Op[d] = "READ" THEN {"READ_ACK"} ELSE {"WDISK_ACK", "EXCEPTION"}
AtWork(dn, d) == thr[dn].pc # "idle" /\ thr[dn].dio = d
Answered(l) == {dn \in Replicas[l] : sent[DioOf[l]][dn] \cap LastAnswers(DioOf[l]) # {}}
LastAnswersAreCounted ==
    \A l \in LRs :
        located[DioOf[l]] /\ (\A dn \in Replicas[l] : ~AtWork(dn, DioOf[l])) =>
            wdisk[l] = AckInit[l] - Cardinality(Answered(l))

\* "disk ack == replicaFactor --> commit to NN": once every replica of every LR
\* of a dio has acknowledged from disk, its metadata is committed.
AllDiskAcksCommitToNamenode ==
    \A d \in Dios :
        (/\ located[d]
         /\ \A l \in LRsOf(d) : \A dn \in Replicas[l] : dnResult[l][dn] = "WDISK_ACK")
        ~> (nnCommits[d] = 1)

-----------------------------------------------------------------------------
(* The inductive invariant behind the safety properties.  Claims: a receiver *)
(* that won a race owns a located request, a dio or a kernel request until it *)
(* passes it on, and no two receivers own the same one.                      *)

ClaimsLR(t, l) == t.pc \in {"dioresult", "removelbs"} /\ t.lr = l
ClaimsDio(t, d) == t.pc \in {"iorresult", "unlink"} /\ t.dio = d
ClaimsKreq(t, k) == t.pc \in {"end", "complete"} /\ KreqOf[t.dio] = k

\* The kernel request: its dio list holds exactly its live dios.
KreqInv ==
    \A k \in Kreqs :
        /\ special[k] <=> kstate[k] = "inflight"
        /\ endings[k] = IF kstate[k] = "ended" THEN 1 ELSE 0
        /\ dioList[k] = {d \in DiosOf(k) : dioState[d] = "live"}
        /\ kstate[k] = "ended" => dioList[k] = {}

\* The dio: it exists once its request is in flight, and is live while it has blocks.
DioInv ==
    \A d \in Dios :
        /\ dioState[d] = "none" <=> kstate[KreqOf[d]] \in {"queued", "started", "failed"}
        /\ located[d] => dioState[d] # "none"
        /\ lbs[d] \subseteq LRsOf(d)
        /\ dioState[d] # "live" => lbs[d] = {}

\* The located request: its blocks are in the list until it is committed.
LRInv ==
    \A l \in LRs :
        /\ dioState[DioOf[l]] = "none" => ~committed[l]
        /\ dioState[DioOf[l]] # "none" /\ ~committed[l] => l \in lbs[DioOf[l]]

\* What a receiver may rely on at its control point.
ThreadOK(t) ==
    /\ t.pc # "idle" => located[t.dio] /\ t.todo \subseteq LRsOf(t.dio)
    /\ t.pc \in {"errdisk", "testandset", "dioresult", "removelbs"} => DioOf[t.lr] = t.dio
    /\ \A l \in LRs : ClaimsLR(t, l) => committed[l] /\ l \in lbs[DioOf[l]]
    /\ \A d \in Dios : ClaimsDio(t, d) => dioState[d] = "live" /\ lbs[d] = {}
    /\ \A k \in Kreqs : ClaimsKreq(t, k) => kstate[k] = "inflight" /\ dioList[k] = {}

ThreadInv == \A dn \in DNs : ThreadOK(thr[dn])

UniqueInv ==
    \A dn, other \in DNs : dn # other =>
        /\ \A l \in LRs : ~(ClaimsLR(thr[dn], l) /\ ClaimsLR(thr[other], l))
        /\ \A d \in Dios : ~(ClaimsDio(thr[dn], d) /\ ClaimsDio(thr[other], d))
        /\ \A k \in Kreqs : ~(ClaimsKreq(thr[dn], k) /\ ClaimsKreq(thr[other], k))

\* No two receivers commit the same located request, dio or kernel request, and
\* each level is complete when it is passed on (the conditions under which the
\* committer may dereference what it holds without a lock).
OwnershipInv == KreqInv /\ DioInv /\ LRInv /\ ThreadInv /\ UniqueInv
=============================================================================
