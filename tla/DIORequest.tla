------------------------------ MODULE DIORequest ------------------------------
(***************************************************************************)
(* __Make_DIO_Requst: a write is cut into dios, each over the longest run  *)
(* of blocks that are all allocated (overwrite) or all not allocated       *)
(* (write); the list of its logical blocks is cut along with it.  Then     *)
(* each dio is committed, located request by located request, until its    *)
(* list is empty.                                                          *)
(***************************************************************************)
EXTENDS LogicalBlockList

CONSTANTS
    CHUNK_SIZE,     \* blocks in one word of the allocation map
    INT_BITS,       \* the width of an int
    DMS_UTEST,      \* the build: which Get_Allocation_Flag is compiled
    Kreqs,          \* the requests: records of rw, sLBID, nr_LBIDs
    Cuts            \* where the namenode may cut a dio in two located requests

Read == "read"
Write == "write"
OverWrite == "overwrite"

ASSUME KreqAssumption ==
    /\ CHUNK_SIZE \in Nat \ {0} /\ INT_BITS \in 1..CHUNK_SIZE
    /\ DMS_UTEST \in BOOLEAN
    /\ \A q \in Kreqs : q.rw \in {Read, Write} /\ q.sLBID \in Nat /\ q.nr_LBIDs \in Nat \ {0}

VARIABLES
    kreq,           \* the request that is handled
    op,             \* the operation of the next dio
    sLBID, nr_LBIDs,\* what is left to be cut
    lb_list,        \* its logical blocks
    dios,           \* ior->diolist in the order of Add_DIO_to_IO_Reqeust, with dio->LB_list
    lrs,            \* for each dio the located requests not yet committed: <<slbid, nr_lbids>>
    phase,          \* "make", "io", "fail" (CREATE_DIO_FAIL) or "end"
    ended           \* the dios that were removed from the ior

vars == <<kreq, op, sLBID, nr_LBIDs, lb_list, dios, lrs, phase, ended>>

Bits == 0..CHUNK_SIZE - 1

-----------------------------------------------------------------------------
(* Slips.                                                                   *)

\* end_index is the bit that differs.
SlipLength(start, left, next) == IF next < start + left THEN next - start + 1 ELSE left

-----------------------------------------------------------------------------
(* The allocation map, a stub in both builds: a set of bits.                *)

\* 0xaaff in every 16 bits.
Pattern == {b \in Bits : b % 16 \in 0..7 \cup {9, 11, 13, 15}}

Get_Allocation_Flag(lbid) ==
    IF ~DMS_UTEST THEN {}
    ELSE CASE lbid % 3 = 0 -> {}
           [] lbid % 3 = 1 -> Bits
           [] lbid % 3 = 2 -> Pattern

\* `1 << n` is an int, widened to 64 bits with its sign.  From n = 32 on it is undefined: the
\* build takes n modulo 32, or shifts in 64 bits.
IntShift(n) == IF n = INT_BITS - 1 THEN n..CHUNK_SIZE - 1 ELSE {n}
ShiftMasks(n) == IF n < INT_BITS THEN {IntShift(n)} ELSE {IntShift(n % INT_BITS), {n}}

\* Get_Allocation_Range: the operations it may return for a write at lbid.
Ops(lbid) ==
    {IF Get_Allocation_Flag(lbid) \cap mask # {} THEN OverWrite ELSE Write :
        mask \in ShiftMasks(lbid % CHUNK_SIZE)}

\* find_next_bit for a write, find_next_zero_bit for an overwrite.
NextOther(o, flag, start) ==
    LET others == {b \in start..CHUNK_SIZE - 1 : (b \in flag) = (o = Write)}
    IN IF others = {} THEN CHUNK_SIZE ELSE CHOOSE b \in others : \A c \in others : b <= c

\* end_index - start_index + 1, with end_index cut to range_index.
Length(start, left, next) == IF next < start + left THEN next - start ELSE left

\* The run reached the end of its chunk before the end of the range.
Continues(length, left, next) == left > length /\ next = CHUNK_SIZE

Get_Continuous_Range(o, lbid, nr) ==
    LET range[s \in Nat] ==
            LET start == s % CHUNK_SIZE
                left == lbid + nr - s
                next == NextOther(o, Get_Allocation_Flag(s), start)
                length == Length(start, left, next)
            IN length + IF Continues(length, left, next) THEN range[s + length] ELSE 0
    IN range[lbid]

-----------------------------------------------------------------------------
(* Making the dios.                                                         *)

\* The LBMDs of a request: one per segment of its bios, in order.
Generate_All_LogicalBlocks(q) ==
    LET list[j \in 0..q.nr_LBIDs] ==
            IF j = 0 THEN Create_LogicalBlock_List
            ELSE Add_to_LogicalBlock_List_by_Insertion_Sort(list[j - 1], q.sLBID + j - 1)
    IN list[q.nr_LBIDs]

Init ==
    /\ kreq \in Kreqs
    /\ op = kreq.rw
    /\ sLBID = kreq.sLBID /\ nr_LBIDs = kreq.nr_LBIDs
    /\ lb_list = Generate_All_LogicalBlocks(kreq)
    /\ dios = <<>> /\ lrs = <<>>
    /\ phase = "make" /\ ended = {}

\* The namenode answers with located requests that cover the dio.
LocatedRequests(s, n) == {{<<s, c>>, <<s + c, n - c>>} : c \in Cuts \cap 1..n - 1} \cup {{<<s, n>>}}

\* What of the range a dio takes away.
Taken(length) == length

Create_DIO(o, s, n, list) == [op |-> o, sLBID |-> s, nr_LBIDs |-> n, LB_list |-> list]

Add_DIO(o, length, list) ==
    /\ dios' = Append(dios, Create_DIO(o, sLBID, length, list))
    /\ \E cut \in LocatedRequests(sLBID, length) : lrs' = Append(lrs, cut)
    /\ nr_LBIDs' = nr_LBIDs - Taken(length)
    /\ phase' = IF nr_LBIDs' = 0 THEN "io" ELSE "make"

Make_Read_DIO ==
    /\ phase = "make" /\ op = Read
    /\ Add_DIO(op, nr_LBIDs, lb_list)
    /\ lb_list' = <<>>
    /\ UNCHANGED <<kreq, op, sLBID, ended>>

\* CREATE_DIO_FAIL releases the dios, the request and the rest of the list.
Make_Write_DIO ==
    /\ phase = "make" /\ op # Read
    /\ \E o \in Ops(sLBID) :
          LET length == Get_Continuous_Range(o, sLBID, nr_LBIDs)
              cut == IF length = nr_LBIDs
                     THEN [sub_list |-> lb_list, remain |-> <<>>]
                     ELSE Get_Next_DIO_Request_LB_List(lb_list, length)
          IN /\ op' = o
             /\ IF cut.sub_list # <<>>
                THEN /\ Add_DIO(o, length, cut.sub_list)
                     /\ lb_list' = cut.remain
                     /\ sLBID' = sLBID + length
                ELSE /\ phase' = "fail"
                     /\ dios' = <<>> /\ lrs' = <<>> /\ lb_list' = <<>>
                     /\ UNCHANGED <<sLBID, nr_LBIDs>>
    /\ UNCHANGED <<kreq, ended>>

-----------------------------------------------------------------------------
(* Commits.                                                                 *)

\* Commit_LB_to_DMS_IO for one located request; an empty list removes the dio from the
\* request, and the last dio ends it.
Commit_LB_to_DMS_IO(d, lr) ==
    /\ phase = "io" /\ d \notin ended /\ lr \in lrs[d]
    /\ lrs' = [lrs EXCEPT ![d] = @ \ {lr}]
    /\ LET list == Commit_LB_List_by_Range(dios[d].LB_list, lr[1], lr[2]) IN
       /\ dios' = [dios EXCEPT ![d].LB_list = list]
       /\ ended' = IF list = <<>> THEN ended \cup {d} ELSE ended
    /\ phase' = IF ended' = DOMAIN dios THEN "end" ELSE phase
    /\ UNCHANGED <<kreq, op, sLBID, nr_LBIDs, lb_list>>

Next ==
    \/ Make_Read_DIO
    \/ Make_Write_DIO
    \/ \E d \in DOMAIN dios : \E lr \in lrs[d] : Commit_LB_to_DMS_IO(d, lr)

Spec == Init /\ [][Next]_vars

-----------------------------------------------------------------------------
(* Properties.                                                              *)

LBIDs(s, n) == s..s + n - 1
Sorted(list) == \A i, j \in DOMAIN list : i < j => list[i] < list[j]
Elements(list) == {list[i] : i \in DOMAIN list}

TypeOK ==
    /\ kreq \in Kreqs
    /\ op \in {Read, Write, OverWrite}
    /\ sLBID \in Nat /\ nr_LBIDs \in 0..kreq.nr_LBIDs
    /\ phase \in {"make", "io", "fail", "end"}
    /\ DOMAIN dios = DOMAIN lrs
    /\ ended \subseteq DOMAIN dios
    /\ \A list \in {lb_list} \cup {dios[d].LB_list : d \in DOMAIN dios} : Sorted(list)

\* While the handler cuts, the dios made so far and what is left are the request, without a
\* gap or an overlap, and each list holds exactly the blocks of its dio, in ascending order.
DiosPartitionRequest ==
    /\ \A list \in {lb_list} \cup {dios[d].LB_list : d \in DOMAIN dios} : Sorted(list)
    /\ phase = "make" =>
        /\ Elements(lb_list) = LBIDs(sLBID, nr_LBIDs)
        /\ \A d \in DOMAIN dios :
              Elements(dios[d].LB_list) = LBIDs(dios[d].sLBID, dios[d].nr_LBIDs)
    /\ phase \in {"make", "io"} =>
        \A d \in DOMAIN dios :
            dios[d].sLBID = IF d = 1 THEN kreq.sLBID ELSE dios[d - 1].sLBID + dios[d - 1].nr_LBIDs
    /\ phase = "io" =>
        LET d == Len(dios) IN
        dios[d].sLBID + dios[d].nr_LBIDs = kreq.sLBID + kreq.nr_LBIDs

\* The allocation bit of block b as a cut that starts at lbid sees it.
Allocated(lbid, b) ==
    LET chunk == b - (b % CHUNK_SIZE)
    IN b % CHUNK_SIZE \in Get_Allocation_Flag(IF lbid > chunk THEN lbid ELSE chunk)

\* Get_Continuous_Range: "calculate how many continuous 0 or 1 bits within nr_LBIDs range".
\* A dio of a write covers blocks of its own kind only, and the block behind it, if the
\* request has one, is of the other kind.
CutIsLongestRun ==
    \A d \in DOMAIN dios :
        LET s == dios[d].sLBID  e == s + dios[d].nr_LBIDs IN
        dios[d].op # Read =>
            /\ \A b \in s..e - 1 : Allocated(s, b) = (dios[d].op = OverWrite)
            /\ e < kreq.sLBID + kreq.nr_LBIDs => Allocated(s, e) # (dios[d].op = OverWrite)

\* A dio leaves its request exactly when its last located request is committed: the list is
\* not empty before, and no block is left behind after.
DioEndsWithLastCommit ==
    phase \in {"io", "end"} => \A d \in DOMAIN dios : d \in ended <=> lrs[d] = {}
=============================================================================
