--------------------------- MODULE LogicalBlockWalk ---------------------------
(***************************************************************************)
(* A logical block list in use: the sender of a payload tag goes from      *)
(* block to block by an LBMD it remembers, a walker by the list's one      *)
(* iterator, while answers commit ranges and others take LBMDs out.  All   *)
(* operations take LB_list_lock; what a reader keeps between two of them   *)
(* is an address.  An LBMD is named by its LBID.                           *)
(***************************************************************************)
EXTENDS LogicalBlockList

CONSTANTS
    Blocks,         \* the LBIDs, positive
    Senders,        \* threads in __Xmit_Payload_Tag
    Takers          \* threads in Free_LogicalBlock_MetaData_from_LB_List_by_...

\* list_entry of the list head; no LBMD; what list_del leaves in list_node.next.
AtHead == 0
Null == -1
Poison == -2

Walker == "walker"

ASSUME BlocksAssumption == Blocks \subseteq Nat \ {0} /\ IsFiniteSet(Blocks)
ASSUME ReadersAssumption == Walker \notin Senders

VARIABLES
    list,           \* the LBIDs in the order of the list
    alive,          \* FALSE: Release_LogicalBlock_List has freed the list
    freed,          \* the LBMDs that were given back
    taken,          \* the LBMD a Taker has removed and not yet freed
    next_node,      \* the iterator
    walking,        \* the iterator was set by a Reset
    xmit,           \* the senders: pc, cur (the remembered LBMD), slbid, nr, i (-1: the
                    \* search that sets the private_data of the located request)
    missed,         \* history: "I can't find lbmd by LBID"
    disturbed,      \* history: the readers under whom something was removed
    faulted         \* history: the readers that went through memory given back

vars == <<list, alive, freed, taken, next_node, walking, xmit, missed, disturbed, faulted>>

On == {list[k] : k \in DOMAIN list}
Loose == {taken[r] : r \in Takers} \ {Null}
Idle == [pc |-> "idle", cur |-> Null, slbid |-> 0, nr |-> 0, i |-> 0]

-----------------------------------------------------------------------------
(* Slips: the definition below with a plausible mistake.                    *)

\* list_first_entry without the test for the head.
SlipFirst(l) == IF l = <<>> THEN Poison ELSE l[1]
\* list_for_each_entry_safe_continue: the walk starts behind cur.
SlipFrom(l, cur) == {l[k] : k \in {j \in DOMAIN l : l[j] > cur}}

-----------------------------------------------------------------------------

Init ==
    /\ list = Create_LogicalBlock_List
    /\ alive = TRUE
    /\ freed = {}
    /\ taken = [r \in Takers |-> Null]
    /\ next_node = Null /\ walking = FALSE
    /\ xmit = [s \in Senders |-> Idle]
    /\ missed = [s \in Senders |-> {}]
    /\ disturbed = {} /\ faulted = {}

First(l) == IF l = <<>> THEN AtHead ELSE l[1]

\* Where the LBMD is linked, and the list without it.
Position(l, lbid) == CHOOSE k \in DOMAIN l : l[k] = lbid
Without(l, lbid) == SubSeq(l, 1, Position(l, lbid) - 1) \o Behind(l, Position(l, lbid))

\* What list_for_each_entry_safe_from meets from cur on.
From(l, cur) == {l[k] : k \in {j \in DOMAIN l : l[j] >= cur}}

Active == {s \in Senders : xmit[s].pc # "idle"} \cup (IF walking THEN {Walker} ELSE {})

\* Something was removed: under every reader that is under way.
Disturb == disturbed' = disturbed \cup Active

readers == <<next_node, walking, xmit, missed, faulted>>

Add(lbid) ==
    /\ alive /\ lbid \notin freed \cup Loose
    /\ list' = Add_to_LogicalBlock_List_by_Insertion_Sort(list, lbid)
    /\ UNCHANGED <<alive, freed, taken, disturbed, readers>>

Commit(slbid, nr_lbids) ==
    /\ alive
    /\ list' = Commit_LB_List_by_Range(list, slbid, nr_lbids)
    /\ LET gone == On \ {list'[k] : k \in DOMAIN list'} IN
       /\ gone # {}
       /\ freed' = freed \cup gone
    /\ Disturb
    /\ UNCHANGED <<alive, taken, readers>>

\* The LBMD leaves the list under the lock; it is freed later, without it.
Remove_from_LogicalBlock_List_by_LBID(r, lbid) ==
    /\ alive /\ taken[r] = Null /\ lbid \in On
    /\ list' = Without(list, lbid)
    /\ taken' = [taken EXCEPT ![r] = lbid]
    /\ Disturb
    /\ UNCHANGED <<alive, freed, readers>>

Remove_from_LogicalBlock_List_by_LBMD(r, lbmd) ==
    Remove_from_LogicalBlock_List_by_LBID(r, lbmd)

Free_LogicalBlock_MetaData_from_LB_List_by_LBID(r) ==
    \E lbid \in Blocks : Remove_from_LogicalBlock_List_by_LBID(r, lbid)

\* The inner lbmd hides the parameter and is passed uninitialised: whatever LBMD of the
\* list the word happens to name is removed, or none.
Free_LogicalBlock_MetaData_from_LB_List_by_LBMD(r) ==
    \E garbage \in Blocks : Remove_from_LogicalBlock_List_by_LBMD(r, garbage)

Release_LogicalBlock_MetaData(r) ==
    /\ taken[r] # Null
    /\ freed' = freed \cup {taken[r]}
    /\ taken' = [taken EXCEPT ![r] = Null]
    /\ Disturb
    /\ UNCHANGED <<list, alive, readers>>

Release_LogicalBlock_List ==
    /\ alive
    /\ alive' = FALSE
    /\ freed' = freed \cup On
    /\ list' = <<>>
    /\ Disturb
    /\ UNCHANGED <<taken, readers>>

-----------------------------------------------------------------------------
(* The iterator.                                                            *)

Fault(reader) == faulted' = faulted \cup {reader}

\* A new walk.
Reset_LB_List_Iterator ==
    /\ alive
    /\ next_node' = First(list) /\ walking' = TRUE
    /\ disturbed' = disturbed \ {Walker} /\ faulted' = faulted \ {Walker}
    /\ UNCHANGED <<list, alive, freed, taken, xmit, missed>>

\* What list_node.next of an LBMD holds.
NextOf(lbmd) ==
    IF lbmd \in On THEN First(Behind(list, Position(list, lbmd))) ELSE Poison

Get_Next_LBMD ==
    /\ walking /\ next_node # AtHead /\ Walker \notin faulted
    /\ IF alive /\ next_node \in On \cup Loose
       THEN next_node' = NextOf(next_node) /\ UNCHANGED faulted
       ELSE Fault(Walker) /\ UNCHANGED next_node
    /\ UNCHANGED <<list, alive, freed, taken, walking, xmit, missed, disturbed>>

\* NULL is returned: the list is through.
End_Walk ==
    /\ walking /\ next_node = AtHead
    /\ walking' = FALSE
    /\ UNCHANGED <<list, alive, freed, taken, next_node, xmit, missed, disturbed, faulted>>

-----------------------------------------------------------------------------
(* The sender of a payload tag.                                             *)

\* Translate_..._Located_Requests_to_DN_Tags looks for the first block of a located
\* request whose blocks are all in the list.
Tag(s, slbid, nr) ==
    /\ alive /\ xmit[s].pc = "idle" /\ s \notin faulted
    /\ slbid..slbid + nr - 1 \subseteq On
    /\ xmit' = [xmit EXCEPT ![s] =
                  [pc |-> "get", cur |-> Null, slbid |-> slbid, nr |-> nr, i |-> -1]]
    /\ missed' = [missed EXCEPT ![s] = {}]
    /\ disturbed' = disturbed \ {s}
    /\ UNCHANGED <<list, alive, freed, taken, next_node, walking, faulted>>

Wanted(x) == IF x.i = -1 THEN x.slbid ELSE x.slbid + x.i

\* The first LBMD is read before the lock is taken.
Load_First(s) ==
    /\ xmit[s].pc = "get" /\ xmit[s].cur = Null
    /\ IF alive
       THEN xmit' = [xmit EXCEPT ![s].cur = First(list)] /\ UNCHANGED faulted
       ELSE xmit' = [xmit EXCEPT ![s] = Idle] /\ Fault(s)
    /\ UNCHANGED <<list, alive, freed, taken, next_node, walking, missed, disturbed>>

\* The block after this one, or the end of the tag.
Step_Xmit(x, cur) ==
    IF x.i + 1 = x.nr THEN Idle ELSE [x EXCEPT !.pc = "get", !.cur = cur, !.i = @ + 1]

\* The search from cur.  An LBMD that was taken out is still compared; its list_node
\* leads nowhere.
Get_LBMD_from_Node_by_LBID(s) ==
    LET x == xmit[s]  lbid == Wanted(x)
        reached == alive /\ x.cur \in {AtHead} \cup On \cup (Loose \cap {lbid})
        met == IF x.cur \in On THEN From(list, x.cur) ELSE Loose \cap {x.cur}
        match == IF lbid \in met THEN lbid ELSE Null
    IN /\ x.pc = "get" /\ x.cur # Null
       /\ CASE ~reached ->
                 xmit' = [xmit EXCEPT ![s] = Idle] /\ Fault(s) /\ UNCHANGED missed
            [] reached /\ x.i = -1 ->       \* Set_Located_Request_PData
                 xmit' = [xmit EXCEPT ![s] = Step_Xmit(x, match)] /\ UNCHANGED <<missed, faulted>>
            [] reached /\ x.i >= 0 /\ match # Null ->
                 /\ xmit' = [xmit EXCEPT ![s].pc = "use", ![s].cur = match]
                 /\ UNCHANGED <<missed, faulted>>
            [] OTHER ->
                 /\ missed' = [missed EXCEPT ![s] = @ \cup {lbid}]
                 /\ xmit' = [xmit EXCEPT ![s] = Step_Xmit(x, Null)]
                 /\ UNCHANGED faulted
       /\ UNCHANGED <<list, alive, freed, taken, next_node, walking, disturbed>>

\* __Xmit_LB_Paylaod reads the bio of the LBMD, without the lock.
Xmit_LB_Payload(s) ==
    LET x == xmit[s] IN
    /\ x.pc = "use"
    /\ IF x.cur \in freed
       THEN xmit' = [xmit EXCEPT ![s] = Idle] /\ Fault(s)
       ELSE xmit' = [xmit EXCEPT ![s] = Step_Xmit(x, x.cur)] /\ UNCHANGED faulted
    /\ UNCHANGED <<list, alive, freed, taken, next_node, walking, missed, disturbed>>

Next ==
    \/ \E b \in Blocks : Add(b) \/ \E n \in 1..Cardinality(Blocks) : Commit(b, n)
    \/ \E r \in Takers :
          \/ Free_LogicalBlock_MetaData_from_LB_List_by_LBID(r)
          \/ Free_LogicalBlock_MetaData_from_LB_List_by_LBMD(r)
          \/ Release_LogicalBlock_MetaData(r)
    \/ Release_LogicalBlock_List
    \/ Reset_LB_List_Iterator \/ Get_Next_LBMD \/ End_Walk
    \/ \E s \in Senders :
          \/ \E b \in Blocks, n \in 1..Cardinality(Blocks) : Tag(s, b, n)
          \/ Load_First(s) \/ Get_LBMD_from_Node_by_LBID(s) \/ Xmit_LB_Payload(s)

Spec == Init /\ [][Next]_vars

-----------------------------------------------------------------------------

\* The search starts from an address that was found under an earlier hold of the lock, and
\* the iterator is not moved when its node is removed: a reader goes through memory that
\* was given back only when something was removed under it.
FaultNeedsRemoval == faulted \subseteq disturbed

\* "FATAL ERROR~! I can't find lbmd": a block of a tag is skipped only when an answer has
\* committed it, or somebody took it out, in the meantime.
MissedIsGone == \A s \in Senders : missed[s] \subseteq freed \cup Loose
=============================================================================
