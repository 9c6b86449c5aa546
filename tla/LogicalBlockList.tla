--------------------------- MODULE LogicalBlockList ---------------------------
(***************************************************************************)
(* struct LogicalBlock_List: the blocks of a request in the order of their *)
(* LBIDs.  Every operation takes LB_list_lock, so a list is a value here,  *)
(* the sequence of the LBIDs of its LBMDs, and each operation a function.  *)
(***************************************************************************)
EXTENDS Integers, Sequences, FiniteSets

\* What is behind position k of the list.
Behind(list, k) == SubSeq(list, k + 1, Len(list))

-----------------------------------------------------------------------------
(* Slips: the definition below with a plausible mistake.                    *)

\* list_add behind the head of the list instead of the position that was found.
SlipAdd(list, lbid) == <<lbid>> \o list
\* `i++ == nr_lbids`: one block too many.
SlipLast(i, nr_lbids) == i = nr_lbids + 1
\* `retcode++ == length`.
SlipSplitAt(list, length) == IF length < Len(list) THEN length + 1 ELSE 0

-----------------------------------------------------------------------------

Create_LogicalBlock_List == <<>>

\* list_for_each_prev stops at the last LBMD that is not greater; the new one goes behind
\* it.  A duplicate is not inserted.
Add_to_LogicalBlock_List_by_Insertion_Sort(list, lbid) ==
    LET pos == CHOOSE p \in 0..Len(list) :
                   /\ p = 0 \/ list[p] <= lbid
                   /\ \A q \in p + 1..Len(list) : list[q] > lbid
    IN IF pos > 0 /\ list[pos] = lbid
       THEN list
       ELSE SubSeq(list, 1, pos) \o <<lbid>> \o Behind(list, pos)

\* `++i == nr_lbids` ends the walk.
Last(i, nr_lbids) == i = nr_lbids

\* One walk over the list takes out slbid, slbid + 1, ... as it meets them; i of them so far.
Step(i, lbid, slbid, nr_lbids) ==
    IF lbid = slbid + i /\ ~(i > 0 /\ Last(i, nr_lbids)) THEN i + 1 ELSE i

Commit_LB_List_by_Range(list, slbid, nr_lbids) ==
    LET i[k \in 0..Len(list)] ==
            IF k = 0 THEN 0 ELSE Step(i[k - 1], list[k], slbid, nr_lbids)
        rest[k \in 0..Len(list)] ==
            IF k = 0 THEN <<>>
            ELSE IF i[k] = i[k - 1] THEN Append(rest[k - 1], list[k]) ELSE rest[k - 1]
    IN rest[Len(list)]

\* Where __Move_Sub_List cuts; 0: the list is shorter, or nothing was asked for.
SplitAt(list, length) == IF length \in 1..Len(list) THEN length ELSE 0

\* The first `length` LBMDs as a list of their own, and what remains; NULL is <<>>.
Get_Next_DIO_Request_LB_List(list, length) ==
    LET at == SplitAt(list, length) IN
    [sub_list |-> SubSeq(list, 1, at), remain |-> Behind(list, at)]
=============================================================================
