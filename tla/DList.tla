-------------------------------- MODULE DList --------------------------------
(***************************************************************************)
(* struct DList: a ring of nodes behind a head, with one iterator that all *)
(* users of the list share.  Every operation runs under dlist_lock, so each *)
(* is one step.  A node is named by its user data.                          *)
(*                                                                         *)
(* The operations are actions on the variables of one list; the modules    *)
(* that use a list extend this one.                                        *)
(***************************************************************************)
EXTENDS Integers, FiniteSets

CONSTANTS
    Data,       \* user data; a value is in the list at most once
    ListHead    \* &dlist->dlist_head

ASSUME HeadAssumption == ListHead \notin Data /\ "freed" \notin Data \cup {ListHead}

VARIABLES
    in,         \* the user data that is in the list
    nxt, prv,   \* the pointers of dlist_head and of the nodes
    iter        \* dlist->next_node

lvars == <<in, nxt, prv, iter>>

Ring == in \cup {ListHead}

-----------------------------------------------------------------------------
(* Plausible slips.  None is used below: with a definition replaced by its  *)
(* slip, a run finds one of its properties violated.                        *)

\* list_del without the second pointer.
SlipUnlink(x) ==
    /\ in' = in \ {x}
    /\ nxt' = [nxt EXCEPT ![prv[x]] = nxt[x]]
    /\ prv' = prv
\* A removal leaves the iterator where it is.
SlipStep_over(x) == iter' = iter
\* The node that is read is skipped on the next call: the iterator goes two on.
SlipAdvance == iter' = nxt[nxt[iter]]

-----------------------------------------------------------------------------
(* The ring of <linux/list.h>.                                              *)

\* INIT_LIST_HEAD; a node points to itself when it is in no list.
Init_DList ==
    /\ in = {}
    /\ nxt = [x \in Data \cup {ListHead} |-> x]
    /\ prv = [x \in Data \cup {ListHead} |-> x]
    /\ iter = ListHead

\* list_add: between the head and the first node.
Link_Head(x) ==
    /\ in' = in \cup {x}
    /\ nxt' = [nxt EXCEPT ![ListHead] = x, ![x] = nxt[ListHead]]
    /\ prv' = [prv EXCEPT ![nxt[ListHead]] = x, ![x] = ListHead]

\* list_add_tail: between the last node and the head.
Link_Tail(x) ==
    /\ in' = in \cup {x}
    /\ nxt' = [nxt EXCEPT ![prv[ListHead]] = x, ![x] = ListHead]
    /\ prv' = [prv EXCEPT ![ListHead] = x, ![x] = prv[ListHead]]

\* list_del_init, and the node is freed.
Unlink(x) ==
    /\ in' = in \ {x}
    /\ nxt' = [nxt EXCEPT ![prv[x]] = nxt[x], ![x] = x]
    /\ prv' = [prv EXCEPT ![nxt[x]] = prv[x], ![x] = x]

\* The order in which list_for_each_entry meets the nodes.
Nth == LET f[n \in 0..Cardinality(in)] == IF n = 0 THEN ListHead ELSE nxt[f[n - 1]] IN f
IsFirst(x, S) ==
    \E n \in 1..Cardinality(in) :
        Nth[n] = x /\ \A k \in 1..n - 1 : Nth[k] \notin S

-----------------------------------------------------------------------------
(* The operations.                                                          *)

Insert_User_Data_to_DList_Head(x) ==
    /\ x \notin in
    /\ Link_Head(x)
    /\ UNCHANGED iter

Insert_User_Data_to_DList_Tail(x) ==
    /\ x \notin in
    /\ Link_Tail(x)
    /\ UNCHANGED iter

\* "check DList next_node, prevent user get released node".
Step_over(x) == iter' = IF iter = x THEN nxt[x] ELSE iter

Remove(x) == Unlink(x) /\ Step_over(x)

\* When the data is not there the loop has ended at the head, and the check behind
\* it takes the head for the node that was removed.
Remove_from_DList_by_User_Data(x) ==
    \/ x \in in /\ Remove(x)
    \/ /\ x \notin in
       /\ iter' = IF iter = ListHead THEN nxt[ListHead] ELSE iter
       /\ UNCHANGED <<in, nxt, prv>>

\* The check function accepts the data in S; x is what is returned.
Remove_from_DList_by_Check_Func(S, x) ==
    /\ x \in S \cap in
    /\ IsFirst(x, S)
    /\ Remove(x)

Remove_from_DList_Head ==
    /\ in # {}
    /\ Remove(nxt[ListHead])

\* next_node stays where it is.
Release_All_User_Data ==
    /\ in' = {}
    /\ nxt' = [x \in Data \cup {ListHead} |-> x]
    /\ prv' = [x \in Data \cup {ListHead} |-> x]
    /\ iter' = IF iter = ListHead THEN ListHead ELSE "freed"

Reset_DList_Iterator ==
    /\ iter' = nxt[ListHead]
    /\ UNCHANGED <<in, nxt, prv>>

\* Get_Next_User_Data returns `iter` and moves on; at the head it returns NULL.
Advance == iter' = nxt[iter]
Get_Next_User_Data ==
    /\ iter \in in
    /\ Advance
    /\ UNCHANGED <<in, nxt, prv>>
AtEnd == iter = ListHead

-----------------------------------------------------------------------------

ListTypeOK ==
    /\ in \subseteq Data
    /\ nxt \in [Data \cup {ListHead} -> Data \cup {ListHead}]
    /\ prv \in [Data \cup {ListHead} -> Data \cup {ListHead}]
    /\ iter \in Data \cup {ListHead, "freed"}

\* The list is one ring: the pointers are each other's inverses, lead from nodes in the
\* list to nodes in the list, and the head reaches every node.
Linked ==
    \A x \in Ring :
        /\ nxt[x] \in Ring /\ prv[x] \in Ring
        /\ prv[nxt[x]] = x /\ nxt[prv[x]] = x
Unlinked == \A x \in Data \ in : nxt[x] = x /\ prv[x] = x
=============================================================================
