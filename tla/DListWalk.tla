------------------------------ MODULE DListWalk ------------------------------
(***************************************************************************)
(* A list in use: walkers go through it with Reset_DList_Iterator and      *)
(* Get_Next_User_Data until they get NULL, sharing its one iterator, while *)
(* others insert and remove.                                               *)
(***************************************************************************)
EXTENDS DList

CONSTANT Walkers

VARIABLES
    walk,       \* history: what a walker was given since its Reset, what stayed in
                \* the list since then, and what may have disturbed it
    emptied     \* history: Release_All_User_Data since the last Reset

listVars == <<lvars, walk, emptied>>

Resting == [on |-> FALSE, seen |-> {}, stayed |-> {}, alone |-> TRUE, again |-> {},
            repeated |-> {}]

ListInit ==
    /\ Init_DList
    /\ walk = [w \in Walkers |-> Resting]
    /\ emptied = FALSE

\* What a change of the list does to the walks: `gone` has left it, `back` are nodes
\* that a walker may meet a second time.
DisturbWalks(gone, back) ==
    walk' = [w \in Walkers |-> IF walk[w].on
                THEN [walk[w] EXCEPT !.stayed = @ \ gone, !.again = @ \cup back]
                ELSE walk[w]]

Insert(x) ==
    /\ \/ Insert_User_Data_to_DList_Head(x)
       \/ Insert_User_Data_to_DList_Tail(x)
    /\ DisturbWalks({}, {x})
    /\ UNCHANGED emptied

Remove_Data(x) ==
    /\ Remove_from_DList_by_User_Data(x)
    /\ IF x \in in THEN DisturbWalks({x}, {})
                   ELSE DisturbWalks({}, IF iter = ListHead THEN in ELSE {})
    /\ UNCHANGED emptied

Remove_Checked(S) ==
    /\ \E x \in S : Remove_from_DList_by_Check_Func(S, x) /\ DisturbWalks({x}, {})
    /\ UNCHANGED emptied

Remove_First ==
    /\ Remove_from_DList_Head
    /\ DisturbWalks({nxt[ListHead]}, {})
    /\ UNCHANGED emptied

Release_All ==
    /\ Release_All_User_Data
    /\ DisturbWalks(in, {})
    /\ emptied' = TRUE

Start_Walk(w) ==
    /\ Reset_DList_Iterator
    /\ walk' = [v \in Walkers |->
                  IF v = w
                  THEN [Resting EXCEPT !.on = TRUE, !.stayed = in,
                                       !.alone = \A u \in Walkers \ {w} : ~walk[u].on]
                  ELSE [walk[v] EXCEPT !.alone = FALSE]]
    /\ emptied' = FALSE

Continue_Walk(w) ==
    /\ walk[w].on
    /\ Get_Next_User_Data
    /\ walk' = [v \in Walkers |->
                  IF v = w
                  THEN [walk[v] EXCEPT !.seen = @ \cup {iter},
                                       !.repeated = @ \cup ({iter} \cap walk[v].seen)]
                  ELSE [walk[v] EXCEPT !.alone = FALSE]]
    /\ UNCHANGED emptied

Stop_Walk(w) ==
    /\ walk[w].on /\ AtEnd
    /\ walk' = [walk EXCEPT ![w] = Resting]
    /\ UNCHANGED <<lvars, emptied>>

ListNext ==
    \/ \E x \in Data : Insert(x) \/ Remove_Data(x)
    \/ \E S \in SUBSET Data : Remove_Checked(S)
    \/ Remove_First
    \/ Release_All
    \/ \E w \in Walkers : Start_Walk(w) \/ Continue_Walk(w) \/ Stop_Walk(w)

ListSpec == ListInit /\ [][ListNext]_listVars

-----------------------------------------------------------------------------

WalkTypeOK ==
    /\ ListTypeOK
    /\ walk \in [Walkers -> [on : BOOLEAN, seen : SUBSET Data, stayed : SUBSET Data,
                             alone : BOOLEAN, again : SUBSET Data, repeated : SUBSET Data]]
    /\ emptied \in BOOLEAN

\* The list is one ring through the head, in both directions, with nothing else on it.
RingIsWhole ==
    /\ Linked
    /\ Unlinked
    /\ {Nth[n] : n \in 1..Cardinality(in)} = in

\* "prevent user get released node": however nodes are removed under a walk, the iterator
\* stands at a node of the list or at its end; only Release_All_User_Data leaves it at a
\* freed node, until the next Reset.
IteratorIsValid == iter \in Ring \/ (iter = "freed" /\ emptied)

\* "iterative go through the list": a walker that has the iterator for itself is given
\* everything that is in the list all the while, by the time it is given NULL, and nothing
\* twice, unless it was inserted again or a Remove_from_DList_by_User_Data that found
\* nothing sent the iterator back from the end.
WalkIsExact ==
    \A w \in Walkers : walk[w].on /\ walk[w].alone =>
        /\ walk[w].repeated \subseteq walk[w].again
        /\ AtEnd => walk[w].stayed \subseteq walk[w].seen
=============================================================================
