----------------------------- MODULE ListProofs -----------------------------
(***************************************************************************)
(* Proofs about the two lists of the driver and those who go through them. *)
(*                                                                         *)
(* The doubly linked list and the iterator its users share, for any set of *)
(* user data and any number of walkers (DListWalk).  The readers of a      *)
(* logical block list: they go through memory that was given back only     *)
(* when something was removed under them, and a block of a tag is skipped  *)
(* only when it was taken out (LogicalBlockWalk).                          *)
(***************************************************************************)
EXTENDS DListWalk, LogicalBlockWalk, WellFoundedInduction, SequenceTheorems, FiniteSetTheorems, TLAPS

-----------------------------------------------------------------------------
(* Numbers.                                                                 *)

\* A set of numbers that is not empty has a least element ...
LEMMA LeastNumber ==
    ASSUME NEW T, T \subseteq Nat, T # {}
    PROVE  \E x \in T : \A y \in T : x <= y
<1> DEFINE R == OpToRel(<, Nat)
<1>1. IsWellFoundedOn(R, Nat)
  BY NatLessThanWellFounded
<1>2. \A x, y \in Nat : <<x, y>> \in R <=> x < y
  BY DEF OpToRel
<1> HIDE DEF R
<1>3. PICK x \in T : \A y \in T : <<y, x>> \notin R
  BY <1>1, WFMin
<1>4. \A y \in T : ~(y < x) /\ x \in Nat /\ y \in Nat
  BY <1>2, <1>3
<1>5. QED
  BY <1>4

\* ... so a set with 0 and every successor has them all.
LEMMA SetInduction ==
    ASSUME NEW S, 0 \in S, \A n \in Nat : n \in S => n + 1 \in S
    PROVE  Nat \subseteq S
<1> SUFFICES ASSUME Nat \ S # {} PROVE FALSE
  OBVIOUS
<1>1. PICK x \in Nat \ S : \A y \in Nat \ S : x <= y
  BY LeastNumber
<1>2. x - 1 \in Nat /\ x - 1 \in S
  BY <1>1
<1>3. QED
  BY <1>1, <1>2

-----------------------------------------------------------------------------
(* THE DOUBLY LINKED LIST.                                                  *)

\* There is no second ring beside the one through the head: whatever nodes one takes, a
\* pointer leads out of them.  (Without it, a node could be its own successor, and the
\* iterator that steps over it would stay at freed memory.)
Connected == \A S \in SUBSET in : S # {} => \E y \in S : nxt[y] \notin S

\* What the operations of the list preserve, whoever calls them.
RingInv == ListTypeOK /\ Linked /\ Unlinked /\ Connected

-----------------------------------------------------------------------------
(* The ring.                                                                *)

\* list_add keeps the ring.
LEMMA LinkHeadKeepsRing ==
  ASSUME RingInv, NEW x \in Data, x \notin in, Link_Head(x), iter' = iter
  PROVE  RingInv'
<1> DEFINE h == nxt[ListHead]
<1>1. /\ h \in Ring /\ prv[h] = ListHead /\ x \notin Ring /\ x # h /\ ListHead \notin Data
  BY HeadAssumption DEF RingInv, Linked, Ring
<1>2. /\ nxt' = [nxt EXCEPT ![ListHead] = x, ![x] = h]
      /\ prv' = [prv EXCEPT ![h] = x, ![x] = ListHead]
      /\ in' = in \cup {x}
  BY DEF Link_Head
<1>3. ListTypeOK'
  BY <1>1, <1>2 DEF RingInv, ListTypeOK, Ring
<1>4. ASSUME NEW y \in Ring' PROVE
        /\ nxt'[y] \in Ring' /\ prv'[y] \in Ring'
        /\ prv'[nxt'[y]] = y /\ nxt'[prv'[y]] = y
  <2>1. CASE y = x
    BY <1>1, <1>2, <2>1 DEF RingInv, ListTypeOK, Ring
  <2>2. CASE y \in Ring
    <3>1. /\ nxt[y] \in Ring /\ prv[y] \in Ring
          /\ prv[nxt[y]] = y /\ nxt[prv[y]] = y
      BY <2>2 DEF RingInv, Linked
    <3>2. y = h <=> prv[y] = ListHead
      BY <1>1, <3>1
    <3>3. QED
      BY <1>1, <1>2, <2>2, <3>1, <3>2 DEF RingInv, ListTypeOK, Ring
  <2>3. QED
    BY <1>2, <2>1, <2>2 DEF Ring
<1>5. ASSUME NEW y \in Data \ in' PROVE nxt'[y] = y /\ prv'[y] = y
  BY <1>1, <1>2 DEF RingInv, ListTypeOK, Unlinked, Ring
<1>6. ASSUME NEW S \in SUBSET in', S # {} PROVE \E y \in S : nxt'[y] \notin S
  <2>1. CASE S = {x}
    BY <1>1, <1>2, <2>1 DEF RingInv, ListTypeOK
  <2>2. CASE S # {x}
    <3>1. S \ {x} \in SUBSET in /\ S \ {x} # {}
      BY <1>2, <1>6, <2>2
    <3>2. PICK y \in S \ {x} : nxt[y] \notin S \ {x}
      BY <3>1 DEF RingInv, Connected
    <3>3. y \in Data /\ y # ListHead /\ nxt[y] # x
      BY <1>1, <3>1 DEF RingInv, ListTypeOK, Linked, Ring
    <3>4. nxt'[y] = nxt[y]
      BY <1>2, <3>2, <3>3 DEF RingInv, ListTypeOK
    <3>5. QED
      BY <3>2, <3>3, <3>4
  <2>3. QED
    BY <2>1, <2>2
<1>7. QED
  BY <1>3, <1>4, <1>5, <1>6 DEF RingInv, Linked, Unlinked, Connected

\* list_add_tail keeps the ring.
LEMMA LinkTailKeepsRing ==
  ASSUME RingInv, NEW x \in Data, x \notin in, Link_Tail(x), iter' = iter
  PROVE  RingInv'
<1> DEFINE t == prv[ListHead]
<1>1. /\ t \in Ring /\ nxt[t] = ListHead /\ x \notin Ring /\ x # t /\ ListHead \notin Data
  BY HeadAssumption DEF RingInv, Linked, Ring
<1>2. /\ nxt' = [nxt EXCEPT ![t] = x, ![x] = ListHead]
      /\ prv' = [prv EXCEPT ![ListHead] = x, ![x] = t]
      /\ in' = in \cup {x}
  BY DEF Link_Tail
<1>3. ListTypeOK'
  BY <1>1, <1>2 DEF RingInv, ListTypeOK, Ring
<1>4. ASSUME NEW y \in Ring' PROVE
        /\ nxt'[y] \in Ring' /\ prv'[y] \in Ring'
        /\ prv'[nxt'[y]] = y /\ nxt'[prv'[y]] = y
  <2>1. CASE y = x
    BY <1>1, <1>2, <2>1 DEF RingInv, ListTypeOK, Ring
  <2>2. CASE y \in Ring
    <3>1. /\ nxt[y] \in Ring /\ prv[y] \in Ring
          /\ prv[nxt[y]] = y /\ nxt[prv[y]] = y
      BY <2>2 DEF RingInv, Linked
    <3>2. y = t <=> nxt[y] = ListHead
      BY <1>1, <3>1
    <3>3. QED
      BY <1>1, <1>2, <2>2, <3>1, <3>2 DEF RingInv, ListTypeOK, Ring
  <2>3. QED
    BY <1>2, <2>1, <2>2 DEF Ring
<1>5. ASSUME NEW y \in Data \ in' PROVE nxt'[y] = y /\ prv'[y] = y
  BY <1>1, <1>2 DEF RingInv, ListTypeOK, Unlinked, Ring
<1>6. ASSUME NEW S \in SUBSET in', S # {} PROVE \E y \in S : nxt'[y] \notin S
  <2>1. x \in S => nxt'[x] \notin S
    <3>1. nxt'[x] = ListHead
      BY <1>1, <1>2 DEF RingInv, ListTypeOK
    <3>2. ListHead \notin S
      BY <1>1, <1>2, <1>6 DEF RingInv, ListTypeOK
    <3>3. QED
      BY <3>1, <3>2
  <2>2. CASE x \notin S
    <3>1. S \in SUBSET in
      BY <1>2, <1>6, <2>2
    <3>2. PICK y \in S : nxt[y] \notin S
      BY <1>6, <3>1 DEF RingInv, Connected
    <3>3. y \in Data /\ y # x
      BY <2>2, <3>1 DEF RingInv, ListTypeOK
    <3>4. nxt'[y] = (IF y = t THEN x ELSE nxt[y])
      BY <1>1, <1>2, <3>3 DEF RingInv, ListTypeOK
    <3>5. QED
      BY <2>2, <3>2, <3>4
  <2>3. QED
    BY <2>1, <2>2
<1>7. QED
  BY <1>3, <1>4, <1>5, <1>6 DEF RingInv, Linked, Unlinked, Connected

\* list_del_init keeps the ring, and the iterator that steps over the node stays on it.
LEMMA RemoveKeepsRing ==
  ASSUME RingInv, NEW x \in in, Remove(x)
  PROVE  /\ RingInv'
         /\ iter \in Ring => iter' \in Ring'
         /\ iter \notin Ring => iter' = iter
<1> DEFINE a == prv[x]
           b == nxt[x]
<1>1. /\ x \in Data /\ x \in Ring /\ x # ListHead
      /\ a \in Ring /\ b \in Ring /\ nxt[a] = x /\ prv[b] = x
      /\ in \subseteq Data
  BY HeadAssumption DEF RingInv, ListTypeOK, Linked, Ring
<1>2. /\ nxt' = [nxt EXCEPT ![a] = b, ![x] = x]
      /\ prv' = [prv EXCEPT ![b] = a, ![x] = x]
      /\ in' = in \ {x}
      /\ iter' = IF iter = x THEN b ELSE iter
  BY DEF Remove, Unlink, Step_over
<1>3. ListTypeOK'
  BY <1>1, <1>2 DEF RingInv, ListTypeOK, Ring
<1>4. a # x /\ b # x
  <2>1. nxt[x] # x
    <3>1. {x} \in SUBSET in /\ {x} # {}
      OBVIOUS
    <3>2. PICK y \in {x} : nxt[y] \notin {x}
      BY <3>1 DEF RingInv, Connected
    <3>3. QED
      BY <3>2
  <2>2. QED
    BY <1>1, <2>1
<1>5. ASSUME NEW y \in Ring' PROVE
        /\ nxt'[y] \in Ring' /\ prv'[y] \in Ring'
        /\ prv'[nxt'[y]] = y /\ nxt'[prv'[y]] = y
  <2>1. y \in Ring /\ y # x /\ Ring' = Ring \ {x}
    BY <1>1, <1>2, <1>5 DEF Ring
  <2>2. /\ nxt[y] \in Ring /\ prv[y] \in Ring
        /\ prv[nxt[y]] = y /\ nxt[prv[y]] = y
    BY <2>1 DEF RingInv, Linked
  <2>3. /\ nxt'[y] = (IF y = a THEN b ELSE nxt[y])
        /\ prv'[y] = (IF y = b THEN a ELSE prv[y])
        /\ nxt'[a] = b /\ prv'[b] = a
    BY <1>1, <1>2, <1>4, <2>1 DEF RingInv, ListTypeOK, Ring
  <2>4. (y # a => nxt[y] # x) /\ (y # b => prv[y] # x)
    BY <1>1, <2>2
  <2>5. /\ \A z \in Ring \ {x} : z # b => prv'[z] = prv[z]
        /\ \A z \in Ring \ {x} : z # a => nxt'[z] = nxt[z]
    BY <1>1, <1>2 DEF RingInv, ListTypeOK, Ring
  <2>6. (y # a => nxt[y] # b) /\ (y # b => prv[y] # a)
    BY <1>1, <1>4, <2>1, <2>2
  <2>7. QED
    BY <1>1, <1>4, <2>1, <2>2, <2>3, <2>4, <2>5, <2>6
<1>6. ASSUME NEW y \in Data \ in' PROVE nxt'[y] = y /\ prv'[y] = y
  BY <1>1, <1>2, <1>4 DEF RingInv, ListTypeOK, Unlinked, Ring
<1>7. ASSUME NEW S \in SUBSET in', S # {} PROVE \E y \in S : nxt'[y] \notin S
  <2>1. S \in SUBSET in /\ x \notin S
    BY <1>2, <1>7
  <2>2. \A y \in S : nxt'[y] = IF y = a THEN b ELSE nxt[y]
    BY <1>1, <1>2, <2>1 DEF RingInv, ListTypeOK
  <2>3. PICK y \in S : nxt[y] \notin S
    BY <1>7, <2>1 DEF RingInv, Connected
  <2>4. CASE y # a
    BY <2>2, <2>3, <2>4
  <2>5. CASE y = a
    <3>1. S \cup {x} \in SUBSET in /\ S \cup {x} # {}
      BY <2>1
    <3>2. PICK z \in S \cup {x} : nxt[z] \notin S \cup {x}
      BY <3>1 DEF RingInv, Connected
    <3>3. CASE z = x
      BY <2>2, <2>5, <3>2, <3>3
    <3>4. CASE z # x
      <4>1. z \in S /\ z # a
        BY <1>1, <3>2, <3>4
      <4>2. QED
        BY <2>2, <3>2, <4>1
    <3>5. QED
      BY <3>3, <3>4
  <2>6. QED
    BY <2>4, <2>5
<1>8. iter \in Ring => iter' \in Ring'
  BY <1>1, <1>2, <1>4 DEF Ring
<1>9. iter \notin Ring => iter' = iter
  BY <1>1, <1>2
<1>10. QED
  BY <1>3, <1>5, <1>6, <1>7, <1>8, <1>9 DEF RingInv, Linked, Unlinked, Connected

-----------------------------------------------------------------------------
(* The walks.                                                               *)

\* A ring that does not change is a ring.
LEMMA RingStutter ==
  ASSUME RingInv, UNCHANGED <<in, nxt, prv>>, iter' \in Data \cup {ListHead, "freed"}
  PROVE  RingInv' /\ Ring' = Ring
BY DEF RingInv, ListTypeOK, Linked, Unlinked, Connected, Ring

\* The empty list is a ring.
LEMMA EmptyRing ==
  ASSUME in = {}, iter \in Data \cup {ListHead, "freed"},
         nxt = [x \in Data \cup {ListHead} |-> x], prv = [x \in Data \cup {ListHead} |-> x]
  PROVE  RingInv
BY DEF RingInv, ListTypeOK, Linked, Unlinked, Connected, Ring

\* The state of a walk; `emptied` says that Release_All_User_Data has left the iterator behind.
SafeInv == RingInv /\ IteratorIsValid

\* What each operation keeps.
LEMMA InsertKeepsWalk ==
  ASSUME SafeInv, NEW x \in Data, Insert(x)
  PROVE  SafeInv'
<1>1. /\ x \notin in /\ iter' = iter /\ emptied' = emptied
      /\ in' = in \cup {x}
      /\ Link_Head(x) \/ Link_Tail(x)
  BY DEF Insert, Insert_User_Data_to_DList_Head, Insert_User_Data_to_DList_Tail,
         Link_Head, Link_Tail
<1>2. RingInv'
  BY <1>1, LinkHeadKeepsRing, LinkTailKeepsRing DEF SafeInv
<1>3. QED
  BY <1>1, <1>2 DEF SafeInv, IteratorIsValid, Ring

LEMMA RemoveKeepsWalk ==
  ASSUME SafeInv, NEW x \in in, Remove(x), emptied' = emptied
  PROVE  SafeInv'
BY RemoveKeepsRing DEF SafeInv, IteratorIsValid

LEMMA StepKeepsWalk ==
  ASSUME SafeInv, [ListNext]_listVars
  PROVE  SafeInv'
<1>1. ASSUME NEW x \in Data, Insert(x)
      PROVE  SafeInv'
  BY <1>1, InsertKeepsWalk
<1>2. ASSUME NEW x \in Data, Remove_Data(x)
      PROVE  SafeInv'
  <2>1. CASE x \in in
    BY <1>2, <2>1, RemoveKeepsWalk DEF Remove_Data, Remove_from_DList_by_User_Data
  <2>2. CASE x \notin in
    <3>1. /\ iter' = (IF iter = ListHead THEN nxt[ListHead] ELSE iter)
          /\ UNCHANGED <<in, nxt, prv>> /\ emptied' = emptied
      BY <1>2, <2>2 DEF Remove_Data, Remove_from_DList_by_User_Data
    <3>2. nxt[ListHead] \in Ring /\ Ring \subseteq Data \cup {ListHead}
      BY DEF SafeInv, RingInv, ListTypeOK, Linked, Ring
    <3>3. iter' \in Data \cup {ListHead, "freed"}
      BY <3>1, <3>2 DEF SafeInv, RingInv, ListTypeOK
    <3>4. RingInv' /\ Ring' = Ring
      BY <3>1, <3>3, RingStutter DEF SafeInv
    <3>5. QED
      BY <3>1, <3>2, <3>4 DEF SafeInv, IteratorIsValid
  <2>3. QED
    BY <2>1, <2>2
<1>3. ASSUME NEW S \in SUBSET Data, Remove_Checked(S)
      PROVE  SafeInv'
  BY <1>3, RemoveKeepsWalk DEF Remove_Checked, Remove_from_DList_by_Check_Func
<1>4. ASSUME Remove_First
      PROVE  SafeInv'
  <2>1. in # {} /\ Remove(nxt[ListHead]) /\ emptied' = emptied
    BY <1>4 DEF Remove_First, Remove_from_DList_Head
  <2>2. PICK S \in SUBSET in : S = in /\ S # {}
    BY <2>1
  \* The head points to a node: else the list would be a second ring.
  <2>3. PICK y \in in : nxt[y] \notin in
    BY <2>2 DEF SafeInv, RingInv, Connected
  <2>4. nxt[y] = ListHead /\ prv[ListHead] = y
    BY <2>3 DEF SafeInv, RingInv, Linked, Ring
  <2>5. ListHead \notin in
    BY HeadAssumption DEF SafeInv, RingInv, ListTypeOK
  <2>6. nxt[ListHead] \in in
    BY <2>3, <2>4, <2>5 DEF SafeInv, RingInv, Linked, Ring
  <2>7. QED
    BY <2>1, <2>6, RemoveKeepsWalk
<1>5. ASSUME Release_All
      PROVE  SafeInv'
  <2>1. /\ in' = {} /\ emptied' = TRUE
        /\ nxt' = [x \in Data \cup {ListHead} |-> x]
        /\ prv' = [x \in Data \cup {ListHead} |-> x]
        /\ iter' \in {ListHead, "freed"}
    BY <1>5 DEF Release_All, Release_All_User_Data
  <2>2. RingInv'
    BY <2>1 DEF RingInv, ListTypeOK, Linked, Unlinked, Connected, Ring
  <2>3. QED
    BY <2>1, <2>2 DEF SafeInv, IteratorIsValid, Ring
<1>6. ASSUME NEW w \in Walkers, Start_Walk(w)
      PROVE  SafeInv'
  <2>1. nxt[ListHead] \in Ring /\ Ring \subseteq Data \cup {ListHead}
    BY DEF SafeInv, RingInv, ListTypeOK, Linked, Ring
  <2>2. RingInv' /\ Ring' = Ring /\ iter' = nxt[ListHead]
    BY <1>6, <2>1, RingStutter DEF SafeInv, Start_Walk, Reset_DList_Iterator
  <2>3. QED
    BY <2>1, <2>2 DEF SafeInv, IteratorIsValid
<1>7. ASSUME NEW w \in Walkers, Continue_Walk(w)
      PROVE  SafeInv'
  <2>1. iter \in in /\ iter' = nxt[iter] /\ UNCHANGED <<in, nxt, prv>>
    BY <1>7 DEF Continue_Walk, Get_Next_User_Data, Advance
  <2>2. iter' \in Ring /\ Ring \subseteq Data \cup {ListHead}
    BY <2>1 DEF SafeInv, RingInv, ListTypeOK, Linked, Ring
  <2>3. RingInv' /\ Ring' = Ring
    BY <2>1, <2>2, RingStutter DEF SafeInv
  <2>4. QED
    BY <2>2, <2>3 DEF SafeInv, IteratorIsValid
<1>8. ASSUME (\E w \in Walkers : Stop_Walk(w)) \/ UNCHANGED listVars
      PROVE  SafeInv'
  <2>1. UNCHANGED <<in, nxt, prv, iter, emptied>>
    BY <1>8 DEF Stop_Walk, listVars, lvars
  <2>2. RingInv' /\ Ring' = Ring
    BY <2>1, RingStutter DEF SafeInv, RingInv, ListTypeOK
  <2>3. QED
    BY <2>1, <2>2 DEF SafeInv, IteratorIsValid
<1>9. QED
  BY <1>1, <1>2, <1>3, <1>4, <1>5, <1>6, <1>7, <1>8 DEF ListNext

-----------------------------------------------------------------------------

\* However nodes are inserted and removed under the walks, the list is one ring in both
\* directions, and next_node never points to a node that was freed, except to those of
\* Release_All_User_Data.
THEOREM RingIsKept == ListSpec => [](RingInv /\ IteratorIsValid)
<1>1. ListInit => SafeInv
  <2> SUFFICES ASSUME ListInit PROVE SafeInv
    OBVIOUS
  <2>1. RingInv
    BY EmptyRing DEF ListInit, Init_DList
  <2>2. QED
    BY <2>1 DEF ListInit, Init_DList, SafeInv, IteratorIsValid, Ring
<1>2. SafeInv /\ [ListNext]_listVars => SafeInv'
  BY StepKeepsWalk
<1>3. SafeInv => RingInv /\ IteratorIsValid
  BY DEF SafeInv
<1>4. QED
  BY <1>1, <1>2, <1>3, PTL DEF ListSpec

\* "prevent user get released node".
THEOREM IteratorStaysValid == ListSpec => []IteratorIsValid
BY RingIsKept, PTL

\* The walks are well typed.
THEOREM WalkTypeCorrect == ListSpec => []WalkTypeOK
<1> DEFINE WalkType ==
             /\ walk \in [Walkers -> [on : BOOLEAN, seen : SUBSET Data, stayed : SUBSET Data,
                             alone : BOOLEAN, again : SUBSET Data, repeated : SUBSET Data]]
             /\ emptied \in BOOLEAN
<1>1. ListInit => WalkType
  <2>1. Resting \in [on : BOOLEAN, seen : SUBSET Data, stayed : SUBSET Data,
                     alone : BOOLEAN, again : SUBSET Data, repeated : SUBSET Data]
    BY DEF Resting
  <2>2. QED
    BY <2>1 DEF ListInit
<1>2. RingInv /\ WalkType /\ [ListNext]_listVars => WalkType'
  <2> SUFFICES ASSUME RingInv, WalkType, [ListNext]_listVars
               PROVE  WalkType'
    OBVIOUS
  <2>1. in \subseteq Data
    BY DEF RingInv, ListTypeOK
  <2>2. ASSUME NEW gone, NEW back \in SUBSET Data, DisturbWalks(gone, back)
        PROVE  walk' \in [Walkers -> [on : BOOLEAN, seen : SUBSET Data, stayed : SUBSET Data,
                             alone : BOOLEAN, again : SUBSET Data, repeated : SUBSET Data]]
    BY <2>2 DEF DisturbWalks
  <2>3. ASSUME NEW x \in Data, Insert(x) \/ Remove_Data(x)
        PROVE  WalkType'
    <3>1. emptied' = emptied /\ \E gone, back \in SUBSET Data : DisturbWalks(gone, back)
      BY <2>1, <2>3 DEF Insert, Remove_Data
    <3>2. QED
      BY <2>2, <3>1
  <2>4. ASSUME (\E S \in SUBSET Data : Remove_Checked(S)) \/ Remove_First \/ Release_All
        PROVE  WalkType'
    <3>1. emptied' \in BOOLEAN /\ \E gone : DisturbWalks(gone, {})
      BY <2>4 DEF Remove_Checked, Remove_First, Release_All
    <3>2. QED
      BY <2>2, <3>1
  <2>5. ASSUME NEW w \in Walkers, Start_Walk(w)
        PROVE  WalkType'
    BY <2>1, <2>5 DEF Start_Walk, Resting
  <2>6. ASSUME NEW w \in Walkers, Continue_Walk(w)
        PROVE  WalkType'
    <3>1. iter \in Data
      BY <2>1, <2>6 DEF Continue_Walk, Get_Next_User_Data
    <3>2. QED
      BY <2>6, <3>1 DEF Continue_Walk
  <2>7. ASSUME NEW w \in Walkers, Stop_Walk(w)
        PROVE  WalkType'
    BY <2>7 DEF Stop_Walk, Resting
  <2>8. CASE UNCHANGED listVars
    BY <2>8 DEF listVars
  <2>9. QED
    BY <2>3, <2>4, <2>5, <2>6, <2>7, <2>8 DEF ListNext
<1>3. RingInv /\ WalkType => WalkTypeOK
  BY DEF RingInv, WalkTypeOK
<1>4. QED
  BY <1>1, <1>2, <1>3, RingIsKept, PTL DEF ListSpec

-----------------------------------------------------------------------------
(* The order in which list_for_each_entry meets the nodes.                  *)

\* The n-th node behind the head, for n up to N.
IsNth(f, N) == f = [n \in 0..N |-> IF n = 0 THEN ListHead ELSE nxt[f[n - 1]]]

LEMMA NthExists == \A N \in Nat : \E f : IsNth(f, N)
<1> DEFINE S == {N \in Nat : \E f : IsNth(f, N)}
<1>1. 0 \in S
  <2> DEFINE f == [n \in 0..0 |-> ListHead]
  <2>1. f = [n \in 0..0 |-> IF n = 0 THEN ListHead ELSE nxt[f[n - 1]]]
    OBVIOUS
  <2> HIDE DEF f
  <2>2. IsNth(f, 0)
    BY <2>1 DEF IsNth
  <2>3. QED
    BY <2>2
<1>2. ASSUME NEW N \in Nat, N \in S PROVE N + 1 \in S
  <2>1. PICK f : IsNth(f, N)
    BY <1>2
  <2> DEFINE v == nxt[f[N]]
             g == [n \in 0..N + 1 |-> IF n = N + 1 THEN v ELSE f[n]]
             e(n) == IF n = 0 THEN ListHead ELSE nxt[g[n - 1]]
             d(n) == IF n = 0 THEN ListHead ELSE nxt[f[n - 1]]
  <2>2. \A n \in 0..N : f[n] = d(n)
    BY <2>1 DEF IsNth
  <2>3. \A n \in 0..N + 1 : n = 0 \/ (n \in 1..N /\ n \in 0..N /\ n - 1 \in 0..N) \/ n = N + 1
    OBVIOUS
  <2>4. \A n \in 0..N : g[n] = f[n]
    OBVIOUS
  <2>5. g[N + 1] = v /\ (N + 1) - 1 = N /\ N \in 0..N /\ N + 1 # 0 /\ 0 \in 0..N
    OBVIOUS
  <2>6. g = [n \in 0..N + 1 |-> g[n]]
    OBVIOUS
  <2> HIDE DEF g, v
  <2>7. \A n \in 0..N + 1 : g[n] = e(n)
    <3>1. g[0] = e(0)
      BY <2>2, <2>4, <2>5
    <3>2. ASSUME NEW n \in 0..N, n # 0, n - 1 \in 0..N PROVE g[n] = e(n)
      BY <2>2, <2>4, <3>2
    <3>3. g[N + 1] = e(N + 1)
      BY <2>4, <2>5 DEF v
    <3>4. QED
      BY <2>3, <3>1, <3>2, <3>3
  <2> HIDE DEF e
  <2>8. g = [n \in 0..N + 1 |-> e(n)]
    BY <2>6, <2>7
  <2>9. IsNth(g, N + 1)
    BY <2>8 DEF e, IsNth
  <2>10. QED
    BY <2>9
<1> HIDE DEF S
<1>3. Nat \subseteq S
  BY <1>1, <1>2, SetInduction
<1>4. QED
  BY <1>3 DEF S

\* If the nodes of A follow each other from the head, and there are others, the last node of the
\* list is one of the others.
LEMMA LastIsOutside ==
    ASSUME RingInv, NEW A, A \subseteq in, in \ A # {}, \A y \in A : prv[y] \in A \cup {ListHead}
    PROVE  prv[ListHead] \in in \ A
<1>1. PICK y \in in \ A : nxt[y] \notin in \ A
  BY DEF RingInv, Connected
<1>2. nxt[y] \in Ring /\ prv[nxt[y]] = y /\ ListHead \notin in
  BY HeadAssumption DEF RingInv, Linked, Ring, ListTypeOK
<1>3. nxt[y] \notin A
  BY <1>1, <1>2
<1>4. nxt[y] = ListHead
  BY <1>1, <1>2, <1>3 DEF Ring
<1>5. QED
  BY <1>1, <1>2, <1>4

\* The nodes met so far are n of the list, and each is met behind the one before it.
MetSoFar(f, n) ==
    LET A == {f[j] : j \in 1..n} IN
    /\ A \subseteq in /\ Cardinality(A) = n /\ IsFiniteSet(A)
    /\ \A y \in A : prv[y] \in A \cup {ListHead}
    /\ f[n] \in A \cup {ListHead} /\ \A j \in 0..n - 1 : f[j] # f[n]

\* As many steps as there are nodes meet every node.
LEMMA AllAreMet ==
    ASSUME RingInv, IsFiniteSet(in), NEW f, IsNth(f, Cardinality(in))
    PROVE  {f[n] : n \in 1..Cardinality(in)} = in
<1> DEFINE N == Cardinality(in)
           S == {n \in Nat : n <= N => MetSoFar(f, n)}
<1>1. N \in Nat
  BY FS_CardinalityType
<1>2. \A n \in 0..N : f[n] = IF n = 0 THEN ListHead ELSE nxt[f[n - 1]]
  BY DEF IsNth
<1> HIDE DEF N
<1>3. f[0] = ListHead /\ \A n \in Nat : n + 1 <= N => f[n + 1] = nxt[f[n]]
  <2>1. 0 \in 0..N /\ \A n \in Nat : n + 1 <= N => n + 1 \in 0..N /\ n + 1 # 0 /\ (n + 1) - 1 = n
    BY <1>1
  <2>2. QED
    BY <1>2, <2>1
<1>4. 0 \in S
  <2>1. {f[j] : j \in 1..0} = {}
    OBVIOUS
  <2>2. Cardinality({}) = 0 /\ IsFiniteSet({})
    BY FS_EmptySet
  <2>3. MetSoFar(f, 0)
    BY <1>3, <2>1, <2>2 DEF MetSoFar
  <2>4. QED
    BY <2>3
<1>5. ASSUME NEW n \in Nat, n \in S PROVE n + 1 \in S
  <2> SUFFICES ASSUME n + 1 <= N PROVE MetSoFar(f, n + 1)
    OBVIOUS
  <2> DEFINE A == {f[j] : j \in 1..n}
             x == f[n + 1]
  <2>1. /\ A \subseteq in /\ Cardinality(A) = n /\ IsFiniteSet(A)
        /\ \A y \in A : prv[y] \in A \cup {ListHead}
        /\ f[n] \in A \cup {ListHead} /\ \A j \in 0..n - 1 : f[j] # f[n]
    BY <1>1, <1>5 DEF MetSoFar
  <2>2. x = nxt[f[n]] /\ ListHead \notin in
    BY <1>3, HeadAssumption DEF RingInv, ListTypeOK
  <2>3. in \ A # {}
    <3>1. Cardinality(A) # Cardinality(in)
      <4>1. Cardinality(A) # N
        <5> HIDE DEF A
        <5>1. QED
          BY <1>1, <2>1
      <4>2. QED
        BY <4>1 DEF N
    <3>2. QED
      BY <2>1, <3>1
  <2>4. prv[ListHead] \in in \ A
    <3> HIDE DEF A
    <3>1. QED
      BY <2>1, <2>3, LastIsOutside
  <2>5. f[n] \in Ring /\ x \in Ring /\ prv[x] = f[n]
    BY <2>1, <2>2 DEF RingInv, Linked, Ring
  <2>6. x # ListHead
    <3>1. SUFFICES ASSUME x = ListHead PROVE FALSE
      OBVIOUS
    <3>2. f[n] \in in \ A
      BY <2>4, <2>5, <3>1
    <3>3. QED
      BY <2>1, <2>2, <3>2
  <2>7. x \in in
    BY <2>5, <2>6 DEF Ring
  <2>8. ASSUME NEW j \in 0..n PROVE f[j] # x
    <3>1. CASE j = 0
      BY <1>3, <2>6, <3>1
    <3>2. CASE j # 0
      <4>1. j - 1 \in 0..n - 1 /\ (j - 1) + 1 = j /\ j - 1 \in Nat /\ j <= N /\ j \in 1..n
        BY <1>1, <3>2
      <4>2. f[j] = nxt[f[j - 1]]
        BY <1>3, <4>1
      <4>3. f[j - 1] \in Ring
        <5>1. CASE j - 1 = 0
          BY <1>3, <5>1 DEF Ring
        <5>2. CASE j - 1 # 0
          <6>1. j - 1 \in 1..n
            BY <4>1, <5>2
          <6>2. QED
            BY <2>1, <6>1 DEF Ring
        <5>3. QED
          BY <5>1, <5>2
      <4>4. prv[f[j]] = f[j - 1]
        BY <4>2, <4>3 DEF RingInv, Linked
      <4>5. QED
        BY <2>1, <2>5, <4>1, <4>4
    <3>3. QED
      BY <3>1, <3>2
  <2>9. {f[j] : j \in 1..n + 1} = A \cup {x} /\ x \notin A
    <3>1. \A j : j \in 1..n + 1 <=> j \in 1..n \/ j = n + 1
      OBVIOUS
    <3>2. \A j \in 1..n : j \in 0..n
      OBVIOUS
    <3>3. QED
      BY <2>8, <3>1, <3>2
  <2>10. Cardinality(A \cup {x}) = n + 1 /\ IsFiniteSet(A \cup {x})
    <3> HIDE DEF A
    <3>1. QED
      BY <2>1, <2>9, FS_AddElement
  <2>11. \A y \in A \cup {x} : prv[y] \in A \cup {x} \cup {ListHead}
    BY <2>1, <2>5
  <2>12. \A j \in 0..(n + 1) - 1 : f[j] # f[n + 1]
    BY <2>8
  <2> HIDE DEF A
  <2>13. QED
    BY <2>1, <2>7, <2>9, <2>10, <2>11, <2>12 DEF MetSoFar
<1>6. N \in S
  <2> HIDE DEF S
  <2>1. QED
    BY <1>1, <1>4, <1>5, SetInduction
<1> DEFINE All == {f[n] : n \in 1..N}
<1>7. All \subseteq in /\ Cardinality(All) = N
  BY <1>1, <1>6 DEF MetSoFar
<1>8. All = in
  <2> HIDE DEF All
  <2>1. QED
    BY <1>7, FS_Subset DEF N
<1>9. QED
  BY <1>8 DEF N

\* Nodes come one at a time.
LEMMA ListStaysFinite ==
    ASSUME RingInv, IsFiniteSet(in), [ListNext]_listVars
    PROVE  IsFiniteSet(in')
<1>1. ASSUME NEW x, in' = in \cup {x} PROVE IsFiniteSet(in')
  BY <1>1, FS_AddElement
<1>2. ASSUME in' \subseteq in PROVE IsFiniteSet(in')
  BY <1>2, FS_Subset
<1>3. (\E x : in' = in \cup {x}) \/ in' \subseteq in
  <2>1. ASSUME NEW x \in Data, Insert(x) PROVE in' = in \cup {x}
    BY <2>1 DEF Insert, Insert_User_Data_to_DList_Head, Insert_User_Data_to_DList_Tail,
                Link_Head, Link_Tail
  <2>2. ASSUME NEW x, Remove(x) PROVE in' \subseteq in
    BY <2>2 DEF Remove, Unlink
  <2>3. ASSUME NEW x \in Data, Remove_Data(x) PROVE in' \subseteq in
    BY <2>2, <2>3 DEF Remove_Data, Remove_from_DList_by_User_Data
  <2>4. ASSUME NEW S \in SUBSET Data, Remove_Checked(S) PROVE in' \subseteq in
    BY <2>2, <2>4 DEF Remove_Checked, Remove_from_DList_by_Check_Func
  <2>5. Remove_First \/ Release_All => in' \subseteq in
    BY <2>2 DEF Remove_First, Remove_from_DList_Head, Release_All, Release_All_User_Data
  <2>6. ASSUME (\E w \in Walkers : Start_Walk(w) \/ Continue_Walk(w) \/ Stop_Walk(w)) \/ UNCHANGED listVars
        PROVE  in' = in
    BY <2>6 DEF Start_Walk, Continue_Walk, Stop_Walk, Reset_DList_Iterator, Get_Next_User_Data, lvars, listVars
  <2>7. QED
    BY <2>1, <2>3, <2>4, <2>5, <2>6 DEF ListNext
<1>4. QED
  BY <1>1, <1>2, <1>3

\* The list is one ring through the head with nothing else on it: list_for_each_entry meets every
\* node in as many steps as there are nodes, however they were inserted and removed, for any
\* number of them (Insert_User_Data_to_DList_Head, ..._Tail, list_del_init).
THEOREM RingStaysWhole == ListSpec => []RingIsWhole
<1>1. ListInit => IsFiniteSet(in)
  BY FS_EmptySet DEF ListInit, Init_DList
<1>2. RingInv /\ IsFiniteSet(in) /\ [ListNext]_listVars => IsFiniteSet(in)'
  BY ListStaysFinite
<1>3. RingInv /\ IsFiniteSet(in) => RingIsWhole
  <2> SUFFICES ASSUME RingInv, IsFiniteSet(in)
               PROVE  {Nth[n] : n \in 1..Cardinality(in)} = in
    BY DEF RingInv, RingIsWhole
  <2>1. Cardinality(in) \in Nat
    BY FS_CardinalityType
  <2>2. \E f : IsNth(f, Cardinality(in))
    BY <2>1, NthExists
  <2>3. IsNth(Nth, Cardinality(in))
    BY <2>2 DEF IsNth, Nth
  <2>4. QED
    BY <2>3, AllAreMet
<1>4. QED
  BY <1>1, <1>2, <1>3, RingIsKept, PTL DEF ListSpec

-----------------------------------------------------------------------------
(* What is ahead of the iterator.                                           *)

\* A is what the iterator has still to meet: the nodes from it to the end, none if it stands
\* nowhere in the list.
IsAhead(A) ==
    /\ A \subseteq in
    /\ iter \in in => iter \in A
    /\ iter \notin in => A = {}
    /\ \A y \in A : nxt[y] \in A \cup {ListHead} /\ (prv[y] \in A <=> y # iter)

\* What a walk that has the iterator for itself was given, and has still to be given.
FitsWalk(r, A) ==
    /\ r.stayed \subseteq in /\ r.stayed \ r.seen \subseteq A
    /\ r.seen \cap A \subseteq r.again /\ r.repeated \subseteq r.again

ExactInv == \A w \in Walkers : walk[w].on /\ walk[w].alone => \E A : IsAhead(A) /\ FitsWalk(walk[w], A)

\* Nodes that follow each other to the end include the last one.
LEMMA EndOfAhead ==
    ASSUME RingInv, NEW A, IsAhead(A), A # {}
    PROVE  prv[ListHead] \in A
<1>1. PICK y \in A : nxt[y] \notin A
  BY DEF RingInv, Connected, IsAhead
<1>2. nxt[y] = ListHead /\ y \in Ring
  BY <1>1 DEF IsAhead, Ring
<1>3. QED
  BY <1>1, <1>2 DEF RingInv, Linked

\* A new node is ahead of the iterator, or it is not.
LEMMA InsertAhead ==
    ASSUME RingInv, NEW A, IsAhead(A), NEW x \in Data, x \notin in,
           Link_Head(x) \/ Link_Tail(x), iter' = iter, iter # x
    PROVE  \E B : IsAhead(B)' /\ A \subseteq B /\ B \subseteq A \cup {x}
<1>1. x \notin Ring /\ ListHead \notin Data /\ A \subseteq in /\ ListHead \notin A /\ x \notin A /\ in' = in \cup {x}
      /\ in \subseteq Data
  BY HeadAssumption DEF RingInv, ListTypeOK, IsAhead, Ring, Link_Head, Link_Tail
<1>2. \A y \in A : /\ y \in Data /\ nxt[y] \in Ring /\ prv[y] \in Ring
                   /\ prv[nxt[y]] = y /\ nxt[prv[y]] = y
  BY <1>1 DEF RingInv, Linked, Ring
<1>3. nxt[ListHead] \in Ring /\ prv[ListHead] \in Ring /\ prv[nxt[ListHead]] = ListHead /\ nxt[prv[ListHead]] = ListHead
  BY DEF RingInv, Linked, Ring
<1>4. CASE Link_Head(x)
  <2>1. \A y \in A : nxt'[y] = nxt[y]
    BY <1>1, <1>2, <1>4 DEF Link_Head, RingInv, ListTypeOK
  <2>2. \A y \in A : prv'[y] = IF y = nxt[ListHead] THEN x ELSE prv[y]
    BY <1>1, <1>2, <1>3, <1>4 DEF Link_Head, RingInv, ListTypeOK, Ring
  <2>3. \A y \in A : y = nxt[ListHead] => prv[y] = ListHead
    BY <1>3
  <2>4. IsAhead(A)'
    BY <1>1, <2>1, <2>2, <2>3 DEF IsAhead
  <2>5. QED
    BY <2>4
<1>5. CASE Link_Tail(x) /\ A = {}
  <2>1. IsAhead(A)'
    BY <1>1, <1>5 DEF IsAhead
  <2>2. QED
    BY <2>1
<1>6. CASE Link_Tail(x) /\ A # {}
  <2> DEFINE t == prv[ListHead]
  <2>1. t \in A /\ nxt[t] = ListHead
    BY <1>3, <1>6, EndOfAhead
  <2>2. \A y \in A : nxt'[y] = IF y = t THEN x ELSE nxt[y]
    BY <1>1, <1>2, <1>6, <2>1 DEF Link_Tail, RingInv, ListTypeOK
  <2>3. \A y \in A : prv'[y] = prv[y]
    BY <1>1, <1>2, <1>6 DEF Link_Tail, RingInv, ListTypeOK
  <2>4. nxt'[x] = ListHead /\ prv'[x] = t
    BY <1>1, <1>3, <1>6, <2>1 DEF Link_Tail, RingInv, ListTypeOK, Ring
  <2>5. \A y \in A : prv[y] # x
    BY <1>1, <1>2
  <2>6. iter \in A /\ iter \in in
    BY <1>6 DEF IsAhead
  <2> HIDE DEF t
  <2>7. IsAhead(A \cup {x})'
    BY <1>1, <2>1, <2>2, <2>3, <2>4, <2>5, <2>6 DEF IsAhead
  <2>8. QED
    BY <2>7
<1>7. QED
  BY <1>4, <1>5, <1>6

\* A node that is removed is no longer ahead, whether the iterator stood at it or not.
LEMMA RemoveAhead ==
    ASSUME RingInv, NEW A, IsAhead(A), NEW x \in in, Remove(x)
    PROVE  IsAhead(A \ {x})'
<1> DEFINE a == prv[x]
           b == nxt[x]
           B == A \ {x}
<1>1. /\ x \in Data /\ x \in Ring /\ x # ListHead /\ ListHead \notin in
      /\ a \in Ring /\ b \in Ring /\ nxt[a] = x /\ prv[b] = x
      /\ in \subseteq Data
  BY HeadAssumption DEF RingInv, ListTypeOK, Linked, Ring
<1>2. /\ nxt' = [nxt EXCEPT ![a] = b, ![x] = x]
      /\ prv' = [prv EXCEPT ![b] = a, ![x] = x]
      /\ in' = in \ {x}
      /\ iter' = IF iter = x THEN b ELSE iter
  BY DEF Remove, Unlink, Step_over
<1>3. a # x /\ b # x
  <2>1. PICK y \in {x} : nxt[y] \notin {x}
    BY DEF RingInv, Connected
  <2>2. QED
    BY <1>1, <2>1
<1>4. \A y \in B : /\ y \in Data /\ y \in Ring /\ nxt[y] \in Ring /\ prv[y] \in Ring
                   /\ prv[nxt[y]] = y /\ nxt[prv[y]] = y
                   /\ nxt'[y] = (IF y = a THEN b ELSE nxt[y])
                   /\ prv'[y] = (IF y = b THEN a ELSE prv[y])
  BY <1>1, <1>2 DEF RingInv, ListTypeOK, Linked, Ring, IsAhead
<1>5. B \subseteq in'
  BY <1>2 DEF IsAhead
<1>6. iter' \in in' => iter' \in B
  BY <1>1, <1>2, <1>3 DEF IsAhead
<1>7. \A y \in B : nxt'[y] \in B \cup {ListHead}
  <2>1. ASSUME NEW y \in B PROVE nxt'[y] \in B \cup {ListHead}
    <3>1. CASE y = a
      <4>1. nxt[y] = x /\ x \in A
        BY <1>1, <3>1 DEF IsAhead
      <4>2. b \in A \cup {ListHead}
        BY <4>1 DEF IsAhead
      <4>3. QED
        BY <1>3, <1>4, <3>1, <4>2
    <3>2. CASE y # a
      <4>1. nxt[y] # x /\ nxt[y] \in A \cup {ListHead}
        BY <1>4, <3>2 DEF IsAhead
      <4>2. QED
        BY <1>4, <3>2, <4>1
    <3>3. QED
      BY <3>1, <3>2
  <2>2. QED
    BY <2>1
<1>8. \A y \in B : prv'[y] \in B <=> y # iter'
  <2>1. ASSUME NEW y \in B PROVE prv'[y] \in B <=> y # iter'
    <3>1. prv[y] \in A <=> y # iter
      BY DEF IsAhead
    <3>2. CASE y = b
      <4>1. prv[y] = x /\ prv'[y] = a
        BY <1>1, <1>4, <3>2
      <4>2. CASE iter = x
        <5>1. iter' = b /\ x \in A
          BY <1>2, <4>2 DEF IsAhead
        <5>2. a \notin A
          BY <4>2, <5>1 DEF IsAhead
        <5>3. QED
          BY <3>2, <4>1, <5>1, <5>2
      <4>3. CASE iter # x
        <5>1. iter' = iter
          BY <1>2, <4>3
        <5>2. x \in A => a \in A
          BY <4>3 DEF IsAhead
        <5>3. x \notin A => a \notin A
          <6>1. a \in A => x \in A \cup {ListHead}
            BY <1>1 DEF IsAhead
          <6>2. QED
            BY <1>1, <6>1
        <5>4. QED
          BY <1>3, <3>1, <4>1, <5>1, <5>2, <5>3
      <4>4. QED
        BY <4>2, <4>3
    <3>3. CASE y # b
      <4>1. prv'[y] = prv[y] /\ prv[y] # x
        BY <1>4, <3>3
      <4>2. CASE iter = x
        BY <1>2, <3>1, <3>3, <4>1, <4>2
      <4>3. CASE iter # x
        BY <1>2, <3>1, <4>1, <4>3
      <4>4. QED
        BY <4>2, <4>3
    <3>4. QED
      BY <3>2, <3>3
  <2>2. QED
    BY <2>1
<1>9. iter' \notin in' => B = {}
  <2> SUFFICES ASSUME iter' \notin in', B # {} PROVE FALSE
    OBVIOUS
  <2>1. PICK y \in B : nxt[y] \notin B
    BY DEF RingInv, Connected, IsAhead
  <2>2. A # {} /\ iter \in in
    BY DEF IsAhead
  <2>3. iter = x /\ b = ListHead
    BY <1>1, <1>2, <1>3, <2>2 DEF Ring
  <2>4. nxt[y] = x \/ nxt[y] = ListHead
    BY <2>1 DEF IsAhead
  <2>5. nxt[y] # ListHead
    BY <1>1, <1>4, <2>3
  <2>6. y = a /\ x \in A
    BY <1>4, <2>2, <2>3, <2>4, <2>5 DEF IsAhead
  <2>7. QED
    BY <2>1, <2>3, <2>6 DEF IsAhead
<1>10. QED
  BY <1>5, <1>6, <1>7, <1>8, <1>9 DEF IsAhead

\* The node that was given is no longer ahead.
LEMMA StepAhead ==
    ASSUME RingInv, NEW A, IsAhead(A), iter \in in, iter' = nxt[iter], UNCHANGED <<in, nxt, prv>>,
           NEW B, B = A \ {iter}
    PROVE  IsAhead(B)'
<1>1. ListHead \notin in /\ A \subseteq in /\ iter \in A /\ prv[iter] \notin A
  BY HeadAssumption DEF RingInv, ListTypeOK, IsAhead
<1>2. \A y \in A : y \in Ring /\ prv[nxt[y]] = y /\ nxt[prv[y]] = y
  BY <1>1 DEF RingInv, Linked, Ring
<1>3. \A y \in B : nxt[y] \in B \cup {ListHead}
  <2>1. \A y \in B : nxt[y] # iter
    BY <1>1, <1>2
  <2>2. QED
    BY <2>1 DEF IsAhead
<1>4. \A y \in B : prv[y] \in B <=> y # iter'
  <2>1. \A y \in B : prv[y] \in A /\ (prv[y] = iter <=> y = nxt[iter])
    BY <1>1, <1>2 DEF IsAhead
  <2>2. QED
    BY <2>1
<1>5. nxt[iter] \in A \cup {ListHead} /\ nxt[iter] # iter
  <2>1. nxt[iter] = iter => prv[iter] = iter
    BY <1>1, <1>2
  <2>2. QED
    BY <1>1, <2>1 DEF IsAhead
<1>6. nxt[iter] \notin in => B = {}
  <2> SUFFICES ASSUME nxt[iter] \notin in, B # {} PROVE FALSE
    OBVIOUS
  <2>1. PICK y \in B : nxt[y] \notin B
    BY <1>1 DEF RingInv, Connected
  <2>2. nxt[y] = ListHead /\ nxt[iter] = ListHead
    BY <1>1, <1>3, <1>5, <2>1
  <2>3. QED
    BY <1>1, <1>2, <2>2
<1>7. B \subseteq in' /\ (iter' \in in' => iter' \in B) /\ (iter' \notin in' => B = {})
  BY <1>1, <1>5, <1>6
<1>8. \A y \in B : nxt'[y] \in B \cup {ListHead} /\ (prv'[y] \in B <=> y # iter')
  BY <1>3, <1>4
<1>9. QED
  BY <1>7, <1>8 DEF IsAhead

\* At its start everything is ahead.
LEMMA ResetAhead ==
    ASSUME RingInv, iter' = nxt[ListHead], UNCHANGED <<in, nxt, prv>>, NEW B, B = in
    PROVE  IsAhead(B)'
<1>1. ListHead \notin in /\ nxt[ListHead] \in Ring /\ prv[nxt[ListHead]] = ListHead
  BY HeadAssumption DEF RingInv, ListTypeOK, Linked, Ring
<1>2. in # {} => nxt[ListHead] \in in
  <2> SUFFICES ASSUME in # {} PROVE nxt[ListHead] # ListHead
    BY <1>1 DEF Ring
  <2>1. PICK y \in in : nxt[y] \notin in
    BY DEF RingInv, Connected
  <2>2. nxt[y] = ListHead /\ prv[ListHead] = y
    BY <2>1 DEF RingInv, Linked, Ring
  <2>3. QED
    BY <1>1, <2>1, <2>2
<1>3. \A y \in in : nxt[y] \in in \cup {ListHead} /\ prv[y] \in in \cup {ListHead} /\ nxt[prv[y]] = y
  BY DEF RingInv, Linked, Ring
<1>4. \A y \in in : prv[y] \in in <=> y # nxt[ListHead]
  BY <1>1, <1>3
<1>5. QED
  BY <1>2, <1>3, <1>4 DEF IsAhead

-----------------------------------------------------------------------------
(* The walks.                                                               *)

\* A walker's record.
WalkType == [on : BOOLEAN, seen : SUBSET Data, stayed : SUBSET Data, alone : BOOLEAN,
             again : SUBSET Data, repeated : SUBSET Data]

\* What a change of the list does to the walk of w.
LEMMA Disturbed ==
    ASSUME walk \in [Walkers -> WalkType], NEW gone, NEW back, DisturbWalks(gone, back), NEW w \in Walkers
    PROVE  /\ walk'[w].on = walk[w].on /\ walk'[w].alone = walk[w].alone
           /\ walk'[w].seen = walk[w].seen /\ walk'[w].repeated = walk[w].repeated
           /\ walk[w].on => /\ walk'[w].stayed = walk[w].stayed \ gone
                            /\ walk'[w].again = walk[w].again \cup back
<1>1. walk[w] \in WalkType
  OBVIOUS
<1>2. walk'[w] = IF walk[w].on THEN [walk[w] EXCEPT !.stayed = @ \ gone, !.again = @ \cup back]
                 ELSE walk[w]
  BY DEF DisturbWalks
<1>3. QED
  BY <1>1, <1>2 DEF WalkType

\* It is enough to say what is ahead of the iterator after the change.
LEMMA DisturbKeeps ==
    ASSUME ExactInv, walk \in [Walkers -> WalkType], NEW gone, NEW back, DisturbWalks(gone, back),
           in \ gone \subseteq in',
           \A A : IsAhead(A) => \E B : /\ IsAhead(B)' /\ B \subseteq A \cup back
                                     /\ A \ gone \subseteq B
    PROVE  ExactInv'
<1> SUFFICES ASSUME NEW w \in Walkers, walk'[w].on, walk'[w].alone
             PROVE  \E B : IsAhead(B)' /\ FitsWalk(walk[w], B)'
  BY DEF ExactInv
<1>1. /\ walk[w].on /\ walk[w].alone
      /\ walk'[w].seen = walk[w].seen /\ walk'[w].repeated = walk[w].repeated
      /\ walk'[w].stayed = walk[w].stayed \ gone /\ walk'[w].again = walk[w].again \cup back
  BY Disturbed
<1>2. PICK A : IsAhead(A) /\ FitsWalk(walk[w], A)
  BY <1>1 DEF ExactInv
<1>3. PICK B : IsAhead(B)' /\ B \subseteq A \cup back /\ A \ gone \subseteq B
  BY <1>2
<1>4. FitsWalk(walk[w], B)'
  BY <1>1, <1>2, <1>3 DEF FitsWalk
<1>5. QED
  BY <1>3, <1>4

LEMMA InsertKeepsExact ==
    ASSUME RingInv, IteratorIsValid, ExactInv, walk \in [Walkers -> WalkType], NEW x \in Data, Insert(x)
    PROVE  ExactInv'
<1>1. /\ x \notin in /\ iter' = iter
      /\ Link_Head(x) \/ Link_Tail(x)
      /\ DisturbWalks({}, {x}) /\ in' = in \cup {x}
  BY DEF Insert, Insert_User_Data_to_DList_Head, Insert_User_Data_to_DList_Tail, Link_Head, Link_Tail
<1>2. iter # x
  <2>1. x \notin in /\ x # ListHead /\ x # "freed"
    BY <1>1, HeadAssumption
  <2>2. iter \in in \/ iter = ListHead \/ iter = "freed"
    BY DEF IteratorIsValid, Ring
  <2>3. QED
    BY <2>1, <2>2
<1>3. ASSUME NEW A, IsAhead(A) PROVE \E B : IsAhead(B)' /\ B \subseteq A \cup {x} /\ A \ {} \subseteq B
  <2>1. \E B : IsAhead(B)' /\ A \subseteq B /\ B \subseteq A \cup {x}
    BY <1>1, <1>2, <1>3, InsertAhead
  <2>2. QED
    BY <2>1
<1>4. in \ {} \subseteq in' /\ DisturbWalks({}, {x})
  BY <1>1 DEF Insert
<1>5. QED
  BY <1>3, <1>4, DisturbKeeps

LEMMA RemoveKeepsExact ==
    ASSUME RingInv, ExactInv, walk \in [Walkers -> WalkType], NEW x \in in, Remove(x), DisturbWalks({x}, {})
    PROVE  ExactInv'
<1>1. in \ {x} \subseteq in'
  BY DEF Remove, Unlink
<1>2. ASSUME NEW A, IsAhead(A) PROVE \E B : IsAhead(B)' /\ B \subseteq A \cup {} /\ A \ {x} \subseteq B
  BY <1>2, RemoveAhead
<1>3. QED
  BY <1>1, <1>2, DisturbKeeps

LEMMA StepKeepsExact ==
    ASSUME RingInv, IteratorIsValid, ExactInv, walk \in [Walkers -> WalkType], [ListNext]_listVars
    PROVE  ExactInv'
<1>1. ASSUME NEW x \in Data, Insert(x) PROVE ExactInv'
  BY <1>1, InsertKeepsExact
<1>2. ASSUME NEW x \in Data, Remove_Data(x) PROVE ExactInv'
  <2>1. CASE x \in in
    BY <1>2, <2>1, RemoveKeepsExact DEF Remove_Data, Remove_from_DList_by_User_Data
  <2>2. CASE x \notin in
    <3>1. /\ iter' = (IF iter = ListHead THEN nxt[ListHead] ELSE iter)
          /\ UNCHANGED <<in, nxt, prv>> /\ DisturbWalks({}, IF iter = ListHead THEN in ELSE {})
      BY <1>2, <2>2 DEF Remove_Data, Remove_from_DList_by_User_Data
    <3>2. CASE iter = ListHead
      \* The iterator is sent back from the end: everything is ahead again.
      <4>1. ASSUME NEW B, B = in PROVE IsAhead(B)'
        BY <3>1, <3>2, <4>1, ResetAhead
      <4>2. ASSUME NEW A, IsAhead(A)
            PROVE  \E B : IsAhead(B)' /\ B \subseteq A \cup in /\ A \ {} \subseteq B
        <5>1. in \subseteq A \cup in /\ A \subseteq in
          BY <4>2 DEF IsAhead
        <5>2. QED
          BY <4>1, <5>1
      <4>3. in \ {} \subseteq in' /\ DisturbWalks({}, in)
        BY <3>1, <3>2
      <4>4. QED
        BY <4>2, <4>3, DisturbKeeps
    <3>3. CASE iter # ListHead
      <4>1. ASSUME NEW A, IsAhead(A)
            PROVE  \E B : IsAhead(B)' /\ B \subseteq A \cup {} /\ A \ {} \subseteq B
        BY <3>1, <3>3, <4>1 DEF IsAhead
      <4>2. in \ {} \subseteq in' /\ DisturbWalks({}, {})
        BY <3>1, <3>3
      <4>3. QED
        BY <4>1, <4>2, DisturbKeeps
    <3>4. QED
      BY <3>2, <3>3
  <2>3. QED
    BY <2>1, <2>2
<1>3. ASSUME NEW S \in SUBSET Data, Remove_Checked(S) PROVE ExactInv'
  BY <1>3, RemoveKeepsExact DEF Remove_Checked, Remove_from_DList_by_Check_Func
<1>4. ASSUME Remove_First PROVE ExactInv'
  <2>1. in # {} /\ Remove(nxt[ListHead]) /\ DisturbWalks({nxt[ListHead]}, {})
    BY <1>4 DEF Remove_First, Remove_from_DList_Head
  <2>2. nxt[ListHead] \in in
    <3>1. PICK y \in in : nxt[y] \notin in
      BY <2>1 DEF RingInv, Connected
    <3>2. nxt[y] = ListHead /\ prv[ListHead] = y /\ ListHead \notin in
      BY <3>1, HeadAssumption DEF RingInv, ListTypeOK, Linked, Ring
    <3>3. QED
      BY <3>1, <3>2 DEF RingInv, Linked, Ring
  <2>3. QED
    BY <2>1, <2>2, RemoveKeepsExact
<1>5. ASSUME Release_All PROVE ExactInv'
  <2>1. in' = {} /\ DisturbWalks(in, {})
    BY <1>5 DEF Release_All, Release_All_User_Data
  <2>2. IsAhead({})'
    BY <2>1 DEF IsAhead
  <2>3. ASSUME NEW A, IsAhead(A)
        PROVE  \E B : IsAhead(B)' /\ B \subseteq A \cup {} /\ A \ in \subseteq B
    <3>1. {} \subseteq A \cup {} /\ A \ in \subseteq {}
      BY <2>3 DEF IsAhead
    <3>2. QED
      BY <2>2, <3>1
  <2>4. in \ in \subseteq in'
    OBVIOUS
  <2>5. QED
    BY <2>1, <2>3, <2>4, DisturbKeeps
<1>6. ASSUME NEW w \in Walkers, Start_Walk(w) PROVE ExactInv'
  <2>1. iter' = nxt[ListHead] /\ UNCHANGED <<in, nxt, prv>>
    BY <1>6 DEF Start_Walk, Reset_DList_Iterator
  <2>2. ASSUME NEW B, B = in PROVE IsAhead(B)'
    BY <2>1, <2>2, ResetAhead
  <2>3. ASSUME NEW v \in Walkers, walk'[v].alone
        PROVE  v = w /\ walk'[v].seen = {} /\ walk'[v].stayed = in /\ walk'[v].repeated = {}
    BY <1>6, <2>3 DEF Start_Walk, Resting, WalkType
  <2>4. QED
    BY <2>1, <2>2, <2>3 DEF ExactInv, FitsWalk
<1>7. ASSUME NEW w \in Walkers, Continue_Walk(w) PROVE ExactInv'
  <2>1. iter \in in /\ iter' = nxt[iter] /\ UNCHANGED <<in, nxt, prv>> /\ walk[w].on
    BY <1>7 DEF Continue_Walk, Get_Next_User_Data, Advance
  <2>2. ASSUME NEW v \in Walkers, walk'[v].alone
        PROVE  /\ v = w /\ walk[v].alone
               /\ walk'[v].seen = walk[v].seen \cup {iter}
               /\ walk'[v].repeated = walk[v].repeated \cup ({iter} \cap walk[v].seen)
               /\ walk'[v].stayed = walk[v].stayed /\ walk'[v].again = walk[v].again
    <3>1. walk[v] \in WalkType
      OBVIOUS
    <3>2. QED
      BY <1>7, <2>2, <3>1 DEF Continue_Walk, WalkType
  <2>3. ASSUME walk'[w].alone PROVE \E B : IsAhead(B)' /\ FitsWalk(walk[w], B)'
    <3>1. PICK A : IsAhead(A) /\ FitsWalk(walk[w], A)
      BY <2>1, <2>2, <2>3 DEF ExactInv
    <3>2. PICK B : B = A \ {iter}
      OBVIOUS
    <3>3. IsAhead(B)' /\ iter \in A
      BY <2>1, <3>1, <3>2, StepAhead DEF IsAhead
    <3>4. /\ walk'[w].seen = walk[w].seen \cup {iter}
          /\ walk'[w].repeated = walk[w].repeated \cup ({iter} \cap walk[w].seen)
          /\ walk'[w].stayed = walk[w].stayed /\ walk'[w].again = walk[w].again
      BY <2>2, <2>3
    <3>5. FitsWalk(walk[w], B)'
      <4>1. walk'[w].repeated \subseteq walk'[w].again
        BY <3>1, <3>3, <3>4 DEF FitsWalk
      <4>2. walk'[w].stayed \subseteq in' /\ walk'[w].stayed \ walk'[w].seen \subseteq B
        BY <2>1, <3>1, <3>2, <3>4 DEF FitsWalk
      <4>3. walk'[w].seen \cap B \subseteq walk'[w].again
        BY <3>1, <3>2, <3>4 DEF FitsWalk
      <4>4. QED
        BY <4>1, <4>2, <4>3 DEF FitsWalk
    <3>6. QED
      BY <3>3, <3>5
  <2>4. QED
    BY <2>2, <2>3 DEF ExactInv
<1>8. ASSUME NEW w \in Walkers, Stop_Walk(w) PROVE ExactInv'
  <2>1. UNCHANGED <<in, nxt, prv, iter>>
    BY <1>8 DEF Stop_Walk, lvars
  <2>2. \A v \in Walkers : walk'[v].on => walk'[v] = walk[v]
    BY <1>8 DEF Stop_Walk, Resting
  <2>3. QED
    BY <2>1, <2>2 DEF ExactInv, IsAhead, FitsWalk
<1>9. CASE UNCHANGED listVars
  BY <1>9 DEF listVars, lvars, ExactInv, IsAhead, FitsWalk
<1>10. QED
  BY <1>1, <1>2, <1>3, <1>4, <1>5, <1>6, <1>7, <1>8, <1>9 DEF ListNext

\* A walker that has the iterator for itself is given everything that stays in the list, and
\* nothing twice, by the time it is given NULL, whatever is inserted and removed under it, except
\* what was inserted again or what a Remove_from_DList_by_User_Data that found nothing brought
\* back (Get_Next_User_Data, Reset_DList_Iterator).
THEOREM WalksAreExact == ListSpec => []WalkIsExact
<1>1. ListInit => ExactInv
  BY DEF ListInit, ExactInv, Resting
<1>2. RingInv /\ IteratorIsValid /\ WalkTypeOK /\ ExactInv /\ [ListNext]_listVars => ExactInv'
  BY StepKeepsExact DEF WalkTypeOK, WalkType
<1>3. RingInv /\ ExactInv => WalkIsExact
  <2>1. RingInv => ListHead \notin in
    BY HeadAssumption DEF RingInv, ListTypeOK
  <2>2. QED
    BY <2>1 DEF ExactInv, WalkIsExact, AtEnd, IsAhead, FitsWalk
<1>4. QED
  BY <1>1, <1>2, <1>3, RingIsKept, WalkTypeCorrect, PTL DEF ListSpec

-----------------------------------------------------------------------------
(* THE LOGICAL BLOCK LIST.                                                  *)

-----------------------------------------------------------------------------
(* Lists in the order of their LBIDs.                                       *)

Members(l) == {l[k] : k \in DOMAIN l}
Ascending(l) == \A j, k \in DOMAIN l : j < k => l[j] < l[k]
IsList(l) == l \in Seq(Blocks) /\ Ascending(l)

\* What is known of the entries of a list.
LEMMA ListType ==
    ASSUME NEW l, IsList(l)
    PROVE  /\ l \in Seq(Blocks) /\ DOMAIN l = 1..Len(l) /\ Len(l) \in Nat
           /\ \A k \in 1..Len(l) : l[k] \in Blocks /\ l[k] \in Nat
           /\ \A j, k \in 1..Len(l) : j < k => l[j] < l[k]
           /\ Members(l) = {l[k] : k \in 1..Len(l)}
<1>1. l \in Seq(Blocks)
  BY DEF IsList
<1>2. DOMAIN l = 1..Len(l) /\ Len(l) \in Nat /\ \A k \in 1..Len(l) : l[k] \in Blocks
  BY <1>1
<1>3. \A b \in Blocks : b \in Nat
  BY BlocksAssumption
<1>4. QED
  BY <1>1, <1>2, <1>3 DEF IsList, Ascending, Members

\* The elements of a list that is put together from two parts.
LEMMA Parts ==
    ASSUME NEW l \in Seq(Blocks), NEW m \in Seq(Blocks)
    PROVE  /\ l \o m \in Seq(Blocks) /\ Len(l \o m) = Len(l) + Len(m)
           /\ \A k \in 1..Len(l) : (l \o m)[k] = l[k]
           /\ \A k \in 1..Len(m) : (l \o m)[Len(l) + k] = m[k]
           /\ \A k \in 1..Len(l \o m) : k \in 1..Len(l) \/ k - Len(l) \in 1..Len(m)
           /\ Members(l \o m) = Members(l) \cup Members(m)
<1>1. l \o m \in Seq(Blocks) /\ Len(l \o m) = Len(l) + Len(m) /\ Len(l) \in Nat /\ Len(m) \in Nat
  OBVIOUS
<1>2. DOMAIN l = 1..Len(l) /\ DOMAIN m = 1..Len(m) /\ DOMAIN (l \o m) = 1..Len(l \o m)
  BY <1>1
<1>3. \A k \in 1..Len(l) : (l \o m)[k] = l[k]
  OBVIOUS
<1>4. \A k \in 1..Len(m) : (l \o m)[Len(l) + k] = m[k]
  OBVIOUS
<1>5. \A k \in 1..Len(l \o m) : k \in 1..Len(l) \/ k - Len(l) \in 1..Len(m)
  BY <1>1
<1>6. Members(l \o m) \subseteq Members(l) \cup Members(m)
  <2>1. ASSUME NEW k \in 1..Len(l \o m) PROVE (l \o m)[k] \in Members(l) \cup Members(m)
    <3>1. CASE k \in 1..Len(l)
      BY <1>2, <1>3, <3>1 DEF Members
    <3>2. CASE k - Len(l) \in 1..Len(m)
      <4>1. k = Len(l) + (k - Len(l))
        BY <1>1
      <4>2. (l \o m)[k] = m[k - Len(l)]
        BY <1>4, <3>2, <4>1
      <4>3. QED
        BY <1>2, <3>2, <4>2 DEF Members
    <3>3. QED
      BY <1>5, <3>1, <3>2
  <2>2. QED
    BY <1>2, <2>1 DEF Members
<1>7. Members(l) \cup Members(m) \subseteq Members(l \o m)
  <2>1. \A k \in 1..Len(l) : l[k] \in Members(l \o m)
    BY <1>1, <1>2, <1>3 DEF Members
  <2>2. \A k \in 1..Len(m) : m[k] \in Members(l \o m)
    <3>1. \A k \in 1..Len(m) : Len(l) + k \in 1..Len(l \o m)
      BY <1>1
    <3>2. QED
      BY <1>2, <1>4, <3>1 DEF Members
  <2>3. QED
    BY <1>2, <2>1, <2>2 DEF Members
<1>8. QED
  BY <1>1, <1>3, <1>4, <1>5, <1>6, <1>7

\* A list whose parts are in order, the first before the second, is in order.
LEMMA Joined ==
    ASSUME NEW l, NEW m, IsList(l), IsList(m),
           \A j \in DOMAIN l, k \in DOMAIN m : l[j] < m[k]
    PROVE  IsList(l \o m)
<1>1. l \in Seq(Blocks) /\ m \in Seq(Blocks) /\ DOMAIN l = 1..Len(l) /\ DOMAIN m = 1..Len(m)
      /\ Len(l) \in Nat /\ Len(m) \in Nat
  BY DEF IsList
<1> DEFINE c == l \o m
<1>2. /\ c \in Seq(Blocks) /\ Len(c) = Len(l) + Len(m)
      /\ \A k \in 1..Len(l) : c[k] = l[k]
      /\ \A k \in 1..Len(m) : c[Len(l) + k] = m[k]
      /\ \A k \in 1..Len(c) : k \in 1..Len(l) \/ k - Len(l) \in 1..Len(m)
  BY <1>1, Parts
<1> HIDE DEF c
<1>3. \A k \in 1..Len(c) : k - Len(l) \in 1..Len(m) => c[k] = m[k - Len(l)]
  <2>1. \A k \in 1..Len(c) : k = Len(l) + (k - Len(l))
    BY <1>1
  <2>2. QED
    BY <1>2, <2>1
<1>4. ASSUME NEW j \in 1..Len(c), NEW k \in 1..Len(c), j < k PROVE c[j] < c[k]
  <2>1. CASE j \in 1..Len(l) /\ k \in 1..Len(l)
    BY <1>1, <1>2, <1>4, <2>1 DEF IsList, Ascending
  <2>2. CASE j \in 1..Len(l) /\ k - Len(l) \in 1..Len(m)
    BY <1>1, <1>2, <1>3, <2>2
  <2>3. CASE j - Len(l) \in 1..Len(m) /\ k - Len(l) \in 1..Len(m)
    <3>1. j - Len(l) < k - Len(l)
      BY <1>1, <1>4
    <3>2. QED
      BY <1>1, <1>3, <2>3, <3>1 DEF IsList, Ascending
  <2>4. ~(j - Len(l) \in 1..Len(m) /\ k \in 1..Len(l))
    BY <1>1, <1>4
  <2>5. QED
    BY <1>2, <2>1, <2>2, <2>3, <2>4
<1>5. QED
  BY <1>2, <1>4 DEF IsList, Ascending, c

\* A list from one position to another.
LEMMA Cut ==
    ASSUME NEW l, IsList(l), NEW a \in 1..Len(l) + 1, NEW b \in 0..Len(l), b >= a - 1
    PROVE  /\ IsList(SubSeq(l, a, b)) /\ Len(SubSeq(l, a, b)) = b - a + 1
           /\ \A k \in 1..b - a + 1 : SubSeq(l, a, b)[k] = l[a + k - 1]
           /\ Members(SubSeq(l, a, b)) = {l[k] : k \in a..b}
<1>1. l \in Seq(Blocks) /\ DOMAIN l = 1..Len(l) /\ Len(l) \in Nat
  BY DEF IsList
<1> DEFINE c == SubSeq(l, a, b)
           n == b - a + 1
<1>2. n \in Nat /\ a \in Nat /\ b \in Nat /\ \A k \in 1..n : a + k - 1 \in 1..Len(l) /\ a + k - 1 \in a..b
  BY <1>1
<1>3. c \in Seq(Blocks) /\ Len(c) = n /\ \A k \in 1..n : c[k] = l[a + k - 1]
  <2>1. \A k \in a..b : k \in 1..Len(l) /\ l[k] \in Blocks
    BY <1>1, <1>2
  <2>2. a \in Int /\ b \in Int /\ (IF a <= b THEN b - a + 1 ELSE 0) = n
    BY <1>2
  <2>3. QED
    BY <2>1, <2>2, SubSeqProperties
<1> HIDE DEF c
<1>4. DOMAIN c = 1..n
  BY <1>3
<1>5. Ascending(c)
  <2>1. ASSUME NEW j \in 1..n, NEW k \in 1..n, j < k PROVE c[j] < c[k]
    <3>1. a + j - 1 < a + k - 1
      BY <1>2, <2>1
    <3>2. QED
      BY <1>1, <1>2, <1>3, <3>1 DEF IsList, Ascending
  <2>2. QED
    BY <1>4, <2>1 DEF Ascending
<1>6. Members(c) = {l[k] : k \in a..b}
  <2>1. \A k \in a..b : k - a + 1 \in 1..n /\ a + (k - a + 1) - 1 = k
    BY <1>2
  <2> HIDE DEF n
  <2>2. \A k \in a..b : l[k] \in Members(c)
    BY <1>3, <1>4, <2>1 DEF Members
  <2>3. QED
    BY <1>2, <1>3, <1>4, <2>2 DEF Members
<1>7. QED
  BY <1>3, <1>5, <1>6 DEF IsList, c

\* A list that has no element, and one that has one.
LEMMA Short ==
    /\ IsList(<<>>) /\ Members(<<>>) = {}
    /\ \A b \in Blocks : IsList(<<b>>) /\ Members(<<b>>) = {b} /\ Len(<<b>>) = 1 /\ DOMAIN <<b>> = {1}
<1>1. <<>> \in Seq(Blocks) /\ DOMAIN <<>> = {}
  OBVIOUS
<1>2. ASSUME NEW b \in Blocks
      PROVE  <<b>> \in Seq(Blocks) /\ Len(<<b>>) = 1 /\ DOMAIN <<b>> = {1} /\ <<b>>[1] = b
  <2>1. DOMAIN <<b>> = 1..1
    OBVIOUS
  <2>2. QED
    BY <2>1
<1>3. \A b \in Blocks : IsList(<<b>>) /\ Members(<<b>>) = {b}
  BY <1>2 DEF IsList, Ascending, Members
<1>4. QED
  BY <1>1, <1>2, <1>3 DEF IsList, Ascending, Members

-----------------------------------------------------------------------------
(* What the operations on a list do.                                        *)

\* A new block takes its place.
LEMMA Inserted ==
    ASSUME NEW l, IsList(l), NEW b \in Blocks
    PROVE  LET new == Add_to_LogicalBlock_List_by_Insertion_Sort(l, b)
           IN  IsList(new) /\ Members(new) = Members(l) \cup {b}
<1> DEFINE Fits(p) == /\ p = 0 \/ l[p] <= b
                      /\ \A q \in p + 1..Len(l) : l[q] > b
           pos == CHOOSE p \in 0..Len(l) : Fits(p)
           T == {p \in 0..Len(l) : \A q \in p + 1..Len(l) : l[q] > b}
<1>1. /\ l \in Seq(Blocks) /\ DOMAIN l = 1..Len(l) /\ Len(l) \in Nat /\ b \in Nat
      /\ \A k \in 1..Len(l) : l[k] \in Nat /\ l[k] \in Blocks
  BY BlocksAssumption, ListType
<1>2. PICK x \in T : \A y \in T : x <= y
  <2>1. Len(l) \in T
    BY <1>1
  <2>2. T \subseteq Nat
    BY <1>1
  <2>3. QED
    BY <2>1, <2>2, LeastNumber
<1>3. x \in 0..Len(l) /\ Fits(x)
  <2>1. CASE x # 0 /\ l[x] > b
    <3>1. x - 1 \in 0..Len(l) /\ \A q \in (x - 1) + 1..Len(l) : q = x \/ q \in x + 1..Len(l)
      BY <1>1, <1>2, <2>1
    <3>2. x - 1 \in T
      BY <1>2, <2>1, <3>1
    <3>3. FALSE
      <4>1. x \in Nat
        BY <1>1, <1>2
      <4> HIDE DEF T
      <4>2. x <= x - 1
        BY <1>2, <3>2
      <4>3. QED
        BY <4>1, <4>2
    <3>4. QED
      BY <3>3
  <2>2. QED
    BY <1>1, <1>2, <2>1
<1>4. pos \in 0..Len(l) /\ Fits(pos)
  BY <1>3
<1> DEFINE front == SubSeq(l, 1, pos)
           back == Behind(l, pos)
<1>5. Add_to_LogicalBlock_List_by_Insertion_Sort(l, b) =
        IF pos > 0 /\ l[pos] = b THEN l ELSE front \o <<b>> \o back
  BY DEF Add_to_LogicalBlock_List_by_Insertion_Sort
<1> HIDE DEF pos
<1>6. CASE pos > 0 /\ l[pos] = b
  <2>1. pos \in DOMAIN l
    BY <1>1, <1>4, <1>6
  <2>2. b \in Members(l)
    BY <1>6, <2>1 DEF Members
  <2>3. QED
    BY <1>5, <1>6, <2>2
<1>7. CASE ~(pos > 0 /\ l[pos] = b)
  <2>1. /\ IsList(front) /\ Len(front) = pos /\ Members(front) = {l[k] : k \in 1..pos}
        /\ \A k \in 1..pos : front[k] = l[k]
    <3>1. 1 \in 1..Len(l) + 1 /\ pos \in 0..Len(l) /\ pos >= 1 - 1 /\ pos - 1 + 1 = pos
          /\ \A k \in 1..pos : 1 + k - 1 = k
      BY <1>1, <1>4
    <3>2. /\ IsList(front) /\ Len(front) = pos - 1 + 1 /\ Members(front) = {l[k] : k \in 1..pos}
          /\ \A k \in 1..pos - 1 + 1 : front[k] = l[1 + k - 1]
      BY <3>1, Cut
    <3>3. QED
      BY <3>1, <3>2
  <2>2. /\ IsList(back) /\ Len(back) = Len(l) - pos /\ Members(back) = {l[k] : k \in pos + 1..Len(l)}
        /\ \A k \in 1..Len(l) - pos : back[k] = l[pos + k]
    <3>1. pos + 1 \in 1..Len(l) + 1 /\ Len(l) \in 0..Len(l) /\ Len(l) >= (pos + 1) - 1
          /\ Len(l) - (pos + 1) + 1 = Len(l) - pos /\ \A k \in 1..Len(l) - pos : (pos + 1) + k - 1 = pos + k
      BY <1>1, <1>4
    <3>2. /\ IsList(back) /\ Len(back) = Len(l) - (pos + 1) + 1
          /\ Members(back) = {l[k] : k \in pos + 1..Len(l)}
          /\ \A k \in 1..Len(l) - (pos + 1) + 1 : back[k] = l[(pos + 1) + k - 1]
      <4> DEFINE e == Len(l)
                 p == pos + 1
      <4>1. p \in 1..Len(l) + 1 /\ e \in 0..Len(l) /\ e >= p - 1
        BY <3>1
      <4>2. back = SubSeq(l, p, e)
        BY DEF Behind
      <4> HIDE DEF p, e
      <4>3. /\ IsList(SubSeq(l, p, e)) /\ Len(SubSeq(l, p, e)) = e - p + 1
            /\ Members(SubSeq(l, p, e)) = {l[k] : k \in p..e}
            /\ \A k \in 1..e - p + 1 : SubSeq(l, p, e)[k] = l[p + k - 1]
        BY <4>1, Cut
      <4>4. QED
        BY <4>2, <4>3 DEF p, e
    <3>3. QED
      BY <3>1, <3>2
  <2> HIDE DEF front, back
  <2>3. \A k \in 1..pos : l[k] < b
    <3>1. \A k \in 1..pos : k \in 1..Len(l) /\ (k = pos \/ k < pos) /\ pos \in 1..Len(l)
      BY <1>1, <1>4
    <3>2. pos > 0 => l[pos] < b
      BY <1>1, <1>4, <1>7
    <3>3. \A k \in 1..pos : k = pos \/ l[k] < l[pos]
      BY <1>1, <3>1 DEF IsList, Ascending
    <3>4. QED
      BY <1>1, <1>4, <3>1, <3>2, <3>3
  <2>4. IsList(front \o <<b>>) /\ Members(front \o <<b>>) = Members(front) \cup {b}
    <3>1. DOMAIN front = 1..pos
      BY <1>1, <1>4, <2>1 DEF IsList
    <3>2. \A j \in DOMAIN front, k \in DOMAIN <<b>> : front[j] < <<b>>[k]
      BY <2>1, <2>3, <3>1, Short
    <3>3. IsList(front) /\ IsList(<<b>>) /\ front \in Seq(Blocks) /\ <<b>> \in Seq(Blocks) /\ Members(<<b>>) = {b}
      BY <2>1, Short DEF IsList
    <3>4. IsList(front \o <<b>>)
      BY <3>2, <3>3, Joined
    <3>5. Members(front \o <<b>>) = Members(front) \cup Members(<<b>>)
      BY <3>3, Parts
    <3>6. QED
      BY <3>3, <3>4, <3>5
  <2>5. \A j \in DOMAIN (front \o <<b>>), k \in DOMAIN back : (front \o <<b>>)[j] < back[k]
    <3>1. \A j \in DOMAIN (front \o <<b>>) : (front \o <<b>>)[j] \in Nat /\ (front \o <<b>>)[j] <= b
      <4>1. \A j \in DOMAIN (front \o <<b>>) : (front \o <<b>>)[j] \in Members(front) \cup {b}
        BY <2>4 DEF Members
      <4>2. \A m \in Members(front) \cup {b} : m \in Nat /\ m <= b
        BY <1>1, <1>4, <2>1, <2>3
      <4>3. QED
        BY <4>1, <4>2
    <3>2. \A k \in DOMAIN back : back[k] \in Nat /\ back[k] > b
      <4>1. DOMAIN back = 1..Len(l) - pos
        BY <1>1, <1>4, <2>2 DEF IsList
      <4>2. \A k \in 1..Len(l) - pos : pos + k \in 1..Len(l) /\ pos + k \in pos + 1..Len(l)
        BY <1>1, <1>4
      <4>3. QED
        BY <1>1, <1>4, <2>2, <4>1, <4>2
    <3>3. QED
      BY <1>1, <3>1, <3>2
  <2>6. IsList(front \o <<b>> \o back)
    BY <2>2, <2>4, <2>5, Joined
  <2>7. Members(front \o <<b>> \o back) = Members(front) \cup {b} \cup Members(back)
    BY <2>2, <2>4, Parts DEF IsList
  <2>8. Members(front) \cup Members(back) = Members(l)
    <3>1. \A k \in 1..Len(l) : k \in 1..pos \/ k \in pos + 1..Len(l)
      BY <1>1, <1>4
    <3>2. \A k : k \in 1..pos \/ k \in pos + 1..Len(l) => k \in 1..Len(l)
      BY <1>1, <1>4
    <3>3. QED
      BY <1>1, <2>1, <2>2, <3>1, <3>2 DEF Members
  <2>9. QED
    BY <1>5, <1>7, <2>6, <2>7, <2>8
<1>8. QED
  BY <1>6, <1>7

\* Where a block of the list is.
LEMMA PositionOf ==
    ASSUME NEW l, IsList(l), NEW b \in Members(l)
    PROVE  Position(l, b) \in 1..Len(l) /\ l[Position(l, b)] = b
<1>1. \E k \in DOMAIN l : l[k] = b
  BY DEF Members
<1>2. DOMAIN l = 1..Len(l)
  BY DEF IsList
<1>3. QED
  BY <1>1, <1>2 DEF Position

\* A block that is taken out is gone, and no other.
LEMMA Removed ==
    ASSUME NEW l, IsList(l), NEW b \in Members(l)
    PROVE  IsList(Without(l, b)) /\ Members(Without(l, b)) = Members(l) \ {b}
<1> DEFINE pos == Position(l, b)
           front == SubSeq(l, 1, pos - 1)
           back == Behind(l, pos)
<1>1. /\ l \in Seq(Blocks) /\ DOMAIN l = 1..Len(l) /\ Len(l) \in Nat
      /\ \A k \in 1..Len(l) : l[k] \in Nat
  BY ListType
<1>2. pos \in 1..Len(l) /\ l[pos] = b
  BY PositionOf
<1> HIDE DEF pos
<1>3. /\ IsList(front) /\ Len(front) = pos - 1 /\ Members(front) = {l[k] : k \in 1..pos - 1}
      /\ \A k \in 1..pos - 1 : front[k] = l[k]
  <2>1. 1 \in 1..Len(l) + 1 /\ pos - 1 \in 0..Len(l) /\ pos - 1 >= 1 - 1 /\ (pos - 1) - 1 + 1 = pos - 1
        /\ \A k \in 1..pos - 1 : 1 + k - 1 = k
    BY <1>1, <1>2
  <2>2. QED
    BY <2>1, Cut
<1>4. /\ IsList(back) /\ Len(back) = Len(l) - pos /\ Members(back) = {l[k] : k \in pos + 1..Len(l)}
      /\ \A k \in 1..Len(l) - pos : back[k] = l[pos + k]
  <2>1. pos + 1 \in 1..Len(l) + 1 /\ Len(l) \in 0..Len(l) /\ Len(l) >= (pos + 1) - 1
        /\ Len(l) - (pos + 1) + 1 = Len(l) - pos /\ \A k \in 1..Len(l) - pos : (pos + 1) + k - 1 = pos + k
    BY <1>1, <1>2
  <2>2. QED
    BY <2>1, Cut DEF Behind
<1> HIDE DEF front, back
<1>5. \A j \in DOMAIN front, k \in DOMAIN back : front[j] < back[k]
  <2>1. DOMAIN front = 1..pos - 1 /\ DOMAIN back = 1..Len(l) - pos
    BY <1>1, <1>2, <1>3, <1>4 DEF IsList
  <2>2. \A j \in 1..pos - 1, k \in 1..Len(l) - pos :
           j \in 1..Len(l) /\ pos + k \in 1..Len(l) /\ j < pos + k
    BY <1>1, <1>2
  <2>3. \A j \in 1..pos - 1, k \in 1..Len(l) - pos : l[j] < l[pos + k]
    BY <1>1, <2>2 DEF IsList, Ascending
  <2>4. QED
    BY <1>3, <1>4, <2>1, <2>3
<1>6. IsList(front \o back) /\ Members(front \o back) = Members(front) \cup Members(back)
  BY <1>3, <1>4, <1>5, Joined, Parts DEF IsList
<1>7. Members(front) \cup Members(back) = Members(l) \ {b}
  <2>1. \A k \in 1..Len(l) : k = pos \/ k \in 1..pos - 1 \/ k \in pos + 1..Len(l)
    BY <1>1, <1>2
  <2>2. \A k : k \in 1..pos - 1 \/ k \in pos + 1..Len(l) => k \in 1..Len(l) /\ (k < pos \/ pos < k)
    BY <1>1, <1>2
  <2>3. \A k \in 1..Len(l) : k < pos \/ pos < k => l[k] # b
    BY <1>1, <1>2 DEF IsList, Ascending
  <2>4. Members(l) = {l[k] : k \in 1..Len(l)}
    BY ListType
  <2>5. \A x \in Members(l) \ {b} : x \in Members(front) \cup Members(back)
    <3>1. ASSUME NEW k \in 1..Len(l), l[k] # b PROVE l[k] \in Members(front) \cup Members(back)
      BY <1>2, <1>3, <1>4, <2>1, <3>1
    <3>2. QED
      BY <2>4, <3>1
  <2>6. \A x \in Members(front) \cup Members(back) : x \in Members(l) \ {b}
    BY <1>3, <1>4, <2>2, <2>3, <2>4
  <2>7. QED
    BY <2>5, <2>6
<1>8. QED
  BY <1>6, <1>7 DEF Without, pos, front, back

\* The first entry is the least, or the head.
LEMMA FirstIsLeast ==
    ASSUME NEW l, IsList(l)
    PROVE  /\ Members(l) = {} => First(l) = AtHead
           /\ Members(l) # {} => First(l) \in Members(l)
           /\ \A b \in Members(l) : First(l) <= b
<1>1. /\ l \in Seq(Blocks) /\ DOMAIN l = 1..Len(l) /\ Len(l) \in Nat
      /\ \A k \in 1..Len(l) : l[k] \in Nat
  BY ListType
<1>2. CASE l = <<>>
  BY <1>2, Short DEF First
<1>3. CASE l # <<>>
  <2>1. 1 \in DOMAIN l /\ First(l) = l[1]
    BY <1>1, <1>3 DEF First
  <2>2. \A k \in DOMAIN l : k = 1 \/ l[1] < l[k]
    BY <1>1, <2>1 DEF IsList, Ascending
  <2>3. Members(l) = {l[k] : k \in DOMAIN l} /\ l[1] \in Members(l) /\ l[1] \in Nat
    BY <1>1, <2>1 DEF Members
  <2>4. \A k \in DOMAIN l : l[1] <= l[k]
    BY <1>1, <2>2, <2>3
  <2>5. QED
    BY <2>1, <2>3, <2>4
<1>4. QED
  BY <1>2, <1>3

-----------------------------------------------------------------------------
(* A range that is committed.                                               *)

\* The recursions of Commit_LB_List_by_Range, up to the n-th block ...
IsCount(i, blocks, slbid, nr_lbids, n) ==
    i = [k \in 0..n |-> IF k = 0 THEN 0 ELSE Step(i[k - 1], blocks[k], slbid, nr_lbids)]
IsRest(rest, i, blocks, n) ==
    rest = [k \in 0..n |->
            IF k = 0 THEN <<>>
            ELSE IF i[k] = i[k - 1] THEN Append(rest[k - 1], blocks[k]) ELSE rest[k - 1]]

\* ... and what they compute.
CountOf(blocks, slbid, nr_lbids) ==
    LET i[k \in 0..Len(blocks)] == IF k = 0 THEN 0 ELSE Step(i[k - 1], blocks[k], slbid, nr_lbids)
    IN i
RestOf(i, blocks) ==
    LET rest[k \in 0..Len(blocks)] ==
            IF k = 0 THEN <<>>
            ELSE IF i[k] = i[k - 1] THEN Append(rest[k - 1], blocks[k]) ELSE rest[k - 1]
    IN rest[Len(blocks)]

\* Both have a solution.
LEMMA Counted ==
    ASSUME NEW l, NEW a, NEW m
    PROVE  \A n \in Nat : \E f : IsCount(f, l, a, m, n)
<1> DEFINE S == {n \in Nat : \E f : IsCount(f, l, a, m, n)}
<1>1. 0 \in S
  <2> DEFINE f == [k \in 0..0 |-> 0]
  <2>1. f = [k \in 0..0 |-> IF k = 0 THEN 0 ELSE Step(f[k - 1], l[k], a, m)]
    OBVIOUS
  <2> HIDE DEF f
  <2>2. IsCount(f, l, a, m, 0)
    BY <2>1 DEF IsCount
  <2>3. QED
    BY <2>2
<1>2. ASSUME NEW n \in Nat, n \in S PROVE n + 1 \in S
  <2>1. PICK f : IsCount(f, l, a, m, n)
    BY <1>2
  <2> DEFINE v == Step(f[n], l[n + 1], a, m)
             g == [k \in 0..n + 1 |-> IF k = n + 1 THEN v ELSE f[k]]
             e(k) == IF k = 0 THEN 0 ELSE Step(g[k - 1], l[k], a, m)
             d(k) == IF k = 0 THEN 0 ELSE Step(f[k - 1], l[k], a, m)
  <2>2. \A k \in 0..n : f[k] = d(k)
    BY <2>1 DEF IsCount
  <2>3. \A k \in 0..n + 1 : k = 0 \/ (k \in 1..n /\ k \in 0..n /\ k - 1 \in 0..n) \/ k = n + 1
    OBVIOUS
  <2>4. \A k \in 0..n : g[k] = f[k]
    OBVIOUS
  <2>5. g[n + 1] = v /\ (n + 1) - 1 = n /\ n \in 0..n /\ n + 1 # 0 /\ 0 \in 0..n
    OBVIOUS
  <2>6. g = [k \in 0..n + 1 |-> g[k]]
    OBVIOUS
  <2> HIDE DEF g, v
  <2>7. \A k \in 0..n + 1 : g[k] = e(k)
    <3>1. g[0] = e(0)
      BY <2>2, <2>4, <2>5
    <3>2. ASSUME NEW k \in 0..n, k # 0, k - 1 \in 0..n PROVE g[k] = e(k)
      BY <2>2, <2>4, <3>2
    <3>3. g[n + 1] = e(n + 1)
      BY <2>4, <2>5 DEF v
    <3>4. QED
      BY <2>3, <3>1, <3>2, <3>3
  <2> HIDE DEF e
  <2>8. g = [k \in 0..n + 1 |-> e(k)]
    BY <2>6, <2>7
  <2>9. IsCount(g, l, a, m, n + 1)
    BY <2>8 DEF e, IsCount
  <2>10. QED
    BY <2>9
<1> HIDE DEF S
<1>3. Nat \subseteq S
  BY <1>1, <1>2, SetInduction
<1>4. QED
  BY <1>3 DEF S

LEMMA Kept ==
    ASSUME NEW l, NEW i
    PROVE  \A n \in Nat : \E f : IsRest(f, i, l, n)
<1> DEFINE S == {n \in Nat : \E f : IsRest(f, i, l, n)}
<1>1. 0 \in S
  <2> DEFINE f == [k \in 0..0 |-> <<>>]
  <2>1. f = [k \in 0..0 |-> IF k = 0 THEN <<>>
                             ELSE IF i[k] = i[k - 1] THEN Append(f[k - 1], l[k]) ELSE f[k - 1]]
    OBVIOUS
  <2> HIDE DEF f
  <2>2. IsRest(f, i, l, 0)
    BY <2>1 DEF IsRest
  <2>3. QED
    BY <2>2
<1>2. ASSUME NEW n \in Nat, n \in S PROVE n + 1 \in S
  <2>1. PICK f : IsRest(f, i, l, n)
    BY <1>2
  <2> DEFINE v == IF i[n + 1] = i[n] THEN Append(f[n], l[n + 1]) ELSE f[n]
             g == [k \in 0..n + 1 |-> IF k = n + 1 THEN v ELSE f[k]]
             e(k) == IF k = 0 THEN <<>>
                     ELSE IF i[k] = i[k - 1] THEN Append(g[k - 1], l[k]) ELSE g[k - 1]
             d(k) == IF k = 0 THEN <<>>
                     ELSE IF i[k] = i[k - 1] THEN Append(f[k - 1], l[k]) ELSE f[k - 1]
  <2>2. \A k \in 0..n : f[k] = d(k)
    BY <2>1 DEF IsRest
  <2>3. \A k \in 0..n + 1 : k = 0 \/ (k \in 1..n /\ k \in 0..n /\ k - 1 \in 0..n) \/ k = n + 1
    OBVIOUS
  <2>4. \A k \in 0..n : g[k] = f[k]
    OBVIOUS
  <2>5. g[n + 1] = v /\ (n + 1) - 1 = n /\ n \in 0..n /\ n + 1 # 0 /\ 0 \in 0..n
    OBVIOUS
  <2>6. g = [k \in 0..n + 1 |-> g[k]]
    OBVIOUS
  <2> HIDE DEF g, v
  <2>7. \A k \in 0..n + 1 : g[k] = e(k)
    <3>1. g[0] = e(0)
      BY <2>2, <2>4, <2>5
    <3>2. ASSUME NEW k \in 0..n, k # 0, k - 1 \in 0..n PROVE g[k] = e(k)
      BY <2>2, <2>4, <3>2
    <3>3. g[n + 1] = e(n + 1)
      BY <2>4, <2>5 DEF v
    <3>4. QED
      BY <2>3, <3>1, <3>2, <3>3
  <2> HIDE DEF e
  <2>8. g = [k \in 0..n + 1 |-> e(k)]
    BY <2>6, <2>7
  <2>9. IsRest(g, i, l, n + 1)
    BY <2>8 DEF e, IsRest
  <2>10. QED
    BY <2>9
<1> HIDE DEF S
<1>3. Nat \subseteq S
  BY <1>1, <1>2, SetInduction
<1>4. QED
  BY <1>3 DEF S

\* What remains is a list of blocks that were there.
LEMMA Committed ==
    ASSUME NEW l, IsList(l), NEW a, NEW m
    PROVE  /\ IsList(Commit_LB_List_by_Range(l, a, m))
           /\ Members(Commit_LB_List_by_Range(l, a, m)) \subseteq Members(l)
<1> DEFINE i == CountOf(l, a, m)
           n == Len(l)
<1>1. /\ l \in Seq(Blocks) /\ n \in Nat
      /\ \A k \in 1..n : l[k] \in Blocks /\ l[k] \in Nat
      /\ \A j, k \in 1..n : j < k => l[j] < l[k]
      /\ Members(l) = {l[k] : k \in 1..n}
  BY ListType
<1>2. Commit_LB_List_by_Range(l, a, m) = RestOf(i, l)
  BY DEF Commit_LB_List_by_Range, CountOf, RestOf
<1> HIDE DEF i
<1>3. PICK rest : IsRest(rest, i, l, n) /\ RestOf(i, l) = rest[n]
  <2>1. \E f : IsRest(f, i, l, n)
    BY <1>1, Kept
  <2>2. QED
    BY <2>1 DEF RestOf, IsRest
<1>4. \A k \in 0..n : rest[k] = IF k = 0 THEN <<>>
                                 ELSE IF i[k] = i[k - 1] THEN Append(rest[k - 1], l[k]) ELSE rest[k - 1]
  BY <1>3 DEF IsRest
<1> DEFINE Seen(k) == {l[j] : j \in 1..k}
           S == {k \in Nat : k <= n => IsList(rest[k]) /\ Members(rest[k]) \subseteq Seen(k)}
<1> HIDE DEF n
<1>5. 0 \in S
  <2>1. rest[0] = <<>>
    BY <1>1, <1>4
  <2>2. QED
    BY <2>1, Short
<1>6. ASSUME NEW k \in Nat, k \in S PROVE k + 1 \in S
  <2> SUFFICES ASSUME k + 1 <= n
               PROVE  IsList(rest[k + 1]) /\ Members(rest[k + 1]) \subseteq Seen(k + 1)
    OBVIOUS
  <2>1. k + 1 \in 0..n /\ k + 1 \in 1..n /\ (k + 1) - 1 = k /\ k + 1 # 0 /\ k <= n
    BY <1>1
  <2>2. rest[k + 1] = rest[k] \/ rest[k + 1] = Append(rest[k], l[k + 1])
    BY <1>4, <2>1
  <2>3. IsList(rest[k]) /\ Members(rest[k]) \subseteq Seen(k)
    BY <1>6, <2>1
  <2>4. Seen(k) \subseteq Seen(k + 1) /\ l[k + 1] \in Seen(k + 1)
    OBVIOUS
  <2>5. CASE rest[k + 1] = Append(rest[k], l[k + 1])
    <3> DEFINE r == rest[k]
               b == l[k + 1]
    <3>1. b \in Blocks /\ b \in Nat /\ IsList(r) /\ Members(r) \subseteq Seen(k)
      BY <1>1, <2>1, <2>3
    <3>2. \A x \in Seen(k) : x < b
      BY <1>1, <2>1
    <3> HIDE DEF r, b
    <3>3. IsList(<<b>>) /\ Members(<<b>>) = {b} /\ DOMAIN <<b>> = {1} /\ <<b>>[1] = b
      BY <3>1, Short
    <3>4. r \in Seq(Blocks) /\ <<b>> \in Seq(Blocks)
      BY <3>1, <3>3 DEF IsList
    <3>5. Append(r, b) = r \o <<b>>
      BY <3>1, <3>4
    <3>6. \A j \in DOMAIN r, q \in DOMAIN <<b>> : r[j] < <<b>>[q]
      <4>1. \A j \in DOMAIN r : r[j] \in Members(r)
        BY DEF Members
      <4>2. QED
        BY <3>1, <3>2, <3>3, <4>1
    <3>7. IsList(r \o <<b>>)
      BY <3>1, <3>3, <3>6, Joined
    <3>8. Members(r \o <<b>>) = Members(r) \cup {b}
      <4>1. Members(r \o <<b>>) = Members(r) \cup Members(<<b>>)
        BY <3>4, Parts
      <4>2. QED
        BY <3>3, <4>1
    <3>9. QED
      BY <2>4, <2>5, <3>1, <3>5, <3>7, <3>8 DEF r, b
  <2>6. QED
    BY <2>2, <2>3, <2>4, <2>5
<1>7. Nat \subseteq S
  <2> HIDE DEF S
  <2>1. QED
    BY <1>5, <1>6, SetInduction
<1>8. IsList(rest[n]) /\ Members(rest[n]) \subseteq Seen(n)
  <2>1. n \in S
    <3> HIDE DEF S
    <3>1. QED
      BY <1>1, <1>7
  <2>2. n <= n
    BY <1>1
  <2>3. QED
    BY <2>1, <2>2
<1>9. QED
  BY <1>1, <1>2, <1>3, <1>8

-----------------------------------------------------------------------------
(* The inductive invariant.                                                 *)

Wants(x) == x.slbid..x.slbid + x.nr - 1

XmitType ==
    [pc : {"idle", "get", "use"}, cur : Blocks \cup {Null, AtHead}, slbid : Nat, nr : Nat,
     i : Nat \cup {-1}]

TypeOK ==
    /\ alive \in BOOLEAN
    /\ freed \subseteq Blocks
    /\ taken \in [Takers -> Blocks \cup {Null}]
    /\ walking \in BOOLEAN
    /\ xmit \in [Senders -> XmitType]
    /\ missed \in [Senders -> SUBSET Nat]
    /\ disturbed \subseteq Senders \cup {Walker}

Gone == freed \cup Loose

\* What a walk under which nothing was removed stands on.
WalkIsOn == (walking /\ Walker \notin disturbed) => alive /\ next_node \in On \cup {AtHead}

\* What such a sender remembers ...
StandsOn(x) ==
    x.pc # "idle" => /\ alive
                     /\ x.cur \in On \cup {Null, AtHead}
                     /\ x.pc = "use" => x.cur \in On

\* ... and any sender: every block of its tag was in the list, and while the next one still
\* is, the search does not start behind it.
Finds(x) ==
    x.pc # "idle" =>
        /\ Wants(x) \subseteq On \cup Gone
        /\ x.i < x.nr /\ x.nr > 0
        /\ Wanted(x) \in On => (x.cur \in Blocks => x.cur <= Wanted(x)) /\ x.cur # AtHead
        /\ x.pc = "use" => x.cur = Wanted(x) /\ x.i # -1

WalkInv ==
    /\ TypeOK
    /\ IsList(list)
    /\ On \cap Gone = {}
    /\ WalkIsOn
    /\ \A s \in Senders : (s \notin disturbed => StandsOn(xmit[s])) /\ Finds(xmit[s])
    /\ FaultNeedsRemoval
    /\ MissedIsGone

\* A record has the fields of its type.
LEMMA XmitFields ==
    ASSUME NEW x \in XmitType
    PROVE  /\ x.pc \in {"idle", "get", "use"} /\ x.cur \in Blocks \cup {Null, AtHead}
           /\ x.slbid \in Nat /\ x.nr \in Nat /\ x.i \in Nat \cup {-1}
BY DEF XmitType

\* The next block of a tag is one of its blocks.
LEMMA WantedIsWanted ==
    ASSUME NEW x \in XmitType, x.i < x.nr, x.nr > 0
    PROVE  Wanted(x) \in Wants(x) /\ Wanted(x) \in Nat
<1>1. x.slbid \in Nat /\ x.nr \in Nat /\ x.i \in Nat \cup {-1}
  BY XmitFields
<1>2. CASE x.i = -1
  BY <1>1, <1>2 DEF Wanted, Wants
<1>3. CASE x.i # -1
  BY <1>1, <1>3 DEF Wanted, Wants
<1>4. QED
  BY <1>2, <1>3

LEMMA InitWalk == Init => WalkInv
<1> SUFFICES ASSUME Init PROVE WalkInv
  OBVIOUS
<1>1. list = <<>> /\ On = {}
  <2>1. list = <<>>
    BY DEF Init, Create_LogicalBlock_List
  <2>2. Members(list) = {}
    BY <2>1, Short
  <2>3. QED
    BY <2>1, <2>2 DEF On, Members
<1>2. Idle \in XmitType /\ Idle.pc = "idle"
  BY DEF Idle, XmitType
<1>3. \A s \in Senders : xmit[s] = Idle
  BY DEF Init
<1>4. TypeOK
  BY <1>2 DEF Init, TypeOK
<1>5. IsList(list)
  BY <1>1, Short
<1>6. WalkIsOn /\ FaultNeedsRemoval /\ MissedIsGone
  BY DEF Init, WalkIsOn, FaultNeedsRemoval, MissedIsGone
<1>7. \A s \in Senders : StandsOn(xmit[s]) /\ Finds(xmit[s])
  BY <1>2, <1>3 DEF StandsOn, Finds
<1>8. QED
  BY <1>1, <1>4, <1>5, <1>6, <1>7 DEF WalkInv

-----------------------------------------------------------------------------
(* Steps that change the list.                                              *)

\* A block that left the list is gone, none that is gone comes back, and what is removed
\* disturbs every reader.
Changes ==
    /\ UNCHANGED readers
    /\ Gone \subseteq Gone' /\ On \subseteq On' \cup Gone' /\ On' \cap Gone' = {}
    /\ \/ alive' = alive /\ On \subseteq On' /\ disturbed' = disturbed
       \/ disturbed' = disturbed \cup Active

LEMMA ChangesKeep ==
    ASSUME WalkInv, Changes, TypeOK', IsList(list')
    PROVE  WalkInv'
<1>1. next_node' = next_node /\ walking' = walking /\ xmit' = xmit /\ missed' = missed /\ faulted' = faulted
  BY DEF Changes, readers
<1>2. disturbed \subseteq disturbed'
  BY DEF Changes
<1>3. WalkIsOn'
  <2> SUFFICES ASSUME walking, Walker \notin disturbed'
               PROVE  alive' /\ next_node \in On' \cup {AtHead}
    BY <1>1 DEF WalkIsOn
  <2>1. Walker \in Active /\ Walker \notin disturbed
    BY <1>2 DEF Active
  <2>2. alive' = alive /\ On \subseteq On'
    BY <2>1 DEF Changes
  <2>3. QED
    BY <2>1, <2>2 DEF WalkInv, WalkIsOn
<1>4. ASSUME NEW s \in Senders, s \notin disturbed' PROVE StandsOn(xmit[s])'
  <2> SUFFICES ASSUME xmit[s].pc # "idle" PROVE StandsOn(xmit[s])'
    BY <1>1 DEF StandsOn
  <2>1. s \in Active /\ s \notin disturbed
    BY <1>2, <1>4 DEF Active
  <2>2. alive' = alive /\ On \subseteq On'
    BY <1>4, <2>1 DEF Changes
  <2>3. StandsOn(xmit[s])
    BY <2>1 DEF WalkInv
  <2>4. QED
    BY <1>1, <2>2, <2>3 DEF StandsOn
<1>5. ASSUME NEW s \in Senders PROVE Finds(xmit[s])'
  <2> SUFFICES ASSUME xmit[s].pc # "idle" PROVE Finds(xmit[s])'
    BY <1>1 DEF Finds
  <2> DEFINE x == xmit[s]
  <2>1. x \in XmitType /\ Finds(x) /\ x.pc # "idle" /\ xmit'[s] = x
    BY <1>1 DEF WalkInv, TypeOK
  <2> HIDE DEF x
  <2>2. Wants(x) \subseteq On \cup Gone /\ x.i < x.nr /\ x.nr > 0
    BY <2>1 DEF Finds
  <2>3. Wanted(x) \in On \cup Gone
    BY <2>1, <2>2, WantedIsWanted
  <2>4. Wanted(x) \in On' => Wanted(x) \in On
    BY <2>3 DEF Changes
  <2>5. Wants(x) \subseteq On' \cup Gone'
    BY <2>2 DEF Changes
  <2>6. QED
    BY <2>1, <2>2, <2>4, <2>5 DEF Finds
<1>6. FaultNeedsRemoval'
  BY <1>1, <1>2 DEF FaultNeedsRemoval, WalkInv
<1>7. MissedIsGone'
  BY <1>1 DEF MissedIsGone, WalkInv, Changes, Gone
<1>8. QED
  BY <1>3, <1>4, <1>5, <1>6, <1>7 DEF WalkInv, Changes

\* The blocks of the list are blocks.
LEMMA OnIsMembers ==
    /\ On = Members(list) /\ On' = Members(list')
    /\ IsList(list) => On \subseteq Blocks
<1>1. On = Members(list) /\ On' = Members(list')
  BY DEF On, Members
<1>2. IsList(list) => \A k \in 1..Len(list) : list[k] \in Blocks
  BY ListType
<1>3. QED
  BY <1>1, <1>2, ListType

\* Negative values name no block.
LEMMA Negative == Null \notin Blocks /\ AtHead \notin Blocks /\ Poison \notin Blocks
BY BlocksAssumption DEF Null, AtHead, Poison

LEMMA ActiveType == TypeOK => Active \subseteq Senders \cup {Walker}
BY DEF Active

LEMMA AddKeeps ==
    ASSUME WalkInv, NEW b \in Blocks, Add(b)
    PROVE  WalkInv'
<1>1. IsList(list') /\ Members(list') = Members(list) \cup {b}
  BY Inserted DEF WalkInv, Add
<1>2. On' = On \cup {b} /\ b \notin Gone
  BY <1>1, OnIsMembers DEF Add, Gone
<1>3. Gone' = Gone
  BY DEF Add, Gone, Loose
<1>4. TypeOK'
  BY DEF Add, TypeOK, WalkInv, readers
<1>5. Changes
  BY <1>2, <1>3 DEF Changes, Add, WalkInv
<1>6. QED
  BY <1>1, <1>4, <1>5, ChangesKeep

LEMMA CommitKeeps ==
    ASSUME WalkInv, NEW b \in Blocks, NEW n, Commit(b, n)
    PROVE  WalkInv'
<1>1. IsList(list') /\ Members(list') \subseteq Members(list)
  BY Committed DEF WalkInv, Commit
<1>2. On' \subseteq On /\ On \subseteq Blocks
  BY <1>1, OnIsMembers DEF WalkInv
<1>3. freed' = freed \cup (On \ On')
  BY DEF Commit, On
<1>4. Gone' = Gone \cup (On \ On')
  BY <1>3 DEF Commit, Gone, Loose
<1>5. TypeOK'
  BY <1>2, <1>3, ActiveType DEF Commit, TypeOK, WalkInv, readers, Disturb
<1>6. Changes
  BY <1>2, <1>4 DEF Changes, Commit, WalkInv, Disturb
<1>7. QED
  BY <1>1, <1>5, <1>6, ChangesKeep

LEMMA RemoveKeeps ==
    ASSUME WalkInv, NEW r \in Takers, NEW b \in Blocks, Remove_from_LogicalBlock_List_by_LBID(r, b)
    PROVE  WalkInv'
<1>1. IsList(list') /\ Members(list') = Members(list) \ {b}
  BY Removed, OnIsMembers DEF WalkInv, Remove_from_LogicalBlock_List_by_LBID
<1>2. On' = On \ {b}
  BY <1>1, OnIsMembers
<1>3. TypeOK'
  BY ActiveType DEF Remove_from_LogicalBlock_List_by_LBID, TypeOK, WalkInv, readers, Disturb
<1>4. taken \in [Takers -> Blocks \cup {Null}] /\ taken[r] = Null /\ taken' = [taken EXCEPT ![r] = b]
  BY DEF WalkInv, TypeOK, Remove_from_LogicalBlock_List_by_LBID
<1>5. Loose' = Loose \cup {b}
  <2>1. taken'[r] = b /\ \A o \in Takers \ {r} : taken'[o] = taken[o]
    BY <1>4
  <2>2. QED
    BY <1>4, <2>1, Negative DEF Loose
<1>6. Gone' = Gone \cup {b}
  BY <1>5 DEF Gone, Remove_from_LogicalBlock_List_by_LBID
<1>7. Changes
  BY <1>2, <1>6 DEF Changes, Remove_from_LogicalBlock_List_by_LBID, WalkInv, Disturb
<1>8. QED
  BY <1>1, <1>3, <1>7, ChangesKeep

LEMMA FreeKeeps ==
    ASSUME WalkInv, NEW r \in Takers, Release_LogicalBlock_MetaData(r)
    PROVE  WalkInv'
<1>1. taken \in [Takers -> Blocks \cup {Null}] /\ taken[r] \in Blocks /\ taken' = [taken EXCEPT ![r] = Null]
  BY DEF WalkInv, TypeOK, Release_LogicalBlock_MetaData
<1>2. freed' = freed \cup {taken[r]} /\ list' = list
  BY DEF Release_LogicalBlock_MetaData
<1>3. TypeOK'
  BY <1>1, ActiveType DEF Release_LogicalBlock_MetaData, TypeOK, WalkInv, readers, Disturb
<1>4. Gone' = Gone
  <2>1. taken'[r] = Null /\ \A o \in Takers \ {r} : taken'[o] = taken[o]
    BY <1>1
  <2>2. Loose' \cup {taken[r]} = Loose
    BY <1>1, <2>1, Negative DEF Loose
  <2>3. QED
    BY <1>2, <2>2 DEF Gone
<1>5. On' = On
  BY <1>2 DEF On
<1>6. Changes
  BY <1>4, <1>5 DEF Changes, Release_LogicalBlock_MetaData, WalkInv, Disturb
<1>7. IsList(list')
  BY <1>2 DEF WalkInv
<1>8. QED
  BY <1>3, <1>6, <1>7, ChangesKeep

LEMMA ReleaseKeeps ==
    ASSUME WalkInv, Release_LogicalBlock_List
    PROVE  WalkInv'
<1>1. IsList(list') /\ On' = {} /\ On \subseteq Blocks
  <2>1. list' = <<>>
    BY DEF Release_LogicalBlock_List
  <2>2. QED
    BY <2>1, Short, OnIsMembers DEF WalkInv
<1>2. Gone' = Gone \cup On
  BY DEF Release_LogicalBlock_List, Gone, Loose
<1>3. TypeOK'
  BY <1>1, ActiveType DEF Release_LogicalBlock_List, TypeOK, WalkInv, readers, Disturb
<1>4. Changes
  BY <1>1, <1>2 DEF Changes, Release_LogicalBlock_List, WalkInv, Disturb
<1>5. QED
  BY <1>1, <1>3, <1>4, ChangesKeep

-----------------------------------------------------------------------------
(* Steps of the iterator.                                                   *)

\* The list stays, and so do the senders.
LEMMA WalkKeeps ==
    ASSUME WalkInv, UNCHANGED <<list, alive, freed, taken, xmit, missed>>,
           walking' \in BOOLEAN, disturbed' \subseteq disturbed, disturbed \subseteq disturbed' \cup {Walker},
           FaultNeedsRemoval',
           walking' /\ Walker \notin disturbed' => alive /\ next_node' \in On \cup {AtHead}
    PROVE  WalkInv'
<1>1. On' = On /\ Gone' = Gone
  BY DEF On, Gone, Loose
<1>2. TypeOK'
  BY DEF WalkInv, TypeOK
<1>3. WalkIsOn'
  BY <1>1 DEF WalkIsOn
<1>4. ASSUME NEW s \in Senders
      PROVE  (s \notin disturbed' => StandsOn(xmit[s])') /\ Finds(xmit[s])'
  <2>1. s # Walker
    BY ReadersAssumption
  <2>2. s \notin disturbed' => StandsOn(xmit[s])
    BY <2>1 DEF WalkInv
  <2>3. Finds(xmit[s])
    BY DEF WalkInv
  <2>4. QED
    BY <1>1, <2>2, <2>3 DEF StandsOn, Finds
<1>5. MissedIsGone'
  BY <1>1 DEF MissedIsGone, WalkInv, Gone
<1>6. QED
  BY <1>1, <1>2, <1>3, <1>4, <1>5 DEF WalkInv

\* The iterator starts on the list ...
LEMMA FirstIsOn ==
    ASSUME IsList(list)
    PROVE  First(list) \in On \cup {AtHead}
BY FirstIsLeast, OnIsMembers

LEMMA ResetKeeps == ASSUME WalkInv, Reset_LB_List_Iterator PROVE WalkInv'
<1>1. next_node' \in On \cup {AtHead} /\ alive
  BY FirstIsOn DEF WalkInv, Reset_LB_List_Iterator
<1>2. FaultNeedsRemoval'
  BY DEF WalkInv, FaultNeedsRemoval, Reset_LB_List_Iterator
<1>3. QED
  BY <1>1, <1>2, WalkKeeps DEF Reset_LB_List_Iterator

\* ... and moves along it.
LEMMA NextIsOn ==
    ASSUME IsList(list), NEW b \in On
    PROVE  NextOf(b) \in On \cup {AtHead}
<1> DEFINE pos == Position(list, b)
           back == Behind(list, pos)
<1>1. b \in Members(list) /\ Members(list) = On
  BY OnIsMembers
<1>2. pos \in 1..Len(list) /\ Len(list) \in Nat
  BY <1>1, PositionOf, ListType
<1>3. pos + 1 \in 1..Len(list) + 1 /\ Len(list) \in 0..Len(list) /\ Len(list) >= (pos + 1) - 1
      /\ \A k \in pos + 1..Len(list) : k \in 1..Len(list)
  BY <1>2
<1> HIDE DEF pos
<1>4. IsList(back) /\ Members(back) = {list[k] : k \in pos + 1..Len(list)}
  BY <1>3, Cut DEF Behind
<1>5. Members(back) \subseteq On
  BY <1>1, <1>3, <1>4, ListType
<1> HIDE DEF back
<1>6. First(back) \in Members(back) \cup {AtHead}
  BY <1>4, FirstIsLeast
<1>7. NextOf(b) = First(back)
  BY DEF NextOf, back, pos
<1>8. QED
  BY <1>5, <1>6, <1>7

LEMMA NextLBMDKeeps == ASSUME WalkInv, Get_Next_LBMD PROVE WalkInv'
<1>1. Walker \notin disturbed => /\ alive /\ next_node \in On
                               /\ next_node' = NextOf(next_node) /\ faulted' = faulted
  BY DEF WalkInv, WalkIsOn, Get_Next_LBMD
<1>2. Walker \notin disturbed => next_node' \in On \cup {AtHead}
  BY <1>1, NextIsOn DEF WalkInv
<1>3. faulted' \subseteq faulted \cup {Walker} /\ disturbed' = disturbed
  BY DEF Get_Next_LBMD, Fault
<1>4. FaultNeedsRemoval'
  BY <1>1, <1>3 DEF FaultNeedsRemoval, WalkInv
<1>5. UNCHANGED <<list, alive, freed, taken, xmit, missed>> /\ walking' \in BOOLEAN
  BY DEF Get_Next_LBMD, WalkInv, TypeOK
<1>6. QED
  BY <1>1, <1>2, <1>3, <1>4, <1>5, WalkKeeps

LEMMA EndKeeps == ASSUME WalkInv, End_Walk PROVE WalkInv'
<1>1. FaultNeedsRemoval'
  BY DEF WalkInv, FaultNeedsRemoval, End_Walk
<1>2. QED
  BY <1>1, WalkKeeps DEF End_Walk

-----------------------------------------------------------------------------
(* Steps of a sender.                                                       *)

\* The list stays, and so do the other readers; x is the sender's new record.
LEMMA SenderKeeps ==
    ASSUME WalkInv, UNCHANGED <<list, alive, freed, taken, next_node, walking>>,
           NEW s \in Senders, NEW x \in XmitType, xmit' = [xmit EXCEPT ![s] = x],
           NEW M, M \in SUBSET Nat, M \subseteq Gone, missed' = [missed EXCEPT ![s] = M],
           disturbed' \subseteq disturbed, disturbed \subseteq disturbed' \cup {s},
           FaultNeedsRemoval',
           s \notin disturbed' => StandsOn(x), Finds(x)
    PROVE  WalkInv'
<1>1. On' = On /\ Gone' = Gone
  BY DEF On, Gone, Loose
<1>2. xmit \in [Senders -> XmitType] /\ missed \in [Senders -> SUBSET Nat]
  BY DEF WalkInv, TypeOK
<1>3. /\ xmit'[s] = x /\ missed'[s] = M
      /\ \A o \in Senders \ {s} : xmit'[o] = xmit[o] /\ missed'[o] = missed[o]
  BY <1>2
<1>4. TypeOK'
  BY <1>2 DEF WalkInv, TypeOK
<1>5. WalkIsOn'
  <2>1. Walker \notin disturbed' => Walker \notin disturbed
    BY ReadersAssumption
  <2>2. QED
    BY <1>1, <2>1 DEF WalkIsOn, WalkInv
<1>6. ASSUME NEW o \in Senders
      PROVE  (o \notin disturbed' => StandsOn(xmit[o])') /\ Finds(xmit[o])'
  <2>1. CASE o = s
    BY <1>1, <1>3, <2>1 DEF StandsOn, Finds
  <2>2. CASE o # s
    <3>1. xmit'[o] = xmit[o] /\ (o \notin disturbed' => o \notin disturbed)
      BY <1>3, <2>2
    <3>2. (o \notin disturbed => StandsOn(xmit[o])) /\ Finds(xmit[o])
      BY DEF WalkInv
    <3>3. QED
      BY <1>1, <3>1, <3>2 DEF StandsOn, Finds
  <2>3. QED
    BY <2>1, <2>2
<1>7. MissedIsGone'
  BY <1>1, <1>3 DEF MissedIsGone, WalkInv, Gone
<1>8. QED
  BY <1>1, <1>4, <1>5, <1>6, <1>7 DEF WalkInv

\* A sender that is through.
LEMMA IdleIsFine == Idle \in XmitType /\ StandsOn(Idle) /\ Finds(Idle)
BY DEF Idle, XmitType, StandsOn, Finds

\* A sender that has more to do.
LEMMA MoreFields ==
    ASSUME NEW x \in XmitType, NEW c \in Blocks \cup {Null, AtHead}
    PROVE  LET y == [x EXCEPT !.pc = "get", !.cur = c, !.i = @ + 1]
           IN  /\ y \in XmitType /\ y.pc = "get" /\ y.cur = c /\ y.i = x.i + 1
               /\ y.slbid = x.slbid /\ y.nr = x.nr
<1>1. x.i + 1 \in Nat
  BY XmitFields
<1>2. QED
  BY <1>1 DEF XmitType

\* The step to the next block: it remembers the block that was found, or nothing.
LEMMA StepXmit ==
    ASSUME IsList(list), On \cap Gone = {}, NEW x \in XmitType, Finds(x), x.pc # "idle",
           NEW c \in Blocks \cup {Null}, c # Null => c = Wanted(x)
    PROVE  /\ Step_Xmit(x, c) \in XmitType /\ Finds(Step_Xmit(x, c))
           /\ (alive /\ c \in On \cup {Null}) => StandsOn(Step_Xmit(x, c))
<1>1. CASE x.i + 1 = x.nr
  BY <1>1, IdleIsFine DEF Step_Xmit
<1>2. CASE x.i + 1 # x.nr
  <2> DEFINE y == [x EXCEPT !.pc = "get", !.cur = c, !.i = @ + 1]
  <2>1. Step_Xmit(x, c) = y
    BY <1>2 DEF Step_Xmit
  <2>2. /\ y \in XmitType /\ y.pc = "get" /\ y.cur = c /\ y.i = x.i + 1
        /\ y.slbid = x.slbid /\ y.nr = x.nr
    BY MoreFields
  <2> HIDE DEF y
  <2>3. /\ x.slbid \in Nat /\ x.nr \in Nat /\ x.i \in Nat \cup {-1}
        /\ x.i < x.nr /\ x.nr > 0 /\ Wants(x) \subseteq On \cup Gone
    BY XmitFields DEF Finds
  <2>4. y.i < y.nr /\ y.i \in Nat /\ y.i # -1
    BY <1>2, <2>2, <2>3
  <2>5. Wanted(y) >= Wanted(x) /\ Wanted(x) \in Nat /\ Wanted(y) \in Nat
    BY <2>2, <2>3 DEF Wanted
  <2>6. Wants(y) = Wants(x)
    BY <2>2 DEF Wants
  <2>7. y.cur # AtHead /\ (y.cur \in Blocks => y.cur <= Wanted(y))
    BY <2>2, <2>5, Negative DEF Null, AtHead
  <2>8. Finds(y)
    BY <2>2, <2>3, <2>4, <2>6, <2>7 DEF Finds
  <2>9. (alive /\ c \in On \cup {Null}) => StandsOn(y)
    BY <2>2 DEF StandsOn
  <2>10. QED
    BY <2>1, <2>2, <2>8, <2>9
<1>3. QED
  BY <1>1, <1>2

LEMMA TagKeeps ==
    ASSUME WalkInv, NEW s \in Senders, NEW b \in Blocks, NEW n \in Nat \ {0}, Tag(s, b, n)
    PROVE  WalkInv'
<1> DEFINE x == [pc |-> "get", cur |-> Null, slbid |-> b, nr |-> n, i |-> -1]
<1>1. x \in XmitType
  BY BlocksAssumption DEF XmitType
<1>2. StandsOn(x)
  BY DEF StandsOn, Tag
<1>3. Finds(x)
  <2>1. Wants(x) \subseteq On
    BY DEF Wants, Tag
  <2>2. x.cur = Null /\ Null # AtHead /\ x.i < x.nr /\ x.nr > 0 /\ x.pc # "use"
    BY DEF Null, AtHead
  <2> HIDE DEF x
  <2>3. QED
    BY <2>1, <2>2, Negative DEF Finds
<1>4. xmit' = [xmit EXCEPT ![s] = x] /\ missed' = [missed EXCEPT ![s] = {}]
  BY DEF Tag
<1>5. disturbed' \subseteq disturbed /\ disturbed \subseteq disturbed' \cup {s}
      /\ UNCHANGED <<list, alive, freed, taken, next_node, walking>>
  BY DEF Tag
<1>6. FaultNeedsRemoval'
  BY DEF FaultNeedsRemoval, WalkInv, Tag
<1> HIDE DEF x
<1>7. {} \in SUBSET Nat /\ {} \subseteq Gone
  OBVIOUS
<1>8. QED
  BY <1>1, <1>2, <1>3, <1>4, <1>5, <1>6, <1>7, SenderKeeps

\* A step that misses no block, and reads memory that was given back only under a removal.
LEMMA SenderMoves ==
    ASSUME WalkInv, UNCHANGED <<list, alive, freed, taken, next_node, walking, missed, disturbed>>,
           NEW s \in Senders, NEW x \in XmitType, xmit' = [xmit EXCEPT ![s] = x],
           faulted' \subseteq faulted \cup {s}, s \notin disturbed => faulted' = faulted /\ StandsOn(x),
           Finds(x)
    PROVE  WalkInv'
<1> DEFINE M == missed[s]
<1>1. M \in SUBSET Nat /\ M \subseteq Gone /\ missed' = [missed EXCEPT ![s] = M]
  BY DEF WalkInv, TypeOK, MissedIsGone, Gone
<1>2. FaultNeedsRemoval'
  BY DEF FaultNeedsRemoval, WalkInv
<1>3. s \notin disturbed' => StandsOn(x)
  OBVIOUS
<1> HIDE DEF M
<1>4. QED
  BY <1>1, <1>2, <1>3, SenderKeeps

\* What a sender of the invariant is.
LEMMA SenderType ==
    ASSUME WalkInv, NEW s \in Senders
    PROVE  /\ xmit[s] \in XmitType /\ Finds(xmit[s])
           /\ s \notin disturbed => StandsOn(xmit[s])
           /\ IsList(list) /\ On \cap Gone = {} /\ On \subseteq Blocks
BY OnIsMembers DEF WalkInv, TypeOK

LEMMA LoadKeeps ==
    ASSUME WalkInv, NEW s \in Senders, Load_First(s)
    PROVE  WalkInv'
<1> DEFINE x == xmit[s]
           f == First(list)
           y == [x EXCEPT !.cur = f]
<1>1. x \in XmitType /\ Finds(x) /\ IsList(list) /\ On \subseteq Blocks /\ x.pc = "get"
      /\ (s \notin disturbed => StandsOn(x)) /\ On \cap Gone = {}
  BY SenderType DEF Load_First
<1>2. UNCHANGED <<list, alive, freed, taken, next_node, walking, missed, disturbed>>
  BY DEF Load_First
<1>3. CASE alive
  <2>1. f \in On \cup {AtHead} /\ (On # {} => f \in On) /\ \A b \in On : f <= b
    BY <1>1, FirstIsLeast, OnIsMembers
  <2>2. xmit' = [xmit EXCEPT ![s] = y] /\ faulted' = faulted
    <3>1. xmit \in [Senders -> XmitType]
      BY DEF WalkInv, TypeOK
    <3>2. QED
      BY <1>3, <3>1 DEF Load_First
  <2> HIDE DEF f
  <2>3. /\ y \in XmitType /\ y.pc = "get" /\ y.cur = f /\ y.slbid = x.slbid /\ y.nr = x.nr
        /\ y.i = x.i
    BY <1>1, <2>1 DEF XmitType
  <2> HIDE DEF x, y
  <2>4. Wanted(y) = Wanted(x) /\ Wants(y) = Wants(x)
    BY <2>3 DEF Wanted, Wants
  <2>5. Wanted(y) \in On => y.cur <= Wanted(y) /\ y.cur # AtHead
    BY <1>1, <2>1, <2>3, Negative
  <2>6. Finds(y)
    BY <1>1, <2>3, <2>4, <2>5 DEF Finds
  <2>7. StandsOn(y)
    BY <1>3, <2>1, <2>3 DEF StandsOn
  <2>8. QED
    BY <1>2, <2>2, <2>3, <2>6, <2>7, SenderMoves
<1>4. CASE ~alive
  <2>1. xmit' = [xmit EXCEPT ![s] = Idle] /\ faulted' \subseteq faulted \cup {s}
    BY <1>4 DEF Load_First, Fault
  <2>2. s \in disturbed
    BY <1>1, <1>4 DEF StandsOn
  <2>3. QED
    BY <1>2, <2>1, <2>2, IdleIsFine, SenderMoves
<1>5. QED
  BY <1>3, <1>4

LEMMA XmitKeeps ==
    ASSUME WalkInv, NEW s \in Senders, Xmit_LB_Payload(s)
    PROVE  WalkInv'
<1> DEFINE x == xmit[s]
           y == Step_Xmit(x, x.cur)
<1>1. x \in XmitType /\ Finds(x) /\ IsList(list) /\ On \subseteq Blocks /\ x.pc = "use"
      /\ (s \notin disturbed => StandsOn(x)) /\ On \cap Gone = {}
  BY SenderType DEF Xmit_LB_Payload
<1>2. UNCHANGED <<list, alive, freed, taken, next_node, walking, missed, disturbed>>
  BY DEF Xmit_LB_Payload
<1>3. CASE x.cur \in freed
  <2>1. xmit' = [xmit EXCEPT ![s] = Idle] /\ faulted' \subseteq faulted \cup {s}
    BY <1>3 DEF Xmit_LB_Payload, Fault
  <2>2. s \in disturbed
    BY <1>1, <1>3 DEF StandsOn, Gone
  <2>3. QED
    BY <1>2, <2>1, <2>2, IdleIsFine, SenderMoves
<1>4. CASE x.cur \notin freed
  <2>1. xmit' = [xmit EXCEPT ![s] = y] /\ faulted' = faulted
    BY <1>4 DEF Xmit_LB_Payload
  <2> HIDE DEF x
  <2>2. x.cur \in Blocks \cup {Null} /\ x.cur = Wanted(x)
    <3>1. Wanted(x) \in Nat /\ x.cur = Wanted(x) /\ Wanted(x) \in Wants(x)
      BY <1>1, WantedIsWanted DEF Finds
    <3>2. x.cur \in On \cup Gone
      BY <1>1, <3>1 DEF Finds
    <3>3. Gone \subseteq Blocks
      BY Negative DEF WalkInv, TypeOK, Gone, Loose
    <3>4. QED
      BY <1>1, <3>1, <3>2, <3>3
  <2>3. y \in XmitType /\ Finds(y) /\ ((alive /\ x.cur \in On \cup {Null}) => StandsOn(y))
    BY <1>1, <2>2, StepXmit
  <2>4. s \notin disturbed => alive /\ x.cur \in On
    BY <1>1 DEF StandsOn
  <2> HIDE DEF y
  <2>5. QED
    BY <1>2, <2>1, <2>3, <2>4, SenderMoves
<1>5. QED
  BY <1>3, <1>4

\* The search.  Where it does not reach the list, something was removed under the sender; where
\* it does not find a block, the block is gone.
LEMMA GetKeeps ==
    ASSUME WalkInv, NEW s \in Senders, Get_LBMD_from_Node_by_LBID(s)
    PROVE  WalkInv'
<1> DEFINE x == xmit[s]
           lbid == Wanted(x)
           reached == alive /\ x.cur \in {AtHead} \cup On \cup (Loose \cap {lbid})
           met == IF x.cur \in On THEN From(list, x.cur) ELSE Loose \cap {x.cur}
           match == IF lbid \in met THEN lbid ELSE Null
           y == Step_Xmit(x, match)
           z == Step_Xmit(x, Null)
           u == [x EXCEPT !.pc = "use", !.cur = match]
           M == missed[s] \cup {lbid}
<1>1. x \in XmitType /\ Finds(x) /\ IsList(list) /\ On \subseteq Blocks /\ x.pc = "get" /\ x.cur # Null
      /\ (s \notin disturbed => StandsOn(x)) /\ On \cap Gone = {}
  BY SenderType DEF Get_LBMD_from_Node_by_LBID
<1>2. UNCHANGED <<list, alive, freed, taken, next_node, walking, disturbed>>
  BY DEF Get_LBMD_from_Node_by_LBID
<1>3. \/ /\ ~reached /\ xmit' = [xmit EXCEPT ![s] = Idle] /\ Fault(s) /\ missed' = missed
      \/ /\ reached /\ xmit' = [xmit EXCEPT ![s] = y] /\ missed' = missed /\ faulted' = faulted
      \/ /\ reached /\ x.i >= 0 /\ match # Null
         /\ xmit' = [xmit EXCEPT ![s].pc = "use", ![s].cur = match] /\ missed' = missed /\ faulted' = faulted
      \/ /\ reached /\ match = Null /\ missed' = [missed EXCEPT ![s] = @ \cup {lbid}]
         /\ xmit' = [xmit EXCEPT ![s] = z] /\ faulted' = faulted
  <2>1. x.i = -1 \/ x.i >= 0
    BY <1>1, XmitFields
  <2>2. QED
    BY <2>1 DEF Get_LBMD_from_Node_by_LBID
<1>4. x.cur \in Blocks \cup {AtHead} /\ x.i < x.nr /\ x.nr > 0 /\ Wants(x) \subseteq On \cup Gone
  BY <1>1, XmitFields DEF Finds
<1>5. lbid \in On \cup Gone /\ lbid \in Nat
  BY <1>1, <1>4, WantedIsWanted
<1>6. Gone \subseteq Blocks /\ Loose \subseteq Gone
  BY Negative DEF WalkInv, TypeOK, Gone, Loose
<1>7. lbid \in Blocks /\ lbid # Null
  BY <1>1, <1>5, <1>6, Negative
\* What is met from a block that is in the list, from the head, and from a loose one.
<1>8. reached /\ lbid \in On => lbid \in met
  <2> SUFFICES ASSUME reached, lbid \in On PROVE lbid \in met
    OBVIOUS
  <2>1. x.cur # AtHead /\ (x.cur \in Blocks => x.cur <= lbid)
    BY <1>1 DEF Finds
  <2>2. x.cur \in On
    BY <1>1, <1>6, <2>1
  <2>3. PICK k \in DOMAIN list : list[k] = lbid
    BY DEF On
  <2>4. x.cur <= lbid /\ x.cur \in Nat
    BY <1>1, <2>1, <2>2, BlocksAssumption
  <2>5. list[k] >= x.cur
    BY <1>5, <2>3, <2>4
  <2>6. lbid \in From(list, x.cur)
    BY <2>3, <2>5 DEF From
  <2>7. QED
    BY <2>2, <2>6
\* What is found from a block that is in the list is in the list.
<1>9. match # Null => match = lbid /\ (x.cur \in On => match \in On)
  BY <1>1 DEF From, On
<1>10. match \in Blocks \cup {Null}
  BY <1>7
<1>11. s \notin disturbed => alive /\ x.cur \in On \cup {AtHead}
  BY <1>1 DEF StandsOn
<1>12. s \notin disturbed => reached /\ match \in On \cup {Null}
  <2> SUFFICES ASSUME s \notin disturbed PROVE match \in On \cup {Null}
    BY <1>11
  <2>1. CASE x.cur \in On
    BY <1>9, <2>1
  <2>2. CASE x.cur = AtHead
    <3>1. AtHead \notin On /\ AtHead \notin Loose
      BY <1>1, <1>6, Negative
    <3>2. met = {}
      BY <2>2, <3>1
    <3>3. QED
      BY <3>2
  <2>3. QED
    BY <1>11, <2>1, <2>2
<1>13. xmit \in [Senders -> XmitType] /\ missed \in [Senders -> SUBSET Nat]
  BY DEF WalkInv, TypeOK
<1>14. [xmit EXCEPT ![s].pc = "use", ![s].cur = match] = [xmit EXCEPT ![s] = u]
  BY <1>13
<1>15. CASE ~reached /\ xmit' = [xmit EXCEPT ![s] = Idle] /\ Fault(s) /\ missed' = missed
  <2>1. s \in disturbed
    BY <1>12, <1>15
  <2>2. faulted' \subseteq faulted \cup {s}
    BY <1>15 DEF Fault
  <2>3. QED
    BY <1>2, <1>15, <2>1, <2>2, IdleIsFine, SenderMoves
<1>16. CASE reached /\ xmit' = [xmit EXCEPT ![s] = y] /\ missed' = missed /\ faulted' = faulted
  <2>1. alive
    BY <1>16
  <2> HIDE DEF x, lbid, reached, met, match
  <2>2. y \in XmitType /\ Finds(y) /\ ((alive /\ match \in On \cup {Null}) => StandsOn(y))
    <3>1. match # Null => match = Wanted(x)
      BY <1>9 DEF lbid
    <3>2. QED
      BY <1>1, <1>10, <3>1, StepXmit
  <2> HIDE DEF y
  <2>3. QED
    BY <1>2, <1>12, <1>16, <2>1, <2>2, SenderMoves
<1>17. CASE /\ reached /\ x.i >= 0 /\ match # Null
            /\ xmit' = [xmit EXCEPT ![s].pc = "use", ![s].cur = match] /\ missed' = missed /\ faulted' = faulted
  <2>1. alive
    BY <1>17
  <2>2. match \in Blocks
    BY <1>7, <1>9, <1>17
  <2> HIDE DEF lbid, reached, met, match
  <2>3. /\ u \in XmitType /\ u.pc = "use" /\ u.cur = match /\ u.i = x.i
        /\ u.slbid = x.slbid /\ u.nr = x.nr
    BY <1>1, <2>2 DEF XmitType
  <2> HIDE DEF x, u
  <2>4. Wanted(u) = Wanted(x) /\ Wants(u) = Wants(x)
    BY <2>3 DEF Wanted, Wants
  <2>5. u.cur = Wanted(u) /\ u.cur # AtHead /\ u.cur <= Wanted(u) /\ u.i # -1
    <3>1. u.cur = Wanted(u) /\ u.cur \in Nat
      BY <1>5, <1>9, <1>17, <2>3, <2>4 DEF lbid
    <3>2. u.i \in Int /\ u.i >= 0
      BY <1>1, <1>17, <2>3, XmitFields
    <3>3. QED
      BY <2>2, <2>3, <3>1, <3>2, Negative
  <2>6. Finds(u)
    BY <1>4, <2>3, <2>4, <2>5 DEF Finds
  <2>7. s \notin disturbed => StandsOn(u)
    BY <1>12, <1>17, <2>1, <2>3 DEF StandsOn
  <2>8. QED
    BY <1>2, <1>14, <1>17, <2>3, <2>6, <2>7, SenderMoves
<1>18. CASE /\ reached /\ match = Null /\ missed' = [missed EXCEPT ![s] = @ \cup {lbid}]
            /\ xmit' = [xmit EXCEPT ![s] = z] /\ faulted' = faulted
  <2>1. alive
    BY <1>18
  <2>2. lbid \in Gone
    <3>1. lbid \notin met
      BY <1>7, <1>18
    <3>2. QED
      BY <1>5, <1>8, <1>18, <3>1
  <2> HIDE DEF lbid, reached, met, match
  <2>3. M \in SUBSET Nat /\ M \subseteq Gone /\ missed' = [missed EXCEPT ![s] = M]
    BY <1>5, <1>13, <1>18, <2>2 DEF WalkInv, MissedIsGone, Gone
  <2> HIDE DEF x, M
  <2>4. z \in XmitType /\ Finds(z) /\ ((alive /\ Null \in On \cup {Null}) => StandsOn(z))
    BY <1>1, StepXmit
  <2> HIDE DEF z
  <2>5. FaultNeedsRemoval'
    BY <1>2, <1>18 DEF FaultNeedsRemoval, WalkInv
  <2>6. QED
    BY <1>2, <1>18, <2>1, <2>3, <2>4, <2>5, SenderKeeps
<1>19. QED
  BY <1>3, <1>15, <1>16, <1>17, <1>18

-----------------------------------------------------------------------------

LEMMA NextWalk == ASSUME WalkInv, [Next]_vars PROVE WalkInv'
<1>1. CASE Next
  <2>1. ASSUME NEW n, n \in 1..Cardinality(Blocks) PROVE n \in Nat \ {0}
    <3>1. Cardinality(Blocks) \in Nat
      BY BlocksAssumption, FS_CardinalityType
    <3>2. QED
      BY <2>1, <3>1
  <2>2. CASE \E b \in Blocks : Add(b) \/ \E n \in 1..Cardinality(Blocks) : Commit(b, n)
    BY <2>2, AddKeeps, CommitKeeps
  <2>3. CASE \E r \in Takers : \/ Free_LogicalBlock_MetaData_from_LB_List_by_LBID(r)
                               \/ Free_LogicalBlock_MetaData_from_LB_List_by_LBMD(r)
                               \/ Release_LogicalBlock_MetaData(r)
    BY <2>3, RemoveKeeps, FreeKeeps
       DEF Free_LogicalBlock_MetaData_from_LB_List_by_LBID, Remove_from_LogicalBlock_List_by_LBMD,
           Free_LogicalBlock_MetaData_from_LB_List_by_LBMD
  <2>4. CASE \E s \in Senders : \E b \in Blocks, n \in 1..Cardinality(Blocks) : Tag(s, b, n)
    BY <2>1, <2>4, TagKeeps
  <2>5. CASE \E s \in Senders : Load_First(s) \/ Get_LBMD_from_Node_by_LBID(s) \/ Xmit_LB_Payload(s)
    BY <2>5, LoadKeeps, GetKeeps, XmitKeeps
  <2>6. CASE Release_LogicalBlock_List \/ Reset_LB_List_Iterator \/ Get_Next_LBMD \/ End_Walk
    BY <2>6, ReleaseKeeps, ResetKeeps, NextLBMDKeeps, EndKeeps
  <2>7. QED
    BY <1>1, <2>2, <2>3, <2>4, <2>5, <2>6 DEF Next
<1>2. CASE UNCHANGED vars
  <2>1. FaultNeedsRemoval'
    BY <1>2 DEF vars, WalkInv, FaultNeedsRemoval
  <2>2. QED
    BY <1>2, <2>1, WalkKeeps DEF vars, WalkInv, WalkIsOn, TypeOK
<1>3. QED
  BY <1>1, <1>2

LEMMA Invariant == Spec => []WalkInv
<1>1. Init => WalkInv
  BY InitWalk
<1>2. WalkInv /\ [Next]_vars => WalkInv'
  BY NextWalk
<1>3. QED
  BY <1>1, <1>2, PTL DEF Spec

\* In every behaviour the blocks of a list are in ascending order without duplicates, whatever
\* is added, committed and removed, and no block that was given back is in it
\* (Add_to_LogicalBlock_List_by_Insertion_Sort, Commit_LB_List_by_Range).
THEOREM ListIsSorted == Spec => [](TypeOK /\ IsList(list) /\ On \cap Gone = {})
<1>1. WalkInv => TypeOK /\ IsList(list) /\ On \cap Gone = {}
  BY DEF WalkInv
<1>2. QED
  BY <1>1, Invariant, PTL

\* A reader goes through memory that was given back only when something was removed under it:
\* an address found under an earlier hold of LB_list_lock is safe for exactly as long
\* (Get_LBMD_from_Node_by_LBID, Get_Next_LBMD, __Xmit_LB_Paylaod).
THEOREM ReadersFaultOnlyUnderRemoval == Spec => []FaultNeedsRemoval
<1>1. WalkInv => FaultNeedsRemoval
  BY DEF WalkInv
<1>2. QED
  BY <1>1, Invariant, PTL

\* A sender skips a block of its tag only when the block was committed or taken out
\* (Get_LBMD_from_Node_by_LBID).
THEOREM MissedBlocksAreGone == Spec => []MissedIsGone
<1>1. WalkInv => MissedIsGone
  BY DEF WalkInv
<1>2. QED
  BY <1>1, Invariant, PTL
=============================================================================
