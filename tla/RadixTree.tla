------------------------------ MODULE RadixTree ------------------------------
(***************************************************************************)
(* The radix tree of the metadata cache (cache/radix-tree.c): a root with  *)
(* a height, and nodes of MAP_SIZE slots that count the slots in use.  An  *)
(* item at height 0 is a leaf.  Memory may run out: "mem" is the number of *)
(* nodes that can still be allocated.                                      *)
(***************************************************************************)
EXTENDS Integers, Sequences, FiniteSets, FiniteSetsExt

CONSTANT MAP_SIZE

ASSUME MapSizeAssumption == MAP_SIZE \in Nat /\ MAP_SIZE > 1

NULL == [is |-> "null"]
Slots == 0..(MAP_SIZE - 1)
Zeroed == [is |-> "node", count |-> 0, slots |-> [i \in Slots |-> NULL]]
Empty_root == [height |-> 0, rnode |-> NULL]

maxindex(h) == MAP_SIZE^h - 1
\* The slot of an index in a node of this height.
offset(index, h) == (index \div MAP_SIZE^(h - 1)) % MAP_SIZE

-----------------------------------------------------------------------------
(* Slips.                                                                   *)

\* The tree keeps its height when its last node is freed.
SlipEmptied(root) == [root EXCEPT !.rnode = NULL]
\* A node counts an item that replaces another one.
SlipMore(old) == 1

-----------------------------------------------------------------------------
(* radix_tree_insert.                                                       *)

MinHeight(index, h) == CHOOSE g \in (h + 1)..(h + index + 1) :
                           index <= maxindex(g) /\ \A f \in (h + 1)..(g - 1) : index > maxindex(f)

\* The levels above the root, as far as memory lasts.
RECURSIVE Raise(_, _, _)
Raise(root, h, mem) ==
    IF root.height = h THEN [root |-> root, mem |-> mem, ret |-> 0]
    ELSE IF mem = 0 THEN [root |-> root, mem |-> 0, ret |-> -1]
    ELSE Raise([height |-> root.height + 1,
                rnode |-> [Zeroed EXCEPT !.count = 1, !.slots[0] = root.rnode]], h, mem - 1)

radix_tree_extend(root, index, mem) ==
    LET h == MinHeight(index, root.height)
    IN  IF root.rnode = NULL
        THEN [root |-> [root EXCEPT !.height = h], mem |-> mem, ret |-> 0]
        ELSE Raise(root, h, mem)

\* The count of a node grows by one for a slot that was not in use.
More(old) == IF old = NULL THEN 1 ELSE 0

\* Down to height 0, with a node for each level that has none.
RECURSIVE Insert_below(_, _, _, _, _)
Insert_below(slot, h, index, item, mem) ==
    IF h = 0 THEN [slot |-> item, old |-> slot, ret |-> 0]
    ELSE IF slot = NULL /\ mem = 0 THEN [slot |-> NULL, old |-> NULL, ret |-> -1]
    ELSE LET node == IF slot = NULL THEN Zeroed ELSE slot
             i == offset(index, h)
             below == Insert_below(node.slots[i], h - 1, index, item, IF slot = NULL THEN mem - 1 ELSE mem)
         IN  [below EXCEPT !.slot =
                 IF below.slot = NULL THEN node
                 ELSE [node EXCEPT !.slots[i] = below.slot, !.count = @ + More(node.slots[i])]]

\* The root afterwards, the item that was replaced, and the result.
radix_tree_insert(root, index, item, mem) ==
    LET high == IF index > maxindex(root.height) THEN radix_tree_extend(root, index, mem)
                ELSE [root |-> root, mem |-> mem, ret |-> 0]
        r == Insert_below(high.root.rnode, high.root.height, index, item, high.mem)
    IN  IF high.ret < 0 THEN [root |-> high.root, old |-> NULL, ret |-> high.ret]
        ELSE [root |-> [high.root EXCEPT !.rnode = r.slot], old |-> r.old, ret |-> r.ret]

-----------------------------------------------------------------------------
(* radix_tree_delete.                                                       *)

RECURSIVE radix_tree_shrink(_)
radix_tree_shrink(root) ==
    IF root.height > 0 /\ root.rnode.count = 1 /\ root.rnode.slots[0] # NULL
    THEN radix_tree_shrink([height |-> root.height - 1, rnode |-> root.rnode.slots[0]])
    ELSE root

Emptied(root) == Empty_root

\* The item of an index, or NULL; "oops" where the code follows a NULL.
RECURSIVE Find_below(_, _, _)
Find_below(slot, h, index) ==
    IF slot = NULL \/ h = 0 THEN slot
    ELSE Find_below(slot.slots[offset(index, h)], h - 1, index)

\* A node is freed with its last slot, up to the first that has another.
RECURSIVE Delete_below(_, _, _)
Delete_below(slot, h, index) ==
    IF h = 0 THEN NULL
    ELSE LET i == offset(index, h)
             below == Delete_below(slot.slots[i], h - 1, index)
         IN  IF below # NULL THEN [slot EXCEPT !.slots[i] = below]
             ELSE IF slot.count = 1 THEN NULL
             ELSE [slot EXCEPT !.slots[i] = NULL, !.count = @ - 1]

\* Only a root that lost a slot is shrunk: one with fewer slots than before.
radix_tree_delete(root, index) ==
    IF index > maxindex(root.height) \/ Find_below(root.rnode, root.height, index) = NULL
    THEN [root |-> root, item |-> NULL]
    ELSE LET rest == Delete_below(root.rnode, root.height, index)
             after == [root EXCEPT !.rnode = rest]
         IN  [item |-> Find_below(root.rnode, root.height, index),
              root |-> IF rest = NULL THEN Emptied(root)
                       ELSE IF rest.count < root.rnode.count THEN radix_tree_shrink(after)
                       ELSE after]

-----------------------------------------------------------------------------
(* radix_tree_gang_lookup.                                                  *)

\* __lookup: down along the first slots in use, at the bottom all items from there on; a
\* root without a node is followed all the same.
RECURSIVE Lookup_below(_, _, _)
Lookup_below(slot, h, index) ==
    LET used == {i \in Slots : i >= offset(index, h) /\ slot.slots[i] # NULL}
        end == (index \div MAP_SIZE^h + 1) * MAP_SIZE^h
        first == Min(used)
    IN  IF h = 1 THEN [found |-> [i \in 1..Cardinality(used) |->
                                     slot.slots[CHOOSE j \in used : Cardinality({k \in used : k <= j}) = i]],
                       next |-> end]
        ELSE IF used = {} THEN [found |-> <<>>, next |-> end]
        ELSE Lookup_below(slot.slots[first], h - 1,
                          IF first = offset(index, h) THEN index
                          ELSE (index \div MAP_SIZE^h) * MAP_SIZE^h + first * MAP_SIZE^(h - 1))

Lookup(root, index) ==
    IF root.height = 0
    THEN [found |-> IF root.rnode # NULL /\ index = 0 THEN <<root.rnode>> ELSE <<>>, next |-> index + 1]
    ELSE Lookup_below(root.rnode, root.height, index)

\* The first "max" items from an index on.
RECURSIVE radix_tree_gang_lookup(_, _, _)
radix_tree_gang_lookup(root, index, max) ==
    IF max = 0 \/ index > maxindex(root.height) THEN <<>>
    ELSE LET l == Lookup(root, index)
             got == SubSeq(l.found, 1, IF Len(l.found) < max THEN Len(l.found) ELSE max)
         IN  got \o radix_tree_gang_lookup(root, l.next, max - Len(got))

Oopses(root, index) == root.height > 0 /\ root.rnode = NULL /\ index <= maxindex(root.height)

-----------------------------------------------------------------------------
(* What the tree holds, for the properties.                                 *)

Item(root, index) ==
    IF index > maxindex(root.height) THEN NULL ELSE Find_below(root.rnode, root.height, index)

RECURSIVE Sound(_, _)
Sound(slot, h) ==
    h > 0 => /\ slot.count > 0
             /\ slot.count = Cardinality({i \in Slots : slot.slots[i] # NULL})
             /\ \A i \in Slots : slot.slots[i] # NULL => Sound(slot.slots[i], h - 1)
=============================================================================
