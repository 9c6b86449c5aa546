---------------------------- MODULE MetadataCache ----------------------------
(***************************************************************************)
(* The metadata cache of the volumes (cache/cache.c).  A leaf holds the    *)
(* metadata of one block; it is in the radix tree and on the LRU list of   *)
(* its volume, and callers borrow leaves with cache_find until cache_put.  *)
(* A leaf that is taken out while somebody holds it is freed by the last   *)
(* cache_put.                                                              *)
(*                                                                         *)
(* cache_find, cache_update and cache_invalidate hold the tree_lock of the *)
(* volume; kick_meta_cache does not.  Where that makes two threads work on *)
(* one tree, or a volume is freed under a thread, the outcome is undefined *)
(* and the model stops with "broken".                                      *)
(***************************************************************************)
EXTENDS RadixTree, SequencesExt

CONSTANTS
    Threads,
    Blocks,         \* the blocks callers name
    MaxCount,       \* bound: blocks of one call
    CacheSize,      \* cache_size of every volume
    Objects,        \* bound: the volumes created one after the other
    Copies,         \* bound: leaves of one block in memory
    MaxFailures     \* bound: calls that run out of memory

ASSUME SizesAssumption == CacheSize \in Nat \ {0} /\ MaxCount \in Nat \ {0} /\ MaxFailures \in Nat

VARIABLES
    thread,     \* [pc, obj, basket]
    table,      \* volid_table, for one volume ID: its object, or NoVolume
    cache,      \* the objects: [tree, lru, num], Unborn or Freed
    leaf,       \* the leaves: [refcnt, deleted], or Freed
    broken,     \* "no", or why the outcome is undefined
    failures

\* A leaf in memory: its blkid, and a number.
Leaves == Blocks \X Copies

vars == <<thread, table, cache, leaf, broken, failures>>

Freed == [is |-> "freed"]
Unborn == [is |-> "unborn"]
NoVolume == 0
Idle == [pc |-> "idle", obj |-> NoVolume, basket |-> <<>>]

AsItem(n) == [is |-> "leaf", id |-> n]
Alive(n) == leaf[n] # Freed

-----------------------------------------------------------------------------
(* Slips.                                                                   *)

\* A leaf is freed when it is taken out, held or not.
SlipDrop(lf) == Freed

-----------------------------------------------------------------------------

Init ==
    /\ thread = [t \in Threads |-> Idle]
    /\ table = NoVolume
    /\ cache = [o \in Objects |-> Unborn]
    /\ leaf = [n \in Leaves |-> Freed]
    /\ broken = "no"
    /\ failures = 0

Goto(t, pc) == thread' = [thread EXCEPT ![t].pc = pc]
Done(t) == thread' = [thread EXCEPT ![t] = Idle]
Break(why) == broken' = why /\ UNCHANGED <<thread, table, cache, leaf, failures>>

Living == {o \in Objects : cache[o] \notin {Freed, Unborn}}
Listed(n) == \E o \in Living : n \in ToSet(cache[o].lru)

-----------------------------------------------------------------------------
(* The volumes.                                                             *)

\* The caller creates a volume once.
volume_create ==
    /\ broken = "no" /\ table = NoVolume
    /\ \E o \in Objects :
         /\ cache[o] = Unborn /\ \A p \in Objects : p < o => cache[p] # Unborn
         /\ cache' = [cache EXCEPT ![o] = [tree |-> Empty_root, lru |-> <<>>, num |-> 0]]
         /\ table' = o
    /\ UNCHANGED <<thread, leaf, broken, failures>>

\* Every call begins with volume_find: without the volume it ends.  The model chooses the call
\* when it goes on.
volume_find(t) ==
    /\ broken = "no" /\ thread[t].pc = "idle" /\ table # NoVolume
    /\ thread' = [thread EXCEPT ![t].pc = "found", ![t].obj = table]
    /\ UNCHANGED <<table, cache, leaf, broken, failures>>

\* What was borrowed from a volume that is gone cannot be put back: it leaks, and the model
\* forgets it.
Leak(lf) == IF lf.refcnt = 1 THEN Freed ELSE [lf EXCEPT !.refcnt = @ - 1]
Put_nowhere(t) ==
    /\ broken = "no" /\ thread[t].pc = "idle" /\ table = NoVolume /\ thread[t].basket # <<>>
    /\ leaf' = [n \in Leaves |-> IF n \in ToSet(thread[t].basket) THEN Leak(leaf[n]) ELSE leaf[n]]
    /\ thread' = [thread EXCEPT ![t] = Idle]
    /\ UNCHANGED <<table, cache, broken, failures>>

\* A caller puts back what it borrowed before it does something else.
Call(t) == broken = "no" /\ thread[t].pc = "found" /\ thread[t].basket = <<>>

InTree(u, o) == thread[u].pc \in {"locked", "kicking"} /\ thread[u].obj = o

\* tree_lock: waits for another holder, not for a thread that kicks.
Lock(t) ==
    /\ Call(t)
    /\ LET o == thread[t].obj
           others == {u \in Threads \ {t} : InTree(u, o)}
       IN  \/ cache[o] = Freed /\ Break("freed volume")
           \/ /\ cache[o] # Freed /\ others = {}
              /\ Goto(t, "locked")
              /\ UNCHANGED <<table, cache, leaf, broken, failures>>
           \/ /\ cache[o] # Freed /\ \E u \in others : thread[u].pc = "kicking"
              /\ Break("two in the tree")

\* kick_meta_cache goes on without the lock.
Kick(t) ==
    /\ Call(t)
    /\ LET o == thread[t].obj
       IN  \/ cache[o] = Freed /\ Break("freed volume")
           \/ /\ cache[o] # Freed /\ ~\E u \in Threads \ {t} : InTree(u, o)
              /\ Goto(t, "kicking")
              /\ UNCHANGED <<table, cache, leaf, broken, failures>>
           \/ /\ cache[o] # Freed /\ \E u \in Threads \ {t} : InTree(u, o)
              /\ Break("two in the tree")

-----------------------------------------------------------------------------
(* Taking leaves out.                                                       *)

\* A leaf that is held is only marked.
Drop(lf) == IF lf.refcnt > 0 THEN [lf EXCEPT !.deleted = TRUE] ELSE Freed

Off(lru, n) == SelectSeq(lru, LAMBDA m : m # n)

\* The volume and the leaves after one leaf was taken out.
Take_out(w, n) ==
    [c |-> [tree |-> radix_tree_delete(w.c.tree, n[1]).root, lru |-> Off(w.c.lru, n), num |-> w.c.num - 1],
     leaf |-> [w.leaf EXCEPT ![n] = Drop(@)]]

\* __kick_meta_cache from the end of the LRU list on; a condition keeps some leaves.
__kick_meta_cache(w, count, keeps) ==
    LET out == SelectSeq(Reverse(w.c.lru), LAMBDA n : n \notin keeps)
        total == IF count = -1 \/ Len(out) < count THEN Len(out) ELSE count
    IN  FoldLeft(Take_out, w, SubSeq(out, 1, total))

-----------------------------------------------------------------------------
(* The operations, tree_lock held.                                          *)

Locked(t) == broken = "no" /\ thread[t].pc = "locked"
Here(t) == cache[thread[t].obj]
\* The blocks of a call: start and count.
Ranges == {r \in Blocks \X (1..MaxCount) : r[1]..(r[1] + r[2] - 1) \subseteq Blocks}
World(t) == [c |-> Here(t), leaf |-> leaf]
Becomes(t, w) == cache' = [cache EXCEPT ![thread[t].obj] = w.c] /\ leaf' = w.leaf

\* The leaves found are borrowed and move to the front, the first block last.
cache_find(t) ==
    /\ Locked(t)
    /\ \E r \in Ranges :
         LET all == radix_tree_gang_lookup(Here(t).tree, r[1], r[2])
             mine == SelectSeq([i \in DOMAIN all |-> all[i].id], LAMBDA n : n[1] < r[1] + r[2])
         IN  \/ Oopses(Here(t).tree, r[1]) /\ Break("oops")
             \/ /\ ~Oopses(Here(t).tree, r[1])
                /\ cache' = [cache EXCEPT ![thread[t].obj].lru =
                                 mine \o SelectSeq(@, LAMBDA n : n \notin ToSet(mine))]
                /\ leaf' = [n \in Leaves |-> IF n \in ToSet(mine) THEN [leaf[n] EXCEPT !.refcnt = @ + 1] ELSE leaf[n]]
                /\ thread' = [thread EXCEPT ![t] = [Idle EXCEPT !.basket = mine]]
                /\ UNCHANGED <<table, broken, failures>>

cache_invalidate(t) ==
    /\ Locked(t)
    /\ \E r \in Ranges :
         LET drop(w, i) == LET item == Item(w.c.tree, r[1] + i - 1)
                           IN  IF item = NULL THEN w ELSE Take_out(w, item.id)
         IN  Becomes(t, FoldLeft(drop, World(t), [i \in 1..r[2] |-> i]))
    /\ Done(t)
    /\ UNCHANGED <<table, broken, failures>>

\* How many leaves too many there would be.
Surplus(c, count) == c.num + count - CacheSize
Reclaim(w, count) ==
    LET i == Surplus(w.c, count)
        kick == IF i > CacheSize THEN CacheSize ELSE i
    IN  IF kick > 0 THEN __kick_meta_cache(w, kick, {}) ELSE w

\* One block: a new leaf, at the front, in place of the one that was there.
Add_leaf(w, b, mem) ==
    LET n == CHOOSE m \in {b} \X Copies : w.leaf[m] = Freed /\ \A c \in Copies : c < m[2] => w.leaf[<<b, c>>] # Freed
        r == radix_tree_insert(w.c.tree, b, AsItem(n), mem)
    IN  IF r.ret < 0 THEN [w EXCEPT !.c.tree = r.root]
        ELSE LET old == IF r.old = NULL THEN {} ELSE {r.old.id}
                 lru == <<n>> \o w.c.lru
             IN  [c |-> [tree |-> r.root,
                         lru |-> IF old = {} THEN lru ELSE Off(lru, r.old.id),
                         num |-> w.c.num + 1 - Cardinality(old)],
                  leaf |-> [m \in Leaves |->
                              IF m = n THEN [refcnt |-> 0, deleted |-> FALSE]
                              ELSE IF m \in old THEN Drop(w.leaf[m]) ELSE w.leaf[m]]]

\* Memory lasts, or it runs out: at block "at", for its leaf or after "mem" more nodes.
cache_update(t) ==
    /\ Locked(t)
    /\ \E r \in Ranges :
         LET kicked == Reclaim(World(t), r[2])
             add(n) == FoldLeft(LAMBDA w, i : Add_leaf(w, r[1] + i - 1, 64), kicked, [i \in 1..n |-> i])
         IN  \/ Becomes(t, add(r[2])) /\ UNCHANGED failures
             \/ /\ failures < MaxFailures
                /\ failures' = failures + 1
                /\ \E at \in 1..r[2] :
                     \/ Becomes(t, add(at - 1))
                     \/ \E mem \in 0..2 :
                          /\ radix_tree_insert(add(at - 1).c.tree, r[1] + at - 1, NULL, mem).ret < 0
                          /\ Becomes(t, Add_leaf(add(at - 1), r[1] + at - 1, mem))
    /\ Done(t)
    /\ UNCHANGED <<table, broken>>

-----------------------------------------------------------------------------
(* The operations without it.                                               *)

\* A borrowed leaf is given back; the last one frees a leaf that was taken out.  One whose
\* volume went without taking it out leaks.
PutLeaf(lf) == IF lf.deleted /\ lf.refcnt = 1 THEN Freed ELSE [lf EXCEPT !.refcnt = @ - 1]
cache_put(t) ==
    /\ broken = "no" /\ thread[t].pc = "found" /\ thread[t].basket # <<>>
    /\ \/ cache[thread[t].obj] = Freed /\ Break("freed volume")
       \/ /\ cache[thread[t].obj] # Freed
          /\ leaf' = [n \in Leaves |->
                IF n \notin ToSet(thread[t].basket) THEN leaf[n]
                ELSE IF \A o \in Living : n \notin ToSet(cache[o].lru) /\ ~leaf[n].deleted THEN Leak(leaf[n])
                ELSE PutLeaf(leaf[n])]
          /\ thread' = [thread EXCEPT ![t] = Idle]
          /\ UNCHANGED <<table, cache, broken, failures>>

\* cache_invalidate_by_type: all leaves, or those the condition does not keep.
kick_meta_cache(t) ==
    /\ broken = "no" /\ thread[t].pc = "kicking"
    /\ \E keeps \in SUBSET ToSet(Here(t).lru) : Becomes(t, __kick_meta_cache(World(t), -1, keeps))
    /\ Done(t)
    /\ UNCHANGED <<table, broken, failures>>

\* volume_clear_all kicks ...
volume_clear_all(t) ==
    /\ broken = "no" /\ thread[t].pc = "kicking"
    /\ Becomes(t, __kick_meta_cache(World(t), -1, {}))
    /\ Goto(t, "remove")
    /\ UNCHANGED <<table, broken, failures>>

\* ... and frees the volume that is in the table now.  Leaves added meanwhile leak, and the
\* model forgets them.
volume_remove_by_id(t) ==
    /\ broken = "no" /\ thread[t].pc = "remove"
    /\ \/ /\ table = NoVolume
          /\ Done(t)
          /\ UNCHANGED <<table, cache, leaf, broken, failures>>
       \/ /\ table # NoVolume /\ ~\E u \in Threads : InTree(u, table)
          /\ leaf' = [n \in Leaves |-> IF n \in ToSet(cache[table].lru) /\ leaf[n].refcnt = 0 THEN Freed ELSE leaf[n]]
          /\ cache' = [cache EXCEPT ![table] = Freed]
          /\ table' = NoVolume
          /\ Done(t)
          /\ UNCHANGED <<broken, failures>>
       \/ /\ table # NoVolume /\ \E u \in Threads : InTree(u, table)
          /\ Break("freed volume")

Next ==
    \/ volume_create
    \/ \E t \in Threads :
         \/ volume_find(t) \/ Put_nowhere(t) \/ Lock(t) \/ Kick(t)
         \/ cache_find(t) \/ cache_invalidate(t) \/ cache_update(t) \/ cache_put(t)
         \/ kick_meta_cache(t) \/ volume_clear_all(t) \/ volume_remove_by_id(t)

Spec == Init /\ [][Next]_vars

-----------------------------------------------------------------------------
(* Properties.                                                              *)

Held(n) == {t \in Threads : n \in ToSet(thread[t].basket)}

\* The tree finds a leaf under its block exactly if it is on the LRU list, once, and cache_num
\* counts them; nodes are kept exactly for items, unless memory ran out (cache_update,
\* cache_invalidate, __kick_meta_cache, radix_tree_insert, radix_tree_delete).
TreeIsLru ==
    \A o \in Living :
        LET c == cache[o] IN
        /\ c.num = Len(c.lru) /\ IsInjective(c.lru)
        /\ \A n \in ToSet(c.lru) : Alive(n) /\ ~leaf[n].deleted /\ Item(c.tree, n[1]) = AsItem(n)
        /\ \A b \in Blocks : Item(c.tree, b) # NULL => Item(c.tree, b).id \in ToSet(c.lru)
        /\ failures = 0 /\ c.tree.rnode # NULL => Sound(c.tree.rnode, c.tree.height)

\* A leaf lives as long as it is on a list or somebody holds it, and no longer, whatever is
\* added, kicked or invalidated meanwhile, unless its volume is gone (cache_put, Drop).
LeafLivesWhileUsed ==
    \A n \in Leaves :
        /\ Listed(n) \/ Held(n) # {} => Alive(n)
        /\ Alive(n) => /\ leaf[n].refcnt >= Cardinality(Held(n))
                       /\ ~Listed(n) => leaf[n].refcnt > 0

\* A lookup meets a tree with a height and no node only after memory ran out inside an insert
\* (radix_tree_extend, __lookup).
OopsNeedsFailure == broken = "oops" => failures > 0
=============================================================================
