--------------------------- MODULE UserDaemonProofs ---------------------------
(***************************************************************************)
(* Proofs about the user daemon: as long as its threads do not meet        *)
(* between query and response, the list, the file and the driver agree,    *)
(* and nothing follows NULL.                                               *)
(***************************************************************************)
EXTENDS UserDaemon, WellFoundedInduction, FiniteSetTheorems, TLAPS

-----------------------------------------------------------------------------
(* Numbers.                                                                 *)

\* A set of numbers with 0 and every successor has them all.
LEMMA SetInduction ==
    ASSUME NEW S, 0 \in S, \A n \in Nat : n \in S => n + 1 \in S
    PROVE  Nat \subseteq S
<1> DEFINE R == OpToRel(<, Nat)
<1>1. IsWellFoundedOn(R, Nat)
  BY NatLessThanWellFounded
<1>2. \A x, y \in Nat : <<x, y>> \in R <=> x < y
  BY DEF OpToRel
<1> HIDE DEF R
<1> SUFFICES ASSUME Nat \ S # {} PROVE FALSE
  OBVIOUS
<1>3. PICK x \in Nat \ S : \A y \in Nat \ S : <<y, x>> \notin R
  BY <1>1, WFMin
<1>4. x \in Nat /\ x # 0 /\ x - 1 \in Nat /\ x - 1 < x /\ x \notin S
  OBVIOUS
<1>5. <<x - 1, x>> \in R
  BY <1>2, <1>4
<1>6. x - 1 \in S
  BY <1>3, <1>4, <1>5
<1>7. (x - 1) + 1 = x
  BY <1>4
<1>8. QED
  BY <1>4, <1>6, <1>7

-----------------------------------------------------------------------------
(* The inductive invariant.                                                 *)

Commands == {"attach", "attach_rs", "detach", "detach_rs", "attach_all", "detach_all", "other"}
PCs == {"idle", "read", "spin", "detach_all", "query", "capacity", "attach", "device", "rs", "link",
        "fill", "advance", "truncate", "write", "all_next", "detach", "detach_rs", "find", "unlink"}

ThreadType ==
    [pc : PCs, op : Commands \cup {"none"}, vol : Volumes \cup {NoVolume}, node : Cells]

TypeInv ==
    /\ thread \in [Threads -> ThreadType]
    /\ next \in [Cells -> Cells \cup {Null, Wild}]
    /\ vol \in [Cells -> Volumes \cup {NoVolume}]
    /\ last \in Cells /\ cells \in Cells
    /\ held \subseteq Volumes
    /\ requests \in Nat /\ requests <= MaxRequests

\* The commands that may still call AddAttachToList: there is a node for each.
Past == {"idle", "fill", "advance", "truncate", "write"}
Pending == {t \in Threads : thread[t].pc \notin Past}
Count == IsFiniteSet(Pending) /\ cells + Cardinality(Pending) <= requests

\* What a thread at its control point works on.
Point(r) ==
    /\ r.pc # "idle" => r.vol \in Volumes /\ r.op \in Commands
    /\ r.pc = "read" => r.node = Head0
    /\ r.pc \in {"query", "rs", "link", "fill", "advance"} => r.op \in {"attach", "attach_rs"}
    /\ r.pc \in {"capacity", "attach", "device"} => r.op \in {"attach", "attach_rs", "attach_all"}
    /\ r.pc \in {"detach", "detach_rs", "find", "unlink"} => r.op \in {"detach", "detach_rs"}
    /\ r.pc \in {"truncate", "write"} => r.op \in {"attach", "attach_rs", "detach", "detach_rs"}
    /\ r.pc = "all_next" => r.op = "attach_all"

\* A thread that others must not meet: it has read the list or changed something.
Deep(r) ==
    \/ r.pc \notin {"idle", "read", "spin", "detach_all", "query", "detach", "all_next"}
    \/ r.pc = "all_next" /\ r.node # Head0

\* The nodes L are the list: in the order they were allocated, each volume once.
Ordered(L) ==
    /\ L \subseteq 1..cells
    /\ last \in L \cup {Head0} /\ \A c \in L : c <= last
    /\ \A c \in (L \cup {Head0}) \ {last} :
         next[c] \in L /\ c < next[c] /\ \A d \in L : d <= c \/ next[c] <= d
    /\ \A c \in L : vol[c] \in Volumes
    /\ \A c, d \in L : vol[c] = vol[d] => c = d

Names(L) == {vol[c] : c \in L}
Closed == next[last] = Null

\* List and driver agree, but for v; the file agrees with the list.
SyncedBut(L, v) == \A w \in Volumes \ unsynced : w = v \/ (w \in Names(L) <=> w \in held)
Synced(L) == \A w \in Volumes \ unsynced : w \in Names(L) <=> w \in held
Filed(L) == cells > 0 => file = Names(L)

Calm(L) == Closed /\ Synced(L) /\ Filed(L)

\* What a deep thread finds.
Fits(L, r) ==
    /\ r.op = "attach_all" => Calm(L) /\ r.node \in L /\ r.vol = vol[r.node]
    /\ r.op # "attach_all" /\ r.pc \in {"capacity", "attach"} => Calm(L) /\ r.vol \notin Names(L)
    /\ r.op # "attach_all" /\ r.pc \in {"device", "rs", "link"} =>
         Closed /\ Filed(L) /\ SyncedBut(L, r.vol) /\ r.vol \notin Names(L) /\ r.vol \in held
    /\ r.pc \in {"fill", "advance"} =>
         /\ SyncedBut(L, r.vol) /\ r.vol \notin Names(L) /\ r.vol \in held
         /\ cells > 0 /\ cells \notin L /\ next[last] = cells
         /\ r.pc = "advance" => next[cells] = Null /\ vol[cells] = r.vol
    /\ r.pc \in {"truncate", "write"} => Closed /\ Synced(L)
    /\ r.pc \in {"truncate", "write"} /\ r.op \in {"detach", "detach_rs"} =>
         r.vol \notin Names(L) /\ r.vol \notin held
    /\ r.pc \in {"detach_rs", "find", "unlink"} =>
         Closed /\ Filed(L) /\ SyncedBut(L, r.vol) /\ r.vol \notin held
    /\ r.pc = "unlink" =>
         r.node \in L \cup {Head0} /\ next[r.node] \in L /\ vol[next[r.node]] = r.vol

ListIs(L) ==
    /\ Ordered(L)
    /\ (\A t \in Threads : ~Deep(thread[t])) => Calm(L)
    /\ \A t \in Threads : Deep(thread[t]) => Fits(L, thread[t])

Sound ==
    /\ TypeInv
    /\ Count
    /\ \A t \in Threads : Point(thread[t])
    /\ \E L \in SUBSET (1..cells) : ListIs(L)
    /\ ~faulted

DaemonInv == ~clash => Sound

-----------------------------------------------------------------------------
(* The nodes met from the head on.                                          *)

\* One node further.
Longer(s) == IF next[Last(s)] \in Cells THEN Append(s, next[Last(s)]) ELSE s
IsUpto(f, N) == f = [n \in 0..N |-> IF n = 0 THEN <<Head0>> ELSE Longer(f[n - 1])]

LEMMA UptoExists == \A N \in Nat : \E f : IsUpto(f, N)
<1> DEFINE S == {N \in Nat : \E f : IsUpto(f, N)}
<1>1. 0 \in S
  <2> DEFINE f == [n \in 0..0 |-> <<Head0>>]
  <2>1. f = [n \in 0..0 |-> IF n = 0 THEN <<Head0>> ELSE Longer(f[n - 1])]
    OBVIOUS
  <2> HIDE DEF f
  <2>2. IsUpto(f, 0)
    BY <2>1 DEF IsUpto
  <2>3. QED
    BY <2>2
<1>2. ASSUME NEW N \in Nat, N \in S PROVE N + 1 \in S
  <2>1. PICK f : IsUpto(f, N)
    BY <1>2
  <2> DEFINE v == Longer(f[N])
             g == [n \in 0..N + 1 |-> IF n = N + 1 THEN v ELSE f[n]]
             e(n) == IF n = 0 THEN <<Head0>> ELSE Longer(g[n - 1])
             d(n) == IF n = 0 THEN <<Head0>> ELSE Longer(f[n - 1])
  <2>2. \A n \in 0..N : f[n] = d(n)
    BY <2>1 DEF IsUpto
  <2>3. \A n \in 0..N + 1 : n = 0 \/ (n \in 1..N /\ n \in 0..N /\ n - 1 \in 0..N) \/ n = N + 1
    OBVIOUS
  <2>4. \A n \in 0..N : g[n] = f[n]
    OBVIOUS
  <2>5. g[N + 1] = v /\ (N + 1) - 1 = N /\ N \in 0..N /\ N + 1 # 0 /\ 0 \in 0..N
    OBVIOUS
  <2>6. g = [n \in 0..N + 1 |-> g[n]]
    OBVIOUS
  <2> HIDE DEF g, v
  <2>7. \A n \in 0..N + 1 : g[n] = e(n)
    <3>1. g[0] = e(0)
      BY <2>2, <2>4, <2>5
    <3>2. ASSUME NEW n \in 0..N, n # 0, n - 1 \in 0..N PROVE g[n] = e(n)
      BY <2>2, <2>4, <3>2
    <3>3. g[N + 1] = e(N + 1)
      BY <2>4, <2>5 DEF v
    <3>4. QED
      BY <2>3, <3>1, <3>2, <3>3
  <2> HIDE DEF e
  <2>8. g = [n \in 0..N + 1 |-> e(n)]
    BY <2>6, <2>7
  <2>9. IsUpto(g, N + 1)
    BY <2>8 DEF e, IsUpto
  <2>10. QED
    BY <2>9
<1> HIDE DEF S
<1>3. Nat \subseteq S
  BY <1>1, <1>2, SetInduction
<1>4. QED
  BY <1>3 DEF S

\* The first nodes of the list, at least as far as the node n if there is one.
Begins(s, L, n) ==
    /\ s \in Seq(L \cup {Head0}) /\ Len(s) > 0 /\ s[1] = Head0
    /\ \A i \in 1..Len(s) - 1 : s[i + 1] = next[s[i]] /\ s[i + 1] \in L
    /\ \A d \in L : d <= s[Len(s)] => \E i \in 2..Len(s) : s[i] = d
    /\ s[Len(s)] = last \/ n <= s[Len(s)]

\* One node further, the list begins so, too.
LEMMA LongerBegins ==
    ASSUME TypeInv, NEW L, Ordered(L), Closed, NEW s, NEW n \in Nat, Begins(s, L, n)
    PROVE  Begins(Longer(s), L, n + 1)
<1> DEFINE c == s[Len(s)]
<1>1. /\ Len(s) \in Nat \ {0} /\ c \in L \cup {Head0} /\ Last(s) = c
      /\ \A d \in L \cup {Head0} : d \in Cells /\ d \in Nat /\ d <= last
      /\ last \in Nat /\ MaxRequests \in Nat
      /\ \A i \in 1..Len(s) : s[i] \in L \cup {Head0}
  BY BoundsAssumption DEF Begins, Ordered, Last, TypeInv, Cells, Head0
<1>2. CASE c = last
  <2>1. next[c] = Null /\ Null \notin Cells
    BY <1>2, BoundsAssumption DEF Closed, Null, Cells
  <2>2. Longer(s) = s
    BY <1>1, <2>1 DEF Longer
  <2>3. QED
    BY <1>2, <2>2 DEF Begins
<1>3. CASE c # last
  <2> DEFINE b == next[c]
             l == Append(s, b)
  <2>1. b \in L /\ c < b /\ (\A d \in L : d <= c \/ b <= d) /\ b \in Cells
    BY <1>1, <1>3 DEF Ordered
  <2>2. Longer(s) = l
    BY <1>1, <2>1 DEF Longer
  <2>3. /\ l \in Seq(L \cup {Head0}) /\ Len(l) = Len(s) + 1 /\ l[Len(s) + 1] = b
        /\ \A i \in 1..Len(s) : l[i] = s[i]
    BY <1>1, <2>1 DEF Begins
  <2> HIDE DEF l
  <2>4. l[1] = Head0
    BY <1>1, <2>3 DEF Begins
  <2>5. \A i \in 1..Len(l) - 1 : l[i + 1] = next[l[i]] /\ l[i + 1] \in L
    <3>1. \A i \in 1..Len(l) - 1 : i = Len(s) \/ (i \in 1..Len(s) - 1 /\ i \in 1..Len(s) /\ i + 1 \in 1..Len(s))
      BY <1>1, <2>3
    <3>2. Len(s) \in 1..Len(s)
      BY <1>1
    <3>3. QED
      BY <1>1, <2>1, <2>3, <3>1, <3>2 DEF Begins
  <2>6. ASSUME NEW d \in L, d <= b PROVE \E i \in 2..Len(l) : l[i] = d
    <3>1. CASE d <= c
      <4>1. PICK i \in 2..Len(s) : s[i] = d
        BY <3>1 DEF Begins
      <4>2. i \in 2..Len(l) /\ i \in 1..Len(s)
        BY <1>1, <2>3
      <4>3. QED
        BY <2>3, <4>1, <4>2
    <3>2. CASE ~(d <= c)
      <4>1. d = b
        BY <1>1, <2>1, <2>6, <3>2
      <4>2. Len(s) + 1 \in 2..Len(l)
        BY <1>1, <2>3
      <4>3. QED
        BY <2>3, <4>1, <4>2
    <3>3. QED
      BY <3>1, <3>2
  <2>7. b = last \/ n + 1 <= b
    <3>1. n <= c /\ c \in Nat /\ b \in Nat
      BY <1>1, <1>3, <2>1 DEF Begins
    <3>2. QED
      BY <2>1, <3>1
  <2>8. Len(l) > 0 /\ l[Len(l)] = b
    BY <1>1, <2>3
  <2>9. QED
    BY <2>2, <2>3, <2>4, <2>5, <2>6, <2>7, <2>8 DEF Begins
<1>4. QED
  BY <1>2, <1>3

\* The walk that QueryAttachInfo, RemoveAttachFromList and SaveAttachInfoToFile make meets the
\* nodes of the list, in their order, and ends at the last.
LEMMA ChainIsList ==
    ASSUME TypeInv, NEW L, Ordered(L), Closed
    PROVE  /\ Chain \in Seq(L \cup {Head0}) /\ Len(Chain) > 0
           /\ \A i \in 1..Len(Chain) - 1 : Chain[i + 1] = next[Chain[i]] /\ Chain[i + 1] \in L
           /\ \A d \in L : \E i \in 2..Len(Chain) : Chain[i] = d
           /\ Last(Chain) = last
<1>1. PICK f : IsUpto(f, MaxRequests) /\ Chain = f[MaxRequests]
  <2>1. \E f : IsUpto(f, MaxRequests)
    BY UptoExists, BoundsAssumption
  <2>2. QED
    BY <2>1 DEF Chain, IsUpto, Longer
<1>2. /\ f[0] = <<Head0>>
      /\ \A n \in 1..MaxRequests : f[n] = Longer(f[n - 1])
  BY <1>1, BoundsAssumption DEF IsUpto
<1> DEFINE S == {n \in Nat : n <= MaxRequests => Begins(f[n], L, n)}
<1>3. 0 \in S
  <2>1. \A d \in L : d \in Nat /\ ~(d <= 0)
    BY DEF Ordered
  <2> DEFINE s == <<Head0>>
  <2>2. s \in Seq(L \cup {Head0}) /\ Len(s) = 1 /\ s[1] = 0
    BY DEF Head0
  <2> HIDE DEF s
  <2>3. Begins(s, L, 0)
    BY <2>1, <2>2 DEF Begins, Head0
  <2>4. QED
    BY <1>2, <2>3 DEF s
<1>4. ASSUME NEW n \in Nat, n \in S PROVE n + 1 \in S
  <2> SUFFICES ASSUME n + 1 <= MaxRequests PROVE Begins(f[n + 1], L, n + 1)
    OBVIOUS
  <2>1. n <= MaxRequests /\ n + 1 \in 1..MaxRequests /\ (n + 1) - 1 = n
    BY BoundsAssumption
  <2>2. f[n + 1] = Longer(f[n])
    BY <1>2, <2>1
  <2>3. Begins(f[n], L, n)
    BY <1>4, <2>1
  <2>4. QED
    BY <2>2, <2>3, LongerBegins
<1> HIDE DEF S
<1>5. MaxRequests \in S
  BY <1>3, <1>4, SetInduction, BoundsAssumption
<1>6. Begins(Chain, L, MaxRequests)
  BY <1>1, <1>5, BoundsAssumption DEF S
<1>7. /\ Len(Chain) \in Nat \ {0} /\ Chain[Len(Chain)] \in L \cup {Head0}
      /\ \A d \in L \cup {Head0} : d \in 0..MaxRequests /\ d <= last
      /\ last \in 0..MaxRequests
  BY <1>6, BoundsAssumption DEF Begins, Ordered, TypeInv, Cells, Head0
<1>8. Chain[Len(Chain)] = last
  BY <1>6, <1>7, BoundsAssumption DEF Begins
<1>9. QED
  BY <1>6, <1>7, <1>8 DEF Begins, Last

\* What is listed is what the nodes of the list hold, and no walk leaves the list.
LEMMA ListedIsNames ==
    ASSUME TypeInv, NEW L, Ordered(L), Closed
    PROVE  Listed = Names(L) /\ ~RunsWild
<1>1. /\ Chain \in Seq(L \cup {Head0}) /\ Len(Chain) > 0
      /\ \A d \in L : \E i \in 2..Len(Chain) : Chain[i] = d
      /\ Last(Chain) = last
  BY ChainIsList
<1>2. DOMAIN Chain = 1..Len(Chain) /\ Len(Chain) \in Nat /\ \A i \in 1..Len(Chain) : Chain[i] \in L \cup {Head0}
  BY <1>1
<1>3. \A d \in L : d # Head0
  BY DEF Ordered, Head0
<1>4. ToSet(Chain) \ {Head0} = L
  <2>1. \A i \in 2..Len(Chain) : i \in 1..Len(Chain)
    BY <1>2
  <2>2. QED
    BY <1>1, <1>2, <1>3, <2>1 DEF ToSet
<1>5. Null # Wild
  BY BoundsAssumption DEF Null, Wild
<1>6. QED
  BY <1>1, <1>4, <1>5 DEF Listed, Names, RunsWild, Closed

-----------------------------------------------------------------------------
(* What every step does.                                                    *)

\* The nodes of the list are nodes.
LEMMA AreCells ==
    ASSUME TypeInv, NEW L \in SUBSET (1..cells)
    PROVE  \A c \in L \cup {Head0} : c \in Cells /\ c \in Nat /\ c <= cells
<1>1. cells \in 0..MaxRequests /\ MaxRequests \in Nat /\ Cells = 0..MaxRequests /\ Head0 = 0
  BY BoundsAssumption DEF TypeInv, Cells, Head0
<1>2. QED
  BY <1>1

\* The list is not touched.
LEMMA ListKept ==
    ASSUME UNCHANGED list, NEW L, Ordered(L)
    PROVE  Ordered(L)' /\ Names(L)' = Names(L) /\ Closed' = Closed
BY DEF list, Ordered, Names, Closed

\* Nothing that Calm or Fits speaks of is touched.
LEMMA FitKept ==
    ASSUME UNCHANGED <<list, file, held, unsynced>>, NEW L, NEW r
    PROVE  /\ Ordered(L) => Ordered(L)'
           /\ Calm(L) => Calm(L)'
           /\ Fits(L, r) => Fits(L, r)'
BY DEF list, Ordered, Names, Closed, Calm, Synced, SyncedBut, Filed, Fits

\* A thread goes on.
LEMMA GotoRecord ==
    ASSUME TypeInv, NEW t \in Threads, NEW pc \in PCs, Goto(t, pc)
    PROVE  \E r \in ThreadType :
             /\ thread' = [thread EXCEPT ![t] = r]
             /\ r.pc = pc /\ r.op = thread[t].op /\ r.vol = thread[t].vol /\ r.node = thread[t].node
<1> DEFINE r == [thread[t] EXCEPT !.pc = pc]
<1>1. thread[t] \in ThreadType
  BY DEF TypeInv
<1>2. r \in ThreadType /\ r.pc = pc /\ r.op = thread[t].op /\ r.vol = thread[t].vol /\ r.node = thread[t].node
  BY <1>1 DEF ThreadType
<1>3. thread' = [thread EXCEPT ![t] = r]
  BY DEF Goto
<1>4. QED
  BY <1>2, <1>3

\* ... or ends.
LEMMA IdleRecord ==
    Idle \in ThreadType /\ Idle.pc = "idle" /\ Point(Idle) /\ ~Deep(Idle)
BY BoundsAssumption DEF Idle, ThreadType, PCs, Cells, Head0, Point, Deep

\* A thread that adds no node and does not begin a command keeps the count.
LEMMA CountKept ==
    ASSUME TypeInv, Count, NEW t \in Threads, NEW r \in ThreadType,
           thread' = [thread EXCEPT ![t] = r], cells' = cells, requests' = requests,
           r.pc \notin Past => thread[t].pc \notin Past
    PROVE  thread' \in [Threads -> ThreadType] /\ Count'
<1>1. thread' \in [Threads -> ThreadType]
  BY DEF TypeInv
<1>2. Pending' \subseteq Pending
  BY DEF Pending, TypeInv
<1>3. IsFiniteSet(Pending) /\ IsFiniteSet(Pending') /\ Cardinality(Pending') <= Cardinality(Pending)
  BY <1>2, FS_Subset DEF Count
<1>4. Cardinality(Pending') \in Nat /\ Cardinality(Pending) \in Nat /\ cells \in Nat /\ requests \in Nat
  BY <1>3, FS_CardinalityType, BoundsAssumption DEF TypeInv, Cells
<1>5. QED
  BY <1>1, <1>3, <1>4 DEF Count

\* A thread that steps without a clash has met no other.
LEMMA Alone ==
    ASSUME TypeInv, NEW t \in Threads, NEW pc, At(t, pc), ~clash'
    PROVE  /\ thread[t].pc = pc
           /\ \A u \in Threads \ {t} : ~Deep(thread[u])
BY DEF At, Busy, Deep

\* So the list is as it says itself, or calm.
LEMMA Found ==
    ASSUME Sound, NEW t \in Threads, NEW pc, At(t, pc), ~clash'
    PROVE  \E L \in SUBSET (1..cells) :
             /\ Ordered(L)
             /\ Deep(thread[t]) => Fits(L, thread[t])
             /\ ~Deep(thread[t]) => Calm(L)
<1>1. \A u \in Threads \ {t} : ~Deep(thread[u])
  BY Alone DEF Sound
<1>2. PICK L \in SUBSET (1..cells) : ListIs(L)
  BY DEF Sound
<1>3. QED
  BY <1>1, <1>2 DEF ListIs

\* What is to be shown of such a step.
LEMMA Leaves ==
    ASSUME Sound, NEW t \in Threads, NEW pc, At(t, pc), ~clash',
           NEW r \in ThreadType, thread' = [thread EXCEPT ![t] = r], Point(r),
           TypeInv', Count', faulted' = faulted,
           NEW L \in SUBSET (1..cells'), Ordered(L)',
           Deep(r) => Fits(L, r)', ~Deep(r) => Calm(L)'
    PROVE  Sound'
<1>1. \A u \in Threads \ {t} : ~Deep(thread[u])
  BY Alone DEF Sound
<1>2. thread'[t] = r /\ \A u \in Threads \ {t} : thread'[u] = thread[u]
  BY DEF Sound, TypeInv
<1>3. \A u \in Threads : Point(thread'[u])
  BY <1>2 DEF Sound
<1>4. \A u \in Threads : Deep(thread'[u]) => u = t
  BY <1>1, <1>2
<1>5. (\A u \in Threads : ~Deep(thread'[u])) => Calm(L)'
  BY <1>2
<1>6. ASSUME NEW u \in Threads, Deep(thread'[u]) PROVE Fits(L, thread[u])'
  <2>1. u = t /\ thread'[u] = r
    BY <1>2, <1>4, <1>6
  <2>2. Fits(L, r)'
    BY <1>6, <2>1
  <2>3. QED
    BY <2>1, <2>2 DEF Fits
<1>7. ListIs(L)'
  BY <1>5, <1>6 DEF ListIs
<1>8. QED
  BY <1>3, <1>7 DEF Sound

\* A step that changes nothing but the thread, the devices and what is left in one of them only.
LEMMA QuietLeaves ==
    ASSUME Sound, NEW t \in Threads, NEW pc, At(t, pc), ~clash',
           NEW r \in ThreadType, thread' = [thread EXCEPT ![t] = r], Point(r),
           r.pc \notin Past => pc \notin Past,
           held' \subseteq Volumes,
           UNCHANGED <<list, requests, faulted>>,
           NEW L \in SUBSET (1..cells), Ordered(L),
           Deep(r) => Fits(L, r)', ~Deep(r) => Calm(L)'
    PROVE  Sound'
<1>1. thread[t].pc = pc
  BY DEF At
<1>2. TypeInv /\ Count
  BY DEF Sound
<1>3. cells' = cells /\ next' = next /\ vol' = vol /\ last' = last
  BY DEF list
<1>4. thread' \in [Threads -> ThreadType] /\ Count'
  BY <1>1, <1>2, <1>3, CountKept
<1>5. TypeInv'
  BY <1>2, <1>3, <1>4 DEF TypeInv
<1>6. Ordered(L)'
  BY ListKept
<1>7. QED
  BY <1>3, <1>4, <1>5, <1>6, Leaves

-----------------------------------------------------------------------------
(* attach_volume.                                                           *)

\* The thread of a step that was found calm, or in a fitting state, goes on or ends.
LEMMA QueryKeeps ==
    ASSUME Sound, NEW t \in Threads, QueryAttachInfo(t), ~clash'
    PROVE  Sound'
<1>1. At(t, "query") /\ thread[t].pc = "query"
  BY DEF QueryAttachInfo, At
<1>2. PICK L \in SUBSET (1..cells) : Ordered(L) /\ Calm(L)
  BY <1>1, Found DEF Deep
<1>3. Listed = Names(L) /\ ~RunsWild
  BY <1>2, ListedIsNames DEF Sound, Calm
<1>4. Point(thread[t]) /\ TypeInv
  BY DEF Sound
<1>5. UNCHANGED <<list, file, held, unsynced, requests, faulted>>
  BY <1>3 DEF QueryAttachInfo, outside
<1>6. Calm(L)' /\ held' \subseteq Volumes
  BY <1>2, <1>4, <1>5, FitKept DEF TypeInv
<1>7. CASE Send_response(t)
  <2>1. thread' = [thread EXCEPT ![t] = Idle]
    BY <1>7 DEF Send_response
  <2>2. QED
    BY <1>1, <1>2, <1>5, <1>6, <2>1, IdleRecord, QuietLeaves DEF Past
<1>8. CASE thread[t].vol \notin Listed /\ Goto(t, "capacity")
  <2>1. PICK r \in ThreadType :
          /\ thread' = [thread EXCEPT ![t] = r]
          /\ r.pc = "capacity" /\ r.op = thread[t].op /\ r.vol = thread[t].vol /\ r.node = thread[t].node
    BY <1>4, <1>8, GotoRecord DEF PCs
  <2>2. Point(r) /\ r.op # "attach_all" /\ r.vol \notin Names(L)
    BY <1>1, <1>3, <1>4, <1>8, <2>1 DEF Point
  <2>3. Names(L)' = Names(L)
    BY <1>5 DEF list, Names
  <2>4. Fits(L, r)'
    BY <1>6, <2>1, <2>2, <2>3 DEF Fits
  <2>5. QED
    BY <1>1, <1>2, <1>5, <1>6, <2>1, <2>2, <2>4, QuietLeaves DEF Deep, Past
<1>9. QED
  BY <1>3, <1>7, <1>8 DEF QueryAttachInfo

\* attach_volume returns to attach_all_volume or to process_thread.
LEMMA ReturnKeeps ==
    ASSUME Sound, NEW t \in Threads, NEW pc, At(t, pc), ~clash', pc \in {"capacity", "attach"},
           Return(t), UNCHANGED <<list, file, held, unsynced, requests, faulted>>
    PROVE  Sound'
<1>1. thread[t].pc = pc /\ Point(thread[t]) /\ TypeInv /\ Deep(thread[t])
  BY DEF At, Sound, Deep
<1>2. PICK L \in SUBSET (1..cells) : Ordered(L) /\ Fits(L, thread[t])
  BY <1>1, Found
<1>3. Fits(L, thread[t]) /\ Calm(L)
  BY <1>1, <1>2 DEF Fits, Point
<1>4. Calm(L)' /\ held' \subseteq Volumes
  BY <1>1, <1>3, FitKept DEF TypeInv
<1>5. CASE All(t)
  <2>1. PICK r \in ThreadType :
          /\ thread' = [thread EXCEPT ![t] = r]
          /\ r.pc = "all_next" /\ r.op = thread[t].op /\ r.vol = thread[t].vol /\ r.node = thread[t].node
    BY <1>1, <1>5, GotoRecord DEF Return, PCs
  <2>2. Point(r) /\ r.op = "attach_all"
    BY <1>1, <1>5, <2>1 DEF Point, All
  <2>3. r.node \in L /\ r.vol = vol[r.node] /\ vol' = vol
    BY <1>2, <2>1, <2>2 DEF Fits, list
  <2>4. Fits(L, r)'
    BY <1>4, <2>1, <2>2, <2>3 DEF Fits
  <2>5. QED
    BY <1>2, <1>4, <2>1, <2>2, <2>4, QuietLeaves DEF Past
<1>6. CASE ~All(t)
  <2>1. thread' = [thread EXCEPT ![t] = Idle]
    BY <1>6 DEF Return, Send_response
  <2>2. QED
    BY <1>2, <1>4, <2>1, IdleRecord, QuietLeaves DEF Past
<1>7. QED
  BY <1>5, <1>6

LEMMA CapacityKeeps ==
    ASSUME Sound, NEW t \in Threads, GetCapacityFromNamenode(t), ~clash'
    PROVE  Sound'
<1>1. /\ At(t, "capacity") /\ thread[t].pc = "capacity" /\ Point(thread[t]) /\ TypeInv
      /\ UNCHANGED <<list, file, held, unsynced, requests, faulted>>
  BY DEF GetCapacityFromNamenode, At, Sound, outside
<1>2. CASE Return(t)
  BY <1>1, <1>2, ReturnKeeps
<1>3. PICK L \in SUBSET (1..cells) : Ordered(L) /\ Fits(L, thread[t])
  BY <1>1, Found DEF Deep
<1>4. Calm(L)' /\ held' \subseteq Volumes
  BY <1>1, <1>3, FitKept DEF TypeInv, Fits, Point
<1>5. CASE Goto(t, "attach")
  <2>1. PICK r \in ThreadType :
          /\ thread' = [thread EXCEPT ![t] = r]
          /\ r.pc = "attach" /\ r.op = thread[t].op /\ r.vol = thread[t].vol /\ r.node = thread[t].node
    BY <1>1, <1>5, GotoRecord DEF PCs
  <2>2. Point(r)
    BY <1>1, <2>1 DEF Point
  <2>3. Names(L)' = Names(L) /\ vol' = vol
    BY <1>1 DEF list, Names
  <2>4. Fits(L, r)'
    BY <1>1, <1>3, <1>4, <2>1, <2>3 DEF Fits
  <2>5. QED
    BY <1>1, <1>3, <1>4, <2>1, <2>2, <2>4, QuietLeaves DEF Deep, Past
<1>6. CASE Goto(t, "spin")
  <2>1. PICK r \in ThreadType :
          /\ thread' = [thread EXCEPT ![t] = r]
          /\ r.pc = "spin" /\ r.op = thread[t].op /\ r.vol = thread[t].vol /\ r.node = thread[t].node
    BY <1>1, <1>6, GotoRecord DEF PCs
  <2>2. Point(r) /\ ~Deep(r)
    BY <1>1, <2>1 DEF Point, Deep
  <2>3. QED
    BY <1>1, <1>3, <1>4, <2>1, <2>2, QuietLeaves DEF Past
<1>7. QED
  BY <1>2, <1>5, <1>6 DEF GetCapacityFromNamenode

LEMMA AttachKeeps ==
    ASSUME Sound, NEW t \in Threads, Ioctl_attach(t), ~clash'
    PROVE  Sound'
<1>1. /\ At(t, "attach") /\ thread[t].pc = "attach" /\ Point(thread[t]) /\ TypeInv
      /\ UNCHANGED <<list, file, unsynced, requests, faulted>>
  BY DEF Ioctl_attach, At, Sound
<1>2. CASE Return(t) /\ UNCHANGED held
  BY <1>1, <1>2, ReturnKeeps
<1>3. CASE held' = held \cup {thread[t].vol} /\ Goto(t, "device")
  <2>1. PICK L \in SUBSET (1..cells) : Ordered(L) /\ Fits(L, thread[t])
    BY <1>1, Found DEF Deep
  <2>2. PICK r \in ThreadType :
          /\ thread' = [thread EXCEPT ![t] = r]
          /\ r.pc = "device" /\ r.op = thread[t].op /\ r.vol = thread[t].vol /\ r.node = thread[t].node
    BY <1>1, <1>3, GotoRecord DEF PCs
  <2>3. Point(r) /\ r.vol \in Volumes /\ held' \subseteq Volumes
    BY <1>1, <1>3, <2>2 DEF Point, TypeInv
  <2>4. Names(L)' = Names(L) /\ vol' = vol /\ cells' = cells /\ Closed' = Closed
    BY <1>1 DEF list, Names, Closed
  <2>5. Calm(L)
    BY <1>1, <2>1 DEF Fits, Point
  <2>6. Filed(L)' /\ Closed' /\ r.vol \in held'
    BY <1>1, <1>3, <2>2, <2>4, <2>5 DEF Calm, Filed
  <2>7. CASE r.op = "attach_all"
    <3>1. r.node \in L /\ r.vol = vol[r.node]
      BY <2>1, <2>2, <2>7 DEF Fits
    <3>2. r.vol \in Names(L)
      BY <3>1 DEF Names
    <3>3. Synced(L)'
      BY <1>1, <1>3, <2>2, <2>4, <2>5, <3>2 DEF Calm, Synced
    <3>4. Fits(L, r)'
      BY <2>2, <2>4, <2>6, <2>7, <3>1, <3>3 DEF Fits, Calm
    <3>5. QED
      BY <1>1, <2>1, <2>2, <2>3, <3>4, QuietLeaves DEF Deep, Past
  <2>8. CASE r.op # "attach_all"
    <3>1. r.vol \notin Names(L)
      BY <1>1, <2>1, <2>2, <2>8 DEF Fits
    <3>2. SyncedBut(L, r.vol)'
      BY <1>1, <1>3, <2>2, <2>4, <2>5 DEF Calm, Synced, SyncedBut
    <3>3. Fits(L, r)'
      BY <2>2, <2>4, <2>6, <2>8, <3>1, <3>2 DEF Fits
    <3>4. QED
      BY <1>1, <2>1, <2>2, <2>3, <3>3, QuietLeaves DEF Deep, Past
  <2>9. QED
    BY <2>7, <2>8
<1>4. QED
  BY <1>2, <1>3 DEF Ioctl_attach

LEMMA DeviceKeeps ==
    ASSUME Sound, NEW t \in Threads, Check_device(t), ~clash'
    PROVE  Sound'
<1>1. /\ At(t, "device") /\ thread[t].pc = "device" /\ Point(thread[t]) /\ TypeInv
      /\ UNCHANGED <<list, file, held, unsynced, requests, faulted>>
  BY DEF Check_device, At, Sound, outside
<1>2. PICK L \in SUBSET (1..cells) : Ordered(L) /\ Fits(L, thread[t])
  BY <1>1, Found DEF Deep
<1>3. PICK pc \in {"all_next", "rs", "link"} : Goto(t, pc) /\ (All(t) <=> pc = "all_next")
  BY DEF Check_device
<1>4. PICK r \in ThreadType :
        /\ thread' = [thread EXCEPT ![t] = r]
        /\ r.pc = pc /\ r.op = thread[t].op /\ r.vol = thread[t].vol /\ r.node = thread[t].node
  BY <1>1, <1>3, GotoRecord DEF PCs
<1>5. Point(r)
  BY <1>1, <1>3, <1>4 DEF Point, All
<1>6. Fits(L, r)
  BY <1>1, <1>2, <1>3, <1>4 DEF Fits, All
<1>7. Fits(L, r)' /\ held' \subseteq Volumes
  BY <1>1, <1>6, FitKept DEF TypeInv
<1>8. Deep(r)
  <2>1. CASE pc = "all_next"
    <3>1. r.node \in L
      BY <1>3, <1>4, <1>6, <2>1 DEF Fits, All
    <3>2. r.node # Head0
      BY <1>2, <3>1 DEF Ordered, Head0
    <3>3. QED
      BY <1>4, <2>1, <3>2 DEF Deep
  <2>2. CASE pc # "all_next"
    BY <1>3, <1>4, <2>2 DEF Deep
  <2>3. QED
    BY <2>1, <2>2
<1>9. QED
  BY <1>1, <1>2, <1>3, <1>4, <1>5, <1>7, <1>8, QuietLeaves DEF Past

LEMMA RSKeeps ==
    ASSUME Sound, NEW t \in Threads, ~clash',
           \/ Save_attach_info_to_rs(t, "rs", "link")
           \/ Save_attach_info_to_rs(t, "detach_rs", "find")
    PROVE  Sound'
<1>1. PICK pc \in {"rs", "detach_rs"}, then \in {"link", "find"} :
        Save_attach_info_to_rs(t, pc, then) /\ (pc = "rs" <=> then = "link")
  OBVIOUS
<1>2. /\ At(t, pc) /\ thread[t].pc = pc /\ Point(thread[t]) /\ TypeInv
      /\ UNCHANGED <<list, file, held, requests, faulted>>
  BY <1>1 DEF Save_attach_info_to_rs, At, Sound, outside
<1>3. PICK L \in SUBSET (1..cells) : Ordered(L) /\ Fits(L, thread[t])
  BY <1>1, <1>2, Found DEF Deep
<1>4. held' \subseteq Volumes
  BY <1>2 DEF TypeInv
<1>5. CASE Goto(t, then) /\ UNCHANGED unsynced
  <2>1. PICK r \in ThreadType :
          /\ thread' = [thread EXCEPT ![t] = r]
          /\ r.pc = then /\ r.op = thread[t].op /\ r.vol = thread[t].vol /\ r.node = thread[t].node
    BY <1>1, <1>2, <1>5, GotoRecord DEF PCs
  <2>2. Point(r)
    BY <1>1, <1>2, <2>1 DEF Point
  <2>3. Fits(L, r)
    BY <1>1, <1>2, <1>3, <2>1 DEF Fits, Point
  <2>4. Fits(L, r)'
    BY <1>2, <1>5, <2>3, FitKept
  <2>5. QED
    BY <1>1, <1>2, <1>3, <1>4, <2>1, <2>2, <2>4, QuietLeaves DEF Deep, Past
<1>6. CASE Send_response(t) /\ unsynced' = unsynced \cup {thread[t].vol}
  <2>1. thread' = [thread EXCEPT ![t] = Idle]
    BY <1>6 DEF Send_response
  <2>2. Closed /\ Filed(L) /\ SyncedBut(L, thread[t].vol)
    BY <1>1, <1>2, <1>3 DEF Fits, Point
  <2>3. Names(L)' = Names(L) /\ Closed' /\ Filed(L)'
    BY <1>2, <2>2 DEF list, Names, Closed, Filed
  <2>4. Synced(L)'
    BY <1>2, <1>6, <2>2, <2>3 DEF Synced, SyncedBut
  <2>5. Calm(L)'
    BY <2>3, <2>4 DEF Calm
  <2>6. QED
    BY <1>1, <1>2, <1>3, <1>4, <2>1, <2>5, IdleRecord, QuietLeaves DEF Past
<1>7. QED
  BY <1>1, <1>5, <1>6 DEF Save_attach_info_to_rs

-----------------------------------------------------------------------------
(* AddAttachToList.                                                         *)

\* There is a node for the thread.
LEMMA CellIsThere ==
    ASSUME TypeInv, Count, NEW t \in Threads, thread[t].pc \notin Past
    PROVE  cells + 1 \in Cells /\ cells \in Nat
<1>1. IsFiniteSet(Pending) /\ t \in Pending
  BY DEF Count, Pending
<1>2. Cardinality(Pending) \in Nat /\ Cardinality(Pending) # 0
  BY <1>1, FS_CardinalityType, FS_EmptySet
<1>3. cells \in Nat /\ requests \in Nat /\ MaxRequests \in Nat /\ requests <= MaxRequests
  BY BoundsAssumption DEF TypeInv, Cells
<1>4. cells + Cardinality(Pending) <= requests
  BY DEF Count
<1>5. QED
  BY <1>2, <1>3, <1>4 DEF Cells

LEMMA LinkKeeps ==
    ASSUME Sound, NEW t \in Threads, Add_link(t), ~clash'
    PROVE  Sound'
<1>1. /\ At(t, "link") /\ thread[t].pc = "link" /\ Point(thread[t]) /\ TypeInv /\ Count
      /\ UNCHANGED <<held, requests>>
  BY DEF Add_link, At, Sound, outside, Fault
<1>2. last # Null
  BY <1>1, BoundsAssumption DEF TypeInv, Null, Cells
<1>3. /\ cells' = cells + 1 /\ next' = [next EXCEPT ![last] = cells + 1] /\ Goto(t, "fill")
      /\ UNCHANGED <<vol, last, file, held, requests, faulted, unsynced>>
  BY <1>2 DEF Add_link, outside
<1>4. PICK L \in SUBSET (1..cells) : Ordered(L) /\ Fits(L, thread[t])
  BY <1>1, Found DEF Deep
<1>5. cells + 1 \in Cells /\ cells \in Nat
  BY <1>1, CellIsThere DEF Past
<1>6. PICK r \in ThreadType :
        /\ thread' = [thread EXCEPT ![t] = r]
        /\ r.pc = "fill" /\ r.op = thread[t].op /\ r.vol = thread[t].vol /\ r.node = thread[t].node
  BY <1>1, <1>3, GotoRecord DEF PCs
<1>7. Point(r) /\ Deep(r) /\ r.op # "attach_all"
  BY <1>1, <1>6 DEF Point, Deep
<1>8. TypeInv'
  BY <1>1, <1>3, <1>5, <1>6 DEF TypeInv
<1>9. Count'
  <2>1. Pending' = Pending \ {t} /\ t \in Pending /\ IsFiniteSet(Pending)
    BY <1>1, <1>6 DEF Pending, TypeInv, Past, Count
  <2>2. IsFiniteSet(Pending') /\ Cardinality(Pending') = Cardinality(Pending) - 1
    BY <2>1, FS_RemoveElement
  <2>3. Cardinality(Pending) \in Nat /\ requests \in Nat
    BY <2>1, FS_CardinalityType, <1>1 DEF TypeInv
  <2>4. QED
    BY <1>1, <1>3, <1>5, <2>2, <2>3 DEF Count
<1>10. L \in SUBSET (1..cells') /\ cells' \notin L /\ cells' > 0
  BY <1>3, <1>5
<1>11. next'[last'] = cells' /\ (\A c \in (L \cup {Head0}) \ {last} : next'[c] = next[c])
  BY <1>1, <1>3 DEF TypeInv
<1>12. Ordered(L)'
  BY <1>3, <1>4, <1>10, <1>11 DEF Ordered
<1>13. Names(L)' = Names(L)
  BY <1>3 DEF Names
<1>14. SyncedBut(L, r.vol)' /\ r.vol \notin Names(L)' /\ r.vol \in held'
  BY <1>1, <1>3, <1>4, <1>6, <1>7, <1>13 DEF Fits, SyncedBut
<1>15. Fits(L, r)'
  BY <1>6, <1>7, <1>10, <1>11, <1>14 DEF Fits
<1>16. QED
  BY <1>1, <1>3, <1>6, <1>7, <1>8, <1>9, <1>10, <1>12, <1>15, Leaves

LEMMA FillKeeps ==
    ASSUME Sound, NEW t \in Threads, Add_fill(t), ~clash'
    PROVE  Sound'
<1>1. /\ At(t, "fill") /\ thread[t].pc = "fill" /\ Point(thread[t]) /\ TypeInv /\ Count
  BY DEF Add_fill, At, Sound
<1>2. PICK L \in SUBSET (1..cells) : Ordered(L) /\ Fits(L, thread[t])
  BY <1>1, Found DEF Deep
<1>3. next[last] = cells /\ cells \in Cells /\ cells \notin L /\ cells > 0 /\ last # Null
  BY <1>1, <1>2, BoundsAssumption DEF Fits, TypeInv, Null, Cells
<1>4. /\ vol' = [vol EXCEPT ![cells] = thread[t].vol] /\ next' = [next EXCEPT ![cells] = Null]
      /\ Goto(t, "advance")
      /\ UNCHANGED <<last, cells, file, held, requests, faulted, unsynced>>
  BY <1>3 DEF Add_fill, outside
<1>5. PICK r \in ThreadType :
        /\ thread' = [thread EXCEPT ![t] = r]
        /\ r.pc = "advance" /\ r.op = thread[t].op /\ r.vol = thread[t].vol /\ r.node = thread[t].node
  BY <1>1, <1>4, GotoRecord DEF PCs
<1>6. Point(r) /\ Deep(r) /\ r.op # "attach_all" /\ r.vol \in Volumes
  BY <1>1, <1>5 DEF Point, Deep
<1>7. thread' \in [Threads -> ThreadType] /\ Count'
  BY <1>1, <1>4, <1>5, CountKept DEF Past
<1>8. TypeInv'
  BY <1>1, <1>4, <1>5, <1>6, <1>7 DEF TypeInv
<1>9. last # cells /\ Head0 # cells /\ last \in Cells
  BY <1>1, <1>2, <1>3 DEF Ordered, Head0, TypeInv
<1>10. /\ next'[last] = cells /\ next'[cells] = Null /\ vol'[cells] = r.vol
       /\ \A c \in L \cup {Head0} : next'[c] = next[c]
       /\ \A c \in L : vol'[c] = vol[c]
  BY <1>1, <1>3, <1>4, <1>5, <1>9 DEF TypeInv
<1>11. Ordered(L)'
  BY <1>2, <1>4, <1>10 DEF Ordered
<1>12. Names(L)' = Names(L)
  BY <1>10 DEF Names
<1>13. SyncedBut(L, r.vol)' /\ r.vol \notin Names(L)' /\ r.vol \in held'
  BY <1>1, <1>2, <1>4, <1>5, <1>12 DEF Fits, SyncedBut
<1>14. Fits(L, r)'
  BY <1>3, <1>4, <1>5, <1>6, <1>10, <1>13 DEF Fits
<1>15. QED
  BY <1>1, <1>4, <1>5, <1>6, <1>7, <1>8, <1>11, <1>14, Leaves

LEMMA AdvanceKeeps ==
    ASSUME Sound, NEW t \in Threads, Add_advance(t), ~clash'
    PROVE  Sound'
<1>1. /\ At(t, "advance") /\ thread[t].pc = "advance" /\ Point(thread[t]) /\ TypeInv /\ Count
  BY DEF Add_advance, At, Sound
<1>2. PICK L \in SUBSET (1..cells) : Ordered(L) /\ Fits(L, thread[t])
  BY <1>1, Found DEF Deep
<1>3. /\ next[last] = cells /\ cells \in Cells /\ cells \notin L /\ cells > 0
      /\ last # Null /\ cells # Wild /\ cells \in Nat
      /\ next[cells] = Null /\ vol[cells] = thread[t].vol
  BY <1>1, <1>2, BoundsAssumption DEF Fits, TypeInv, Null, Wild, Cells
<1>4. /\ last' = cells /\ Goto(t, "truncate")
      /\ UNCHANGED <<next, vol, cells, file, held, requests, faulted, unsynced>>
  BY <1>3 DEF Add_advance, outside
<1>5. PICK r \in ThreadType :
        /\ thread' = [thread EXCEPT ![t] = r]
        /\ r.pc = "truncate" /\ r.op = thread[t].op /\ r.vol = thread[t].vol /\ r.node = thread[t].node
  BY <1>1, <1>4, GotoRecord DEF PCs
<1>6. Point(r) /\ Deep(r) /\ r.op \in {"attach", "attach_rs"} /\ r.vol \in Volumes
  BY <1>1, <1>5 DEF Point, Deep
<1>7. thread' \in [Threads -> ThreadType] /\ Count'
  BY <1>1, <1>4, <1>5, CountKept DEF Past
<1>8. TypeInv'
  BY <1>1, <1>3, <1>4, <1>7 DEF TypeInv
<1> DEFINE M == L \cup {cells}
<1>9. M \in SUBSET (1..cells) /\ M \in SUBSET (1..cells')
  BY <1>3, <1>4
<1>10. SyncedBut(L, r.vol) /\ r.vol \notin Names(L) /\ r.vol \in held
  BY <1>1, <1>2, <1>5 DEF Fits
<1>11. \A c \in L : vol[c] # r.vol
  BY <1>10 DEF Names
<1>12. /\ \A c \in M \ {cells} : vol[c] # vol[cells]
       /\ \A c \in M : vol[c] \in Volumes
       /\ \A c, d \in M : vol[c] = vol[d] => c = d
  BY <1>2, <1>3, <1>5, <1>6, <1>11 DEF Ordered
<1>13. ASSUME NEW c \in (M \cup {Head0}) \ {cells}
       PROVE  next[c] \in M /\ c < next[c] /\ \A d \in M : d <= c \/ next[c] <= d
  <2>1. c \in L \cup {Head0} /\ c \in Nat /\ c < cells /\ L \subseteq 1..cells
    BY <1>2, <1>3 DEF Ordered, Head0
  <2>2. CASE c = last
    BY <1>2, <1>3, <2>1, <2>2 DEF Ordered
  <2>3. CASE c # last
    <3>1. next[c] \in L /\ c < next[c] /\ \A d \in L : d <= c \/ next[c] <= d
      BY <1>2, <2>1, <2>3 DEF Ordered
    <3>2. next[c] <= cells /\ next[c] \in Nat /\ cells \in Nat
      BY <1>1, <3>1, AreCells, <1>3
    <3>3. QED
      BY <3>1, <3>2
  <2>4. QED
    BY <2>2, <2>3
<1>14. \A c \in M : c <= cells
  BY <1>3, <1>9
<1>15. Ordered(M)'
  BY <1>4, <1>9, <1>12, <1>13, <1>14 DEF Ordered
<1>16. Names(M)' = Names(L) \cup {r.vol}
  BY <1>3, <1>4, <1>5 DEF Names
<1>17. Synced(M)' /\ Closed'
  BY <1>3, <1>4, <1>10, <1>16 DEF Synced, SyncedBut, Closed
<1>18. Fits(M, r)'
  BY <1>5, <1>6, <1>17 DEF Fits
<1>19. QED
  BY <1>1, <1>4, <1>5, <1>6, <1>7, <1>8, <1>9, <1>15, <1>18, Leaves

-----------------------------------------------------------------------------
(* SaveAttachInfoToFile.                                                    *)

LEMMA TruncateKeeps ==
    ASSUME Sound, NEW t \in Threads, Save_truncate(t), ~clash'
    PROVE  Sound'
<1>1. /\ At(t, "truncate") /\ thread[t].pc = "truncate" /\ Point(thread[t]) /\ TypeInv
      /\ UNCHANGED <<list, held, unsynced, requests, faulted>> /\ Goto(t, "write")
  BY DEF Save_truncate, At, Sound, outside
<1>2. PICK L \in SUBSET (1..cells) : Ordered(L) /\ Fits(L, thread[t])
  BY <1>1, Found DEF Deep
<1>3. PICK r \in ThreadType :
        /\ thread' = [thread EXCEPT ![t] = r]
        /\ r.pc = "write" /\ r.op = thread[t].op /\ r.vol = thread[t].vol /\ r.node = thread[t].node
  BY <1>1, GotoRecord DEF PCs
<1>4. Point(r) /\ Deep(r) /\ held' \subseteq Volumes /\ r.op # "attach_all"
  BY <1>1, <1>3 DEF Point, Deep, TypeInv
<1>5. Names(L)' = Names(L) /\ Closed' = Closed /\ Synced(L)' = Synced(L)
  BY <1>1 DEF list, Names, Closed, Synced
<1>6. Fits(L, r)'
  BY <1>1, <1>2, <1>3, <1>4, <1>5 DEF Fits
<1>7. QED
  BY <1>1, <1>2, <1>3, <1>4, <1>6, QuietLeaves DEF Past

LEMMA WriteKeeps ==
    ASSUME Sound, NEW t \in Threads, Save_write(t), ~clash'
    PROVE  Sound'
<1>1. At(t, "write") /\ thread[t].pc = "write" /\ Point(thread[t]) /\ TypeInv
  BY DEF Save_write, At, Sound
<1>2. PICK L \in SUBSET (1..cells) : Ordered(L) /\ Fits(L, thread[t])
  BY <1>1, Found DEF Deep
<1>3. Closed /\ Synced(L)
  BY <1>1, <1>2 DEF Fits
<1>4. Listed = Names(L) /\ ~RunsWild
  BY <1>1, <1>2, <1>3, ListedIsNames
<1>5. /\ file' = Names(L) /\ Send_response(t)
      /\ unsynced' = unsynced \ (IF thread[t].op \in {"detach", "detach_rs"} THEN {thread[t].vol} ELSE {})
      /\ UNCHANGED <<list, held, requests, faulted>>
  BY <1>4 DEF Save_write, outside
<1>6. thread' = [thread EXCEPT ![t] = Idle]
  BY <1>5 DEF Send_response
<1>7. Names(L)' = Names(L) /\ Closed' /\ Filed(L)'
  BY <1>3, <1>5 DEF list, Names, Closed, Filed
<1>8. Synced(L)'
  <2>1. CASE thread[t].op \in {"detach", "detach_rs"}
    <3>1. thread[t].vol \notin Names(L) /\ thread[t].vol \notin held
      BY <1>1, <1>2, <2>1 DEF Fits
    <3>2. QED
      BY <1>3, <1>5, <1>7, <3>1 DEF Synced
  <2>2. CASE thread[t].op \notin {"detach", "detach_rs"}
    BY <1>3, <1>5, <1>7, <2>2 DEF Synced
  <2>3. QED
    BY <2>1, <2>2
<1>9. Calm(L)' /\ held' \subseteq Volumes
  BY <1>1, <1>5, <1>7, <1>8 DEF Calm, TypeInv
<1>10. QED
  BY <1>1, <1>2, <1>5, <1>6, <1>9, IdleRecord, QuietLeaves DEF Past

-----------------------------------------------------------------------------
(* attach_all_volume and detach_volume.                                     *)

LEMMA AllKeeps ==
    ASSUME Sound, NEW t \in Threads, Attach_all_volume(t), ~clash'
    PROVE  Sound'
<1>1. At(t, "all_next") /\ thread[t].pc = "all_next" /\ Point(thread[t]) /\ TypeInv
  BY DEF Attach_all_volume, At, Sound
<1>2. PICK L \in SUBSET (1..cells) :
        /\ Ordered(L)
        /\ Deep(thread[t]) => Fits(L, thread[t])
        /\ ~Deep(thread[t]) => Calm(L)
  BY <1>1, Found
<1>3. Calm(L) /\ thread[t].node \in L \cup {Head0}
  BY <1>1, <1>2 DEF Deep, Fits, Point
<1>4. CASE thread[t].node = last
  <2>1. next[thread[t].node] = Null /\ Null \notin Cells /\ Null # Wild
    BY <1>3, <1>4, BoundsAssumption DEF Calm, Closed, Null, Wild, Cells
  <2>2. Send_response(t) /\ UNCHANGED <<list, file, held, unsynced, requests, faulted>>
    BY <2>1 DEF Attach_all_volume, outside
  <2>3. thread' = [thread EXCEPT ![t] = Idle]
    BY <2>2 DEF Send_response
  <2>4. Calm(L)' /\ held' \subseteq Volumes
    BY <1>1, <1>3, <2>2, FitKept DEF TypeInv
  <2>5. QED
    BY <1>1, <1>2, <2>2, <2>3, <2>4, IdleRecord, QuietLeaves DEF Past
<1>5. CASE thread[t].node # last
  <2> DEFINE c == next[thread[t].node]
             a == [thread[t] EXCEPT !.pc = "capacity", !.node = c, !.vol = vol[c]]
  <2>1. c \in L /\ c \in Cells /\ c # Null /\ c # Wild /\ vol[c] \in Volumes
    <3>1. c \in L /\ vol[c] \in Volumes
      BY <1>2, <1>3, <1>5 DEF Ordered
    <3>2. Null \notin Cells /\ Wild \notin Cells
      BY BoundsAssumption DEF Null, Wild, Cells
    <3>3. c \in Cells
      BY <1>1, <3>1, AreCells
    <3>4. QED
      BY <3>1, <3>2, <3>3
  <2>2. /\ thread' = [thread EXCEPT ![t].pc = "capacity", ![t].node = c, ![t].vol = vol[c]]
        /\ UNCHANGED <<list, file, held, unsynced, requests, faulted>>
    BY <2>1 DEF Attach_all_volume, outside, Cursor
  <2>3. thread[t] \in ThreadType
    BY <1>1 DEF TypeInv
  <2>4. thread' = [thread EXCEPT ![t] = a]
    BY <2>2
  <2>5. PICK r \in ThreadType :
          /\ thread' = [thread EXCEPT ![t] = r]
          /\ r.pc = "capacity" /\ r.op = thread[t].op /\ r.node = c /\ r.vol = vol[c]
    <3>1. /\ a \in ThreadType /\ a.pc = "capacity" /\ a.op = thread[t].op
          /\ a.node = c /\ a.vol = vol[c]
      BY <2>1, <2>3 DEF ThreadType, PCs
    <3>2. QED
      BY <2>4, <3>1
  <2>6. Point(r) /\ r.op = "attach_all" /\ Deep(r)
    BY <1>1, <2>1, <2>5 DEF Point, Deep
  <2>7. Fits(L, r)
    BY <1>3, <2>1, <2>5, <2>6 DEF Fits
  <2>8. Fits(L, r)' /\ held' \subseteq Volumes
    BY <1>1, <2>2, <2>7, FitKept DEF TypeInv
  <2>9. QED
    BY <1>1, <1>2, <2>2, <2>5, <2>6, <2>8, QuietLeaves DEF Past
<1>6. QED
  BY <1>4, <1>5

LEMMA DetachKeeps ==
    ASSUME Sound, NEW t \in Threads, Ioctl_detach(t), ~clash'
    PROVE  Sound'
<1>1. /\ At(t, "detach") /\ thread[t].pc = "detach" /\ Point(thread[t]) /\ TypeInv
      /\ UNCHANGED <<list, file, unsynced, requests, faulted>>
  BY DEF Ioctl_detach, At, Sound
<1>2. PICK L \in SUBSET (1..cells) : Ordered(L) /\ Calm(L)
  BY <1>1, Found DEF Deep
<1>3. CASE Send_response(t) /\ UNCHANGED outside
  <2>1. thread' = [thread EXCEPT ![t] = Idle] /\ held' = held
    BY <1>3 DEF Send_response, outside
  <2>2. Calm(L)' /\ held' \subseteq Volumes
    BY <1>1, <1>2, <2>1, FitKept DEF TypeInv
  <2>3. QED
    BY <1>1, <1>2, <2>1, <2>2, IdleRecord, QuietLeaves DEF Past
<1>4. ASSUME held' = held \ {thread[t].vol}, NEW pc \in {"detach_rs", "find"}, Goto(t, pc)
      PROVE  Sound'
  <2>1. PICK r \in ThreadType :
          /\ thread' = [thread EXCEPT ![t] = r]
          /\ r.pc = pc /\ r.op = thread[t].op /\ r.vol = thread[t].vol /\ r.node = thread[t].node
    BY <1>1, <1>4, GotoRecord DEF PCs
  <2>2. Point(r) /\ Deep(r) /\ r.op # "attach_all" /\ held' \subseteq Volumes
    BY <1>1, <1>4, <2>1 DEF Point, Deep, TypeInv
  <2>3. Names(L)' = Names(L) /\ Closed' /\ Filed(L)'
    BY <1>1, <1>2 DEF list, Names, Closed, Filed, Calm
  <2>4. SyncedBut(L, r.vol)' /\ r.vol \notin held'
    BY <1>1, <1>2, <1>4, <2>1, <2>3 DEF SyncedBut, Synced, Calm
  <2>5. Fits(L, r)'
    BY <2>1, <2>2, <2>3, <2>4 DEF Fits
  <2>6. QED
    BY <1>1, <1>2, <2>1, <2>2, <2>5, QuietLeaves DEF Past
<1>5. QED
  BY <1>3, <1>4 DEF Ioctl_detach, After_Detach

LEMMA FindKeeps ==
    ASSUME Sound, NEW t \in Threads, Remove_find(t), ~clash'
    PROVE  Sound'
<1>1. At(t, "find") /\ thread[t].pc = "find" /\ Point(thread[t]) /\ TypeInv
  BY DEF Remove_find, At, Sound
<1>2. PICK L \in SUBSET (1..cells) : Ordered(L) /\ Fits(L, thread[t])
  BY <1>1, Found DEF Deep
<1>3. Closed /\ Filed(L) /\ SyncedBut(L, thread[t].vol) /\ thread[t].vol \notin held
  BY <1>1, <1>2 DEF Fits
<1>4. Listed = Names(L) /\ ~RunsWild
  BY <1>1, <1>2, <1>3, ListedIsNames
<1>5. UNCHANGED <<list, file, held, unsynced, requests, faulted>>
  BY <1>4 DEF Remove_find, outside
<1>6. held' \subseteq Volumes
  BY <1>1, <1>5 DEF TypeInv
<1>7. ASSUME NEW i \in 1..(Len(Chain) - 1), vol[Chain[i + 1]] = thread[t].vol,
             thread' = [thread EXCEPT ![t].pc = "unlink", ![t].node = Chain[i]]
      PROVE  Sound'
  <2> DEFINE c == Chain[i]
             a == [thread[t] EXCEPT !.pc = "unlink", !.node = c]
  <2>1. /\ Chain \in Seq(L \cup {Head0}) /\ Len(Chain) > 0
        /\ \A j \in 1..Len(Chain) - 1 : Chain[j + 1] = next[Chain[j]] /\ Chain[j + 1] \in L
    BY <1>1, <1>2, <1>3, ChainIsList
  <2>2. c \in L \cup {Head0} /\ next[c] \in L /\ vol[next[c]] = thread[t].vol
    BY <1>7, <2>1
  <2>3. c \in Cells
    BY <1>1, <2>2, AreCells
  <2> HIDE DEF c
  <2>4. thread[t] \in ThreadType
    BY <1>1 DEF TypeInv
  <2>5. thread' = [thread EXCEPT ![t] = a]
    BY <1>7 DEF c
  <2>6. PICK r \in ThreadType :
          /\ thread' = [thread EXCEPT ![t] = r]
          /\ r.pc = "unlink" /\ r.op = thread[t].op /\ r.node = c /\ r.vol = thread[t].vol
    <3>1. /\ a \in ThreadType /\ a.pc = "unlink" /\ a.op = thread[t].op
          /\ a.node = c /\ a.vol = thread[t].vol
      BY <2>3, <2>4 DEF ThreadType, PCs
    <3>2. QED
      BY <2>5, <3>1
  <2>7. Point(r) /\ r.op # "attach_all" /\ Deep(r)
    BY <1>1, <2>6 DEF Point, Deep
  <2>8. Fits(L, r)
    BY <1>3, <2>2, <2>6, <2>7 DEF Fits
  <2>9. Fits(L, r)'
    BY <1>5, <2>8, FitKept
  <2>10. QED
    BY <1>1, <1>2, <1>5, <1>6, <2>6, <2>7, <2>9, QuietLeaves DEF Past
<1>8. CASE thread[t].vol \notin Listed /\ Goto(t, "truncate")
  <2>1. PICK r \in ThreadType :
          /\ thread' = [thread EXCEPT ![t] = r]
          /\ r.pc = "truncate" /\ r.op = thread[t].op /\ r.vol = thread[t].vol /\ r.node = thread[t].node
    BY <1>1, <1>8, GotoRecord DEF PCs
  <2>2. Point(r) /\ Deep(r) /\ r.op # "attach_all"
    BY <1>1, <2>1 DEF Point, Deep
  <2>3. r.vol \notin Names(L) /\ Synced(L)
    BY <1>3, <1>4, <1>8, <2>1 DEF SyncedBut, Synced
  <2>4. Fits(L, r)
    BY <1>3, <2>1, <2>2, <2>3 DEF Fits
  <2>5. Fits(L, r)'
    BY <1>5, <2>4, FitKept
  <2>6. QED
    BY <1>1, <1>2, <1>5, <1>6, <2>1, <2>2, <2>5, QuietLeaves DEF Past
<1>9. QED
  BY <1>4, <1>7, <1>8 DEF Remove_find

\* The element behind c is taken out; if it was the last, c is.
LEMMA Unlinked ==
    ASSUME TypeInv, NEW L \in SUBSET (1..cells), Ordered(L), Closed,
           NEW c \in L \cup {Head0}, NEW b \in L, b = next[c],
           UNCHANGED <<vol, cells>>,
           \/ /\ next[b] # Null
              /\ next' = [next EXCEPT ![c] = next[b], ![b] = Null] /\ last' = last
           \/ /\ next[b] = Null
              /\ next' = [next EXCEPT ![c] = Null] /\ last' = c
    PROVE  Ordered(L \ {b})' /\ Closed' /\ Names(L \ {b})' = Names(L) \ {vol[b]}
<1> DEFINE M == L \ {b}
<1>1. /\ c # last
      /\ \A d \in L \cup {Head0} : d \in Cells /\ d \in Nat /\ d <= last
      /\ last \in L \cup {Head0} /\ c < b /\ \A d \in L : d <= c \/ b <= d
  <2>1. Null \notin L
    BY BoundsAssumption DEF TypeInv, Null, Cells
  <2>2. c # last
    BY <2>1 DEF Closed
  <2>3. \A d \in L \cup {Head0} : d \in Cells /\ d \in Nat /\ d <= last
    BY BoundsAssumption DEF Ordered, TypeInv, Cells, Head0
  <2>4. QED
    BY <2>2, <2>3 DEF Ordered
<1>2. /\ M \subseteq 1..cells /\ (\A d \in M : vol[d] \in Volumes)
      /\ \A d, e \in M : vol[d] = vol[e] => d = e
  BY DEF Ordered
<1>3. Names(M)' = Names(L) \ {vol[b]}
  <2>1. \A d \in L : vol[d] = vol[b] => d = b
    BY DEF Ordered
  <2>2. QED
    BY <2>1 DEF Names
<1>4. CASE next[b] # Null
  <2>1. b # last /\ next[b] \in L /\ b < next[b] /\ \A d \in L : d <= b \/ next[b] <= d
    BY <1>1, <1>4 DEF Closed, Ordered
  <2>2. next'[c] = next[b] /\ (\A d \in Cells : d # c /\ d # b => next'[d] = next[d]) /\ last' = last
    BY <1>1, <1>4 DEF TypeInv
  <2>3. last \in M \cup {Head0} /\ (\A d \in M : d <= last) /\ last # c /\ last # b /\ last \in Cells
    BY <1>1, <2>1
  <2>4. ASSUME NEW d \in (M \cup {Head0}) \ {last}
        PROVE  next'[d] \in M /\ d < next'[d] /\ \A e \in M : e <= d \/ next'[d] <= e
    <3>1. CASE d = c
      <4>1. next[b] \in M /\ c < next[b]
        BY <1>1, <2>1
      <4>2. \A e \in M : e <= c \/ next[b] <= e
        BY <1>1, <2>1
      <4>3. QED
        BY <2>2, <3>1, <4>1, <4>2
    <3>2. CASE d # c
      <4>1. d \in L \cup {Head0} /\ d # b /\ d # last /\ d \in Cells /\ Head0 \notin L
        BY <1>1 DEF Ordered, Head0
      <4>2. next[d] \in L /\ d < next[d] /\ \A e \in L : e <= d \/ next[d] <= e
        BY <4>1 DEF Ordered
      <4>3. next[d] # b
        <5>1. SUFFICES ASSUME next[d] = b PROVE FALSE
          OBVIOUS
        <5>2. d < b /\ c < b /\ c \in Nat /\ d \in Nat
          BY <1>1, <4>1, <4>2, <5>1
        <5>3. CASE c < d
          <6>1. d \in L
            BY <4>1, <5>2, <5>3 DEF Head0
          <6>2. QED
            BY <1>1, <5>2, <5>3, <6>1
        <5>4. CASE d < c
          <6>1. c \in L
            BY <5>2, <5>4 DEF Head0
          <6>2. QED
            BY <1>1, <4>2, <5>1, <5>2, <5>4, <6>1
        <5>5. QED
          BY <3>2, <5>2, <5>3, <5>4
      <4>4. QED
        BY <2>2, <3>2, <4>1, <4>2, <4>3
    <3>3. QED
      BY <3>1, <3>2
  <2>5. Ordered(M)'
    BY <1>2, <2>2, <2>3, <2>4 DEF Ordered
  <2>6. Closed'
    BY <2>2, <2>3 DEF Closed
  <2>7. QED
    BY <1>3, <2>5, <2>6
<1>5. CASE next[b] = Null
  <2>1. b = last
    <3>1. Null \notin L
      BY BoundsAssumption DEF TypeInv, Null, Cells
    <3>2. QED
      BY <1>5, <3>1 DEF Ordered
  <2>2. next'[c] = Null /\ (\A d \in Cells : d # c => next'[d] = next[d]) /\ last' = c
    BY <1>1, <1>5 DEF TypeInv
  <2>3. c \in M \cup {Head0} /\ (\A d \in M : d <= c)
    BY <1>1, <2>1
  <2>4. ASSUME NEW d \in (M \cup {Head0}) \ {c}
        PROVE  next'[d] \in M /\ d < next'[d] /\ \A e \in M : e <= d \/ next'[d] <= e
    <3>1. d \in L \cup {Head0} /\ d # b /\ d # last /\ d \in Cells /\ Head0 \notin L /\ next'[d] = next[d]
      BY <1>1, <2>1, <2>2 DEF Ordered, Head0
    <3>2. next[d] \in L /\ d < next[d] /\ \A e \in L : e <= d \/ next[d] <= e
      BY <3>1 DEF Ordered
    <3>3. d < c
      BY <1>1, <2>3, <3>1 DEF Head0
    <3>4. c \in L
      BY <1>1, <3>1, <3>3 DEF Head0
    <3>5. next[d] <= c
      BY <1>1, <3>1, <3>2, <3>3, <3>4
    <3>6. next[d] # b
      BY <1>1, <3>2, <3>5
    <3>7. QED
      BY <3>1, <3>2, <3>6
  <2>5. Ordered(M)'
    BY <1>2, <2>2, <2>3, <2>4 DEF Ordered
  <2>6. Closed'
    BY <2>2 DEF Closed
  <2>7. QED
    BY <1>3, <2>5, <2>6
<1>6. QED
  BY <1>4, <1>5

LEMMA UnlinkKeeps ==
    ASSUME Sound, NEW t \in Threads, Remove_unlink(t), ~clash'
    PROVE  Sound'
<1>1. At(t, "unlink") /\ thread[t].pc = "unlink" /\ Point(thread[t]) /\ TypeInv /\ Count
  BY DEF Remove_unlink, At, Sound
<1>2. PICK L \in SUBSET (1..cells) : Ordered(L) /\ Fits(L, thread[t])
  BY <1>1, Found DEF Deep
<1> DEFINE c == thread[t].node
           b == next[c]
           v == thread[t].vol
<1>3. /\ c \in L \cup {Head0} /\ b \in L /\ vol[b] = v
      /\ Closed /\ SyncedBut(L, v) /\ v \notin held
  BY <1>1, <1>2 DEF Fits
<1>4. b \in Cells /\ c \in Cells
  BY <1>1, <1>3, AreCells
<1>5. /\ Goto(t, "truncate") /\ UNCHANGED <<vol, cells, file, held, requests, faulted, unsynced>>
      /\ \/ /\ next[b] # Null
            /\ next' = [next EXCEPT ![c] = next[b], ![b] = Null] /\ last' = last
         \/ /\ next[b] = Null
            /\ next' = [next EXCEPT ![c] = Null] /\ last' = c
  BY <1>4 DEF Remove_unlink, LastAfter, outside
<1>6. PICK r \in ThreadType :
        /\ thread' = [thread EXCEPT ![t] = r]
        /\ r.pc = "truncate" /\ r.op = thread[t].op /\ r.vol = thread[t].vol /\ r.node = thread[t].node
  BY <1>1, <1>5, GotoRecord DEF PCs
<1>7. Point(r) /\ Deep(r) /\ r.op # "attach_all"
  BY <1>1, <1>6 DEF Point, Deep
<1>8. thread' \in [Threads -> ThreadType] /\ Count'
  BY <1>1, <1>5, <1>6, CountKept DEF Past
<1>9. TypeInv'
  <2>1. Null \in Cells \cup {Null, Wild} /\ next[b] \in Cells \cup {Null, Wild}
    BY <1>1, <1>4 DEF TypeInv
  <2>2. next' \in [Cells -> Cells \cup {Null, Wild}] /\ last' \in Cells
    BY <1>1, <1>4, <1>5, <2>1 DEF TypeInv
  <2>3. QED
    BY <1>1, <1>5, <1>8, <2>2 DEF TypeInv
<1>10. PICK M \in SUBSET (1..cells) : Ordered(M)' /\ Closed' /\ Names(M)' = Names(L) \ {v}
  <2>1. PICK d : d = c
    OBVIOUS
  <2>2. PICK e : e = b
    OBVIOUS
  <2>3. Ordered(L \ {e})' /\ Closed' /\ Names(L \ {e})' = Names(L) \ {vol[e]}
    BY <1>1, <1>2, <1>3, <1>5, <2>1, <2>2, Unlinked
  <2>4. QED
    BY <1>3, <2>2, <2>3
<1>11. M \in SUBSET (1..cells')
  BY <1>5
<1>12. Synced(M)' /\ r.vol \notin Names(M)' /\ r.vol \notin held'
  BY <1>3, <1>5, <1>6, <1>10 DEF Synced, SyncedBut
<1>13. Fits(M, r)'
  BY <1>6, <1>7, <1>10, <1>12 DEF Fits
<1>14. QED
  BY <1>1, <1>5, <1>6, <1>7, <1>8, <1>9, <1>10, <1>11, <1>13, Leaves

-----------------------------------------------------------------------------
(* What no clash needs: connections, commands, udev, the end and the start. *)

\* A step of a thread that is not deep before or after it.
LEMMA ShallowKeeps ==
    ASSUME Sound, NEW t \in Threads, ~Deep(thread[t]), NEW r \in ThreadType,
           thread' = [thread EXCEPT ![t] = r], Point(r), ~Deep(r),
           requests' \in Nat, requests' <= MaxRequests, Count',
           UNCHANGED <<list, file, held, unsynced, faulted>>
    PROVE  Sound'
<1>1. TypeInv'
  BY DEF Sound, TypeInv, list
<1>2. PICK L \in SUBSET (1..cells) : ListIs(L)
  BY DEF Sound
<1>3. /\ thread'[t] = r /\ \A u \in Threads \ {t} : thread'[u] = thread[u]
      /\ cells' = cells
  BY DEF Sound, TypeInv, list
<1>4. \A u \in Threads : Point(thread'[u])
  BY <1>3 DEF Sound
<1>5. (\A u \in Threads : ~Deep(thread'[u])) => \A u \in Threads : ~Deep(thread[u])
  BY <1>3
<1>6. (\A u \in Threads : ~Deep(thread'[u])) => Calm(L)'
  BY <1>2, <1>5, FitKept DEF ListIs
<1>7. ASSUME NEW u \in Threads, Deep(thread'[u]) PROVE Fits(L, thread[u])'
  <2>1. PICK s : s = thread[u]
    OBVIOUS
  <2>2. thread'[u] = s
    BY <1>3, <1>7, <2>1
  <2>3. Fits(L, s)
    BY <1>2, <1>7, <2>1, <2>2 DEF ListIs
  <2>4. Fits(L, s)'
    BY <2>3, FitKept
  <2>5. QED
    BY <2>2, <2>4 DEF Fits
<1>8. ListIs(L)'
  BY <1>2, <1>6, <1>7, FitKept DEF ListIs
<1>9. QED
  BY <1>1, <1>3, <1>4, <1>8 DEF Sound

LEMMA CreateKeeps ==
    ASSUME Sound, NEW t \in Threads, Create_socket_server(t)
    PROVE  Sound'
<1>1. TypeInv /\ Count /\ thread[t].pc = "idle" /\ requests' = requests + 1 /\ requests < MaxRequests
  BY DEF Sound, Create_socket_server
<1>2. PICK op \in Ops, v \in Volumes :
        thread' = [thread EXCEPT ![t] = [Idle EXCEPT !.pc = "read", !.op = op, !.vol = v]]
  BY DEF Create_socket_server
<1> DEFINE r == [Idle EXCEPT !.pc = "read", !.op = op, !.vol = v]
<1>3. Idle \in ThreadType /\ Idle.node = Head0
  BY IdleRecord DEF Idle
<1>4. op \in Commands /\ Head0 \in Cells
  BY OpsAssumption, BoundsAssumption DEF Commands, Cells, Head0
<1>5. r \in ThreadType /\ r.pc = "read" /\ Point(r) /\ ~Deep(r)
  <2>1. r \in ThreadType /\ r.pc = "read" /\ r.op = op /\ r.vol = v /\ r.node = Head0
    BY <1>3, <1>4 DEF ThreadType, PCs
  <2> HIDE DEF r
  <2>2. QED
    BY <1>4, <2>1 DEF Point, Deep
<1>6. thread' = [thread EXCEPT ![t] = r]
  BY <1>2
<1> HIDE DEF r
<1>7. Count'
  <2>1. Pending' = Pending \cup {t} /\ t \notin Pending /\ IsFiniteSet(Pending)
    BY <1>1, <1>5, <1>6 DEF Pending, TypeInv, Past, Count
  <2>2. IsFiniteSet(Pending') /\ Cardinality(Pending') = Cardinality(Pending) + 1
    BY <2>1, FS_AddElement
  <2>3. Cardinality(Pending) \in Nat /\ requests \in Nat /\ cells \in Nat /\ cells' = cells
    BY <2>1, FS_CardinalityType, BoundsAssumption DEF Sound, TypeInv, Cells, Create_socket_server, list
  <2>4. QED
    BY <1>1, <2>2, <2>3 DEF Count
<1>8. ~Deep(thread[t])
  BY <1>1 DEF Deep
<1>9. requests' \in Nat /\ requests' <= MaxRequests
  BY <1>1, BoundsAssumption DEF TypeInv
<1>10. UNCHANGED <<list, file, held, unsynced, faulted>>
  BY DEF Create_socket_server, outside, history
<1>11. QED
  BY <1>5, <1>6, <1>7, <1>8, <1>9, <1>10, ShallowKeeps

\* A thread that is not at work on the list goes on.
LEMMA GoesOn ==
    ASSUME Sound, NEW t \in Threads, thread[t].pc \in {"read", "detach_all"},
           NEW r \in ThreadType, thread' = [thread EXCEPT ![t] = r], Point(r), ~Deep(r),
           UNCHANGED <<list, file, held, unsynced, faulted, requests>>
    PROVE  Sound'
<1>1. TypeInv /\ Count /\ ~Deep(thread[t])
  BY DEF Sound, Deep
<1>2. Count'
  BY <1>1, CountKept DEF list, Past
<1>3. requests' \in Nat /\ requests' <= MaxRequests
  BY <1>1 DEF TypeInv
<1>4. QED
  BY <1>1, <1>2, <1>3, ShallowKeeps

\* The list is empty, and what the driver has is left in it only.
LEMMA DieKeeps ==
    ASSUME TypeInv, ~faulted', NEW how, Die(how), requests' = requests, held' \subseteq Volumes,
           held' \subseteq unsynced'
    PROVE  Sound'
<1>1. Idle \in ThreadType /\ Point(Idle) /\ ~Deep(Idle) /\ Idle.pc = "idle"
  BY IdleRecord
<1>2. \A t \in Threads : thread'[t] = Idle
  BY DEF Die
<1>3. TypeInv'
  BY <1>1, BoundsAssumption DEF Die, TypeInv, Cells, Head0
<1>4. Pending' = {}
  BY <1>1, <1>2 DEF Pending, Past
<1>5. Count'
  BY <1>3, <1>4, FS_EmptySet DEF Count, Die, TypeInv
<1>6. Ordered({})' /\ Calm({})'
  BY BoundsAssumption DEF Die, Ordered, Calm, Closed, Synced, Filed, Names, Cells, Head0
<1>7. ListIs({})'
  BY <1>1, <1>2, <1>6 DEF ListIs
<1>8. QED
  BY <1>1, <1>2, <1>3, <1>5, <1>7 DEF Sound

LEMMA ProcessKeeps ==
    ASSUME Sound, NEW t \in Threads, Process_thread(t)
    PROVE  Sound'
<1>1. TypeInv /\ Point(thread[t]) /\ thread[t].pc = "read" /\ thread[t].node = Head0
  BY DEF Sound, Process_thread, Point
<1>2. CASE Die("dead") /\ unsynced' = held /\ UNCHANGED <<file, outside, requests, starts, clash, faulted>>
  <2>1. ~faulted' /\ held' = held /\ held \subseteq Volumes /\ requests' = requests
    BY <1>2 DEF Sound, TypeInv, outside
  <2>2. held' \subseteq unsynced' /\ held' \subseteq Volumes
    BY <1>2, <2>1
  <2>3. QED
    BY <1>1, <1>2, <2>1, <2>2, DieKeeps
<1>3. ASSUME UNCHANGED <<list, file, held, unsynced, faulted, requests>>,
             NEW pc \in {"query", "detach", "all_next", "detach_all", "spin"}, Goto(t, pc),
             pc \in {"detach_all", "spin"} \/ pc = First(thread[t].op)
      PROVE  Sound'
  <2>1. PICK r \in ThreadType :
          /\ thread' = [thread EXCEPT ![t] = r]
          /\ r.pc = pc /\ r.op = thread[t].op /\ r.vol = thread[t].vol /\ r.node = thread[t].node
    BY <1>1, <1>3, GotoRecord DEF PCs
  <2>2. thread[t].op \in Commands /\ thread[t].vol \in Volumes
    BY <1>1 DEF Point
  <2>3. /\ pc = "query" => r.op \in {"attach", "attach_rs"}
        /\ pc = "detach" => r.op \in {"detach", "detach_rs"}
        /\ pc = "all_next" => r.op = "attach_all"
    BY <1>3, <2>1, <2>2 DEF First, Commands
  <2>4. Point(r) /\ ~Deep(r)
    BY <1>1, <1>3, <2>1, <2>2, <2>3 DEF Point, Deep
  <2>5. QED
    BY <1>1, <1>3, <2>1, <2>4, GoesOn
<1>4. ASSUME UNCHANGED <<list, file, held, unsynced, faulted, requests>>, Send_response(t)
      PROVE  Sound'
  <2>1. thread' = [thread EXCEPT ![t] = Idle]
    BY <1>4 DEF Send_response
  <2>2. QED
    BY <1>1, <1>4, <2>1, IdleRecord, GoesOn
<1>5. First(thread[t].op) \in {"query", "detach", "all_next", "detach_all", "idle"}
  BY <1>1 DEF Point, Commands, First
<1>6. CASE /\ IF First(thread[t].op) = "idle" THEN Send_response(t) ELSE Goto(t, First(thread[t].op))
           /\ UNCHANGED <<list, file, outside, daemon, requests, starts, history>>
  <2>1. UNCHANGED <<list, file, held, unsynced, faulted, requests>>
    BY <1>6 DEF outside, history
  <2>2. QED
    BY <1>3, <1>4, <1>5, <1>6, <2>1
<1>7. CASE /\ Goto(t, "spin")
           /\ UNCHANGED <<list, file, outside, daemon, requests, starts, history>>
  <2>1. UNCHANGED <<list, file, held, unsynced, faulted, requests>>
    BY <1>7 DEF outside, history
  <2>2. QED
    BY <1>3, <1>7, <2>1
<1>8. QED
  BY <1>2, <1>6, <1>7 DEF Process_thread

LEMMA DetachAllKeeps ==
    ASSUME Sound, NEW t \in Threads, Detach_all_volume(t)
    PROVE  Sound'
<1>1. thread[t].pc = "detach_all" /\ thread' = [thread EXCEPT ![t] = Idle]
  BY DEF Detach_all_volume, Send_response
<1>2. UNCHANGED <<list, file, held, unsynced, faulted, requests>>
  BY DEF Detach_all_volume, outside, history
<1>3. QED
  BY <1>1, <1>2, IdleRecord, GoesOn

\* Udev, the signal and the start.
LEMMA WorldKeeps ==
    ASSUME Sound, Udev \/ Sighandler \/ Initialize
    PROVE  Sound'
<1>1. TypeInv
  BY DEF Sound
<1>2. CASE Udev \/ Initialize
  <2>1. /\ thread' = thread /\ UNCHANGED <<list, file, held, unsynced, faulted, requests>>
        /\ next' = next /\ vol' = vol /\ last' = last /\ cells' = cells
    BY <1>2 DEF Udev, Initialize, outside, history, list
  <2>2. TypeInv' /\ Count' /\ \A t \in Threads : Point(thread'[t])
    BY <2>1 DEF Sound, TypeInv, Count, Pending
  <2>3. PICK L \in SUBSET (1..cells) : ListIs(L)
    BY DEF Sound
  <2>4. ListIs(L)'
    BY <2>1, <2>3 DEF ListIs, Ordered, Calm, Closed, Synced, SyncedBut, Filed, Names, Fits
  <2>5. QED
    BY <2>1, <2>2, <2>3, <2>4 DEF Sound
<1>3. CASE Sighandler
  <2>1. ~faulted' /\ Die("stopped") /\ requests' = requests /\ held' \subseteq Volumes
        /\ held' \subseteq unsynced'
    BY <1>1, <1>3 DEF Sighandler, Sound, TypeInv, outside
  <2>2. QED
    BY <1>1, <2>1, DieKeeps
<1>4. QED
  BY <1>2, <1>3

-----------------------------------------------------------------------------
(* The theorems.                                                            *)

LEMMA InitDaemon == Init => DaemonInv
<1> SUFFICES ASSUME Init PROVE Sound
  BY DEF DaemonInv
<1>1. Idle \in ThreadType /\ Point(Idle) /\ ~Deep(Idle) /\ Idle.pc = "idle"
  BY IdleRecord
<1>2. \A t \in Threads : thread[t] = Idle
  BY DEF Init
<1>3. TypeInv
  BY <1>1, BoundsAssumption DEF Init, Empty_List, TypeInv, Cells, Head0
<1>4. Pending = {}
  BY <1>1, <1>2 DEF Pending, Past
<1>5. Count
  BY <1>4, FS_EmptySet DEF Count, Init, Empty_List
<1>6. Ordered({}) /\ Calm({})
  BY BoundsAssumption DEF Init, Empty_List, Ordered, Calm, Closed, Synced, Filed, Names, Cells, Head0
<1>7. ListIs({})
  BY <1>1, <1>2, <1>6 DEF ListIs
<1>8. QED
  BY <1>1, <1>2, <1>3, <1>5, <1>7 DEF Sound, Init

LEMMA RunKeeps ==
    ASSUME Sound, ~clash', NEW t \in Threads, Create_socket_server(t) \/ Run(t)
    PROVE  Sound'
<1>1. CASE Create_socket_server(t)
  BY <1>1, CreateKeeps
<1>2. CASE Process_thread(t)
  BY <1>2, ProcessKeeps
<1>3. CASE Attach(t)
  BY <1>3, QueryKeeps, CapacityKeeps, AttachKeeps, DeviceKeeps, RSKeeps, LinkKeeps, FillKeeps,
     AdvanceKeeps, AllKeeps DEF Attach
<1>4. CASE Detach(t)
  BY <1>4, DetachKeeps, RSKeeps, FindKeeps, UnlinkKeeps, DetachAllKeeps DEF Detach, After_Detach
<1>5. CASE Save_truncate(t)
  BY <1>5, TruncateKeeps
<1>6. CASE Save_write(t)
  BY <1>6, WriteKeeps
<1>7. QED
  BY <1>1, <1>2, <1>3, <1>4, <1>5, <1>6 DEF Run

\* A clash is remembered.
LEMMA ClashStays == ASSUME [Next]_vars, clash PROVE clash'
<1>1. ASSUME NEW t \in Threads, Create_socket_server(t) \/ Run(t) PROVE clash'
  BY <1>1 DEF Create_socket_server, Run, Process_thread, Attach, Detach, QueryAttachInfo,
     GetCapacityFromNamenode, Ioctl_attach, Check_device, Save_attach_info_to_rs, Add_link, Add_fill,
     Add_advance, Attach_all_volume, Ioctl_detach, Remove_find, Remove_unlink, Detach_all_volume,
     Save_truncate, Save_write, At, history
<1>2. CASE Udev \/ Sighandler \/ Initialize
  BY <1>2 DEF Udev, Sighandler, Initialize, history
<1>3. CASE UNCHANGED vars
  BY <1>3 DEF vars, history
<1>4. QED
  BY <1>1, <1>2, <1>3 DEF Next

LEMMA StepDaemon == DaemonInv /\ [Next]_vars => DaemonInv'
<1> SUFFICES ASSUME DaemonInv, [Next]_vars, ~clash' PROVE Sound'
  BY DEF DaemonInv
<1>1. Sound
  BY ClashStays DEF DaemonInv
<1>2. CASE UNCHANGED vars
  <2>1. /\ thread' = thread /\ next' = next /\ vol' = vol /\ last' = last /\ cells' = cells
        /\ file' = file /\ held' = held /\ requests' = requests /\ unsynced' = unsynced /\ faulted' = faulted
    BY <1>2 DEF vars, list, outside, history
  <2>2. TypeInv' /\ Count' /\ \A t \in Threads : Point(thread'[t])
    BY <1>1, <2>1 DEF Sound, TypeInv, Count, Pending
  <2>3. PICK L \in SUBSET (1..cells) : ListIs(L)
    BY <1>1 DEF Sound
  <2>4. ListIs(L)'
    BY <2>1, <2>3 DEF ListIs, Ordered, Calm, Closed, Synced, SyncedBut, Filed, Names, Fits
  <2>5. QED
    BY <1>1, <2>1, <2>2, <2>3, <2>4 DEF Sound
<1>3. CASE Next
  BY <1>1, <1>3, RunKeeps, WorldKeeps DEF Next
<1>4. QED
  BY <1>2, <1>3

THEOREM Invariant == Spec => []DaemonInv
<1>1. QED
  BY InitDaemon, StepDaemon, PTL DEF Spec

\* Between commands that came one after the other, list, file and driver agree
\* (attach_volume, detach_volume, AddAttachToList, RemoveAttachFromList, SaveAttachInfoToFile),
\* for any number of threads, volumes, connections and starts.
THEOREM ListFollows == Spec => []ListFollowsDriver
<1>1. DaemonInv => ListFollowsDriver
  <2> SUFFICES ASSUME Sound, \A t \in Threads : ~Busy(t)
               PROVE  /\ \A v \in Volumes \ unsynced : v \in Listed <=> v \in held
                      /\ cells > 0 => file = Listed
    BY DEF DaemonInv, ListFollowsDriver
  <2>1. \A t \in Threads : ~Deep(thread[t])
    BY DEF Busy, Deep
  <2>2. PICK L \in SUBSET (1..cells) : Ordered(L) /\ Calm(L)
    BY <2>1 DEF Sound, ListIs
  <2>3. Listed = Names(L)
    BY <2>2, ListedIsNames DEF Sound, Calm
  <2>4. QED
    BY <2>2, <2>3 DEF Calm, Synced, Filed
<1>2. QED
  BY <1>1, Invariant, PTL

\* Without a clash nothing follows NULL or a pointer that was never written
\* (AddAttachToList, RemoveAttachFromList, attach_all_volume).
THEOREM FaultsNeedClash == Spec => []FaultNeedsClash
<1>1. DaemonInv => FaultNeedsClash
  BY DEF DaemonInv, Sound, FaultNeedsClash
<1>2. QED
  BY <1>1, Invariant, PTL
=============================================================================
