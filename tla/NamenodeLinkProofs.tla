-------------------------- MODULE NamenodeLinkProofs --------------------------
(***************************************************************************)
(* Proofs about the link to the namenode: the parser reads back what is on *)
(* the wire, whatever the number of located requests, blocks and           *)
(* locations, and metadata is linked to the DMS_IO it was asked for.       *)
(***************************************************************************)
EXTENDS NamenodeLink, WellFoundedInduction, SequenceTheorems, TLAPS

-----------------------------------------------------------------------------
(* Numbers.                                                                 *)

\* A set of numbers with 0 and every successor has them all.
LEMMA SetInduction ==
    ASSUME NEW S, 0 \in S, \A n \in Nat : n \in S => n + 1 \in S
    PROVE  Nat \subseteq S
<1> DEFINE R == OpToRel(<, Nat)
<1>1. IsWellFoundedOn(R, Nat)
  BY NatLessThanWellFounded
<1>2. \A x, y \in Nat : <<x, y>> \in R <=> x < y
  BY DEF OpToRel
<1> HIDE DEF R
<1> SUFFICES ASSUME Nat \ S # {} PROVE FALSE
  OBVIOUS
<1>3. PICK x \in Nat \ S : \A y \in Nat \ S : <<y, x>> \notin R
  BY <1>1, WFMin
<1>4. x \in Nat /\ x # 0 /\ x - 1 \in Nat /\ x - 1 < x /\ x \notin S
  OBVIOUS
<1>5. <<x - 1, x>> \in R
  BY <1>2, <1>4
<1>6. x - 1 \in S
  BY <1>3, <1>4, <1>5
<1>7. (x - 1) + 1 = x
  BY <1>4
<1>8. QED
  BY <1>4, <1>6, <1>7

-----------------------------------------------------------------------------
(* The inductive invariant.                                                 *)

Units == [is : {"header", "body", "stack", "part"}, dio : Dios]
Headers == [is : {"header"}, extention : Dios, sub_type : SubTypes, service_type : Queries]
Messages == [header : Headers, body : Bodies]

\* What the namenode answered about a DMS_IO, and what the parser makes of it.
IsAnswer(a) == a.is = "answer" /\ a.about \in Dios /\ a.lrs \in Answers(a.about) /\ a.sub \in SubTypes
Read(a) == Parse_Metadata_Response(Body(a.about, a.lrs))

TypeInv ==
    /\ handler \in [Dios -> {"new", "body", "rest", "sent", "failed"}]
    /\ up \in Seq(Units)
    /\ namenode.at \in {"header", "body", "lost"} /\ (namenode.at = "body" => namenode.dio \in Dios)
    /\ asked \subseteq [dio : Dios, about : Dios]
    /\ down \in Seq(Messages)
    /\ receiver = [at |-> receiver.at, header |-> receiver.header, res |-> receiver.res]
    /\ receiver.at \in {"header", "body", "process"}
    /\ dmeta = [d \in Dios |-> dmeta[d]] /\ answered = [d \in Dios |-> answered[d]]
    /\ \A d \in Dios : answered[d].is = "answer" => IsAnswer(answered[d])
    /\ overlap \in BOOLEAN

\* An answer on its way, or the result of one, is about what was answered to its DMS_IO.
Belongs(m) ==
    LET a == answered[m.header.extention]
    IN  /\ a.is = "answer" /\ m.header.sub_type = a.sub /\ m.header.service_type = Request(a.about).type
        /\ m.body = Body(a.about, a.lrs)
IsReadFrom(res, a) == a.is = "answer" /\ Read(a).ret > 0 /\ res = Read(a).res

OnTheWay ==
    /\ \A i \in DOMAIN down : Belongs(down[i])
    /\ receiver.at = "body" => down # <<>> /\ receiver.header = Head(down).header
    /\ receiver.at = "process" =>
         receiver.header.extention \in Dios /\ IsReadFrom(receiver.res, answered[receiver.header.extention])
    /\ \A d \in Dios : dmeta[d].is = "dmeta" => IsReadFrom(dmeta[d].res, answered[d])

\* The header of a query is in one place only, and it is answered once.
InUp(d) == \E i \in DOMAIN up : up[i] = Generate_NN_Protocol_Header(d)
InNamenode(d) == namenode.at = "body" /\ namenode.dio = d
InAsked(d) == \E q \in asked : q.dio = d
IsAnswered(d) == answered[d].is = "answer"

Alone(d) ==
    /\ handler[d] = "new" => ~ InUp(d) /\ ~ InNamenode(d) /\ ~ InAsked(d) /\ ~ IsAnswered(d)
    /\ InUp(d) => ~ InNamenode(d) /\ ~ InAsked(d) /\ ~ IsAnswered(d)
    /\ InNamenode(d) => ~ InAsked(d) /\ ~ IsAnswered(d)
    /\ InAsked(d) => ~ IsAnswered(d)

\* No header is sent twice.
OnceInv ==
    /\ \A d \in Dios : Alone(d)
    /\ \A i, j \in DOMAIN up : up[i].is = "header" /\ up[j] = up[i] => i = j
    /\ \A q, r \in asked : q.dio = r.dio => q = r

\* Where the i-th unit is or would be, the last header before it is that of the DMS_IO: one still
\* on its way, or the one whose body the namenode reads next.
LastHeader(i, j) == up[j].is = "header" /\ \A k \in j + 1..i - 1 : up[k].is # "header"
NoHeader(i) == \A k \in 1..i - 1 : up[k].is # "header"
Behind(i, d) ==
    /\ \A j \in 1..i - 1 : LastHeader(i, j) => up[j].dio = d
    /\ namenode.at = "body" /\ NoHeader(i) => namenode.dio = d

\* As long as no header came between, a body is behind the header of its own query, if behind any.
BodiesFollow == \A i \in DOMAIN up : up[i].is = "body" => Behind(i, up[i].dio)
NextFollows == \A d \in Dios : handler[d] = "body" => Behind(Len(up) + 1, d)
InOrder ==
    ~ overlap =>
        /\ BodiesFollow
        /\ NextFollows
        /\ \A q \in asked : q.about = q.dio
        /\ \A d \in Dios : IsAnswered(d) => answered[d].about = d

LinkInv == TypeInv /\ OnTheWay /\ OnceInv /\ InOrder
-----------------------------------------------------------------------------
(* Sequences one after the other.                                           *)

\* Two sequences one after the other.
LEMMA Joined ==
    ASSUME NEW S, NEW s \in Seq(S), NEW t \in Seq(S)
    PROVE  s \o t \in Seq(S) /\ Len(s \o t) = Len(s) + Len(t)
  BY ConcatProperties

\* The first n of the sequences, joined.
IsFlat(f, ss, n) == f = [i \in 1..n |-> IF i = 1 THEN ss[i] ELSE f[i - 1] \o ss[i]]

LEMMA FlatExists == ASSUME NEW ss PROVE \A n \in Nat : \E f : IsFlat(f, ss, n)
<1> DEFINE S == {n \in Nat : \E f : IsFlat(f, ss, n)}
<1>1. 0 \in S
  <2> DEFINE f == [i \in 1..0 |-> 0]
  <2>1. f = [i \in 1..0 |-> IF i = 1 THEN ss[i] ELSE f[i - 1] \o ss[i]]
    OBVIOUS
  <2> HIDE DEF f
  <2>2. QED
    BY <2>1 DEF IsFlat
<1>2. ASSUME NEW n \in Nat, n \in S PROVE n + 1 \in S
  <2>1. PICK f : IsFlat(f, ss, n)
    BY <1>2
  <2> DEFINE v == IF n = 0 THEN ss[1] ELSE f[n] \o ss[n + 1]
             g == [i \in 1..n + 1 |-> IF i = n + 1 THEN v ELSE f[i]]
             e(i) == IF i = 1 THEN ss[i] ELSE g[i - 1] \o ss[i]
             d(i) == IF i = 1 THEN ss[i] ELSE f[i - 1] \o ss[i]
  <2>2. \A i \in 1..n : f[i] = d(i)
    BY <2>1 DEF IsFlat
  <2>3. \A i \in 1..n + 1 : i = 1 \/ (i \in 2..n /\ i \in 1..n /\ i - 1 \in 1..n) \/ (i = n + 1 /\ n \in 1..n /\ n # 0)
    OBVIOUS
  <2>4. \A i \in 1..n : g[i] = f[i]
    OBVIOUS
  <2>5. g[n + 1] = v /\ (n + 1) - 1 = n /\ (n = 0 \/ (1 \in 1..n /\ n + 1 # 1))
    OBVIOUS
  <2>6. g = [i \in 1..n + 1 |-> g[i]]
    OBVIOUS
  <2> HIDE DEF g, v
  <2>7. \A i \in 1..n + 1 : g[i] = e(i)
    <3>1. g[1] = e(1)
      BY <2>2, <2>4, <2>5 DEF v
    <3>2. ASSUME NEW i \in 2..n, i \in 1..n, i - 1 \in 1..n PROVE g[i] = e(i)
      <4>1. i # 1 /\ f[i] = d(i)
        BY <2>2, <3>2
      <4>2. QED
        BY <2>4, <3>2, <4>1
    <3>3. ASSUME n \in 1..n, n # 0 PROVE g[n + 1] = e(n + 1)
      BY <2>4, <2>5, <3>3 DEF v
    <3>4. QED
      BY <2>3, <3>1, <3>2, <3>3
  <2> HIDE DEF e
  <2>8. g = [i \in 1..n + 1 |-> e(i)]
    BY <2>6, <2>7
  <2>9. IsFlat(g, ss, n + 1)
    BY <2>8 DEF e, IsFlat
  <2>10. QED
    BY <2>9
<1> HIDE DEF S
<1>3. Nat \subseteq S
  BY <1>1, <1>2, SetInduction
<1>4. QED
  BY <1>3 DEF S

\* What is joined so far does not depend on what comes behind.
LEMMA FlatIsFlat ==
    ASSUME NEW ss, NEW n \in Nat, Len(ss) = n, n > 0
    PROVE  \E f : IsFlat(f, ss, n) /\ FlattenSeq(ss) = f[n]
<1> DEFINE f == CHOOSE g : IsFlat(g, ss, n)
<1>1. IsFlat(f, ss, n)
  BY FlatExists
<1>2. f = CHOOSE g : g = [i \in 1..Len(ss) |-> IF i = 1 THEN ss[i] ELSE g[i - 1] \o ss[i]]
  BY DEF IsFlat
<1> HIDE DEF f
<1>3. Len(ss) # 0
  OBVIOUS
<1>4. FlattenSeq(ss) = f[n]
  BY <1>2, <1>3 DEF FlattenSeq
<1>5. QED
  BY <1>1, <1>4

\* Sequences that are as far the same, joined.
Prefix(ss, k) == [i \in 1..k |-> ss[i]]

LEMMA PrefixIsWhole == ASSUME NEW n \in Nat, NEW ss, ss = [i \in 1..n |-> ss[i]] PROVE Prefix(ss, n) = ss
  BY DEF Prefix

LEMMA FlatStep ==
    ASSUME NEW S, NEW n \in Nat, NEW ss, DOMAIN ss = 1..n, \A i \in 1..n : ss[i] \in Seq(S),
           NEW k \in 1..n
    PROVE  FlattenSeq(Prefix(ss, k)) = FlattenSeq(Prefix(ss, k - 1)) \o ss[k]
<1> DEFINE p == Prefix(ss, k)
           q == Prefix(ss, k - 1)
<1>1. /\ Len(p) = k /\ k > 0 /\ k \in Nat /\ Len(q) = k - 1 /\ k - 1 \in Nat
      /\ \A i \in 1..k : p[i] = ss[i]
      /\ \A i \in 1..k - 1 : q[i] = ss[i]
  BY DEF Prefix
<1> HIDE DEF p, q
<1>2. PICK f : IsFlat(f, p, k) /\ FlattenSeq(p) = f[k]
  BY <1>1, FlatIsFlat
<1>3. \A i \in 1..k : f[i] = IF i = 1 THEN p[i] ELSE f[i - 1] \o p[i]
  BY <1>2 DEF IsFlat
<1>4. CASE k = 1
  <2>1. FlattenSeq(q) = q /\ q = <<>>
    BY <1>1, <1>4 DEF FlattenSeq, q, Prefix
  <2>2. FlattenSeq(p) = ss[1] /\ ss[1] \in Seq(S) /\ k = 1
    BY <1>1, <1>2, <1>3, <1>4
  <2>3. <<>> \o ss[1] = ss[1]
    BY <2>2
  <2>4. QED
    BY <2>1, <2>2, <2>3 DEF p, q
<1>5. CASE k # 1
  <2>0. k - 1 \in Nat /\ k - 1 > 0 /\ Len(q) = k - 1
    BY <1>1, <1>5
  <2>1. PICK g : IsFlat(g, q, k - 1) /\ FlattenSeq(q) = g[k - 1]
    BY <2>0, FlatIsFlat
  <2>2. \A i \in 1..k - 1 : g[i] = IF i = 1 THEN q[i] ELSE g[i - 1] \o q[i]
    BY <2>1 DEF IsFlat
  <2> DEFINE T == {i \in Nat : i + 1 \in 1..k - 1 => g[i + 1] = f[i + 1]}
  <2>3. 0 \in T
    BY <1>1, <1>3, <1>5, <2>2
  <2>4. ASSUME NEW i \in Nat, i \in T PROVE i + 1 \in T
    <3> SUFFICES ASSUME i + 2 \in 1..k - 1 PROVE g[i + 2] = f[i + 2]
      OBVIOUS
    <3>1. i + 1 \in 1..k - 1 /\ i + 2 \in 1..k /\ i + 2 # 1 /\ (i + 2) - 1 = i + 1
      BY <1>1
    <3>2. g[i + 2] = g[i + 1] \o q[i + 2] /\ f[i + 2] = f[i + 1] \o p[i + 2]
      BY <1>3, <2>2, <3>1
    <3>3. q[i + 2] = p[i + 2]
      BY <1>1, <3>1
    <3>4. g[i + 1] = f[i + 1]
      BY <2>4, <3>1
    <3>5. QED
      BY <3>2, <3>3, <3>4
  <2> HIDE DEF T
  <2>5. k - 2 \in T
    <3>1. Nat \subseteq T
      BY <2>3, <2>4, SetInduction
    <3>2. k - 2 \in Nat
      BY <1>1, <1>5
    <3>3. QED
      BY <3>1, <3>2
  <2>6. (k - 2) + 1 = k - 1 /\ k - 1 \in 1..k - 1 /\ k \in 1..k
    BY <1>1, <1>5
  <2>7. g[k - 1] = f[k - 1]
    BY <2>5, <2>6 DEF T
  <2>8. f[k] = f[k - 1] \o ss[k]
    BY <1>1, <1>3, <1>5, <2>6
  <2>9. QED
    BY <1>2, <2>1, <2>7, <2>8 DEF p, q
<1>6. QED
  BY <1>4, <1>5

\* Where each of the sequences stands in what is joined.
Offset(ss, k) == Len(FlattenSeq(Prefix(ss, k)))

LEMMA Offsets ==
    ASSUME NEW S, NEW n \in Nat, NEW ss, DOMAIN ss = 1..n, \A i \in 1..n : ss[i] \in Seq(S)
    PROVE  /\ Offset(ss, 0) = 0
           /\ \A k \in 0..n : FlattenSeq(Prefix(ss, k)) \in Seq(S) /\ Offset(ss, k) \in Nat
           /\ \A k \in 1..n : Offset(ss, k) = Offset(ss, k - 1) + Len(ss[k])
<1>1. FlattenSeq(Prefix(ss, 0)) = <<>>
  <2>1. Prefix(ss, 0) = <<>> /\ Len(Prefix(ss, 0)) = 0
    BY DEF Prefix
  <2>2. QED
    BY <2>1 DEF FlattenSeq
<1> DEFINE T == {k \in Nat : k <= n => FlattenSeq(Prefix(ss, k)) \in Seq(S)}
<1>2. 0 \in T
  BY <1>1, EmptySeq
<1>3. ASSUME NEW k \in Nat, k \in T PROVE k + 1 \in T
  <2> SUFFICES ASSUME k + 1 <= n PROVE FlattenSeq(Prefix(ss, k + 1)) \in Seq(S)
    OBVIOUS
  <2>1. k <= n /\ k + 1 \in 1..n /\ (k + 1) - 1 = k
    OBVIOUS
  <2>2. FlattenSeq(Prefix(ss, k + 1)) = FlattenSeq(Prefix(ss, k)) \o ss[k + 1]
    BY <2>1, FlatStep
  <2>3. FlattenSeq(Prefix(ss, k)) \in Seq(S) /\ ss[k + 1] \in Seq(S)
    BY <1>3, <2>1
  <2>4. QED
    BY <2>2, <2>3, Joined
<1> HIDE DEF T
<1>4. \A k \in 0..n : FlattenSeq(Prefix(ss, k)) \in Seq(S)
  <2>1. Nat \subseteq T
    BY <1>2, <1>3, SetInduction
  <2>2. QED
    BY <2>1 DEF T
<1>5. \A k \in 0..n : Offset(ss, k) \in Nat
  BY <1>4 DEF Offset
<1>6. ASSUME NEW k \in 1..n PROVE Offset(ss, k) = Offset(ss, k - 1) + Len(ss[k])
  <2>1. FlattenSeq(Prefix(ss, k)) = FlattenSeq(Prefix(ss, k - 1)) \o ss[k]
    BY FlatStep
  <2>2. FlattenSeq(Prefix(ss, k - 1)) \in Seq(S) /\ ss[k] \in Seq(S)
    BY <1>4
  <2>3. QED
    BY <2>1, <2>2 DEF Offset
<1>7. QED
  BY <1>1, <1>4, <1>5, <1>6 DEF Offset

LEMMA WordOffsets ==
    ASSUME NEW n \in Nat, NEW ss, DOMAIN ss = 1..n, \A i \in 1..n : ss[i] \in Seq(Words)
    PROVE  /\ Offset(ss, 0) = 0
           /\ \A k \in 0..n : FlattenSeq(Prefix(ss, k)) \in Seq(Words) /\ Offset(ss, k) \in Nat
           /\ \A k \in 1..n : Offset(ss, k) = Offset(ss, k - 1) + Len(ss[k])
  BY Offsets

-----------------------------------------------------------------------------
(* What stands in a buffer.                                                 *)

\* The words w stand in the buffer from o on.
Stands(buf, o, w) == o + Len(w) <= Len(buf) /\ \A i \in 1..Len(w) : buf[o + i] = w[i]

LEMMA StandsParts ==
    ASSUME NEW buf \in Seq(Words), NEW o \in Nat, NEW v \in Seq(Words), NEW w \in Seq(Words), Stands(buf, o, v \o w)
    PROVE  Stands(buf, o, v) /\ Stands(buf, o + Len(v), w)
<1>1. /\ Len(v \o w) = Len(v) + Len(w)
      /\ \A i \in 1..Len(v) : (v \o w)[i] = v[i]
      /\ \A i \in 1..Len(w) : (v \o w)[Len(v) + i] = w[i]
  OBVIOUS
<1>2. Len(v) \in Nat /\ Len(w) \in Nat /\ Len(buf) \in Nat
  OBVIOUS
<1>3. \A i \in 1..Len(v) : i \in 1..Len(v \o w)
  BY <1>1, <1>2
<1>4. \A i \in 1..Len(w) : Len(v) + i \in 1..Len(v \o w) /\ o + (Len(v) + i) = (o + Len(v)) + i
  BY <1>1, <1>2
<1>5. o + (Len(v) + Len(w)) <= Len(buf) /\ \A i \in 1..Len(v \o w) : buf[o + i] = (v \o w)[i]
  BY <1>1 DEF Stands
<1>6. Stands(buf, o, v)
  BY <1>1, <1>2, <1>3, <1>5 DEF Stands
<1>7. Stands(buf, o + Len(v), w)
  <2>1. ASSUME NEW i \in 1..Len(w) PROVE buf[(o + Len(v)) + i] = w[i]
    BY <1>1, <1>4, <1>5
  <2>2. (o + Len(v)) + Len(w) <= Len(buf)
    BY <1>2, <1>5
  <2>3. QED
    BY <2>1, <2>2 DEF Stands
<1>8. QED
  BY <1>6, <1>7

\* Each of the sequences that are joined stands at its offset.
LEMMA StandsFlat ==
    ASSUME NEW buf \in Seq(Words), NEW o \in Nat, NEW n \in Nat, NEW ss, ss = [i \in 1..n |-> ss[i]],
           \A i \in 1..n : ss[i] \in Seq(Words), Stands(buf, o, FlattenSeq(ss))
    PROVE  \A k \in 1..n : Stands(buf, o + Offset(ss, k - 1), ss[k])
<1>1. /\ Offset(ss, 0) = 0
      /\ \A k \in 0..n : FlattenSeq(Prefix(ss, k)) \in Seq(Words) /\ Offset(ss, k) \in Nat
      /\ \A k \in 1..n : Offset(ss, k) = Offset(ss, k - 1) + Len(ss[k])
  <2>1. DOMAIN ss = 1..n /\ \A i \in 1..n : ss[i] \in Seq(Words)
    OBVIOUS
  <2>2. QED
    BY <2>1, WordOffsets, Zenon
<1>2. Prefix(ss, n) = ss
  BY PrefixIsWhole
<1> DEFINE T == {m \in Nat : m <= n => Stands(buf, o, FlattenSeq(Prefix(ss, n - m)))}
<1>3. 0 \in T
  BY <1>2
<1>4. ASSUME NEW m \in Nat, m <= n - 1, m \in T
      PROVE  /\ Stands(buf, o, FlattenSeq(Prefix(ss, n - (m + 1))))
             /\ Stands(buf, o + Offset(ss, (n - m) - 1), ss[n - m])
  <2> DEFINE k == n - m
  <2>1. k \in 1..n /\ k - 1 \in 0..n /\ n - (m + 1) = k - 1
    BY <1>4
  <2>2. FlattenSeq(Prefix(ss, k)) = FlattenSeq(Prefix(ss, k - 1)) \o ss[k]
    <3>1. DOMAIN ss = 1..n
      OBVIOUS
    <3>2. QED
      BY <2>1, <3>1, FlatStep
  <2>3. Stands(buf, o, FlattenSeq(Prefix(ss, k)))
    BY <1>4
  <2>4. FlattenSeq(Prefix(ss, k - 1)) \in Seq(Words) /\ ss[k] \in Seq(Words)
    BY <1>1, <2>1
  <2>5. QED
    BY <2>1, <2>2, <2>3, <2>4, StandsParts DEF Offset
<1>5. ASSUME NEW m \in Nat, m \in T PROVE m + 1 \in T
  <2>1. m + 1 <= n => m <= n - 1
    OBVIOUS
  <2>2. m + 1 <= n => Stands(buf, o, FlattenSeq(Prefix(ss, n - (m + 1))))
    BY <1>4, <1>5, <2>1
  <2>3. QED
    BY <2>2
<1> HIDE DEF T
<1>6. Nat \subseteq T
  BY <1>3, <1>5, SetInduction
<1>7. TAKE k \in 1..n
<1>8. n - k \in Nat /\ n - k <= n - 1 /\ n - (n - k) = k
  OBVIOUS
<1>9. QED
  BY <1>4, <1>6, <1>8


-----------------------------------------------------------------------------
(* Fields: what is written is read back.                                    *)

LEMMA Divided ==
    ASSUME NEW n \in Int, n \div WORD \in Int, n % WORD \in Int
    PROVE  n = WORD * (n \div WORD) + (n % WORD)
<1>1. PICK d \in Int : d = n \div WORD
  OBVIOUS
<1>2. PICK r \in Int : r = n % WORD
  OBVIOUS
<1>3. n = WORD * d + r
  BY <1>1, <1>2, SMT DEF WORD
<1>4. QED
  BY <1>1, <1>2, <1>3, Zenon

LEMMA InWords == \A r : r \in Words <=> r \in Int /\ 0 <= r /\ r < WORD
<1>1. WORD \in Int
  BY DEF WORD
<1>2. QED
  BY <1>1 DEF Words

LEMMA Remainder == ASSUME NEW n \in Int PROVE n % WORD \in Int /\ n % WORD \in Words
<1>1. n % WORD \in Int /\ 0 <= n % WORD /\ n % WORD < WORD
  BY SMT DEF WORD
<1>2. QED
  BY <1>1, InWords

LEMMA ShortOf == ASSUME NEW r \in Words PROVE Short(r) = IF r < 32768 THEN r ELSE r - WORD
<1>1. r \in Int /\ 0 <= r /\ r < WORD
  BY InWords
<1>2. r % WORD = r
  BY <1>1, SMT DEF WORD
<1>3. WORD \div 2 = 32768
  BY SMT DEF WORD
<1>4. Short(r) = IF r % WORD < WORD \div 2 THEN r % WORD ELSE (r % WORD) - WORD
  BY Zenon DEF Short
<1>5. QED
  BY <1>2, <1>3, <1>4

LEMMA ShortBack == ASSUME NEW n \in Shorts PROVE Short(n % WORD) = n /\ n % WORD \in Words
<1>1. n \in Int /\ -32768 <= n /\ n <= 32767
  BY DEF Shorts
<1>2. n % WORD \in Int /\ n % WORD \in Words
  BY <1>1, Remainder
<1>3. n % WORD = IF n >= 0 THEN n ELSE n + WORD
  BY <1>1, SMT DEF WORD
<1>4. PICK r \in Words : r \in Int /\ r = n % WORD
  BY <1>2, Zenon
<1>5. r = IF n >= 0 THEN n ELSE n + WORD
  BY <1>3, <1>4, Zenon
<1>6. Short(r) = n
  <2>1. Short(r) = IF r < 32768 THEN r ELSE r - WORD
    BY ShortOf
  <2>2. n >= 0 => r = n /\ r < 32768
    BY <1>1, <1>5
  <2>3. ~(n >= 0) => ~(r < 32768) /\ r - WORD = n
    BY <1>1, <1>5 DEF WORD
  <2>4. QED
    BY <2>1, <2>2, <2>3
<1>7. QED
  BY <1>2, <1>4, <1>6, Zenon

LEMMA IntBack ==
    ASSUME NEW n \in Ints
    PROVE  /\ Short((n \div WORD) % WORD) * WORD + (n % WORD) = n
           /\ (n \div WORD) % WORD \in Words /\ n % WORD \in Words
<1>1. n \in Int /\ n \div WORD \in Int /\ n % WORD \in Int
  BY SMT DEF Ints, WORD
<1>2. n = WORD * (n \div WORD) + (n % WORD)
  BY <1>1, Divided
<1>3. n \div WORD \in Shorts
  BY SMT DEF Ints, Shorts, WORD
<1>4. Short((n \div WORD) % WORD) = n \div WORD /\ (n \div WORD) % WORD \in Words
  BY <1>3, ShortBack
<1>5. n % WORD \in Words
  BY <1>1, Remainder
<1>6. WORD * (n \div WORD) = (n \div WORD) * WORD
  <2>1. PICK q \in Int : q = n \div WORD
    BY <1>1
  <2>2. WORD * q = q * WORD
    BY DEF WORD
  <2>3. QED
    BY <2>1, <2>2, Zenon
<1>7. Short((n \div WORD) % WORD) * WORD + (n % WORD) = n
  BY <1>2, <1>4, <1>6, Zenon
<1>8. QED
  BY <1>4, <1>5, <1>7

LEMMA WrittenShort ==
    ASSUME NEW n \in Shorts PROVE WRITE_NET_SHORT(n) \in Seq(Words) /\ Len(WRITE_NET_SHORT(n)) = 1
  BY ShortBack DEF WRITE_NET_SHORT

LEMMA WrittenInt ==
    ASSUME NEW n \in Ints PROVE WRITE_NET_INT(n) \in Seq(Words) /\ Len(WRITE_NET_INT(n)) = 2
  BY IntBack DEF WRITE_NET_INT

LEMMA WrittenLong ==
    ASSUME NEW t \in Longs PROVE WRITE_NET_LONG(t) \in Seq(Words) /\ Len(WRITE_NET_LONG(t)) = 4
  BY DEF WRITE_NET_LONG, Longs

LEMMA WordThere ==
    ASSUME NEW buf \in Seq(Words), NEW o \in Nat, NEW w \in Seq(Words), Stands(buf, o, w), NEW i \in 1..Len(w)
    PROVE  Word(buf, o + i - 1) = w[i]
<1>1. o + i - 1 < Len(buf) /\ (o + i - 1) + 1 = o + i
  BY DEF Stands
<1>2. QED
  BY <1>1 DEF Stands, Word

LEMMA ReadShort ==
    ASSUME NEW buf \in Seq(Words), NEW o \in Nat, NEW n \in Shorts, Stands(buf, o, WRITE_NET_SHORT(n))
    PROVE  READ_NET_SHORT(buf, o) = n
<1>1. Word(buf, o + 1 - 1) = WRITE_NET_SHORT(n)[1]
  BY WordThere, WrittenShort
<1>2. Word(buf, o) = n % WORD
  BY <1>1 DEF WRITE_NET_SHORT
<1>3. QED
  BY <1>2, ShortBack DEF READ_NET_SHORT

LEMMA WrittenWord ==
    ASSUME NEW n \in Words PROVE WRITE_NET_SHORT(n) \in Seq(Words) /\ Len(WRITE_NET_SHORT(n)) = 1
<1>1. n % WORD = n
  BY InWords, SMT DEF WORD
<1>2. QED
  BY <1>1 DEF WRITE_NET_SHORT

\* A short with its sign, taken without it.
LEMMA ReadWord ==
    ASSUME NEW buf \in Seq(Words), NEW o \in Nat, NEW n \in Words, Stands(buf, o, WRITE_NET_SHORT(n))
    PROVE  READ_NET_SHORT(buf, o) % WORD = n
<1>1. Word(buf, o + 1 - 1) = WRITE_NET_SHORT(n)[1]
  BY WordThere, WrittenWord
<1>2. n % WORD = n
  BY InWords, SMT DEF WORD
<1>3. Word(buf, o) = n
  BY <1>1, <1>2 DEF WRITE_NET_SHORT
<1>4. READ_NET_SHORT(buf, o) = IF n < 32768 THEN n ELSE n - WORD
  BY <1>3, ShortOf DEF READ_NET_SHORT
<1>5. (n - WORD) % WORD = n
  BY InWords, SMT DEF WORD
<1>6. QED
  BY <1>2, <1>4, <1>5

LEMMA ReadInt ==
    ASSUME NEW buf \in Seq(Words), NEW o \in Nat, NEW n \in Ints, Stands(buf, o, WRITE_NET_INT(n))
    PROVE  READ_NET_INT(buf, o) = n
<1>1. Word(buf, o + 1 - 1) = WRITE_NET_INT(n)[1] /\ Word(buf, o + 2 - 1) = WRITE_NET_INT(n)[2]
  BY WordThere, WrittenInt
<1>2. Word(buf, o) = (n \div WORD) % WORD /\ Word(buf, o + 1) = n % WORD
  <2>1. o + 1 - 1 = o /\ o + 2 - 1 = o + 1
    OBVIOUS
  <2>2. QED
    BY <1>1, <2>1 DEF WRITE_NET_INT
<1>3. READ_NET_SHORT(buf, o) = Short((n \div WORD) % WORD)
  BY <1>2 DEF READ_NET_SHORT
<1>4. READ_NET_INT(buf, o) = Short((n \div WORD) % WORD) * WORD + (n % WORD)
  BY <1>2, <1>3, Zenon DEF READ_NET_INT
<1>5. QED
  BY <1>4, IntBack, Zenon

LEMMA ReadLong ==
    ASSUME NEW buf \in Seq(Words), NEW o \in Nat, NEW t \in Longs, Stands(buf, o, t)
    PROVE  READ_NET_LONG(buf, o) = t
<1>1. t \in Seq(Words) /\ Len(t) = 4 /\ t = [i \in 1..4 |-> t[i]]
  BY DEF Longs
<1>2. \A i \in 1..4 : Word(buf, o + i - 1) = t[i]
  BY <1>1, WordThere
<1>3. QED
  BY <1>1, <1>2 DEF READ_NET_LONG

\* Long numbers that are joined stand four words from each other.
LEMMA FlatLongs ==
    ASSUME NEW n \in Nat, NEW ss, ss = [i \in 1..n |-> ss[i]], \A i \in 1..n : ss[i] \in Longs
    PROVE  /\ FlattenSeq(ss) \in Seq(Words) /\ Len(FlattenSeq(ss)) = 4 * n
           /\ \A k \in 0..n : Offset(ss, k) = 4 * k
<1>0. DOMAIN ss = 1..n /\ \A i \in 1..n : ss[i] \in Seq(Words)
  BY DEF Longs
<1>1. \A i \in 1..n : Len(ss[i]) = 4
  BY DEF Longs
<1>2. /\ Offset(ss, 0) = 0
      /\ \A k \in 0..n : FlattenSeq(Prefix(ss, k)) \in Seq(Words) /\ Offset(ss, k) \in Nat
      /\ \A k \in 1..n : Offset(ss, k) = Offset(ss, k - 1) + Len(ss[k])
  BY <1>0, WordOffsets, Zenon
<1> DEFINE T == {k \in Nat : k <= n => Offset(ss, k) = 4 * k}
<1>3. 0 \in T
  BY <1>2
<1>4. ASSUME NEW k \in Nat, k \in T PROVE k + 1 \in T
  <2> SUFFICES ASSUME k + 1 <= n PROVE Offset(ss, k + 1) = 4 * (k + 1)
    OBVIOUS
  <2>1. k + 1 \in 1..n /\ (k + 1) - 1 = k /\ Offset(ss, k) = 4 * k
    BY <1>4
  <2>2. Offset(ss, k + 1) = Offset(ss, (k + 1) - 1) + Len(ss[k + 1])
    BY <1>2, <2>1
  <2>3. Offset(ss, k + 1) = 4 * k + 4
    BY <1>1, <2>1, <2>2
  <2>4. QED
    BY <2>3
<1> HIDE DEF T
<1>5. \A k \in 0..n : Offset(ss, k) = 4 * k
  <2>1. Nat \subseteq T
    BY <1>3, <1>4, SetInduction
  <2>2. QED
    BY <2>1 DEF T
<1>6. Prefix(ss, n) = ss
  BY PrefixIsWhole
<1>7. QED
  BY <1>2, <1>5, <1>6 DEF Offset

LEMMA ReadLongs ==
    ASSUME NEW buf \in Seq(Words), NEW o \in Nat, NEW n \in Nat, NEW ss, ss = [i \in 1..n |-> ss[i]],
           \A i \in 1..n : ss[i] \in Longs, Stands(buf, o, FlattenSeq(ss))
    PROVE  [i \in 1..n |-> READ_NET_LONG(buf, o + 4 * (i - 1))] = ss
<1>1. \A i \in 1..n : ss[i] \in Seq(Words)
  BY DEF Longs
<1>2. \A k \in 1..n : Stands(buf, o + Offset(ss, k - 1), ss[k])
  BY <1>1, StandsFlat
<1>3. \A k \in 0..n : Offset(ss, k) = 4 * k
  BY FlatLongs
<1>4. ASSUME NEW k \in 1..n PROVE READ_NET_LONG(buf, o + 4 * (k - 1)) = ss[k]
  <2>1. k - 1 \in 0..n /\ o + 4 * (k - 1) \in Nat
    OBVIOUS
  <2>2. Stands(buf, o + 4 * (k - 1), ss[k])
    BY <1>2, <1>3, <2>1
  <2>3. QED
    BY <2>1, <2>2, ReadLong
<1>5. QED
  BY <1>4

LEMMA ShortSame == ASSUME NEW n \in Shorts PROVE Short(n) = n
<1>1. n \in Int /\ n % WORD = IF n >= 0 THEN n ELSE n + WORD
  BY SMT DEF Shorts, WORD
<1>2. WORD \div 2 = 32768
  BY SMT DEF WORD
<1>3. QED
  BY <1>1, <1>2, SMT DEF Short, Shorts, WORD

\* What is counted in a short.
LEMMA CountedSeq ==
    ASSUME NEW S, NEW s \in Counted(S)
    PROVE  /\ s \in Seq(S) /\ Len(s) \in Nat /\ Len(s) \in Shorts /\ Len(s) \in Ints
           /\ DOMAIN s = 1..Len(s) /\ s = [i \in 1..Len(s) |-> s[i]]
           /\ \A i \in 1..Len(s) : s[i] \in S
<1>1. s \in Seq(S) /\ Len(s) \in Nat /\ DOMAIN s = 1..Len(s)
  BY SMT DEF Counted
<1>2. Len(s) \in Shorts /\ Len(s) \in Ints
  BY <1>1, SMT DEF Counted, Shorts, Ints
<1>3. QED
  BY <1>1, <1>2

\* What fits into an array of the driver.
LEMMA InArray == ASSUME NEW S, NEW s \in Arrays(S) PROVE s \in Counted(S)
  BY DEF Arrays

-----------------------------------------------------------------------------
(* Datanode locations.                                                      *)

\* The parts of a location, and how wide they are together.
LEMMA LocationParts ==
    ASSUME NEW loc \in Locations
    PROVE  /\ loc.ip \in Ints /\ loc.port \in Words /\ loc.triplets \in Counted(Longs)
           /\ loc = [ip |-> loc.ip, port |-> loc.port, triplets |-> loc.triplets]
           /\ FlattenSeq(loc.triplets) \in Seq(Words)
           /\ Len(FlattenSeq(loc.triplets)) = 4 * Len(loc.triplets)
           /\ Pack_Datanode_Location(loc) \in Seq(Words)
           /\ Len(Pack_Datanode_Location(loc)) = LocationSize(Len(loc.triplets))
<1> DEFINE A == WRITE_NET_INT(loc.ip)
           B == WRITE_NET_SHORT(loc.port)
           C == WRITE_NET_INT(Len(loc.triplets))
           D == FlattenSeq(loc.triplets)
<1>1. /\ loc.ip \in Ints /\ loc.port \in Words /\ loc.triplets \in Counted(Longs)
      /\ loc = [ip |-> loc.ip, port |-> loc.port, triplets |-> loc.triplets]
  BY InArray DEF Locations
<1>2. /\ Len(loc.triplets) \in Ints /\ Len(loc.triplets) \in Nat
      /\ loc.triplets = [i \in 1..Len(loc.triplets) |-> loc.triplets[i]]
      /\ \A i \in 1..Len(loc.triplets) : loc.triplets[i] \in Longs
  BY <1>1, CountedSeq
<1>3. D \in Seq(Words) /\ Len(D) = 4 * Len(loc.triplets)
  BY <1>2, FlatLongs
<1>4. A \in Seq(Words) /\ Len(A) = 2 /\ C \in Seq(Words) /\ Len(C) = 2
  BY <1>1, <1>2, WrittenInt
<1>5. B \in Seq(Words) /\ Len(B) = 1
  BY <1>1, WrittenWord
<1>6. Pack_Datanode_Location(loc) = ((A \o B) \o C) \o D
  BY DEF Pack_Datanode_Location
<1> HIDE DEF A, B, C, D
<1>7. A \o B \in Seq(Words) /\ Len(A \o B) = 3
  <2>1. A \o B \in Seq(Words) /\ Len(A \o B) = Len(A) + Len(B)
    BY <1>4, <1>5, Joined
  <2>2. QED
    BY <1>4, <1>5, <2>1
<1>8. (A \o B) \o C \in Seq(Words) /\ Len((A \o B) \o C) = 5
  <2>1. (A \o B) \o C \in Seq(Words) /\ Len((A \o B) \o C) = Len(A \o B) + Len(C)
    BY <1>4, <1>7, Joined
  <2>2. QED
    BY <1>4, <1>7, <2>1
<1>9. ((A \o B) \o C) \o D \in Seq(Words) /\ Len(((A \o B) \o C) \o D) = 5 + 4 * Len(loc.triplets)
  <2> DEFINE E == (A \o B) \o C
  <2>1. E \in Seq(Words) /\ Len(E) = 5
    BY <1>8
  <2> HIDE DEF E
  <2>2. E \o D \in Seq(Words) /\ Len(E \o D) = Len(E) + Len(D)
    BY <1>3, <2>1, Joined
  <2>3. Len(E \o D) = 5 + 4 * Len(loc.triplets)
    BY <1>3, <2>1, <2>2
  <2>4. QED
    BY <2>2, <2>3 DEF E
<1>10. QED
  BY <1>1, <1>3, <1>6, <1>9 DEF D, LocationSize

LEMMA ReadLocation ==
    ASSUME NEW buf \in Seq(Words), NEW o \in Nat, NEW loc \in Locations,
           Stands(buf, o, Pack_Datanode_Location(loc))
    PROVE  Parse_Datanode_Location(buf, o) = loc
<1> DEFINE A == WRITE_NET_INT(loc.ip)
           B == WRITE_NET_SHORT(loc.port)
           C == WRITE_NET_INT(Len(loc.triplets))
           D == FlattenSeq(loc.triplets)
           n == Len(loc.triplets)
<1>1. /\ loc.ip \in Ints /\ loc.port \in Words /\ loc.triplets \in Counted(Longs)
      /\ loc = [ip |-> loc.ip, port |-> loc.port, triplets |-> loc.triplets]
      /\ D \in Seq(Words)
  BY LocationParts
<1>2. /\ n \in Ints /\ n \in Shorts /\ n \in Nat
      /\ loc.triplets = [i \in 1..n |-> loc.triplets[i]]
      /\ \A i \in 1..n : loc.triplets[i] \in Longs
  BY <1>1, CountedSeq
<1>3. A \in Seq(Words) /\ Len(A) = 2 /\ C \in Seq(Words) /\ Len(C) = 2
  BY <1>1, <1>2, WrittenInt
<1>4. B \in Seq(Words) /\ Len(B) = 1
  BY <1>1, WrittenWord
<1>5. Stands(buf, o, ((A \o B) \o C) \o D)
  BY DEF Pack_Datanode_Location
<1> HIDE DEF A, B, C, D, n
<1>6. A \o B \in Seq(Words) /\ Len(A \o B) = 3
  <2>1. A \o B \in Seq(Words) /\ Len(A \o B) = Len(A) + Len(B)
    BY <1>3, <1>4, Joined
  <2>2. QED
    BY <1>3, <1>4, <2>1
<1>7. (A \o B) \o C \in Seq(Words) /\ Len((A \o B) \o C) = 5
  <2>1. (A \o B) \o C \in Seq(Words) /\ Len((A \o B) \o C) = Len(A \o B) + Len(C)
    BY <1>3, <1>6, Joined
  <2>2. QED
    BY <1>3, <1>6, <2>1
<1>8. Stands(buf, o, (A \o B) \o C) /\ Stands(buf, o + 5, D)
  BY <1>1, <1>5, <1>7, StandsParts
<1>9. Stands(buf, o, A \o B) /\ Stands(buf, o + 3, C)
  BY <1>3, <1>6, <1>8, StandsParts
<1>10. Stands(buf, o, A) /\ Stands(buf, o + 2, B)
  BY <1>3, <1>4, <1>9, StandsParts
<1>11. o + 2 \in Nat /\ o + 3 \in Nat /\ o + 5 \in Nat
  OBVIOUS
<1>12. READ_NET_INT(buf, o) = loc.ip
  BY <1>1, <1>10, ReadInt DEF A
<1>13. READ_NET_SHORT(buf, o + 2) % WORD = loc.port
  BY <1>1, <1>10, <1>11, ReadWord DEF B
<1>14. READ_NET_INT(buf, o + 3) = n
  BY <1>2, <1>9, <1>11, ReadInt DEF C, n
<1>15. NrTriplets(buf, o) = n
  <2>1. Short(n) = n
    BY <1>2, ShortSame
  <2>2. QED
    BY <1>2, <1>14, <2>1 DEF NrTriplets, Times
<1>16. [j \in 1..n |-> READ_NET_LONG(buf, (o + 5) + 4 * (j - 1))] = loc.triplets
  BY <1>2, <1>8, <1>11, ReadLongs DEF D
<1>17. [j \in 1..n |-> READ_NET_LONG(buf, o + 5 + 4 * (j - 1))] = loc.triplets
  BY <1>16
<1>18. QED
  BY <1>1, <1>12, <1>13, <1>15, <1>17 DEF Parse_Datanode_Location


\* The loop over the locations, as the function it stands for.
IsLocations(f, buf, o, n) ==
    f = [i \in 0..n |-> IF i = 0 THEN [size |-> 0, locs |-> <<>>] ELSE NextLocation(buf, o, f[i - 1])]

LEMMA LocationsExist == ASSUME NEW buf, NEW o PROVE \A n \in Nat : \E f : IsLocations(f, buf, o, n)
<1> DEFINE none == [size |-> 0, locs |-> <<>>]
           S == {n \in Nat : \E f : IsLocations(f, buf, o, n)}
<1>1. 0 \in S
  <2> DEFINE f == [i \in 0..0 |-> none]
  <2>1. f = [i \in 0..0 |-> IF i = 0 THEN none ELSE NextLocation(buf, o, f[i - 1])]
    OBVIOUS
  <2> HIDE DEF f
  <2>2. QED
    BY <2>1 DEF IsLocations
<1>2. ASSUME NEW n \in Nat, n \in S PROVE n + 1 \in S
  <2>1. PICK f : IsLocations(f, buf, o, n)
    BY <1>2
  <2> DEFINE v == NextLocation(buf, o, f[n])
             g == [i \in 0..n + 1 |-> IF i = n + 1 THEN v ELSE f[i]]
             e(i) == IF i = 0 THEN none ELSE NextLocation(buf, o, g[i - 1])
             d(i) == IF i = 0 THEN none ELSE NextLocation(buf, o, f[i - 1])
  <2>2. \A i \in 0..n : f[i] = d(i)
    BY <2>1 DEF IsLocations
  <2>3. \A i \in 0..n : g[i] = f[i]
    OBVIOUS
  <2>4. g[n + 1] = v /\ (n + 1) - 1 = n /\ n \in 0..n /\ n + 1 # 0
    OBVIOUS
  <2>5. g = [i \in 0..n + 1 |-> g[i]]
    OBVIOUS
  <2> HIDE DEF g, v, none
  <2>6. \A i \in 0..n + 1 : g[i] = e(i)
    <3>1. ASSUME NEW i \in 0..n PROVE g[i] = e(i)
      <4>1. i # 0 => i - 1 \in 0..n
        OBVIOUS
      <4>2. QED
        BY <2>2, <2>3, <4>1
    <3>2. g[n + 1] = e(n + 1)
      BY <2>3, <2>4 DEF v
    <3>3. \A i \in 0..n + 1 : i \in 0..n \/ i = n + 1
      OBVIOUS
    <3>4. QED
      BY <3>1, <3>2, <3>3
  <2> HIDE DEF e
  <2>7. g = [i \in 0..n + 1 |-> e(i)]
    BY <2>5, <2>6
  <2>8. IsLocations(g, buf, o, n + 1)
    BY <2>7 DEF e, none, IsLocations
  <2>9. QED
    BY <2>8
<1> HIDE DEF S
<1>3. Nat \subseteq S
  BY <1>1, <1>2, SetInduction
<1>4. QED
  BY <1>3 DEF S

LEMMA LocationsAre ==
    ASSUME NEW buf, NEW o, NEW nr \in Nat
    PROVE  \E f : IsLocations(f, buf, o, nr) /\ Parse_Datanode_Locations(buf, o, nr) = f[nr]
<1> DEFINE f == CHOOSE g : IsLocations(g, buf, o, nr)
<1>1. IsLocations(f, buf, o, nr)
  BY LocationsExist
<1>2. Times(nr) = nr
  BY DEF Times
<1>3. f = CHOOSE g : g = [i \in 0..Times(nr) |-> IF i = 0 THEN [size |-> 0, locs |-> <<>>]
                                                ELSE NextLocation(buf, o, g[i - 1])]
  BY <1>2 DEF IsLocations
<1> HIDE DEF f
<1>4. Parse_Datanode_Locations(buf, o, nr) = f[nr]
  BY <1>2, <1>3 DEF Parse_Datanode_Locations
<1>5. QED
  BY <1>1, <1>4

LEMMA PrefixAppend ==
    ASSUME NEW ss, NEW k \in Nat PROVE Append(Prefix(ss, k), ss[k + 1]) = Prefix(ss, k + 1)
  BY DEF Prefix

\* The locations on the wire.
WireLocations(locs) == [i \in DOMAIN locs |-> Pack_Datanode_Location(locs[i])]

LEMMA WireLocationsAre ==
    ASSUME NEW locs \in Counted(Locations)
    PROVE  LET n == Len(locs)
               ss == WireLocations(locs)
           IN  /\ n \in Nat /\ DOMAIN ss = 1..n /\ ss = [i \in 1..n |-> ss[i]]
               /\ \A i \in 1..n : ss[i] = Pack_Datanode_Location(locs[i])
               /\ \A i \in 1..n : ss[i] \in Seq(Words)
               /\ Offset(ss, 0) = 0
               /\ \A k \in 0..n : Offset(ss, k) \in Nat
               /\ \A k \in 1..n : Offset(ss, k) = Offset(ss, k - 1) + LocationSize(Len(locs[k].triplets))
               /\ FlattenSeq(ss) \in Seq(Words) /\ Len(FlattenSeq(ss)) = Offset(ss, n)
               /\ Len(FlattenSeq(ss)) > 0 <=> locs # <<>>
<1> DEFINE n == Len(locs)
           ss == WireLocations(locs)
<1>1. n \in Nat /\ DOMAIN locs = 1..n /\ \A i \in 1..n : locs[i] \in Locations
  BY CountedSeq
<1>2. /\ DOMAIN ss = 1..n /\ ss = [i \in 1..n |-> ss[i]]
      /\ \A i \in 1..n : ss[i] = Pack_Datanode_Location(locs[i])
  BY <1>1 DEF WireLocations
<1> HIDE DEF ss, n
<1>3. \A i \in 1..n : ss[i] \in Seq(Words) /\ Len(ss[i]) = LocationSize(Len(locs[i].triplets))
  BY <1>1, <1>2, LocationParts
<1>4. /\ Offset(ss, 0) = 0
      /\ \A k \in 0..n : FlattenSeq(Prefix(ss, k)) \in Seq(Words) /\ Offset(ss, k) \in Nat
      /\ \A k \in 1..n : Offset(ss, k) = Offset(ss, k - 1) + Len(ss[k])
  <2>1. \A i \in 1..n : ss[i] \in Seq(Words)
    BY <1>3
  <2>2. QED
    BY <1>1, <1>2, <2>1, WordOffsets
<1>5. Prefix(ss, n) = ss
  BY <1>1, <1>2, PrefixIsWhole
<1>6. FlattenSeq(ss) \in Seq(Words) /\ Len(FlattenSeq(ss)) = Offset(ss, n)
  <2>1. n \in 0..n
    BY <1>1
  <2>2. QED
    BY <1>4, <1>5, <2>1 DEF Offset
<1>7. Offset(ss, n) > 0 <=> n # 0
  <2>1. CASE n = 0
    BY <1>4, <2>1
  <2>2. CASE n # 0
    <3>1. n \in 1..n /\ n - 1 \in 0..n
      BY <1>1, <2>2
    <3>2. Offset(ss, n) = Offset(ss, n - 1) + LocationSize(Len(locs[n].triplets)) /\ Offset(ss, n - 1) \in Nat
      BY <1>3, <1>4, <3>1
    <3>3. Len(locs[n].triplets) \in Nat
      <4>1. locs[n].triplets \in Counted(Longs)
        BY <1>1, <3>1, LocationParts
      <4>2. QED
        BY <4>1, CountedSeq
    <3>4. QED
      BY <2>2, <3>2, <3>3 DEF LocationSize
  <2>3. QED
    BY <2>1, <2>2
<1>8. n # 0 <=> locs # <<>>
  <2>1. locs \in Seq(Locations)
    BY CountedSeq
  <2>2. QED
    BY <2>1, EmptySeq DEF n
<1>9. QED
  BY <1>1, <1>2, <1>3, <1>4, <1>6, <1>7, <1>8 DEF n, ss

LEMMA ReadLocations ==
    ASSUME NEW buf \in Seq(Words), NEW o \in Nat, NEW locs \in Counted(Locations),
           Stands(buf, o, FlattenSeq(WireLocations(locs)))
    PROVE  Parse_Datanode_Locations(buf, o, Len(locs))
             = [size |-> Len(FlattenSeq(WireLocations(locs))), locs |-> locs]
<1> DEFINE n == Len(locs)
           ss == WireLocations(locs)
<1>1. n \in Nat /\ locs = [i \in 1..n |-> locs[i]] /\ \A i \in 1..n : locs[i] \in Locations
  BY CountedSeq
<1>2. /\ DOMAIN ss = 1..n /\ ss = [i \in 1..n |-> ss[i]]
      /\ \A i \in 1..n : ss[i] = Pack_Datanode_Location(locs[i])
      /\ \A i \in 1..n : ss[i] \in Seq(Words)
      /\ Offset(ss, 0) = 0
      /\ \A k \in 0..n : Offset(ss, k) \in Nat
      /\ \A k \in 1..n : Offset(ss, k) = Offset(ss, k - 1) + LocationSize(Len(locs[k].triplets))
      /\ Len(FlattenSeq(ss)) = Offset(ss, n)
  BY WireLocationsAre
<1> HIDE DEF n, ss
<1>3. \A k \in 1..n : Stands(buf, o + Offset(ss, k - 1), ss[k])
  BY <1>1, <1>2, StandsFlat DEF ss
<1>4. PICK f : IsLocations(f, buf, o, n) /\ Parse_Datanode_Locations(buf, o, n) = f[n]
  BY <1>1, LocationsAre
<1>5. \A i \in 0..n : f[i] = IF i = 0 THEN [size |-> 0, locs |-> <<>>] ELSE NextLocation(buf, o, f[i - 1])
  BY <1>4 DEF IsLocations
<1> DEFINE T == {k \in Nat : k <= n => f[k] = [size |-> Offset(ss, k), locs |-> Prefix(locs, k)]}
<1>6. 0 \in T
  <2>1. Prefix(locs, 0) = <<>>
    BY DEF Prefix
  <2>2. 0 \in 0..n
    BY <1>1
  <2>3. QED
    BY <1>2, <1>5, <2>1, <2>2
<1>7. ASSUME NEW k \in Nat, k \in T PROVE k + 1 \in T
  <2> SUFFICES ASSUME k + 1 <= n PROVE f[k + 1] = [size |-> Offset(ss, k + 1), locs |-> Prefix(locs, k + 1)]
    OBVIOUS
  <2>1. k + 1 \in 1..n /\ k + 1 \in 0..n /\ k + 1 # 0 /\ (k + 1) - 1 = k /\ k \in 0..n
    BY <1>1
  <2>2. f[k] = [size |-> Offset(ss, k), locs |-> Prefix(locs, k)]
    BY <1>7, <2>1
  <2>3. f[k + 1] = NextLocation(buf, o, f[k])
    BY <1>5, <2>1
  <2>4. Parse_Datanode_Location(buf, o + Offset(ss, k)) = locs[k + 1]
    <3>1. Stands(buf, o + Offset(ss, k), Pack_Datanode_Location(locs[k + 1]))
      BY <1>2, <1>3, <2>1
    <3>2. o + Offset(ss, k) \in Nat /\ locs[k + 1] \in Locations
      BY <1>1, <1>2, <2>1
    <3>3. QED
      BY <3>1, <3>2, ReadLocation
  <2>5. Append(Prefix(locs, k), locs[k + 1]) = Prefix(locs, k + 1)
    BY PrefixAppend
  <2>6. Offset(ss, k + 1) = Offset(ss, k) + LocationSize(Len(locs[k + 1].triplets))
    BY <1>2, <2>1
  <2>7. f[k].size = Offset(ss, k) /\ f[k].locs = Prefix(locs, k)
    BY <2>2
  <2>8. f[k + 1] = [size |-> Offset(ss, k) + LocationSize(Len(locs[k + 1].triplets)),
                    locs |-> Append(Prefix(locs, k), locs[k + 1])]
    BY <2>3, <2>4, <2>7 DEF NextLocation
  <2>9. QED
    BY <2>5, <2>6, <2>8
<1> HIDE DEF T
<1>8. n \in T
  <2>1. Nat \subseteq T
    BY <1>6, <1>7, SetInduction
  <2>2. QED
    BY <1>1, <2>1
<1>9. Prefix(locs, n) = locs
  BY <1>1, PrefixIsWhole
<1>10. f[n] = [size |-> Offset(ss, n), locs |-> Prefix(locs, n)]
  BY <1>1, <1>8 DEF T
<1>11. f[n] = [size |-> Len(FlattenSeq(ss)), locs |-> locs]
  BY <1>2, <1>9, <1>10
<1>12. QED
  BY <1>4, <1>11 DEF n, ss

-----------------------------------------------------------------------------
(* Located requests.                                                        *)

\* What stands before the locations, and how wide it is.
LEMMA HeadParts ==
    ASSUME NEW lr \in LocatedRequests
    PROVE  /\ lr.state \in Shorts /\ lr.hbids \in Counted(Longs) /\ lr.locs \in Counted(Locations)
           /\ FlattenSeq(lr.hbids) \in Seq(Words) /\ Len(FlattenSeq(lr.hbids)) = 4 * Len(lr.hbids)
           /\ Pack_Head(lr) \in Seq(Words) /\ Len(Pack_Head(lr)) = 3 + 4 * Len(lr.hbids)
<1> DEFINE A == WRITE_NET_SHORT(lr.state)
           B == WRITE_NET_SHORT(Len(lr.hbids))
           C == FlattenSeq(lr.hbids)
           D == WRITE_NET_SHORT(Len(lr.locs))
           n == Len(lr.hbids)
<1>1. lr.state \in Shorts /\ lr.hbids \in Counted(Longs) /\ lr.locs \in Counted(Locations)
  BY InArray DEF LocatedRequests
<1>2. /\ n \in Nat /\ n \in Shorts /\ Len(lr.locs) \in Shorts
      /\ lr.hbids = [i \in 1..n |-> lr.hbids[i]] /\ \A i \in 1..n : lr.hbids[i] \in Longs
  BY <1>1, CountedSeq
<1>3. C \in Seq(Words) /\ Len(C) = 4 * n
  BY <1>2, FlatLongs
<1>4. /\ A \in Seq(Words) /\ Len(A) = 1 /\ B \in Seq(Words) /\ Len(B) = 1
      /\ D \in Seq(Words) /\ Len(D) = 1
  BY <1>1, <1>2, WrittenShort
<1>5. Pack_Head(lr) = ((A \o B) \o C) \o D
  BY DEF Pack_Head
<1> HIDE DEF A, B, C, D, n
<1>6. A \o B \in Seq(Words) /\ Len(A \o B) = Len(A) + Len(B)
  BY <1>4, Joined
<1>7. (A \o B) \o C \in Seq(Words) /\ Len((A \o B) \o C) = Len(A \o B) + Len(C)
  BY <1>3, <1>6, Joined
<1>8. /\ ((A \o B) \o C) \o D \in Seq(Words)
      /\ Len(((A \o B) \o C) \o D) = Len((A \o B) \o C) + Len(D)
  BY <1>4, <1>7, Joined
<1>9. Len(((A \o B) \o C) \o D) = 3 + 4 * n
  BY <1>2, <1>3, <1>4, <1>6, <1>7, <1>8
<1>10. QED
  BY <1>1, <1>3, <1>5, <1>8, <1>9 DEF C, n

LEMMA ReadHead ==
    ASSUME NEW buf \in Seq(Words), NEW o \in Nat, NEW lr \in LocatedRequests, Stands(buf, o, Pack_Head(lr))
    PROVE  LET n == Len(lr.hbids)
           IN  /\ READ_NET_SHORT(buf, o) = lr.state
               /\ READ_NET_SHORT(buf, o + 1) = n
               /\ [i \in 1..n |-> READ_NET_LONG(buf, o + 2 + 4 * (i - 1))] = lr.hbids
               /\ READ_NET_SHORT(buf, o + 2 + 4 * n) = Len(lr.locs)
<1> DEFINE A == WRITE_NET_SHORT(lr.state)
           B == WRITE_NET_SHORT(Len(lr.hbids))
           C == FlattenSeq(lr.hbids)
           D == WRITE_NET_SHORT(Len(lr.locs))
           n == Len(lr.hbids)
<1>1. /\ lr.state \in Shorts /\ lr.hbids \in Counted(Longs) /\ lr.locs \in Counted(Locations)
      /\ C \in Seq(Words) /\ Len(C) = 4 * n
  BY HeadParts
<1>2. /\ n \in Nat /\ n \in Shorts /\ Len(lr.locs) \in Shorts
      /\ lr.hbids = [i \in 1..n |-> lr.hbids[i]] /\ \A i \in 1..n : lr.hbids[i] \in Longs
  BY <1>1, CountedSeq
<1>3. /\ A \in Seq(Words) /\ Len(A) = 1 /\ B \in Seq(Words) /\ Len(B) = 1
      /\ D \in Seq(Words) /\ Len(D) = 1
  BY <1>1, <1>2, WrittenShort
<1>4. Stands(buf, o, ((A \o B) \o C) \o D)
  BY DEF Pack_Head
<1> HIDE DEF A, B, C, D, n
<1>5. A \o B \in Seq(Words) /\ Len(A \o B) = Len(A) + Len(B)
  BY <1>3, Joined
<1>6. (A \o B) \o C \in Seq(Words) /\ Len((A \o B) \o C) = Len(A \o B) + Len(C)
  BY <1>1, <1>5, Joined
<1>7. Stands(buf, o, (A \o B) \o C) /\ Stands(buf, o + Len((A \o B) \o C), D)
  BY <1>3, <1>4, <1>6, StandsParts
<1>8. Stands(buf, o, A \o B) /\ Stands(buf, o + Len(A \o B), C)
  BY <1>1, <1>5, <1>7, StandsParts
<1>9. Stands(buf, o, A) /\ Stands(buf, o + Len(A), B)
  BY <1>3, <1>8, StandsParts
<1>10. /\ o + Len(A) = o + 1 /\ o + Len(A \o B) = o + 2 /\ o + Len((A \o B) \o C) = o + 2 + 4 * n
       /\ o + 1 \in Nat /\ o + 2 \in Nat /\ o + 2 + 4 * n \in Nat
  <2>1. Len(A \o B) = 2
    BY <1>3, <1>5
  <2>2. Len((A \o B) \o C) = 2 + 4 * n
    BY <1>1, <1>6, <2>1
  <2>3. QED
    BY <1>2, <1>3, <2>1, <2>2
<1>11. READ_NET_SHORT(buf, o) = lr.state
  BY <1>1, <1>9, ReadShort DEF A
<1>12. READ_NET_SHORT(buf, o + 1) = n
  BY <1>2, <1>9, <1>10, ReadShort DEF B, n
<1>13. [i \in 1..n |-> READ_NET_LONG(buf, (o + 2) + 4 * (i - 1))] = lr.hbids
  BY <1>2, <1>8, <1>10, ReadLongs DEF C
<1>14. READ_NET_SHORT(buf, o + 2 + 4 * n) = Len(lr.locs)
  BY <1>2, <1>7, <1>10, ReadShort DEF D
<1>15. QED
  BY <1>11, <1>12, <1>13, <1>14 DEF n

LEMMA WireRequestParts ==
    ASSUME NEW lr \in LocatedRequests
    PROVE  /\ Packed_Locations(lr) = FlattenSeq(WireLocations(lr.locs))
           /\ Packed_Locations(lr) \in Seq(Words)
           /\ Wire_Located_Request(lr) \in Seq(Words)
           /\ Len(Wire_Located_Request(lr)) = 3 + 4 * Len(lr.hbids) + Len(Packed_Locations(lr))
           /\ Len(Packed_Locations(lr)) > 0 <=> lr.locs # <<>>
           /\ Len(lr.hbids) \in Nat /\ Len(Packed_Locations(lr)) \in Nat
<1>1. Packed_Locations(lr) = FlattenSeq(WireLocations(lr.locs))
  BY DEF Packed_Locations, WireLocations
<1>2. /\ lr.locs \in Counted(Locations) /\ lr.hbids \in Counted(Longs)
      /\ Pack_Head(lr) \in Seq(Words) /\ Len(Pack_Head(lr)) = 3 + 4 * Len(lr.hbids)
  BY HeadParts
<1>3. /\ Packed_Locations(lr) \in Seq(Words)
      /\ Len(Packed_Locations(lr)) > 0 <=> lr.locs # <<>>
  BY <1>1, <1>2, WireLocationsAre
<1>4. Len(lr.hbids) \in Nat
  BY <1>2, CountedSeq
<1>5. /\ Wire_Located_Request(lr) \in Seq(Words)
      /\ Len(Wire_Located_Request(lr)) = Len(Pack_Head(lr)) + Len(Packed_Locations(lr))
  BY <1>2, <1>3, Joined DEF Wire_Located_Request
<1>6. Len(Packed_Locations(lr)) \in Nat
  BY <1>3, LenProperties
<1>7. Len(Wire_Located_Request(lr)) = 3 + 4 * Len(lr.hbids) + Len(Packed_Locations(lr))
  BY <1>2, <1>5
<1>8. QED
  BY <1>1, <1>3, <1>4, <1>5, <1>6, <1>7

\* A located request is read back; without a location the result says that it failed.
LEMMA ReadRequest ==
    ASSUME NEW buf \in Seq(Words), NEW o \in Nat, NEW lr \in LocatedRequests, NEW slbid,
           Stands(buf, o, Wire_Located_Request(lr))
    PROVE  Parse_Located_Request(buf, o, slbid)
             = [ret |-> IF lr.locs # <<>> THEN Len(Wire_Located_Request(lr)) ELSE 0,
                lr |-> [slbid |-> slbid, state |-> lr.state, hbids |-> lr.hbids, locs |-> lr.locs]]
<1> DEFINE n == Len(lr.hbids)
           w == Packed_Locations(lr)
<1>1. /\ lr.locs \in Counted(Locations)
      /\ Pack_Head(lr) \in Seq(Words) /\ Len(Pack_Head(lr)) = 3 + 4 * n
  BY HeadParts
<1>2. /\ w = FlattenSeq(WireLocations(lr.locs)) /\ w \in Seq(Words)
      /\ Len(Wire_Located_Request(lr)) = 3 + 4 * n + Len(w)
      /\ Len(w) > 0 <=> lr.locs # <<>>
      /\ n \in Nat /\ Len(w) \in Nat
  BY WireRequestParts
<1>3. Stands(buf, o, Pack_Head(lr)) /\ Stands(buf, o + Len(Pack_Head(lr)), w)
  BY <1>1, <1>2, StandsParts DEF Wire_Located_Request
<1>4. /\ READ_NET_SHORT(buf, o) = lr.state
      /\ READ_NET_SHORT(buf, o + 1) = n
      /\ [i \in 1..n |-> READ_NET_LONG(buf, o + 2 + 4 * (i - 1))] = lr.hbids
      /\ READ_NET_SHORT(buf, o + 2 + 4 * n) = Len(lr.locs)
  BY <1>3, ReadHead
<1> HIDE DEF n, w
<1>5. o + (3 + 4 * n) \in Nat /\ Stands(buf, o + (3 + 4 * n), w)
  BY <1>1, <1>2, <1>3
<1>6. Parse_Datanode_Locations(buf, o + (3 + 4 * n), Len(lr.locs)) = [size |-> Len(w), locs |-> lr.locs]
  BY <1>1, <1>2, <1>5, ReadLocations
<1> DEFINE dns == Parse_Datanode_Locations(buf, o + (3 + 4 * READ_NET_SHORT(buf, o + 1)),
                                           READ_NET_SHORT(buf, o + 2 + 4 * READ_NET_SHORT(buf, o + 1)))
<1>7. dns.size = Len(w) /\ dns.locs = lr.locs
  BY <1>4, <1>6
<1> HIDE DEF dns
<1>8. Parse_Located_Request(buf, o, slbid)
        = [ret |-> IF dns.size > 0 THEN (3 + 4 * n) + dns.size ELSE 0,
           lr |-> [slbid |-> slbid, state |-> lr.state, hbids |-> lr.hbids, locs |-> dns.locs]]
  BY <1>4 DEF Parse_Located_Request, dns
<1>9. (IF dns.size > 0 THEN (3 + 4 * n) + dns.size ELSE 0)
        = IF lr.locs # <<>> THEN Len(Wire_Located_Request(lr)) ELSE 0
  BY <1>2, <1>7
<1>10. QED
  BY <1>7, <1>8, <1>9

\* The loop over the located requests, as the function it stands for.
IsRequests(f, buf, o, slbid, n) ==
    f = [i \in 0..n |-> IF i = 0 THEN [ret |-> 0, before |-> 0, lrs |-> <<>>]
                        ELSE NextRequest(buf, o, slbid, f[i - 1], i)]

LEMMA RequestsExist ==
    ASSUME NEW buf, NEW o, NEW slbid PROVE \A n \in Nat : \E f : IsRequests(f, buf, o, slbid, n)
<1> DEFINE none == [ret |-> 0, before |-> 0, lrs |-> <<>>]
           S == {n \in Nat : \E f : IsRequests(f, buf, o, slbid, n)}
<1>1. 0 \in S
  <2> DEFINE f == [i \in 0..0 |-> none]
  <2>1. f = [i \in 0..0 |-> IF i = 0 THEN none ELSE NextRequest(buf, o, slbid, f[i - 1], i)]
    OBVIOUS
  <2> HIDE DEF f
  <2>2. QED
    BY <2>1 DEF IsRequests
<1>2. ASSUME NEW n \in Nat, n \in S PROVE n + 1 \in S
  <2>1. PICK f : IsRequests(f, buf, o, slbid, n)
    BY <1>2
  <2> DEFINE v == NextRequest(buf, o, slbid, f[n], n + 1)
             g == [i \in 0..n + 1 |-> IF i = n + 1 THEN v ELSE f[i]]
             e(i) == IF i = 0 THEN none ELSE NextRequest(buf, o, slbid, g[i - 1], i)
             d(i) == IF i = 0 THEN none ELSE NextRequest(buf, o, slbid, f[i - 1], i)
  <2>2. \A i \in 0..n : f[i] = d(i)
    BY <2>1 DEF IsRequests
  <2>3. \A i \in 0..n : g[i] = f[i]
    OBVIOUS
  <2>4. g[n + 1] = v /\ (n + 1) - 1 = n /\ n \in 0..n /\ n + 1 # 0
    OBVIOUS
  <2>5. g = [i \in 0..n + 1 |-> g[i]]
    OBVIOUS
  <2> HIDE DEF g, v, none
  <2>6. \A i \in 0..n + 1 : g[i] = e(i)
    <3>1. ASSUME NEW i \in 0..n PROVE g[i] = e(i)
      <4>1. i # 0 => i - 1 \in 0..n
        OBVIOUS
      <4>2. QED
        BY <2>2, <2>3, <4>1
    <3>2. g[n + 1] = e(n + 1)
      BY <2>3, <2>4 DEF v
    <3>3. \A i \in 0..n + 1 : i \in 0..n \/ i = n + 1
      OBVIOUS
    <3>4. QED
      BY <3>1, <3>2, <3>3
  <2> HIDE DEF e
  <2>7. g = [i \in 0..n + 1 |-> e(i)]
    BY <2>5, <2>6
  <2>8. IsRequests(g, buf, o, slbid, n + 1)
    BY <2>7 DEF e, none, IsRequests
  <2>9. QED
    BY <2>8
<1> HIDE DEF S
<1>3. Nat \subseteq S
  BY <1>1, <1>2, SetInduction
<1>4. QED
  BY <1>3 DEF S

LEMMA RequestsAre ==
    ASSUME NEW buf, NEW o, NEW slbid, NEW nr \in Nat
    PROVE  \E f : IsRequests(f, buf, o, slbid, nr) /\ Parse_Located_Requests(buf, o, nr, slbid) = f[nr]
<1> DEFINE f == CHOOSE g : IsRequests(g, buf, o, slbid, nr)
<1>1. IsRequests(f, buf, o, slbid, nr)
  BY RequestsExist
<1>2. Times(nr) = nr
  BY DEF Times
<1>3. f = CHOOSE g : g = [i \in 0..Times(nr) |-> IF i = 0 THEN [ret |-> 0, before |-> 0, lrs |-> <<>>]
                                                ELSE NextRequest(buf, o, slbid, g[i - 1], i)]
  BY <1>2 DEF IsRequests
<1> HIDE DEF f
<1>4. Parse_Located_Requests(buf, o, nr, slbid) = f[nr]
  BY <1>2, <1>3 DEF Parse_Located_Requests
<1>5. QED
  BY <1>1, <1>4

\* The blocks of the located requests, and those before each of them.
Hbids(lrs) == [k \in DOMAIN lrs |-> lrs[k].hbids]

LEMMA BeforeIs ==
    ASSUME NEW lrs \in Counted(LocatedRequests)
    PROVE  /\ Before(lrs, 1) = 0
           /\ \A i \in 1..Len(lrs) : Before(lrs, i) \in Nat /\ Before(lrs, i + 1) \in Nat
           /\ \A i \in 1..Len(lrs) : Before(lrs, i + 1) = Before(lrs, i) + Len(lrs[i].hbids)
           /\ \A i \in 1..Len(lrs) : Before(lrs, i + 1) <= Len(FlattenSeq(Hbids(lrs)))
<1> DEFINE n == Len(lrs)
           ss == Hbids(lrs)
<1>1. n \in Nat /\ DOMAIN lrs = 1..n /\ \A i \in 1..n : lrs[i] \in LocatedRequests
  BY CountedSeq
<1>2. DOMAIN ss = 1..n /\ ss = [i \in 1..n |-> ss[i]] /\ \A i \in 1..n : ss[i] = lrs[i].hbids
  BY <1>1 DEF Hbids
<1> HIDE DEF ss, n
<1>3. \A i \in 1..n : ss[i] \in Seq(Longs) /\ Len(ss[i]) \in Nat
  <2>1. TAKE i \in 1..n
  <2>2. lrs[i].hbids \in Counted(Longs)
    BY <1>1, HeadParts
  <2>3. QED
    BY <1>2, <2>2, CountedSeq
<1>4. /\ Offset(ss, 0) = 0
      /\ \A k \in 0..n : FlattenSeq(Prefix(ss, k)) \in Seq(Longs) /\ Offset(ss, k) \in Nat
      /\ \A k \in 1..n : Offset(ss, k) = Offset(ss, k - 1) + Len(ss[k])
  <2>1. \A i \in 1..n : ss[i] \in Seq(Longs)
    BY <1>3
  <2>2. n \in Nat /\ DOMAIN ss = 1..n
    BY <1>1, <1>2
  <2>3. QED
    BY <2>1, <2>2, Offsets
<1>5. \A k \in 0..n : Before(lrs, k + 1) = Offset(ss, k)
  <2>1. TAKE k \in 0..n
  <2>2. (k + 1) - 1 = k /\ \A i \in 1..k : i \in 1..n
    BY <1>1
  <2>3. [i \in 1..(k + 1) - 1 |-> lrs[i].hbids] = Prefix(ss, k)
    BY <1>2, <2>2 DEF Prefix
  <2>4. QED
    BY <2>3 DEF Before, Offset
<1>6. Prefix(ss, n) = ss
  BY <1>1, <1>2, PrefixIsWhole
<1> DEFINE T == {m \in Nat : m <= n => Offset(ss, n - m) <= Offset(ss, n)}
<1>7. 0 \in T
  BY <1>1, <1>4
<1>8. ASSUME NEW m \in Nat, m \in T PROVE m + 1 \in T
  <2> SUFFICES ASSUME m + 1 <= n PROVE Offset(ss, n - (m + 1)) <= Offset(ss, n)
    OBVIOUS
  <2>1. n - m \in 1..n /\ n - m - 1 \in 0..n /\ n - (m + 1) = n - m - 1 /\ n \in 0..n /\ n - m \in 0..n
    BY <1>1
  <2>2. Offset(ss, n - m) <= Offset(ss, n)
    BY <1>8, <2>1
  <2>3. Offset(ss, n - m) = Offset(ss, n - m - 1) + Len(ss[n - m])
    BY <1>4, <2>1
  <2>4. Offset(ss, n - m) \in Nat /\ Offset(ss, n) \in Nat /\ Offset(ss, n - m - 1) \in Nat /\ Len(ss[n - m]) \in Nat
    BY <1>3, <1>4, <2>1
  <2>5. Offset(ss, n - m - 1) <= Offset(ss, n)
    BY <2>2, <2>3, <2>4
  <2>6. QED
    BY <2>1, <2>5
<1> HIDE DEF T
<1>9. \A k \in 0..n : Offset(ss, k) <= Offset(ss, n)
  <2>1. TAKE k \in 0..n
  <2>2. n - k \in Nat /\ n - k <= n /\ n - (n - k) = k
    BY <1>1
  <2>3. n - k \in T
    <3>1. Nat \subseteq T
      BY <1>7, <1>8, SetInduction
    <3>2. QED
      BY <2>2, <3>1
  <2>4. QED
    BY <2>2, <2>3 DEF T
<1>10. Offset(ss, n) = Len(FlattenSeq(ss))
  BY <1>6 DEF Offset
<1>11. Before(lrs, 1) = 0
  <2>1. 0 \in 0..n /\ 0 + 1 = 1
    BY <1>1
  <2>2. QED
    BY <1>4, <1>5, <2>1
<1>12. ASSUME NEW i \in 1..n
       PROVE  /\ Before(lrs, i) \in Nat /\ Before(lrs, i + 1) \in Nat
              /\ Before(lrs, i + 1) = Before(lrs, i) + Len(lrs[i].hbids)
              /\ Before(lrs, i + 1) <= Len(FlattenSeq(ss))
  <2>1. i \in 0..n /\ i - 1 \in 0..n /\ (i - 1) + 1 = i
    BY <1>1
  <2>2. Before(lrs, i) = Offset(ss, i - 1) /\ Before(lrs, i + 1) = Offset(ss, i)
    BY <1>5, <2>1
  <2>3. QED
    BY <1>2, <1>4, <1>9, <1>10, <2>1, <2>2
<1>13. QED
  BY <1>11, <1>12 DEF n, ss

\* The located requests as the driver should see them, from some block on.
SeenFrom(slbid, lrs) ==
    [i \in DOMAIN lrs |-> [slbid |-> Plus(slbid, Before(lrs, i)), state |-> lrs[i].state,
                           hbids |-> lrs[i].hbids, locs |-> lrs[i].locs]]
WireRequests(lrs) == [i \in DOMAIN lrs |-> Wire_Located_Request(lrs[i])]

LEMMA WireRequestsAre ==
    ASSUME NEW lrs \in Counted(LocatedRequests)
    PROVE  LET n == Len(lrs)
               ss == WireRequests(lrs)
           IN  /\ n \in Nat /\ DOMAIN ss = 1..n /\ ss = [i \in 1..n |-> ss[i]]
               /\ \A i \in 1..n : ss[i] = Wire_Located_Request(lrs[i])
               /\ \A i \in 1..n : ss[i] \in Seq(Words)
               /\ Offset(ss, 0) = 0
               /\ \A k \in 0..n : Offset(ss, k) \in Nat
               /\ \A k \in 1..n : Offset(ss, k) = Offset(ss, k - 1) + Len(ss[k])
               /\ FlattenSeq(ss) \in Seq(Words)
<1> DEFINE n == Len(lrs)
           ss == WireRequests(lrs)
<1>1. n \in Nat /\ DOMAIN lrs = 1..n /\ \A i \in 1..n : lrs[i] \in LocatedRequests
  BY CountedSeq
<1>2. /\ DOMAIN ss = 1..n /\ ss = [i \in 1..n |-> ss[i]]
      /\ \A i \in 1..n : ss[i] = Wire_Located_Request(lrs[i])
  BY <1>1 DEF WireRequests
<1> HIDE DEF ss, n
<1>3. \A i \in 1..n : ss[i] \in Seq(Words)
  BY <1>1, <1>2, WireRequestParts
<1>4. /\ Offset(ss, 0) = 0
      /\ \A k \in 0..n : FlattenSeq(Prefix(ss, k)) \in Seq(Words) /\ Offset(ss, k) \in Nat
      /\ \A k \in 1..n : Offset(ss, k) = Offset(ss, k - 1) + Len(ss[k])
  <2>1. n \in Nat /\ DOMAIN ss = 1..n
    BY <1>1, <1>2
  <2>2. QED
    BY <1>3, <2>1, WordOffsets, Zenon
<1>5. Prefix(ss, n) = ss /\ n \in 0..n
  BY <1>1, <1>2, PrefixIsWhole
<1>6. FlattenSeq(ss) \in Seq(Words)
  BY <1>4, <1>5
<1>7. QED
  BY <1>1, <1>2, <1>3, <1>4, <1>6 DEF n, ss

\* What the parser takes for located requests is what they are; it stops at the first
\* that is on no datanode, and says so.
LEMMA ReadRequests ==
    ASSUME NEW buf \in Seq(Words), NEW o \in Nat, NEW slbid, NEW lrs \in Counted(LocatedRequests),
           Len(FlattenSeq(Hbids(lrs))) \in Shorts, Stands(buf, o, FlattenSeq(WireRequests(lrs)))
    PROVE  LET p == Parse_Located_Requests(buf, o, Len(lrs), slbid)
           IN  p.ret > 0 => p.lrs = SeenFrom(slbid, lrs)
<1> DEFINE n == Len(lrs)
           ss == WireRequests(lrs)
           seen == SeenFrom(slbid, lrs)
<1>1. n \in Nat /\ DOMAIN lrs = 1..n /\ \A i \in 1..n : lrs[i] \in LocatedRequests
  BY CountedSeq
<1>2. /\ DOMAIN ss = 1..n /\ ss = [i \in 1..n |-> ss[i]]
      /\ \A i \in 1..n : ss[i] = Wire_Located_Request(lrs[i])
      /\ \A i \in 1..n : ss[i] \in Seq(Words)
      /\ Offset(ss, 0) = 0
      /\ \A k \in 0..n : Offset(ss, k) \in Nat
      /\ \A k \in 1..n : Offset(ss, k) = Offset(ss, k - 1) + Len(ss[k])
  BY WireRequestsAre
<1>3. /\ Before(lrs, 1) = 0
      /\ \A i \in 1..n : Before(lrs, i) \in Nat /\ Before(lrs, i + 1) \in Nat
      /\ \A i \in 1..n : Before(lrs, i + 1) = Before(lrs, i) + Len(lrs[i].hbids)
      /\ \A i \in 1..n : Before(lrs, i + 1) <= Len(FlattenSeq(Hbids(lrs)))
  BY BeforeIs
<1>4. /\ seen = [i \in 1..n |-> seen[i]]
      /\ \A i \in 1..n : seen[i] = [slbid |-> Plus(slbid, Before(lrs, i)), state |-> lrs[i].state,
                                    hbids |-> lrs[i].hbids, locs |-> lrs[i].locs]
  BY <1>1 DEF SeenFrom
<1> HIDE DEF n, ss, seen
<1>5. \A k \in 1..n : Stands(buf, o + Offset(ss, k - 1), ss[k])
  BY <1>1, <1>2, StandsFlat DEF ss
<1>6. PICK f : IsRequests(f, buf, o, slbid, n) /\ Parse_Located_Requests(buf, o, n, slbid) = f[n]
  BY <1>1, RequestsAre
<1>7. \A i \in 0..n : f[i] = IF i = 0 THEN [ret |-> 0, before |-> 0, lrs |-> <<>>]
                             ELSE NextRequest(buf, o, slbid, f[i - 1], i)
  BY <1>6 DEF IsRequests
<1> DEFINE Good(k) == f[k] = [ret |-> Offset(ss, k), before |-> Before(lrs, k + 1), lrs |-> Prefix(seen, k)]
           T == {k \in Nat : k <= n => Good(k) \/ (k > 0 /\ f[k].ret = 0)}
<1>8. 0 \in T
  <2>1. Prefix(seen, 0) = <<>>
    BY DEF Prefix
  <2>2. 0 \in 0..n /\ 0 + 1 = 1
    BY <1>1
  <2>3. QED
    BY <1>2, <1>3, <1>7, <2>1, <2>2
<1>9. ASSUME NEW k \in Nat, k \in T PROVE k + 1 \in T
  <2> SUFFICES ASSUME k + 1 <= n PROVE Good(k + 1) \/ f[k + 1].ret = 0
    OBVIOUS
  <2>1. k + 1 \in 1..n /\ k + 1 \in 0..n /\ k + 1 # 0 /\ (k + 1) - 1 = k /\ k \in 0..n
    BY <1>1
  <2>2. f[k + 1] = NextRequest(buf, o, slbid, f[k], k + 1)
    BY <1>7, <2>1
  <2>3. CASE k > 0 /\ f[k].ret = 0
    <3>1. k + 1 > 1
      BY <2>3
    <3>2. f[k + 1] = f[k]
      BY <2>2, <2>3, <3>1 DEF NextRequest
    <3>3. QED
      BY <2>3, <3>2
  <2>4. CASE Good(k) /\ ~ (k > 0 /\ f[k].ret = 0)
    <3> DEFINE lr == lrs[k + 1]
               ret == IF lr.locs # <<>> THEN Len(ss[k + 1]) ELSE 0
               r == Parse_Located_Request(buf, o + f[k].ret, Plus(slbid, f[k].before))
    <3>1. f[k].ret = Offset(ss, k) /\ f[k].before = Before(lrs, k + 1) /\ f[k].lrs = Prefix(seen, k)
      BY <2>4
    <3>2. o + Offset(ss, k) \in Nat /\ lr \in LocatedRequests
      BY <1>1, <1>2, <2>1
    <3>3. Stands(buf, o + Offset(ss, k), Wire_Located_Request(lr))
      BY <1>2, <1>5, <2>1
    <3>4. /\ seen[k + 1] = [slbid |-> Plus(slbid, Before(lrs, k + 1)), state |-> lr.state,
                            hbids |-> lr.hbids, locs |-> lr.locs]
          /\ ss[k + 1] = Wire_Located_Request(lr)
      BY <1>2, <1>4, <2>1
    <3> HIDE DEF lr
    <3>5. r = [ret |-> ret, lr |-> seen[k + 1]]
      BY <3>1, <3>2, <3>3, <3>4, ReadRequest
    <3>6. r.ret = ret /\ r.lr = seen[k + 1] /\ r.lr.hbids = lr.hbids
      BY <3>4, <3>5
    <3>7. ~ (k + 1 > 1 /\ f[k].ret <= 0)
      BY <1>2, <2>1, <2>4, <3>1
    <3> HIDE DEF ret, r
    <3>8. f[k + 1] = IF r.ret <= 0 THEN [f[k] EXCEPT !.ret = r.ret]
                     ELSE [ret |-> f[k].ret + r.ret, before |-> NextBlock(f[k].before, r),
                           lrs |-> Append(f[k].lrs, r.lr)]
      BY <2>2, <3>7 DEF NextRequest, r
    <3>9. CASE ret <= 0
      <4>1. f[k + 1] = [f[k] EXCEPT !.ret = ret]
        BY <3>6, <3>8, <3>9
      <4>2. f[k] = [ret |-> Offset(ss, k), before |-> Before(lrs, k + 1), lrs |-> Prefix(seen, k)]
        BY <2>4
      <4>3. f[k + 1].ret = ret
        BY <4>1, <4>2
      <4>4. ret \in Nat
        BY <1>2, <2>1 DEF ret
      <4>5. QED
        BY <3>9, <4>3, <4>4
    <3>10. CASE ~ (ret <= 0)
      <4>1. f[k + 1] = [ret |-> Offset(ss, k) + ret, before |-> NextBlock(f[k].before, r),
                        lrs |-> Append(Prefix(seen, k), seen[k + 1])]
        BY <3>1, <3>6, <3>8, <3>10
      <4>2. Offset(ss, k) + ret = Offset(ss, k + 1)
        <5>1. ret = Len(ss[k + 1])
          BY <3>10 DEF ret
        <5>2. QED
          BY <1>2, <2>1, <5>1
      <4>3. NextBlock(f[k].before, r) = Before(lrs, (k + 1) + 1)
        <5>1. Before(lrs, (k + 1) + 1) = Before(lrs, k + 1) + Len(lr.hbids)
          BY <1>3, <2>1 DEF lr
        <5>2. Before(lrs, (k + 1) + 1) \in Nat /\ Before(lrs, (k + 1) + 1) <= Len(FlattenSeq(Hbids(lrs)))
          BY <1>3, <2>1
        <5>3. Before(lrs, (k + 1) + 1) \in Shorts
          BY <5>2, SMT DEF Shorts
        <5>4. QED
          BY <3>1, <3>6, <5>1, <5>3, ShortSame DEF NextBlock
      <4>4. Append(Prefix(seen, k), seen[k + 1]) = Prefix(seen, k + 1)
        BY PrefixAppend
      <4>5. QED
        BY <4>1, <4>2, <4>3, <4>4
    <3>11. QED
      BY <3>9, <3>10
  <2>5. QED
    BY <1>9, <2>1, <2>3, <2>4
<1> HIDE DEF T
<1>10. n \in T
  <2>1. Nat \subseteq T
    BY <1>8, <1>9, SetInduction
  <2>2. QED
    BY <1>1, <2>1
<1>11. Prefix(seen, n) = seen
  BY <1>1, <1>4, PrefixIsWhole
<1>12. Good(n) \/ f[n].ret = 0
  BY <1>1, <1>10 DEF T
<1>13. f[n].ret > 0 => f[n].lrs = seen
  BY <1>11, <1>12
<1>14. QED
  BY <1>6, <1>13 DEF n, seen

-----------------------------------------------------------------------------
(* The metadata response.                                                   *)

\* What stands before the located requests, and how wide it is.
LEMMA ResponseParts ==
    ASSUME NEW d \in Dios, NEW lrs \in Answers(d)
    PROVE  /\ Request(d).volumeID \in Longs /\ Request(d).sLBID \in Longs
           /\ Request(d).nr_LBIDs \in Shorts /\ Request(d).type \in Queries /\ Long(1) \in Longs
           /\ lrs \in Counted(LocatedRequests) /\ Len(FlattenSeq(Hbids(lrs))) \in Shorts
           /\ Pack_Response(Response(d, lrs)) \in Seq(Words) /\ Len(Pack_Response(Response(d, lrs))) = 14
<1> DEFINE A == WRITE_NET_LONG(Request(d).volumeID)
           B == WRITE_NET_LONG(Request(d).sLBID)
           C == WRITE_NET_SHORT(Request(d).nr_LBIDs)
           D == WRITE_NET_LONG(Long(1))
           E == WRITE_NET_SHORT(Len(lrs))
<1>1. /\ Request(d).volumeID \in Longs /\ Request(d).sLBID \in Longs
      /\ Request(d).nr_LBIDs \in Shorts /\ Request(d).type \in Queries
  BY RequestAssumption
<1>2. lrs \in Counted(LocatedRequests)
  BY AnswersAssumption, SMT
<1>3. Len(FlattenSeq(Hbids(lrs))) \in Shorts
  <2>1. Len(FlattenSeq(Hbids(lrs))) <= 32767
    BY AnswersAssumption, SMT DEF Hbids
  <2>2. Len(FlattenSeq(Hbids(lrs))) \in Nat
    <3>1. CASE Len(lrs) = 0
      <4>1. Hbids(lrs) = <<>> /\ Len(Hbids(lrs)) = 0
        <5>1. DOMAIN lrs = 1..0
          BY <1>2, <3>1, CountedSeq
        <5>2. QED
          BY <5>1 DEF Hbids
      <4>2. FlattenSeq(Hbids(lrs)) = <<>>
        BY <4>1 DEF FlattenSeq
      <4>3. QED
        BY <4>2
    <3>2. CASE Len(lrs) # 0
      <4>1. /\ DOMAIN Hbids(lrs) = 1..Len(lrs) /\ Hbids(lrs) = [i \in 1..Len(lrs) |-> Hbids(lrs)[i]]
            /\ Len(lrs) \in Nat /\ \A i \in 1..Len(lrs) : Hbids(lrs)[i] = lrs[i].hbids /\ lrs[i] \in LocatedRequests
        BY <1>2, CountedSeq DEF Hbids
      <4>2. \A i \in 1..Len(lrs) : Hbids(lrs)[i] \in Seq(Longs)
        <5>1. TAKE i \in 1..Len(lrs)
        <5>2. lrs[i].hbids \in Counted(Longs)
          BY <4>1, HeadParts
        <5>3. QED
          BY <4>1, <5>2, CountedSeq
      <4>3. \A k \in 0..Len(lrs) : Offset(Hbids(lrs), k) \in Nat
        BY <4>1, <4>2, Offsets
      <4>4. Prefix(Hbids(lrs), Len(lrs)) = Hbids(lrs) /\ Len(lrs) \in 0..Len(lrs)
        BY <4>1, PrefixIsWhole
      <4>5. QED
        BY <4>3, <4>4 DEF Offset
    <3>3. QED
      BY <3>1, <3>2
  <2>3. QED
    BY <2>1, <2>2, SMT DEF Shorts
<1>4. Long(1) \in Longs
  <2>1. 0 \in Words /\ 1 \in Words
    BY InWords, SMT DEF WORD
  <2>2. QED
    BY <2>1 DEF Long, Longs
<1>5. /\ A \in Seq(Words) /\ Len(A) = 4 /\ B \in Seq(Words) /\ Len(B) = 4
      /\ D \in Seq(Words) /\ Len(D) = 4
  BY <1>1, <1>4, WrittenLong
<1>6. C \in Seq(Words) /\ Len(C) = 1 /\ E \in Seq(Words) /\ Len(E) = 1
  <2>1. Len(lrs) \in Shorts
    BY <1>2, CountedSeq
  <2>2. QED
    BY <1>1, <2>1, WrittenShort
<1>7. Pack_Response(Response(d, lrs)) = (((A \o B) \o C) \o D) \o E
  BY DEF Pack_Response, Response
<1> HIDE DEF A, B, C, D, E
<1>8. A \o B \in Seq(Words) /\ Len(A \o B) = Len(A) + Len(B)
  BY <1>5, Joined
<1>9. (A \o B) \o C \in Seq(Words) /\ Len((A \o B) \o C) = Len(A \o B) + Len(C)
  BY <1>6, <1>8, Joined
<1>10. ((A \o B) \o C) \o D \in Seq(Words) /\ Len(((A \o B) \o C) \o D) = Len((A \o B) \o C) + Len(D)
  BY <1>5, <1>9, Joined
<1>11. /\ (((A \o B) \o C) \o D) \o E \in Seq(Words)
       /\ Len((((A \o B) \o C) \o D) \o E) = Len(((A \o B) \o C) \o D) + Len(E)
  BY <1>6, <1>10, Joined
<1>12. Len((((A \o B) \o C) \o D) \o E) = 14
  BY <1>5, <1>6, <1>8, <1>9, <1>10, <1>11
<1>13. QED
  BY <1>1, <1>2, <1>3, <1>4, <1>7, <1>11, <1>12

\* Where the first block and the number of located requests are found.
LEMMA ReadFields ==
    ASSUME NEW buf \in Seq(Words), NEW d \in Dios, NEW lrs \in Answers(d),
           Stands(buf, 0, Pack_Response(Response(d, lrs)))
    PROVE  READ_NET_LONG(buf, 4) = Request(d).sLBID /\ READ_NET_SHORT(buf, 13) = Len(lrs)
<1> DEFINE A == WRITE_NET_LONG(Request(d).volumeID)
           B == WRITE_NET_LONG(Request(d).sLBID)
           C == WRITE_NET_SHORT(Request(d).nr_LBIDs)
           D == WRITE_NET_LONG(Long(1))
           E == WRITE_NET_SHORT(Len(lrs))
<1>1. /\ Request(d).volumeID \in Longs /\ Request(d).sLBID \in Longs
      /\ Request(d).nr_LBIDs \in Shorts /\ Long(1) \in Longs /\ lrs \in Counted(LocatedRequests)
  BY ResponseParts
<1>2. Len(lrs) \in Shorts
  BY <1>1, CountedSeq
<1>3. /\ A \in Seq(Words) /\ Len(A) = 4 /\ B \in Seq(Words) /\ Len(B) = 4
      /\ D \in Seq(Words) /\ Len(D) = 4
  BY <1>1, WrittenLong
<1>4. C \in Seq(Words) /\ Len(C) = 1 /\ E \in Seq(Words) /\ Len(E) = 1
  BY <1>1, <1>2, WrittenShort
<1>5. Stands(buf, 0, (((A \o B) \o C) \o D) \o E)
  BY DEF Pack_Response, Response
<1>6. B = Request(d).sLBID
  BY DEF WRITE_NET_LONG
<1> HIDE DEF A, B, C, D, E
<1>7. A \o B \in Seq(Words) /\ Len(A \o B) = Len(A) + Len(B)
  BY <1>3, Joined
<1>8. (A \o B) \o C \in Seq(Words) /\ Len((A \o B) \o C) = Len(A \o B) + Len(C)
  BY <1>4, <1>7, Joined
<1>9. ((A \o B) \o C) \o D \in Seq(Words) /\ Len(((A \o B) \o C) \o D) = Len((A \o B) \o C) + Len(D)
  BY <1>3, <1>8, Joined
<1>10. Len(((A \o B) \o C) \o D) = 13
  BY <1>3, <1>4, <1>7, <1>8, <1>9
<1>11. Stands(buf, 0, ((A \o B) \o C) \o D) /\ Stands(buf, 0 + 13, E)
  BY <1>4, <1>5, <1>9, <1>10, StandsParts
<1>12. Stands(buf, 0, (A \o B) \o C)
  BY <1>3, <1>8, <1>11, StandsParts
<1>13. Stands(buf, 0, A \o B)
  BY <1>4, <1>7, <1>12, StandsParts
<1>14. Stands(buf, 0 + 4, B)
  BY <1>3, <1>13, StandsParts
<1>15. 4 \in Nat /\ 13 \in Nat /\ 0 + 4 = 4 /\ 0 + 13 = 13
  OBVIOUS
<1>16. READ_NET_LONG(buf, 4) = Request(d).sLBID
  BY <1>1, <1>6, <1>14, <1>15, ReadLong
<1>17. READ_NET_SHORT(buf, 13) = Len(lrs)
  BY <1>2, <1>11, <1>15, ReadShort DEF E
<1>18. QED
  BY <1>16, <1>17

LEMMA SelfStands == ASSUME NEW buf \in Seq(Words) PROVE Stands(buf, 0, buf)
  BY DEF Stands

\* A body that is parsed without an error is read back field by field.
LEMMA ReadResponse ==
    ASSUME NEW d \in Dios, NEW lrs \in Answers(d)
    PROVE  LET p == Parse_Metadata_Response(Body(d, lrs))
           IN  /\ p.res.start_LBID = Request(d).sLBID
               /\ p.ret > 0 => p.res.lrs = Seen(d, lrs)
<1> DEFINE h == Pack_Response(Response(d, lrs))
           w == FlattenSeq(WireRequests(lrs))
           buf == Body(d, lrs)
           r == Parse_Located_Requests(buf, 14, Len(lrs), Request(d).sLBID)
           p == Parse_Metadata_Response(buf)
<1>1. /\ h \in Seq(Words) /\ Len(h) = 14 /\ Request(d).sLBID \in Longs
      /\ lrs \in Counted(LocatedRequests) /\ Len(FlattenSeq(Hbids(lrs))) \in Shorts
  BY ResponseParts
<1>2. w \in Seq(Words)
  BY <1>1, WireRequestsAre
<1>3. buf = h \o w
  BY DEF Body, Wire_Metadata_Response, Response, WireRequests
<1> HIDE DEF h, w, buf
<1>4. buf \in Seq(Words)
  BY <1>1, <1>2, <1>3, Joined
<1>5. Stands(buf, 0, h) /\ Stands(buf, 0 + 14, w)
  BY <1>1, <1>2, <1>3, <1>4, SelfStands, StandsParts
<1>6. READ_NET_LONG(buf, 4) = Request(d).sLBID /\ READ_NET_SHORT(buf, 13) = Len(lrs)
  BY <1>4, <1>5, ReadFields DEF h
<1>7. r.ret > 0 => r.lrs = SeenFrom(Request(d).sLBID, lrs)
  <2>1. 14 \in Nat /\ 0 + 14 = 14
    OBVIOUS
  <2>2. QED
    BY <1>1, <1>4, <1>5, <2>1, ReadRequests DEF w
<1> HIDE DEF r
<1>8. p.ret = IF r.ret > 0 THEN r.ret + 14 ELSE r.ret
  BY <1>6 DEF Parse_Metadata_Response, r
<1>9. p.res.start_LBID = Request(d).sLBID /\ p.res.lrs = r.lrs
  BY <1>6 DEF Parse_Metadata_Response, r
<1> HIDE DEF p
<1>10. p.ret > 0 => r.ret > 0
  BY <1>8
<1>11. SeenFrom(Request(d).sLBID, lrs) = Seen(d, lrs)
  BY DEF SeenFrom, Seen
<1>12. QED
  BY <1>7, <1>9, <1>10, <1>11 DEF p, buf

-----------------------------------------------------------------------------
(* Queues.                                                                  *)

LEMMA Appended ==
    ASSUME NEW S, NEW s \in Seq(S), NEW e \in S
    PROVE  /\ Append(s, e) \in Seq(S)
           /\ DOMAIN s = 1..Len(s) /\ DOMAIN Append(s, e) = 1..Len(s) + 1 /\ Len(s) \in Nat
           /\ \A i \in 1..Len(s) : Append(s, e)[i] = s[i]
           /\ Append(s, e)[Len(s) + 1] = e
  BY AppendProperties, LenProperties

LEMMA Shifted ==
    ASSUME NEW S, NEW s \in Seq(S), s # <<>>
    PROVE  /\ Tail(s) \in Seq(S)
           /\ DOMAIN s = 1..Len(s) /\ DOMAIN Tail(s) = 1..Len(s) - 1 /\ Len(s) \in Nat /\ Len(s) > 0
           /\ \A i \in 1..Len(s) - 1 : Tail(s)[i] = s[i + 1]
           /\ Head(s) = s[1] /\ s[1] \in S
<1>1. Len(s) \in Nat /\ Len(s) > 0
  BY EmptySeq, LenProperties
<1>2. Tail(s) \in Seq(S) /\ Len(Tail(s)) = Len(s) - 1 /\ \A i \in 1..Len(Tail(s)) : Tail(s)[i] = s[i + 1]
  BY HeadTailProperties
<1>3. DOMAIN s = 1..Len(s) /\ DOMAIN Tail(s) = 1..Len(Tail(s))
  BY <1>2, LenProperties
<1>4. Head(s) = s[1] /\ s[1] \in S
  BY <1>1
<1>5. QED
  BY <1>1, <1>2, <1>3, <1>4

-----------------------------------------------------------------------------
(* The invariant holds.                                                     *)

LEMMA InitInv == ASSUME Init PROVE LinkInv
<1>1. TypeInv
  <2>1. overlap \in BOOLEAN
    BY Zenon DEF Init
  <2>2. QED
    BY <2>1 DEF Init, TypeInv, Listening, Fresh, None
<1>2. OnTheWay
  BY DEF Init, OnTheWay, Fresh, None
<1>3. OnceInv
  BY DEF Init, OnceInv, Alone, InUp, InNamenode, InAsked, IsAnswered, Listening, None
<1>4. InOrder
  BY DEF Init, InOrder, BodiesFollow, NextFollows, IsAnswered, None
<1>5. QED
  BY <1>1, <1>2, <1>3, <1>4 DEF LinkInv

\* What a handler has sent, whole or in part, is behind all else.
Sent(d, u, there) ==
    /\ up' = Append(up, u)
    /\ handler' = [handler EXCEPT ![d] = there]
    /\ UNCHANGED <<namenode, asked, down, receiver, dmeta, up_down, answered, losses>>

LEMMA SentInv ==
    ASSUME LinkInv, NEW d \in Dios, NEW u \in Units, NEW there, Sent(d, u, there), u.dio = d,
           overlap' \in BOOLEAN, overlap => overlap',
           \/ /\ u.is = "header" /\ handler[d] = "new" /\ there = "body"
              /\ (\E e \in Dios \ {d} : handler[e] = "body") => overlap'
           \/ u.is = "body" /\ handler[d] = "body" /\ there \in {"rest", "sent"}
           \/ u.is \in {"stack", "part"} /\ there \in {"sent", "failed"}
    PROVE  LinkInv'
<1>1. TypeInv /\ OnTheWay /\ OnceInv /\ InOrder
  BY DEF LinkInv
<1>0. there \in {"body", "rest", "sent", "failed"}
  OBVIOUS
<1>12. PICK n \in Nat : n = Len(up) /\ up \in Seq(Units)
  BY <1>1, LenProperties DEF TypeInv
<1>2. /\ up' \in Seq(Units) /\ DOMAIN up = 1..n /\ DOMAIN up' = 1..n + 1
      /\ \A i \in 1..n : up'[i] = up[i]
      /\ up'[n + 1] = u
  BY <1>12, Appended DEF Sent
<1>3. /\ \A e \in Dios : e # d => handler'[e] = handler[e]
      /\ handler'[d] = there
      /\ namenode' = namenode /\ asked' = asked /\ down' = down /\ receiver' = receiver
      /\ dmeta' = dmeta /\ answered' = answered
      /\ handler' \in [Dios -> {"new", "body", "rest", "sent", "failed"}]
  <2>1. handler \in [Dios -> {"new", "body", "rest", "sent", "failed"}] /\ handler' = [handler EXCEPT ![d] = there]
    BY <1>1 DEF Sent, TypeInv
  <2>2. handler' \in [Dios -> {"new", "body", "rest", "sent", "failed"}]
    BY <1>0, <2>1
  <2>3. handler'[d] = there /\ \A e \in Dios : e # d => handler'[e] = handler[e]
    BY <2>1
  <2>4. QED
    BY <2>2, <2>3 DEF Sent
<1>4. u = [is |-> u.is, dio |-> d]
  BY DEF Units
<1>5. \A e \in Dios : InUp(e)' <=> (InUp(e) \/ (e = d /\ u.is = "header"))
  <2>1. TAKE e \in Dios
  <2>2. ASSUME InUp(e)' PROVE InUp(e) \/ (e = d /\ u.is = "header")
    <3>1. PICK i \in 1..n + 1 : up'[i] = [is |-> "header", dio |-> e]
      BY <1>2, <2>2 DEF InUp, Generate_NN_Protocol_Header
    <3>2. CASE i \in 1..n
      BY <1>2, <3>1, <3>2 DEF InUp, Generate_NN_Protocol_Header
    <3>3. CASE i = n + 1
      BY <1>2, <1>4, <3>1, <3>3
    <3>4. QED
      BY <1>2, <3>2, <3>3
  <2>3. ASSUME InUp(e) PROVE InUp(e)'
    <3>1. PICK i \in 1..n : up[i] = [is |-> "header", dio |-> e]
      BY <1>2, <2>3 DEF InUp, Generate_NN_Protocol_Header
    <3>2. i \in 1..n + 1 /\ up'[i] = [is |-> "header", dio |-> e]
      BY <1>2, <3>1
    <3>3. QED
      BY <1>2, <3>2 DEF InUp, Generate_NN_Protocol_Header
  <2>4. ASSUME e = d, u.is = "header" PROVE InUp(e)'
    <3>1. n + 1 \in 1..n + 1 /\ up'[n + 1] = [is |-> "header", dio |-> e]
      BY <1>2, <1>4, <2>4
    <3>2. QED
      BY <1>2, <3>1 DEF InUp, Generate_NN_Protocol_Header
  <2>5. QED
    BY <2>2, <2>3, <2>4
<1>6. \A e \in Dios : /\ InNamenode(e)' <=> InNamenode(e)
                      /\ InAsked(e)' <=> InAsked(e)
                      /\ IsAnswered(e)' <=> IsAnswered(e)
  BY <1>3 DEF InNamenode, InAsked, IsAnswered
<1>7. TypeInv'
  BY <1>1, <1>2, <1>3 DEF TypeInv, IsAnswer
<1>8. OnTheWay'
  BY <1>1, <1>3 DEF OnTheWay, Belongs, IsReadFrom, Read
<1>9. OnceInv'
  <2>1. ASSUME NEW e \in Dios PROVE Alone(e)'
    <3>1. Alone(e)
      BY <1>1 DEF OnceInv
    <3>2. QED
      BY <1>3, <1>5, <1>6, <3>1 DEF Alone
  <2>2. ASSUME NEW i \in DOMAIN up', NEW j \in DOMAIN up', up'[i].is = "header", up'[j] = up'[i]
        PROVE  i = j
    <3>1. u.is = "header" => \A k \in 1..n : up[k] # u
      <4> SUFFICES ASSUME u.is = "header", NEW k \in 1..n PROVE up[k] # u
        OBVIOUS
      <4>1. ~ InUp(d)
        BY <1>1 DEF OnceInv, Alone
      <4>2. QED
        BY <1>2, <1>4, <4>1 DEF InUp, Generate_NN_Protocol_Header
    <3>2. \A k \in 1..n + 1 : k \in 1..n \/ k = n + 1
      BY <1>2
    <3>3. CASE i \in 1..n /\ j \in 1..n
      <4>1. up[i].is = "header" /\ up[j] = up[i]
        BY <1>2, <2>2, <3>3
      <4>2. QED
        BY <1>1, <1>2, <3>3, <4>1 DEF OnceInv
    <3>4. CASE i = n + 1 /\ j \in 1..n
      BY <1>2, <2>2, <3>1, <3>4
    <3>5. CASE i \in 1..n /\ j = n + 1
      BY <1>2, <2>2, <3>1, <3>5
    <3>6. QED
      BY <1>2, <3>2, <3>3, <3>4, <3>5
  <2>3. QED
    BY <1>1, <1>3, <2>1, <2>2 DEF OnceInv
<1>10. InOrder'
  <2> SUFFICES ASSUME ~ overlap' PROVE InOrder'
    BY DEF InOrder
  <2>1. /\ BodiesFollow /\ NextFollows
        /\ \A q \in asked : q.about = q.dio
        /\ \A e \in Dios : IsAnswered(e) => answered[e].about = e
    BY <1>1 DEF InOrder
  <2>2. ASSUME NEW e \in Dios, NEW i \in 1..n + 1, Behind(i, e) PROVE Behind(i, e)'
    <3>1. \A j \in 1..i - 1 : up'[j] = up[j] /\ \A k \in j + 1..i - 1 : up'[k] = up[k]
      BY <1>2
    <3>2. \A j \in 1..i - 1 : LastHeader(i, j)' <=> LastHeader(i, j)
      BY <3>1 DEF LastHeader
    <3>3. NoHeader(i)' <=> NoHeader(i)
      BY <3>1 DEF NoHeader
    <3>4. QED
      BY <1>3, <2>2, <3>1, <3>2, <3>3 DEF Behind
  <2>3. ASSUME NEW i \in 1..n + 1, up'[i].is = "body" PROVE Behind(i, up[i].dio)'
    <3>1. CASE i \in 1..n
      <4>1. up'[i] = up[i] /\ up[i].dio \in Dios
        <5>1. up[i] \in Units
          BY <1>12, <3>1, ElementOfSeq
        <5>2. QED
          BY <1>2, <3>1, <5>1 DEF Units
      <4>2. Behind(i, up[i].dio)
        BY <1>2, <2>1, <2>3, <3>1, <4>1 DEF BodiesFollow
      <4>3. QED
        BY <2>2, <4>1, <4>2
    <3>2. CASE i = n + 1
      <4>1. u.is = "body" /\ handler[d] = "body" /\ up'[i].dio = d
        BY <1>2, <2>3, <3>2
      <4>2. Behind(i, d)
        BY <1>12, <2>1, <3>2, <4>1 DEF NextFollows
      <4>3. QED
        BY <2>2, <4>1, <4>2
    <3>3. QED
      BY <1>2, <3>1, <3>2
  <2>4. ASSUME NEW e \in Dios, handler'[e] = "body" PROVE Behind(n + 2, e)'
    <3>1. (n + 2) - 1 = n + 1 /\ n + 1 \in 1..n + 1 /\ \A j \in 1..n + 1 : j = n + 1 \/ (j \in 1..n /\ n + 1 \in j + 1..n + 1)
      BY <1>2
    <3>2. CASE u.is = "header"
      <4>1. e = d
        BY <1>3, <2>4, <3>2
      <4>2. \A j \in 1..n : ~ LastHeader(n + 2, j)'
        BY <1>2, <3>1, <3>2 DEF LastHeader
      <4>3. ~ NoHeader(n + 2)'
        BY <1>2, <3>1, <3>2 DEF NoHeader
      <4>4. QED
        BY <1>2, <3>1, <4>1, <4>2, <4>3 DEF Behind
    <3>3. CASE u.is # "header"
      <4>1. handler[e] = "body"
        BY <1>3, <2>4, <3>3
      <4>2. Behind(n + 1, e)'
        <5>1. Behind(n + 1, e)
          BY <1>12, <2>1, <4>1 DEF NextFollows
        <5>2. QED
          BY <2>2, <3>1, <5>1
      <4>3. ~ LastHeader(n + 2, n + 1)'
        BY <1>2, <3>3 DEF LastHeader
      <4>4. ASSUME NEW j \in 1..n PROVE LastHeader(n + 2, j)' => LastHeader(n + 1, j)'
        <5>1. \A k \in j + 1..(n + 1) - 1 : k \in j + 1..(n + 2) - 1
          BY <1>2
        <5>2. QED
          BY <5>1 DEF LastHeader
      <4>5. NoHeader(n + 2)' => NoHeader(n + 1)'
        <5>1. \A k \in 1..(n + 1) - 1 : k \in 1..(n + 2) - 1
          BY <1>2
        <5>2. QED
          BY <5>1 DEF NoHeader
      <4>6. (n + 1) - 1 = n
        BY <1>2
      <4>7. QED
        BY <3>1, <4>2, <4>3, <4>4, <4>5, <4>6 DEF Behind
    <3>4. QED
      BY <3>2, <3>3
  <2>5. BodiesFollow'
    BY <1>2, <2>3 DEF BodiesFollow
  <2>6. Len(up') = n + 1
    BY <1>2, LenProperties
  <2>7. NextFollows'
    <3>1. Len(up') + 1 = n + 2
      BY <1>2, <2>6
    <3>2. QED
      BY <2>4, <3>1 DEF NextFollows
  <2>8. QED
    BY <1>3, <1>6, <2>1, <2>5, <2>7 DEF InOrder, IsAnswered
<1>11. QED
  BY <1>7, <1>8, <1>9, <1>10 DEF LinkInv

LEMMA OnTheWaySame ==
    ASSUME OnTheWay, UNCHANGED <<down, receiver, dmeta, answered>> PROVE OnTheWay'
  BY DEF OnTheWay, Belongs, IsReadFrom, Read

LEMMA OnceSame ==
    ASSUME OnceInv, InOrder, UNCHANGED <<handler, up, namenode, asked, answered, overlap>>
    PROVE  OnceInv' /\ InOrder'
  BY DEF OnceInv, Alone, InUp, InNamenode, InAsked, IsAnswered, InOrder, BodiesFollow, NextFollows, Behind,
         LastHeader, NoHeader, Generate_NN_Protocol_Header

\* A handler that could not send.
LEMMA FailedInv ==
    ASSUME LinkInv, NEW d \in Dios, DMS_Sock_ErrorHandling(d), overlap => overlap', overlap' \in BOOLEAN,
           UNCHANGED <<up, namenode, asked, down, receiver, dmeta, up_down, answered, losses>>
    PROVE  LinkInv'
<1>1. TypeInv /\ OnTheWay /\ OnceInv /\ InOrder
  BY DEF LinkInv
<1>2. /\ \A e \in Dios : e # d => handler'[e] = handler[e]
      /\ handler'[d] = "failed"
      /\ handler' \in [Dios -> {"new", "body", "rest", "sent", "failed"}]
  BY <1>1 DEF DMS_Sock_ErrorHandling, TypeInv
<1>3. \A e \in Dios : handler'[e] \in {"new", "body"} => handler'[e] = handler[e]
  BY <1>2
<1>4. \A e \in Dios : /\ InNamenode(e)' <=> InNamenode(e)
                      /\ InAsked(e)' <=> InAsked(e)
                      /\ IsAnswered(e)' <=> IsAnswered(e)
                      /\ InUp(e)' <=> InUp(e)
  BY DEF InNamenode, InAsked, IsAnswered, InUp, Generate_NN_Protocol_Header
<1>5. TypeInv'
  BY <1>1, <1>2 DEF TypeInv, IsAnswer
<1>6. OnTheWay'
  BY <1>1, OnTheWaySame
<1>7. OnceInv'
  <2>1. \A e \in Dios : Alone(e)'
    BY <1>1, <1>3, <1>4 DEF OnceInv, Alone
  <2>2. QED
    BY <1>1, <1>3, <2>1 DEF OnceInv
<1>8. InOrder'
  <2>1. \A i, e : Behind(i, e)' <=> Behind(i, e)
    BY DEF Behind, LastHeader, NoHeader
  <2>2. (BodiesFollow => BodiesFollow') /\ (NextFollows => NextFollows')
    BY <1>3, <2>1 DEF BodiesFollow, NextFollows
  <2>3. QED
    BY <1>1, <1>3, <1>4, <2>2 DEF InOrder, IsAnswered
<1>9. QED
  BY <1>5, <1>6, <1>7, <1>8 DEF LinkInv

LEMMA SendInv ==
    ASSUME LinkInv, NEW d \in Dios, Send_Header(d) \/ Send_Body(d) \/ Send_Rest(d) PROVE LinkInv'
<1>1. CASE Send_Header(d)
  <2> DEFINE u == Generate_NN_Protocol_Header(d)
  <2>1. handler[d] = "new" /\ Send_Msg(d, u, "body")
    BY <1>1 DEF Send_Header, Idle, Generate_Query_Request_of_Namenode
  <2>2. /\ overlap \in BOOLEAN /\ overlap' \in BOOLEAN /\ (overlap => overlap')
        /\ ((\E e \in Dios \ {d} : handler[e] = "body") => overlap')
    BY <1>1 DEF Send_Header, LinkInv, TypeInv
  <2>3. CASE Sent(d, u, "body")
    <3>1. u \in Units /\ u.is = "header" /\ u.dio = d
      BY DEF Generate_NN_Protocol_Header, Units
    <3>2. QED
      BY <2>1, <2>2, <2>3, <3>1, SentInv
  <2>4. CASE Sent(d, [u EXCEPT !.is = "part"], "failed")
    <3>1. /\ [u EXCEPT !.is = "part"] \in Units /\ [u EXCEPT !.is = "part"].is = "part"
          /\ [u EXCEPT !.is = "part"].dio = d
      BY DEF Generate_NN_Protocol_Header, Units
    <3>2. QED
      BY <2>2, <2>4, <3>1, SentInv
  <2>5. CASE DMS_Sock_ErrorHandling(d)
             /\ UNCHANGED <<up, namenode, asked, down, receiver, dmeta, up_down, answered, losses>>
    BY <2>2, <2>5, FailedInv
  <2>6. QED
    BY <2>1, <2>3, <2>4, <2>5 DEF Send_Msg, Sent, DMS_Sock_ErrorHandling
<1>2. CASE Send_Body(d)
  <2> DEFINE u == Generate_NN_Protocol_Body(d)
             there == IF body_length > QuerySize THEN "rest" ELSE "sent"
  <2>1. handler[d] = "body" /\ Send_Msg(d, u, there)
    BY <1>2 DEF Send_Body, Generate_Query_Request_of_Namenode
  <2>2. overlap \in BOOLEAN /\ overlap' \in BOOLEAN /\ (overlap => overlap')
    BY <1>2 DEF Send_Body, LinkInv, TypeInv
  <2>0. there \in {"rest", "sent"}
    OBVIOUS
  <2> HIDE DEF there
  <2>3. CASE Sent(d, u, there)
    <3>1. u \in Units /\ u.is = "body" /\ u.dio = d
      BY DEF Generate_NN_Protocol_Body, Units
    <3>2. QED
      BY <2>0, <2>1, <2>2, <2>3, <3>1, SentInv
  <2>4. CASE Sent(d, [u EXCEPT !.is = "part"], "failed")
    <3>1. /\ [u EXCEPT !.is = "part"] \in Units /\ [u EXCEPT !.is = "part"].is = "part"
          /\ [u EXCEPT !.is = "part"].dio = d
      BY DEF Generate_NN_Protocol_Body, Units
    <3>2. QED
      BY <2>2, <2>4, <3>1, SentInv
  <2>5. CASE DMS_Sock_ErrorHandling(d)
             /\ UNCHANGED <<up, namenode, asked, down, receiver, dmeta, up_down, answered, losses>>
    BY <2>2, <2>5, FailedInv
  <2>6. QED
    BY <2>1, <2>3, <2>4, <2>5 DEF Send_Msg, Sent, DMS_Sock_ErrorHandling
<1>3. CASE Send_Rest(d)
  <2> DEFINE u == Stack(d)
  <2>1. handler[d] = "rest" /\ Send_Msg(d, u, "sent")
    BY <1>3 DEF Send_Rest
  <2>2. overlap \in BOOLEAN /\ overlap' \in BOOLEAN /\ (overlap => overlap')
    BY <1>3 DEF Send_Rest, LinkInv, TypeInv
  <2>3. CASE Sent(d, u, "sent")
    <3>1. u \in Units /\ u.is = "stack" /\ u.dio = d
      BY DEF Stack, Units
    <3>2. QED
      BY <2>1, <2>2, <2>3, <3>1, SentInv
  <2>4. CASE Sent(d, [u EXCEPT !.is = "part"], "failed")
    <3>1. /\ [u EXCEPT !.is = "part"] \in Units /\ [u EXCEPT !.is = "part"].is = "part"
          /\ [u EXCEPT !.is = "part"].dio = d
      BY DEF Stack, Units
    <3>2. QED
      BY <2>2, <2>4, <3>1, SentInv
  <2>5. CASE DMS_Sock_ErrorHandling(d)
             /\ UNCHANGED <<up, namenode, asked, down, receiver, dmeta, up_down, answered, losses>>
    BY <2>2, <2>5, FailedInv
  <2>6. QED
    BY <2>1, <2>3, <2>4, <2>5 DEF Send_Msg, Sent, DMS_Sock_ErrorHandling
<1>4. QED
  BY <1>1, <1>2, <1>3

\* The namenode reads one unit, and knows more about a DMS_IO only if the unit fits.
LEMMA ReadsInv == ASSUME LinkInv, Namenode_Reads PROVE LinkInv'
<1>1. TypeInv /\ OnTheWay /\ OnceInv /\ InOrder
  BY DEF LinkInv
<1> DEFINE u == Head(up)
<1>0. PICK n \in Nat : n = Len(up) /\ up \in Seq(Units)
  BY <1>1, LenProperties DEF TypeInv
<1>2. /\ up' \in Seq(Units) /\ n > 0 /\ DOMAIN up = 1..n /\ DOMAIN up' = 1..n - 1
      /\ \A i \in 1..n - 1 : up'[i] = up[i + 1]
      /\ u = up[1] /\ u \in Units
  <2>1. up # <<>> /\ up' = Tail(up)
    BY DEF Namenode_Reads
  <2>2. QED
    BY <1>0, <2>1, Shifted
<1>3. /\ handler' = handler /\ down' = down /\ receiver' = receiver /\ dmeta' = dmeta
      /\ answered' = answered /\ overlap' = overlap
  BY DEF Namenode_Reads
<1>4. \/ /\ u.is = "header"
         /\ namenode' = [at |-> "body", dio |-> u.dio] /\ asked' = asked
      \/ /\ namenode.at = "body" /\ u.is = "body"
         /\ namenode' = Listening
         /\ asked' = asked \cup {[dio |-> namenode.dio, about |-> u.dio]}
      \/ namenode'.at \in {"header", "lost"} /\ asked' = asked
  <2>1. namenode.at \in {"header", "body", "lost"}
    BY <1>1 DEF TypeInv
  <2>2. QED
    BY <2>1 DEF Namenode_Reads, Listening
<1> HIDE DEF u
<1>5. namenode.at \in {"header", "body"} /\ (namenode.at = "body" => namenode.dio \in Dios)
  BY <1>1 DEF Namenode_Reads, TypeInv
<1>6. u.dio \in Dios /\ u = [is |-> u.is, dio |-> u.dio]
  BY <1>2 DEF Units
\* What is up.
<1>7. \A i \in 1..n - 1 : i + 1 \in 1..n /\ i + 1 # 1
  BY <1>2
<1>8. 1 \in 1..n
  BY <1>2
<1>9. \A e \in Dios : InUp(e)' => InUp(e) /\ u # Generate_NN_Protocol_Header(e)
  <2> SUFFICES ASSUME NEW e \in Dios, InUp(e)' PROVE InUp(e) /\ u # Generate_NN_Protocol_Header(e)
    OBVIOUS
  <2>1. PICK i \in 1..n - 1 : up'[i] = Generate_NN_Protocol_Header(e)
    BY <1>2 DEF InUp, Generate_NN_Protocol_Header
  <2>2. i + 1 \in 1..n /\ i + 1 # 1 /\ up[i + 1] = Generate_NN_Protocol_Header(e)
    BY <1>2, <1>7, <2>1
  <2>3. up[i + 1].is = "header"
    BY <2>2 DEF Generate_NN_Protocol_Header
  <2>4. u # up[i + 1]
    BY <1>1, <1>2, <1>8, <2>2, <2>3 DEF OnceInv
  <2>5. QED
    BY <1>2, <2>2, <2>4 DEF InUp
<1>10. \A e \in Dios : InUp(e) => InUp(e)' \/ u = Generate_NN_Protocol_Header(e)
  <2> SUFFICES ASSUME NEW e \in Dios, InUp(e) PROVE InUp(e)' \/ u = Generate_NN_Protocol_Header(e)
    OBVIOUS
  <2>1. PICK i \in 1..n : up[i] = Generate_NN_Protocol_Header(e)
    BY <1>2 DEF InUp
  <2>2. CASE i = 1
    BY <1>2, <2>1, <2>2
  <2>3. CASE i # 1
    <3>1. i - 1 \in 1..n - 1 /\ (i - 1) + 1 = i
      BY <1>2, <2>3
    <3>2. up'[i - 1] = Generate_NN_Protocol_Header(e)
      BY <1>2, <2>1, <3>1
    <3>3. QED
      BY <1>2, <3>1, <3>2 DEF InUp, Generate_NN_Protocol_Header
  <2>4. QED
    BY <2>2, <2>3
<1>11. \A e \in Dios : IsAnswered(e)' <=> IsAnswered(e)
  BY <1>3 DEF IsAnswered
<1>12. TypeInv'
  <2>1. namenode'.at \in {"header", "body", "lost"} /\ (namenode'.at = "body" => namenode'.dio \in Dios)
    BY <1>4, <1>6 DEF Listening
  <2>2. asked' \subseteq [dio : Dios, about : Dios]
    BY <1>1, <1>4, <1>5, <1>6 DEF TypeInv
  <2>3. QED
    BY <1>1, <1>2, <1>3, <2>1, <2>2 DEF TypeInv, IsAnswer
<1>13. OnTheWay'
  BY <1>1, <1>3, OnTheWaySame
\* The places of a header.
<1>14. \A e \in Dios : InNamenode(e)' => u = Generate_NN_Protocol_Header(e) /\ InUp(e) /\ asked' = asked
  <2> SUFFICES ASSUME NEW e \in Dios, InNamenode(e)'
               PROVE  u = Generate_NN_Protocol_Header(e) /\ InUp(e) /\ asked' = asked
    OBVIOUS
  <2>1. u.is = "header" /\ u.dio = e /\ asked' = asked
    BY <1>4 DEF InNamenode, Listening
  <2>2. u = Generate_NN_Protocol_Header(e)
    BY <1>6, <2>1 DEF Generate_NN_Protocol_Header
  <2>3. QED
    BY <1>2, <1>8, <2>1, <2>2 DEF InUp
<1>15. \A e \in Dios : InAsked(e)' => InAsked(e) \/ InNamenode(e)
  BY <1>4 DEF InAsked, InNamenode
<1>16. OnceInv'
  <2>1. ASSUME NEW e \in Dios PROVE Alone(e)'
    <3>1. Alone(e)
      BY <1>1 DEF OnceInv
    <3>2. InUp(e)' => ~ InNamenode(e)'
      BY <1>9, <1>14
    <3>3. InNamenode(e)' => ~ InAsked(e)'
      <4>1. InNamenode(e)' => InUp(e) /\ (InAsked(e)' <=> InAsked(e))
        BY <1>14 DEF InAsked
      <4>2. QED
        BY <3>1, <4>1 DEF Alone
    <3>4. QED
      BY <1>3, <1>9, <1>11, <1>14, <1>15, <3>1, <3>2, <3>3 DEF Alone
  <2>2. ASSUME NEW i \in 1..n - 1, NEW j \in 1..n - 1, up'[i].is = "header", up'[j] = up'[i]
        PROVE  i = j
    <3>1. i + 1 \in 1..n /\ j + 1 \in 1..n /\ up[i + 1].is = "header" /\ up[j + 1] = up[i + 1]
      BY <1>2, <1>7, <2>2
    <3>2. i + 1 = j + 1
      BY <1>1, <1>2, <3>1 DEF OnceInv
    <3>3. QED
      BY <1>2, <3>2
  <2>3. ASSUME NEW q \in asked', NEW r \in asked', q.dio = r.dio PROVE q = r
    <3>1. \A e \in Dios : InNamenode(e) => ~ InAsked(e)
      BY <1>1 DEF OnceInv, Alone
    <3>2. CASE q \in asked /\ r \in asked
      BY <1>1, <2>3, <3>2 DEF OnceInv
    <3>3. CASE ~ (q \in asked /\ r \in asked)
      <4>1. /\ namenode.at = "body" /\ namenode.dio \in Dios
            /\ asked' = asked \cup {[dio |-> namenode.dio, about |-> u.dio]}
        BY <1>4, <1>5, <3>3
      <4>2. \A s \in asked : s.dio # namenode.dio
        BY <3>1, <4>1 DEF InNamenode, InAsked
      <4>3. QED
        BY <2>3, <3>3, <4>1, <4>2
    <3>4. QED
      BY <3>2, <3>3
  <2>4. QED
    BY <1>2, <2>1, <2>2, <2>3 DEF OnceInv
\* A body is read behind its header.
<1>17. InOrder'
  <2> SUFFICES ASSUME ~ overlap PROVE InOrder'
    BY <1>3 DEF InOrder
  <2>1. /\ BodiesFollow /\ NextFollows
        /\ \A q \in asked : q.about = q.dio
        /\ \A e \in Dios : IsAnswered(e) => answered[e].about = e
    BY <1>1 DEF InOrder
  <2>2. Len(up) = n /\ Len(up') = n - 1
    BY <1>0, <1>2, LenProperties
  <2>3. ASSUME NEW i \in 1..n, NEW e \in Dios, Behind(i + 1, e) PROVE Behind(i, e)'
    <3>1. /\ (i + 1) - 1 = i /\ 1 \in 1..i /\ 1 + 1 = 2
          /\ \A j \in 1..i - 1 : up'[j] = up[j + 1] /\ j + 1 \in 1..i
          /\ \A k \in 2..i : k - 1 \in 1..i - 1 /\ (k - 1) + 1 = k
      BY <1>2
    <3>2. ASSUME NEW j \in 1..i - 1, LastHeader(i, j)' PROVE LastHeader(i + 1, j + 1)
      <4>1. ASSUME NEW k \in (j + 1) + 1..i PROVE up[k].is # "header"
        <5>1. k - 1 \in j + 1..i - 1 /\ k \in 2..i
          BY <1>2
        <5>2. up'[k - 1] = up[k]
          BY <3>1, <5>1
        <5>3. QED
          BY <3>2, <5>1, <5>2 DEF LastHeader
      <4>2. QED
        BY <3>1, <3>2, <4>1 DEF LastHeader
    <3>3. ASSUME NoHeader(i)' PROVE \A k \in 2..i : up[k].is # "header"
      <4> SUFFICES ASSUME NEW k \in 2..i PROVE up[k].is # "header"
        OBVIOUS
      <4>1. k - 1 \in 1..i - 1 /\ up'[k - 1] = up[k]
        BY <3>1
      <4>2. QED
        BY <3>3, <4>1 DEF NoHeader
    <3>4. ASSUME NEW j \in 1..i - 1, LastHeader(i, j)' PROVE up'[j].dio = e
      BY <2>3, <3>1, <3>2, <3>4 DEF Behind
    <3>5. ASSUME namenode'.at = "body", NoHeader(i)' PROVE namenode'.dio = e
      <4>1. u.is = "header" /\ namenode'.dio = u.dio
        BY <1>4, <3>5 DEF Listening
      <4>2. LastHeader(i + 1, 1)
        BY <1>2, <3>1, <3>3, <3>5, <4>1 DEF LastHeader
      <4>3. QED
        BY <1>2, <2>3, <3>1, <4>1, <4>2 DEF Behind
    <3>6. QED
      BY <3>4, <3>5 DEF Behind
  <2>4. ASSUME NEW i \in 1..n - 1, up'[i].is = "body" PROVE Behind(i, up[i].dio)'
    <3>1. i \in 1..n /\ i + 1 \in 1..n /\ up'[i] = up[i + 1]
      BY <1>2
    <3>2. up[i + 1].dio \in Dios
      <4>1. up[i + 1] \in Units
        BY <1>0, <3>1, ElementOfSeq
      <4>2. QED
        BY <4>1 DEF Units
    <3>3. Behind(i + 1, up[i + 1].dio)
      BY <1>2, <2>1, <2>4, <3>1 DEF BodiesFollow
    <3>4. QED
      BY <2>3, <3>1, <3>2, <3>3
  <2>5. BodiesFollow'
    BY <1>2, <2>4 DEF BodiesFollow
  <2>6. NextFollows'
    <3> SUFFICES ASSUME NEW e \in Dios, handler[e] = "body" PROVE Behind(Len(up) + 1, e)'
      BY <1>3 DEF NextFollows
    <3>1. Behind(n + 1, e)
      BY <2>1, <2>2 DEF NextFollows
    <3>2. n \in 1..n /\ Len(up') + 1 = n
      BY <1>2, <2>2
    <3>3. QED
      BY <2>3, <3>1, <3>2
  <2>7. ASSUME NEW q \in asked' PROVE q.about = q.dio
    <3>1. CASE q \in asked
      BY <2>1, <3>1
    <3>2. CASE q \notin asked
      <4>1. namenode.at = "body" /\ u.is = "body" /\ q = [dio |-> namenode.dio, about |-> u.dio]
        BY <1>4, <2>7, <3>2
      <4>2. Behind(1, u.dio)
        BY <1>2, <1>8, <2>1, <4>1 DEF BodiesFollow
      <4>3. NoHeader(1)
        BY DEF NoHeader
      <4>4. QED
        BY <4>1, <4>2, <4>3 DEF Behind
    <3>3. QED
      BY <3>1, <3>2
  <2>8. QED
    BY <1>3, <1>11, <2>1, <2>5, <2>6, <2>7 DEF InOrder, IsAnswered
<1>18. QED
  BY <1>12, <1>13, <1>16, <1>17 DEF LinkInv

\* The answer to a query, as an action of its parameters.
Answered(q, lrs, sub) ==
    /\ asked' = asked \ {q}
    /\ down' = Append(down, [header |-> [is |-> "header", extention |-> q.dio, sub_type |-> sub,
                                         service_type |-> Request(q.about).type],
                             body |-> Body(q.about, lrs)])
    /\ answered' = [answered EXCEPT ![q.dio] =
                        [is |-> "answer", about |-> q.about, lrs |-> lrs, sub |-> sub]]
    /\ UNCHANGED <<handler, up, namenode, receiver, dmeta, up_down, overlap, losses>>

LEMMA Answering ==
    ASSUME Namenode_Answers
    PROVE  \E q \in asked : \E lrs \in Answers(q.about), sub \in SubTypes : Answered(q, lrs, sub)
  BY DEF Namenode_Answers, Answered

\* The answer to a DMS_IO is the first one.
LEMMA AnswersInv == ASSUME LinkInv, Namenode_Answers PROVE LinkInv'
<1>1. TypeInv /\ OnTheWay /\ OnceInv /\ InOrder
  BY DEF LinkInv
<1>0. PICK q \in asked : \E lrs \in Answers(q.about), sub \in SubTypes : Answered(q, lrs, sub)
  BY Answering
<1>30. PICK lrs \in Answers(q.about), sub \in SubTypes : Answered(q, lrs, sub)
  BY <1>0
<1>2. /\ asked' = asked \ {q}
      /\ down' = Append(down, [header |-> [is |-> "header", extention |-> q.dio, sub_type |-> sub,
                                           service_type |-> Request(q.about).type],
                               body |-> Body(q.about, lrs)])
      /\ answered' = [answered EXCEPT ![q.dio] =
                          [is |-> "answer", about |-> q.about, lrs |-> lrs, sub |-> sub]]
      /\ UNCHANGED <<handler, up, namenode, receiver, dmeta, up_down, overlap, losses>>
  BY <1>30 DEF Answered
<1>3. PICK d \in Dios, b \in Dios : q.dio = d /\ q.about = b
  BY <1>1 DEF TypeInv
<1> DEFINE a == [is |-> "answer", about |-> b, lrs |-> lrs, sub |-> sub]
           m == [header |-> [is |-> "header", extention |-> d, sub_type |-> sub,
                             service_type |-> Request(b).type],
                 body |-> Body(b, lrs)]
           n == Len(down)
<1>4. lrs \in Answers(b) /\ m \in Messages
  <2>1. lrs \in Answers(b)
    BY <1>3
  <2>2. Request(b).type \in Queries
    BY <1>3, <2>1, ResponseParts
  <2>3. Body(b, lrs) \in Bodies
    BY <1>3, <2>1 DEF Bodies
  <2>4. QED
    BY <1>2, <1>3, <2>1, <2>2, <2>3 DEF Messages, Headers
<1>5. /\ a.is = "answer" /\ a.about = b /\ a.lrs = lrs /\ a.sub = sub
      /\ m.header.extention = d /\ m.header.sub_type = sub /\ m.header.service_type = Request(b).type
      /\ m.body = Body(b, lrs)
  OBVIOUS
<1>6. /\ answered'[d] = a
      /\ \A e \in Dios : e # d => answered'[e] = answered[e]
      /\ answered' = [e \in Dios |-> answered'[e]]
  BY <1>1, <1>2, <1>3 DEF TypeInv
<1>7. /\ down' \in Seq(Messages) /\ n \in Nat /\ DOMAIN down = 1..n /\ DOMAIN down' = 1..n + 1
      /\ \A i \in 1..n : down'[i] = down[i]
      /\ down'[n + 1] = m
  <2>1. down \in Seq(Messages) /\ down' = Append(down, m)
    BY <1>1, <1>2, <1>3 DEF TypeInv
  <2> HIDE DEF m
  <2>2. QED
    BY <1>4, <2>1, Appended
<1>8. /\ asked' \subseteq asked /\ q \in asked /\ q \notin asked'
      /\ handler' = handler /\ up' = up /\ namenode' = namenode /\ receiver' = receiver
      /\ dmeta' = dmeta /\ overlap' = overlap
  BY <1>2
<1> HIDE DEF a, m, n
<1>9. /\ InAsked(d) /\ ~ IsAnswered(d) /\ ~ InUp(d) /\ ~ InNamenode(d) /\ handler[d] # "new"
      /\ \A r \in asked' : r.dio # d
  <2>1. InAsked(d)
    BY <1>3, <1>8 DEF InAsked
  <2>2. \A r \in asked' : r.dio # d
    BY <1>1, <1>3, <1>8 DEF OnceInv
  <2>3. QED
    BY <1>1, <2>1, <2>2 DEF OnceInv, Alone
<1>10. \A e \in Dios : /\ InUp(e)' <=> InUp(e)
                       /\ InNamenode(e)' <=> InNamenode(e)
                       /\ InAsked(e)' => InAsked(e) /\ e # d
                       /\ IsAnswered(e)' => IsAnswered(e) \/ e = d
  BY <1>6, <1>8, <1>9 DEF InUp, InNamenode, InAsked, IsAnswered, Generate_NN_Protocol_Header
<1>11. TypeInv'
  <2>1. ASSUME NEW e \in Dios, answered'[e].is = "answer" PROVE IsAnswer(answered'[e])
    <3>1. CASE e = d
      BY <1>2, <1>3, <1>4, <1>5, <1>6, <3>1 DEF IsAnswer
    <3>2. CASE e # d
      BY <1>1, <1>6, <2>1, <3>2 DEF TypeInv
    <3>3. QED
      BY <3>1, <3>2
  <2>2. \A e \in Dios : answered'[e].is = "answer" => IsAnswer(answered[e])'
    BY <2>1 DEF IsAnswer
  <2>3. asked' \subseteq [dio : Dios, about : Dios]
    BY <1>1, <1>8 DEF TypeInv
  <2>4. QED
    BY <1>1, <1>6, <1>7, <1>8, <2>2, <2>3 DEF TypeInv
<1>12. OnTheWay'
  <2>1. ASSUME NEW i \in 1..n
        PROVE  down[i].header.extention \in Dios /\ down[i].header.extention # d /\ Belongs(down[i])
    <3>1. down[i] \in Messages
      BY <1>1, <1>7, ElementOfSeq DEF TypeInv, n
    <3>2. down[i].header.extention \in Dios
      BY <3>1 DEF Messages, Headers
    <3>3. Belongs(down[i])
      BY <1>1, <1>7 DEF OnTheWay
    <3>4. QED
      BY <1>9, <3>2, <3>3 DEF Belongs, IsAnswered
  <2>2. ASSUME NEW i \in 1..n + 1 PROVE Belongs(down[i])'
    <3>1. CASE i \in 1..n
      BY <1>6, <1>7, <2>1, <3>1 DEF Belongs
    <3>2. CASE i = n + 1
      BY <1>5, <1>6, <1>7, <3>2 DEF Belongs
    <3>3. QED
      BY <1>7, <3>1, <3>2
  <2>3. receiver.at = "body" => down' # <<>> /\ receiver.header = Head(down').header
    <3> SUFFICES ASSUME receiver.at = "body" PROVE down' # <<>> /\ receiver.header = Head(down').header
      OBVIOUS
    <3>1. down # <<>> /\ receiver.header = Head(down).header /\ down \in Seq(Messages)
      BY <1>1 DEF OnTheWay, TypeInv
    <3>2. Head(down) = down[1] /\ n > 0
      BY <3>1, Shifted DEF n
    <3>3. 1 \in 1..n /\ 1 \in 1..n + 1
      BY <1>7, <3>2
    <3>4. down' # <<>> /\ Head(down') = down'[1]
      <4>1. down' # <<>>
        BY <1>7, <3>3, EmptySeq
      <4>2. QED
        BY <1>7, <4>1, Shifted
    <3>5. QED
      BY <1>7, <3>1, <3>2, <3>3, <3>4
  <2>4. \A res : \A e \in Dios : IsReadFrom(res, answered[e]) => e # d
    BY <1>9 DEF IsReadFrom, IsAnswered
  <2>5. receiver.at = "process" =>
          /\ receiver.header.extention \in Dios
          /\ IsReadFrom(receiver.res, answered'[receiver.header.extention])
    <3>1. receiver.at = "process" =>
            receiver.header.extention \in Dios /\ IsReadFrom(receiver.res, answered[receiver.header.extention])
      BY <1>1 DEF OnTheWay
    <3>2. QED
      BY <1>6, <2>4, <3>1
  <2>6. \A e \in Dios : dmeta[e].is = "dmeta" => IsReadFrom(dmeta[e].res, answered'[e])
    <3>1. \A e \in Dios : dmeta[e].is = "dmeta" => IsReadFrom(dmeta[e].res, answered[e])
      BY <1>1 DEF OnTheWay
    <3>2. QED
      BY <1>6, <2>4, <3>1
  <2>7. \A i \in DOMAIN down' : Belongs(down[i])'
    BY <1>7, <2>2
  <2>8. QED
    BY <1>8, <2>3, <2>5, <2>6, <2>7 DEF OnTheWay, IsReadFrom, Read, Belongs
<1>13. OnceInv'
  <2>1. \A e \in Dios : Alone(e)'
    BY <1>1, <1>8, <1>9, <1>10 DEF OnceInv, Alone
  <2>2. QED
    BY <1>1, <1>8, <2>1 DEF OnceInv
<1>14. InOrder'
  <2> SUFFICES ASSUME ~ overlap PROVE InOrder'
    BY <1>8 DEF InOrder
  <2>1. \A i, e : Behind(i, e)' <=> Behind(i, e)
    BY <1>8 DEF Behind, LastHeader, NoHeader
  <2>2. BodiesFollow' /\ NextFollows'
    BY <1>1, <1>8, <2>1 DEF InOrder, BodiesFollow, NextFollows
  <2>3. b = d
    BY <1>1, <1>3, <1>8 DEF InOrder
  <2>4. \A e \in Dios : IsAnswered(e)' => answered'[e].about = e
    BY <1>1, <1>5, <1>6, <1>10, <2>3 DEF InOrder, IsAnswered
  <2>5. \A r \in asked' : r.about = r.dio
    BY <1>1, <1>8 DEF InOrder
  <2>6. QED
    BY <2>2, <2>4, <2>5 DEF InOrder, IsAnswered
<1>15. QED
  BY <1>11, <1>12, <1>13, <1>14 DEF LinkInv

LEMMA RecvHeaderInv == ASSUME LinkInv, Recv_Header PROVE LinkInv'
<1>1. TypeInv /\ OnTheWay /\ OnceInv /\ InOrder
  BY DEF LinkInv
<1>2. /\ receiver'.at = "body" /\ receiver'.header = Head(down).header /\ down # <<>>
      /\ receiver' = [at |-> receiver'.at, header |-> receiver'.header, res |-> receiver'.res]
  BY <1>1 DEF Recv_Header, TypeInv
<1>3. TypeInv'
  BY <1>1, <1>2 DEF Recv_Header, TypeInv, IsAnswer
<1>4. OnTheWay'
  BY <1>1, <1>2 DEF Recv_Header, OnTheWay, Belongs, IsReadFrom, Read
<1>5. OnceInv' /\ InOrder'
  BY <1>1, OnceSame DEF Recv_Header
<1>6. QED
  BY <1>3, <1>4, <1>5 DEF LinkInv

\* What the parser makes of a body is what it makes of the answer.
LEMMA RecvBodyInv == ASSUME LinkInv, Recv_Body PROVE LinkInv'
<1>1. TypeInv /\ OnTheWay /\ OnceInv /\ InOrder
  BY DEF LinkInv
<1> DEFINE m == Head(down)
           h == receiver.header
           n == Len(down)
           a == answered[h.extention]
           hdr == [sub_type |-> h.sub_type, service_type |-> h.service_type]
           in == [sub_type |-> h.sub_type, service_type |-> h.service_type, body |-> m.body]
           p == Parsed[in]
<1>2. receiver.at = "body" /\ down # <<>> /\ h = m.header /\ down \in Seq(Messages)
  BY <1>1 DEF Recv_Body, OnTheWay, TypeInv
<1>3. /\ down' \in Seq(Messages) /\ n \in Nat /\ n > 0 /\ DOMAIN down = 1..n /\ DOMAIN down' = 1..n - 1
      /\ \A i \in 1..n - 1 : down'[i] = down[i + 1]
      /\ m = down[1] /\ m \in Messages
  <2>1. down' = Tail(down)
    BY DEF Recv_Body
  <2>2. QED
    BY <1>2, <2>1, Shifted
<1>4. 1 \in DOMAIN down /\ \A i \in 1..n - 1 : i + 1 \in DOMAIN down
  BY <1>3
<1>5. Belongs(m)
  BY <1>1, <1>3, <1>4 DEF OnTheWay
<1>6. h.extention \in Dios /\ h.sub_type \in SubTypes /\ h.service_type \in Queries /\ m.body \in Bodies
  BY <1>2, <1>3 DEF Messages, Headers
<1>7. a.is = "answer" /\ m.body = Body(a.about, a.lrs)
  BY <1>2, <1>5 DEF Belongs
<1>8. p = IF h.sub_type # "RESPONSE" THEN Read(a) ELSE [ret |-> -1, created |-> FALSE]
  <2>1. /\ in \in Received
        /\ hdr = [sub_type |-> in.sub_type, service_type |-> in.service_type] /\ m.body = in.body
    BY <1>6 DEF Received
  <2>2. p = Parse_NN_Protocol_Body(hdr, m.body)
    <3> HIDE DEF hdr, in, m
    <3>1. QED
      BY <2>1 DEF Parsed
  <2>3. hdr.sub_type = h.sub_type /\ hdr.service_type = h.service_type
    OBVIOUS
  <2>4. QED
    BY <1>6, <1>7, <2>2, <2>3 DEF Parse_NN_Protocol_Body, Read
<1> HIDE DEF p
<1>9. p.ret > 0 => p = Read(a)
  <2>1. CASE h.sub_type # "RESPONSE"
    BY <1>8, <2>1
  <2>2. CASE h.sub_type = "RESPONSE"
    <3>1. p.ret = -1
      BY <1>8, <2>2
    <3>2. QED
      BY <3>1
  <2>3. QED
    BY <2>1, <2>2
<1>10. receiver' = IF p.ret > 0 THEN [receiver EXCEPT !.at = "process", !.res = p.res] ELSE Continue(receiver)
  BY DEF Recv_Body, p
<1>11. /\ handler' = handler /\ up' = up /\ namenode' = namenode /\ asked' = asked
       /\ dmeta' = dmeta /\ answered' = answered /\ overlap' = overlap
  BY DEF Recv_Body
<1>12. receiver = [at |-> receiver.at, header |-> receiver.header, res |-> receiver.res]
  BY <1>1 DEF TypeInv
<1> HIDE DEF m, h, n, a, hdr, in
<1>13. \/ /\ receiver' = [at |-> "process", header |-> h, res |-> p.res]
          /\ p.ret > 0
       \/ receiver' = [at |-> "header", header |-> None, res |-> None]
  BY <1>10, <1>12 DEF Continue, h
<1>14. TypeInv'
  BY <1>1, <1>3, <1>11, <1>13 DEF TypeInv, IsAnswer
<1>15. OnTheWay'
  <2>1. ASSUME NEW i \in 1..n - 1 PROVE Belongs(down[i])'
    <3>1. Belongs(down[i + 1])
      BY <1>1, <1>4 DEF OnTheWay
    <3>2. QED
      BY <1>3, <1>11, <3>1 DEF Belongs
  <2>2. receiver'.at # "body"
    BY <1>13
  <2>3. receiver'.at = "process" =>
          /\ receiver'.header.extention \in Dios
          /\ IsReadFrom(receiver'.res, answered[receiver'.header.extention])
    <3> SUFFICES ASSUME receiver'.at = "process"
                 PROVE  /\ receiver'.header.extention \in Dios
                        /\ IsReadFrom(receiver'.res, answered[receiver'.header.extention])
      OBVIOUS
    <3>1. receiver'.header = h /\ receiver'.res = p.res /\ p.ret > 0
      BY <1>13
    <3>2. QED
      BY <1>6, <1>7, <1>9, <3>1 DEF IsReadFrom, a
  <2>4. \A i \in DOMAIN down' : Belongs(down[i])'
    BY <1>3, <2>1
  <2>5. QED
    BY <1>1, <1>11, <2>2, <2>3, <2>4 DEF OnTheWay, IsReadFrom, Read
<1>16. OnceInv' /\ InOrder'
  BY <1>1, <1>11, OnceSame
<1>17. QED
  BY <1>14, <1>15, <1>16 DEF LinkInv

LEMMA ProcessInv == ASSUME LinkInv, Process_Namenode_Response PROVE LinkInv'
<1>1. TypeInv /\ OnTheWay /\ OnceInv /\ InOrder
  BY DEF LinkInv
<1>2. PICK d \in Dios : d = receiver.header.extention /\ IsReadFrom(receiver.res, answered[d])
  BY <1>1 DEF OnTheWay, Process_Namenode_Response
<1>3. /\ dmeta' = [dmeta EXCEPT ![d] = [is |-> "dmeta", res |-> receiver.res]]
      /\ dmeta = [e \in Dios |-> dmeta[e]]
  BY <1>1, <1>2 DEF Process_Namenode_Response, Extention, TypeInv
<1>4. /\ dmeta' = [e \in Dios |-> dmeta'[e]]
      /\ dmeta'[d].res = receiver.res
      /\ \A e \in Dios : e # d => dmeta'[e] = dmeta[e]
  BY <1>3
<1>5. receiver' = [at |-> "header", header |-> None, res |-> None]
  <2>1. receiver = [at |-> receiver.at, header |-> receiver.header, res |-> receiver.res]
    BY <1>1 DEF TypeInv
  <2>2. receiver' = Continue(receiver)
    BY DEF Process_Namenode_Response
  <2>3. QED
    BY <2>1, <2>2 DEF Continue
<1>6. /\ handler' = handler /\ up' = up /\ namenode' = namenode /\ asked' = asked /\ down' = down
      /\ answered' = answered /\ overlap' = overlap
  BY DEF Process_Namenode_Response
<1>7. TypeInv'
  BY <1>1, <1>4, <1>5, <1>6 DEF TypeInv, IsAnswer
<1>8. OnTheWay'
  <2>1. \A e \in Dios : dmeta'[e].is = "dmeta" => IsReadFrom(dmeta'[e].res, answered[e])
    BY <1>1, <1>2, <1>4 DEF OnTheWay
  <2>2. receiver'.at = "header"
    BY <1>5
  <2>3. QED
    BY <1>1, <1>6, <2>1, <2>2 DEF OnTheWay, Belongs, IsReadFrom, Read
<1>9. OnceInv' /\ InOrder'
  BY <1>1, <1>6, OnceSame
<1>10. QED
  BY <1>7, <1>8, <1>9 DEF LinkInv

LEMMA LoseInv == ASSUME LinkInv, Lose_Connection PROVE LinkInv'
<1>1. TypeInv /\ OnTheWay /\ OnceInv /\ InOrder
  BY DEF LinkInv
<1>2. /\ up' = <<>> /\ down' = <<>> /\ asked' = {} /\ namenode' = Listening
      /\ receiver' = (IF receiver.at = "process" THEN receiver ELSE Fresh)
      /\ overlap' = overlap /\ handler' = handler /\ dmeta' = dmeta /\ answered' = answered
  BY DEF Lose_Connection
<1>4. TypeInv'
  BY <1>1, <1>2 DEF TypeInv, IsAnswer, Listening, Fresh, None
<1>5. OnTheWay'
  BY <1>1, <1>2 DEF OnTheWay, IsReadFrom, Read, Fresh
<1>6. OnceInv'
  <2>1. ASSUME NEW e \in Dios PROVE Alone(e)'
    <3>1. ~ InUp(e)' /\ ~ InNamenode(e)' /\ ~ InAsked(e)'
      BY <1>2 DEF InUp, InNamenode, InAsked, Listening
    <3>2. handler[e] = "new" => ~ IsAnswered(e)
      BY <1>1 DEF OnceInv, Alone
    <3>3. QED
      BY <1>2, <3>1, <3>2 DEF Alone, IsAnswered
  <2>2. QED
    BY <1>2, <2>1 DEF OnceInv
\* Nothing is before the first unit.
<1>7. InOrder'
  <2>1. \A e \in Dios : Behind(1, e)'
    BY <1>2 DEF Behind, Listening
  <2>2. DOMAIN up' = {} /\ Len(up') + 1 = 1
    BY <1>2
  <2>3. BodiesFollow' /\ NextFollows'
    BY <2>1, <2>2 DEF BodiesFollow, NextFollows
  <2>4. QED
    BY <1>1, <1>2, <2>3 DEF InOrder, IsAnswered
<1>8. QED
  BY <1>4, <1>5, <1>6, <1>7 DEF LinkInv

LEMMA SameInv ==
    ASSUME LinkInv, UNCHANGED <<handler, up, namenode, asked, down, receiver, dmeta, answered, overlap>>
    PROVE  LinkInv'
<1>1. TypeInv'
  BY DEF LinkInv, TypeInv, IsAnswer
<1>2. OnTheWay'
  BY OnTheWaySame DEF LinkInv
<1>3. OnceInv' /\ InOrder'
  BY OnceSame DEF LinkInv
<1>4. QED
  BY <1>1, <1>2, <1>3 DEF LinkInv

LEMMA NextInv == ASSUME LinkInv, [Next]_vars PROVE LinkInv'
<1>1. CASE \E d \in Dios : Send_Header(d) \/ Send_Body(d) \/ Send_Rest(d)
  BY <1>1, SendInv
<1>2. CASE Namenode_Reads
  BY <1>2, ReadsInv
<1>3. CASE Namenode_Answers
  BY <1>3, AnswersInv
<1>4. CASE Recv_Header
  BY <1>4, RecvHeaderInv
<1>5. CASE Recv_Body
  BY <1>5, RecvBodyInv
<1>6. CASE Process_Namenode_Response
  BY <1>6, ProcessInv
<1>7. CASE Lose_Connection
  BY <1>7, LoseInv
<1>8. CASE Rebuild_Connection
  BY <1>8, SameInv DEF Rebuild_Connection
<1>9. CASE UNCHANGED vars
  BY <1>9, SameInv DEF vars
<1>10. QED
  BY <1>1, <1>2, <1>3, <1>4, <1>5, <1>6, <1>7, <1>8, <1>9 DEF Next

\* The invariant of the queries, the answers and the receiver.
THEOREM Invariant == Spec => []LinkInv
<1>1. Init => LinkInv
  BY InitInv
<1>2. LinkInv /\ [Next]_vars => LinkInv'
  BY NextInv
<1>3. QED
  BY <1>1, <1>2, PTL DEF Spec

\* Metadata linked to a DMS_IO is what the namenode last answered to it, field by field, for
\* any number of DMS_IOs, any answers that fit into the fields, and any losses of the
\* connection (Parse_Metadata_Response, Process_Namenode_Response).
THEOREM ParserIsExact == Spec => []DmetaIsTheAnswer
<1>1. LinkInv => DmetaIsTheAnswer
  <2> SUFFICES ASSUME LinkInv, NEW d \in Dios, dmeta[d].is = "dmeta"
               PROVE  answered[d].is = "answer" /\ dmeta[d].res.lrs = Seen(answered[d].about, answered[d].lrs)
    BY DEF DmetaIsTheAnswer
  <2>1. IsReadFrom(dmeta[d].res, answered[d])
    BY DEF LinkInv, OnTheWay
  <2>2. answered[d].is = "answer" /\ answered[d].about \in Dios /\ answered[d].lrs \in Answers(answered[d].about)
    BY <2>1 DEF IsReadFrom, LinkInv, TypeInv, IsAnswer
  <2>3. QED
    BY <2>1, <2>2, ReadResponse DEF IsReadFrom, Read
<1>2. QED
  BY <1>1, Invariant, PTL

\* A DMS_IO is given the blocks of another one only if a header was sent between the header and
\* the body of another query, for any number of DMS_IOs and of lost connections, whatever part of
\* a query is cut off and whatever follows its body (Send_Query_Request_to_Namenode, Send_Msg).
THEOREM MixUpsNeedOverlap == Spec => []MixUpNeedsOverlap
<1>1. LinkInv => MixUpNeedsOverlap
  <2> SUFFICES ASSUME LinkInv, NEW d \in Dios, dmeta[d].is = "dmeta", ~ overlap
               PROVE  dmeta[d].res.start_LBID = Request(d).sLBID
    BY DEF MixUpNeedsOverlap, LinkInv, TypeInv
  <2>1. IsReadFrom(dmeta[d].res, answered[d])
    BY DEF LinkInv, OnTheWay
  <2>2. answered[d].is = "answer" /\ answered[d].about = d /\ answered[d].lrs \in Answers(d)
    BY <2>1 DEF IsReadFrom, LinkInv, TypeInv, IsAnswer, InOrder, IsAnswered
  <2>3. QED
    BY <2>1, <2>2, ReadResponse DEF IsReadFrom, Read
<1>2. QED
  BY <1>1, Invariant, PTL
=============================================================================
