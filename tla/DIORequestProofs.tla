--------------------------- MODULE DIORequestProofs ---------------------------
(***************************************************************************)
(* Proofs about the cut of a request into dios: the dios partition it,     *)
(* each is the longest run of its kind, and each ends with the commit of   *)
(* its last located request, in whatever order they are committed.         *)
(*                                                                         *)
(* Three operators of the model compute recursively.  What each returns    *)
(* for every input is shown in two steps: a function that solves its       *)
(* equation exists, and every solution has the values claimed, by the      *)
(* least number at which it would not.  That every set of numbers has a    *)
(* least element follows from WellFoundedInduction (LeastNumber).          *)
(***************************************************************************)
EXTENDS DIORequest, WellFoundedInduction, SequenceTheorems, TLAPS

-----------------------------------------------------------------------------
(* Numbers.                                                                 *)

\* A set of numbers that is not empty has a least element ...
LEMMA LeastNumber ==
    ASSUME NEW T, T \subseteq Nat, T # {}
    PROVE  \E x \in T : \A y \in T : x <= y
<1> DEFINE R == OpToRel(<, Nat)
<1>1. IsWellFoundedOn(R, Nat)
  BY NatLessThanWellFounded
<1>2. \A x, y \in Nat : <<x, y>> \in R <=> x < y
  BY DEF OpToRel
<1> HIDE DEF R
<1>3. PICK x \in T : \A y \in T : <<y, x>> \notin R
  BY <1>1, WFMin
<1>4. \A y \in T : ~(y < x) /\ x \in Nat /\ y \in Nat
  BY <1>2, <1>3
<1>5. QED
  BY <1>4

\* ... so a set with 0 and every successor has them all.
LEMMA SetInduction ==
    ASSUME NEW S, 0 \in S, \A n \in Nat : n \in S => n + 1 \in S
    PROVE  Nat \subseteq S
<1> SUFFICES ASSUME Nat \ S # {} PROVE FALSE
  OBVIOUS
<1>1. PICK x \in Nat \ S : \A y \in Nat \ S : x <= y
  BY LeastNumber
<1>2. x - 1 \in Nat /\ x - 1 \in S
  BY <1>1
<1>3. QED
  BY <1>1, <1>2

\* The remainder of a division is known by its form.
LEMMA Remainder ==
    ASSUME NEW C \in Nat \ {0}, NEW q \in Nat, NEW r \in 0..C - 1, NEW n \in Int, n = C * q + r
    PROVE  n % C = r
OBVIOUS

\* Every number can be divided.
LEMMA Division ==
    ASSUME NEW C \in Nat \ {0}, NEW s \in Nat
    PROVE  \E q \in Nat, r \in 0..C - 1 : s = C * q + r /\ s % C = r
<1> DEFINE S == {n \in Nat : \E q \in Nat, r \in 0..C - 1 : n = C * q + r}
<1>1. 0 \in S
  <2>1. 0 = C * 0 + 0
    OBVIOUS
  <2>2. QED
    BY <2>1
<1>2. ASSUME NEW n \in Nat, n \in S PROVE n + 1 \in S
  <2>1. PICK q \in Nat, r \in 0..C - 1 : n = C * q + r
    BY <1>2
  <2>2. CASE r < C - 1
    <3>1. n + 1 = C * q + (r + 1) /\ r + 1 \in 0..C - 1
      BY <2>1, <2>2
    <3>2. QED
      BY <3>1
  <2>3. CASE r = C - 1
    <3>1. n + 1 = C * (q + 1) + 0 /\ q + 1 \in Nat /\ 0 \in 0..C - 1
      BY <2>1, <2>3
    <3>2. \E p \in Nat, t \in 0..C - 1 : n + 1 = C * p + t
      <4> WITNESS q + 1 \in Nat, 0 \in 0..C - 1
      <4> QED BY <3>1
    <3>3. QED
      BY <3>2
  <2>4. QED
    BY <2>2, <2>3
<1> HIDE DEF S
<1>3. s \in S
  BY <1>1, <1>2, SetInduction
<1>4. PICK q \in Nat, r \in 0..C - 1 : s = C * q + r
  BY <1>3 DEF S
<1>5. s % C = r
  BY <1>4, Remainder
<1>6. QED
  BY <1>4, <1>5

\* Inside a chunk the remainder counts on ...
LEMMA SameChunk ==
    ASSUME NEW C \in Nat \ {0}, NEW s \in Nat, NEW k \in Nat, (s % C) + k < C
    PROVE  (s + k) % C = (s % C) + k
<1>1. PICK q \in Nat, r \in 0..C - 1 : s = C * q + r /\ s % C = r
  BY Division
<1>2. r + k \in 0..C - 1 /\ s + k = C * q + (r + k)
  BY <1>1
<1>3. PICK n \in Nat, t \in 0..C - 1 : n = s + k /\ t = r + k
  BY <1>2
<1>4. n = C * q + t
  BY <1>2, <1>3
<1>5. n % C = t
  BY <1>4, Remainder
<1>6. QED
  BY <1>1, <1>3, <1>5

\* ... at its end it is 0 ...
LEMMA NextChunk ==
    ASSUME NEW C \in Nat \ {0}, NEW s \in Nat
    PROVE  (s + C - (s % C)) % C = 0
<1>1. PICK q \in Nat, r \in 0..C - 1 : s = C * q + r /\ s % C = r
  BY Division
<1>2. PICK p \in Nat : p = q + 1
  OBVIOUS
<1>3. s + C - r = C * p + 0
  BY <1>1, <1>2
<1>4. s + C - r \in Int /\ 0 \in 0..C - 1
  OBVIOUS
<1>5. (s + C - r) % C = 0
  BY <1>3, <1>4, Remainder
<1>6. QED
  BY <1>1, <1>5

\* ... and a later number is in the same chunk or a later one.
LEMMA LaterChunk ==
    ASSUME NEW C \in Nat \ {0}, NEW s \in Nat, NEW b \in Nat, s % C = 0, b >= s
    PROVE  b - (b % C) >= s
<1>1. PICK q \in Nat, r \in 0..C - 1 : s = C * q + r /\ s % C = r
  BY Division
<1>2. PICK p \in Nat, t \in 0..C - 1 : b = C * p + t /\ b % C = t
  BY Division
<1>3. r = 0
  BY <1>1
<1>4. C * q \in Nat /\ C * p \in Nat /\ s = C * q
  BY <1>1, <1>3
<1>5. b = C * p + t
  BY <1>2
<1>6. p < q => C * p + C <= C * q
  OBVIOUS
<1>7. p >= q => C * p >= C * q
  OBVIOUS
<1> DEFINE x == C * p
           y == C * q
<1>8. x \in Nat /\ y \in Nat /\ s = y /\ b = x + t /\ b % C = t
      /\ (p < q => x + C <= y) /\ (p >= q => x >= y)
  BY <1>2, <1>4, <1>5, <1>6, <1>7
<1> HIDE DEF x, y
<1>9. b - t = x /\ t \in Nat
  BY <1>8
<1>10. x \in Nat /\ y \in Nat /\ x + t >= y /\ (p < q => x + C <= y) /\ (p >= q => x >= y)
  BY <1>8
<1>11. x >= y
  BY <1>10
<1>12. b - t >= s
  BY <1>8, <1>9, <1>11
<1>13. QED
  BY <1>2, <1>12

-----------------------------------------------------------------------------
(* Get_Continuous_Range.                                                    *)

\* What the bits of one word say from s on.
FirstOther(o, s) == NextOther(o, Get_Allocation_Flag(s), s % CHUNK_SIZE)
Run(o, s, left) == Length(s % CHUNK_SIZE, left, FirstOther(o, s))
RunsOn(o, s, left) == Continues(Run(o, s, left), left, FirstOther(o, s))

\* The recursion.
IsRange(range, o, lbid, nr) ==
    range = [s \in Nat |->
            LET start == s % CHUNK_SIZE
                left == lbid + nr - s
                next == NextOther(o, Get_Allocation_Flag(s), start)
                length == Length(start, left, next)
            IN length + IF Continues(length, left, next) THEN range[s + length] ELSE 0]

\* The blocks from s to e - 1 are of one kind, and e is where the request ends or the kind.
OfKind(o, s, b) == Allocated(s, b) = (o = OverWrite)
IsRun(o, s, e, end) ==
    /\ e \in s..end
    /\ \A b \in s..e - 1 : OfKind(o, s, b)
    /\ e < end => ~OfKind(o, s, e)

\* NextOther finds the first bit of the other kind in the word, if it has one.
LEMMA FirstOtherIsFirst ==
    ASSUME NEW o \in {Write, OverWrite}, NEW s \in Nat
    PROVE  /\ FirstOther(o, s) \in s % CHUNK_SIZE..CHUNK_SIZE
           /\ \A b \in s % CHUNK_SIZE..FirstOther(o, s) - 1 :
                 (b \in Get_Allocation_Flag(s)) = (o = OverWrite)
           /\ FirstOther(o, s) < CHUNK_SIZE =>
                 (FirstOther(o, s) \in Get_Allocation_Flag(s)) # (o = OverWrite)
<1> DEFINE start == s % CHUNK_SIZE
           flag == Get_Allocation_Flag(s)
           others == {b \in start..CHUNK_SIZE - 1 : (b \in flag) = (o = Write)}
           n == FirstOther(o, s)
<1>1. start \in 0..CHUNK_SIZE - 1 /\ CHUNK_SIZE \in Nat \ {0}
  BY KreqAssumption, Division
<1>2. n = IF others = {} THEN CHUNK_SIZE ELSE CHOOSE b \in others : \A c \in others : b <= c
  BY DEF FirstOther, NextOther
<1>3. (o = Write) = ~(o = OverWrite)
  BY DEF Write, OverWrite
<1> HIDE DEF flag, start, n
<1>4. CASE others = {}
  <2>1. n = CHUNK_SIZE
    BY <1>2, <1>4
  <2>2. \A b \in start..CHUNK_SIZE - 1 : (b \in flag) = (o = OverWrite)
    BY <1>3, <1>4
  <2>3. QED
    BY <1>1, <2>1, <2>2 DEF n, start, flag
<1>5. CASE others # {}
  <2>1. others \subseteq Nat
    BY <1>1
  <2>2. \E b \in others : \A c \in others : b <= c
    BY <1>5, <2>1, LeastNumber
  <2>3. n \in others /\ \A c \in others : n <= c
    BY <1>2, <1>5, <2>2
  <2>4. \A b \in start..n - 1 : b \in start..CHUNK_SIZE - 1 /\ b \notin others
    BY <1>1, <2>3
  <2>5. \A b \in start..n - 1 : (b \in flag) = (o = OverWrite)
    BY <1>3, <2>4
  <2>6. (n \in flag) # (o = OverWrite)
    BY <1>3, <2>3
  <2>7. n \in start..CHUNK_SIZE
    BY <1>1, <2>3
  <2>8. QED
    BY <2>5, <2>6, <2>7 DEF n, start, flag
<1>6. QED
  BY <1>4, <1>5

\* Inside the word of s, its bits are the allocation of the blocks ...
LEMMA SameWord ==
    ASSUME NEW s \in Nat, NEW k \in Nat, (s % CHUNK_SIZE) + k < CHUNK_SIZE
    PROVE  Allocated(s, s + k) = ((s % CHUNK_SIZE) + k \in Get_Allocation_Flag(s))
<1>1. CHUNK_SIZE \in Nat \ {0} /\ s % CHUNK_SIZE \in 0..CHUNK_SIZE - 1
  BY KreqAssumption, Division
<1>2. (s + k) % CHUNK_SIZE = (s % CHUNK_SIZE) + k
  BY <1>1, SameChunk
<1> DEFINE r == s % CHUNK_SIZE
           chunk == (s + k) - ((s + k) % CHUNK_SIZE)
           x == (s + k) % CHUNK_SIZE
<1>3. x = r + k
  BY <1>2
<1>4. r \in 0..CHUNK_SIZE - 1 /\ CHUNK_SIZE \in Nat /\ chunk = s + k - x
  BY <1>1
<1> HIDE DEF chunk, x, r
<1>5. chunk = s - r
  BY <1>3, <1>4
<1>6. (IF s > chunk THEN s ELSE chunk) = s
  BY <1>4, <1>5
<1>7. QED
  BY <1>2, <1>6 DEF Allocated, chunk, r

\* ... and behind it, a cut from s sees what a cut from the next word sees.
LEMMA NextWord ==
    ASSUME NEW s \in Nat, NEW n \in Nat, n = s + CHUNK_SIZE - (s % CHUNK_SIZE),
           NEW b \in Nat, b >= n
    PROVE  Allocated(s, b) = Allocated(n, b)
<1>1. CHUNK_SIZE \in Nat \ {0} /\ s % CHUNK_SIZE \in 0..CHUNK_SIZE - 1
  BY KreqAssumption, Division
<1>2. n % CHUNK_SIZE = 0
  BY <1>1, NextChunk
<1>3. b - (b % CHUNK_SIZE) >= n
  BY <1>1, <1>2, LaterChunk
<1>4. n > s
  BY <1>1
<1> DEFINE chunk == b - (b % CHUNK_SIZE)
<1>5. chunk >= n /\ chunk \in Int
  BY <1>1, <1>3, Division
<1> HIDE DEF chunk
<1>6. ~(s > chunk) /\ ~(n > chunk)
  BY <1>4, <1>5
<1>7. QED
  BY <1>6 DEF Allocated, chunk

\* One word: it ends the run, or the run goes on with the next word.
LEMMA OneWord ==
    ASSUME NEW o \in {Write, OverWrite}, NEW s \in Nat, NEW end \in Nat, s < end
    PROVE  /\ Run(o, s, end - s) \in Nat
           /\ ~RunsOn(o, s, end - s) => IsRun(o, s, s + Run(o, s, end - s), end)
           /\ RunsOn(o, s, end - s) =>
                 /\ Run(o, s, end - s) >= 1 /\ s + Run(o, s, end - s) < end
                 /\ \A e \in Nat : IsRun(o, s + Run(o, s, end - s), e, end) => IsRun(o, s, e, end)
<1> DEFINE start == s % CHUNK_SIZE
           n == FirstOther(o, s)
           left == end - s
           r == Run(o, s, left)
<1>1. start \in 0..CHUNK_SIZE - 1 /\ CHUNK_SIZE \in Nat \ {0} /\ left \in Nat \ {0}
  BY KreqAssumption, Division
<1>2. /\ n \in start..CHUNK_SIZE
      /\ \A b \in start..n - 1 : (b \in Get_Allocation_Flag(s)) = (o = OverWrite)
      /\ n < CHUNK_SIZE => (n \in Get_Allocation_Flag(s)) # (o = OverWrite)
  BY FirstOtherIsFirst
<1>3. r = IF n < start + left THEN n - start ELSE left
  BY DEF Run, Length
<1>4. RunsOn(o, s, left) <=> left > r /\ n = CHUNK_SIZE
  BY DEF RunsOn, Continues
<1>5. \A k \in Nat : start + k < CHUNK_SIZE => Allocated(s, s + k) = (start + k \in Get_Allocation_Flag(s))
  BY SameWord
<1>6. end = s + left
  OBVIOUS
<1> HIDE DEF start, n, left, r
<1>7. r \in Nat /\ r <= left /\ start + r <= n
  BY <1>1, <1>2, <1>3
<1>8. \A b \in s..s + r - 1 : OfKind(o, s, b)
  <2> TAKE b \in s..s + r - 1
  <2>1. PICK k \in Nat : b = s + k /\ k < r
    <3>1. b - s \in Nat /\ b = s + (b - s) /\ b - s < r
      BY <1>7
    <3>2. QED
      BY <3>1
  <2>2. start + k \in start..n - 1 /\ start + k < CHUNK_SIZE
    BY <1>1, <1>2, <1>7, <2>1
  <2>3. QED
    BY <1>2, <1>5, <2>1, <2>2 DEF OfKind
<1>9. ASSUME r < left, n < CHUNK_SIZE PROVE ~OfKind(o, s, s + r)
  <2>1. start + r = n
    BY <1>1, <1>2, <1>3, <1>9
  <2>2. Allocated(s, s + r) = (n \in Get_Allocation_Flag(s))
    BY <1>5, <1>7, <1>9, <2>1
  <2>3. QED
    BY <1>2, <1>9, <2>2 DEF OfKind
<1>10. ASSUME ~RunsOn(o, s, left) PROVE IsRun(o, s, s + r, end)
  <2>1. s + r \in s..end /\ (s + r < end => r < left)
    BY <1>1, <1>6, <1>7
  <2>2. s + r < end => n < CHUNK_SIZE
    BY <1>1, <1>2, <1>4, <1>7, <1>10, <2>1
  <2>3. s + r < end => ~OfKind(o, s, s + r)
    BY <1>9, <2>1, <2>2
  <2>4. s + r \in s..end
    BY <2>1
  <2>5. QED
    BY <1>7, <1>8, <2>3, <2>4 DEF IsRun
<1>11. ASSUME RunsOn(o, s, left)
       PROVE  /\ r >= 1 /\ s + r < end
              /\ \A e \in Nat : IsRun(o, s + r, e, end) => IsRun(o, s, e, end)
  <2>1. n = CHUNK_SIZE /\ r = CHUNK_SIZE - start /\ r < left
    BY <1>1, <1>2, <1>3, <1>4, <1>11
  <2>2. r >= 1 /\ s + r < end
    BY <1>1, <1>6, <2>1
  <2>3. s + r = s + CHUNK_SIZE - (s % CHUNK_SIZE) /\ s + r \in Nat
    BY <1>1, <1>7, <2>1 DEF start
  <2>4. \A b \in Nat : b >= s + r => (OfKind(o, s, b) <=> OfKind(o, s + r, b))
    BY <2>3, NextWord DEF OfKind
  <2>5. ASSUME NEW e \in Nat, IsRun(o, s + r, e, end) PROVE IsRun(o, s, e, end)
    <3>1. e \in s + r..end /\ e \in s..end
      BY <1>7, <2>5 DEF IsRun
    <3>2. \A b \in s..e - 1 : OfKind(o, s, b)
      <4> TAKE b \in s..e - 1
      <4>1. CASE b < s + r
        BY <1>7, <1>8, <4>1
      <4>2. CASE b >= s + r
        <5>1. b \in s + r..e - 1 /\ b \in Nat
          BY <1>7, <4>2
        <5>2. QED
          BY <2>4, <2>5, <4>2, <5>1 DEF IsRun
      <4>3. QED
        BY <1>7, <4>1, <4>2
    <3>3. e < end => ~OfKind(o, s, e)
      BY <1>7, <2>4, <2>5, <3>1 DEF IsRun
    <3>4. QED
      BY <3>1, <3>2, <3>3 DEF IsRun
  <2>6. QED
    BY <2>2, <2>5
<1>12. QED
  BY <1>7, <1>10, <1>11 DEF r, left

\* Nothing is left: the recursion ends.
LEMMA NoWord ==
    ASSUME NEW o \in {Write, OverWrite}, NEW s \in Nat, NEW end \in Nat, s >= end
    PROVE  Run(o, s, end - s) = end - s /\ ~RunsOn(o, s, end - s)
<1>1. s % CHUNK_SIZE \in 0..CHUNK_SIZE - 1 /\ CHUNK_SIZE \in Nat \ {0}
  BY KreqAssumption, Division
<1>2. FirstOther(o, s) \in s % CHUNK_SIZE..CHUNK_SIZE
  BY FirstOtherIsFirst
<1> DEFINE start == s % CHUNK_SIZE
           n == FirstOther(o, s)
<1>3. start \in Nat /\ n \in Nat /\ n >= start
  BY <1>1, <1>2
<1>4. Run(o, s, end - s) = IF n < start + (end - s) THEN n - start ELSE end - s
  BY DEF Run, Length
<1> HIDE DEF start, n
<1>5. Run(o, s, end - s) = end - s
  BY <1>3, <1>4
<1>6. QED
  BY <1>5 DEF RunsOn, Continues

\* A run from s has one end.
LEMMA RunIsUnique ==
    ASSUME NEW o, NEW s \in Nat, NEW end \in Nat, NEW e \in Nat, NEW f \in Nat,
           IsRun(o, s, e, end), IsRun(o, s, f, end)
    PROVE  e = f
<1>1. e < f => FALSE
  BY DEF IsRun
<1>2. f < e => FALSE
  BY DEF IsRun
<1>3. QED
  BY <1>1, <1>2

\* Every range starts with a run, which may be empty.
LEMMA RunExists ==
    ASSUME NEW o, NEW s \in Nat, NEW end \in Nat, s <= end
    PROVE  \E e \in Nat : IsRun(o, s, e, end)
<1> DEFINE T == {e \in s..end : e < end => ~OfKind(o, s, e)}
<1>1. end \in T /\ T \subseteq Nat
  OBVIOUS
<1>2. PICK e \in T : \A x \in T : e <= x
  <2> HIDE DEF T
  <2>1. QED
    BY <1>1, LeastNumber
<1>3. \A b \in s..e - 1 : b \in s..end /\ b < end /\ b \notin T
  BY <1>2
<1>4. \A b \in s..e - 1 : OfKind(o, s, b)
  BY <1>3
<1>5. QED
  BY <1>2, <1>4 DEF IsRun

\* The recursion has a solution, and every solution gives the run from s.
LEMMA RangeSolved ==
    ASSUME NEW o \in {Write, OverWrite}, NEW lbid \in Nat, NEW nr \in Nat
    PROVE  \E g : IsRange(g, o, lbid, nr)
<1> DEFINE end == lbid + nr
           RunEnd(s) == CHOOSE e \in Nat : IsRun(o, s, e, end)
           g == [s \in Nat |-> IF s < end THEN RunEnd(s) - s ELSE end - s]
<1>1. end \in Nat
  OBVIOUS
<1> HIDE DEF end
<1>2. \A s \in Nat : s < end => RunEnd(s) \in Nat /\ IsRun(o, s, RunEnd(s), end)
  BY <1>1, RunExists
<1> HIDE DEF RunEnd
<1>3. ASSUME NEW s \in Nat
      PROVE  g[s] = Run(o, s, end - s) + IF RunsOn(o, s, end - s) THEN g[s + Run(o, s, end - s)] ELSE 0
  <2> DEFINE r == Run(o, s, end - s)
  <2>1. CASE s >= end
    <3>1. r = end - s /\ ~RunsOn(o, s, end - s)
      BY <1>1, <2>1, NoWord
    <3>2. g[s] = end - s
      BY <1>1, <2>1
    <3> HIDE DEF g, r
    <3>3. QED
      BY <1>1, <3>1, <3>2 DEF r
  <2>2. CASE s < end /\ ~RunsOn(o, s, end - s)
    <3>1. r \in Nat /\ IsRun(o, s, s + r, end)
      BY <1>1, <2>2, OneWord
    <3> HIDE DEF r
    <3>2. RunEnd(s) = s + r
      BY <1>1, <1>2, <2>2, <3>1, RunIsUnique
    <3>3. g[s] = r
      BY <2>2, <3>1, <3>2
    <3> HIDE DEF g
    <3>4. QED
      BY <2>2, <3>1, <3>3 DEF r
  <2>3. CASE s < end /\ RunsOn(o, s, end - s)
    <3>1. /\ r \in Nat /\ r >= 1 /\ s + r < end
          /\ \A e \in Nat : IsRun(o, s + r, e, end) => IsRun(o, s, e, end)
      BY <1>1, <2>3, OneWord
    <3> HIDE DEF r
    <3>2. s + r \in Nat /\ RunEnd(s + r) \in Nat /\ RunEnd(s) \in Nat
          /\ IsRun(o, s, RunEnd(s + r), end) /\ IsRun(o, s, RunEnd(s), end)
      BY <1>2, <2>3, <3>1
    <3>3. RunEnd(s) = RunEnd(s + r)
      BY <1>1, <3>2, RunIsUnique
    <3>4. g[s] = RunEnd(s) - s /\ g[s + r] = RunEnd(s + r) - (s + r)
      BY <2>3, <3>1, <3>2
    <3> HIDE DEF g
    <3>5. g[s] = r + g[s + r]
      BY <3>1, <3>2, <3>3, <3>4
    <3>6. QED
      BY <2>3, <3>5 DEF r
  <2>4. QED
    BY <1>1, <2>1, <2>2, <2>3
<1>4. g = [s \in Nat |-> Run(o, s, end - s) + IF RunsOn(o, s, end - s) THEN g[s + Run(o, s, end - s)] ELSE 0]
  <2>1. g = [s \in Nat |-> g[s]]
    OBVIOUS
  <2> HIDE DEF g
  <2>2. QED
    BY <1>3, <2>1
<1> HIDE DEF g
<1>5. IsRange(g, o, lbid, nr)
  BY <1>4 DEF IsRange, Run, RunsOn, FirstOther, end
<1>6. QED
  BY <1>5

\* Were there a block from which a solution is not the run, take the last one.
LEMMA RangeIsRun ==
    ASSUME NEW o \in {Write, OverWrite}, NEW lbid \in Nat, NEW nr \in Nat,
           NEW f, IsRange(f, o, lbid, nr), NEW s \in Nat, s < lbid + nr
    PROVE  f[s] \in Nat /\ IsRun(o, s, s + f[s], lbid + nr)
<1> DEFINE end == lbid + nr
<1>1. end \in Nat /\ s < end
  OBVIOUS
<1>2. \A x \in Nat : f[x] = Run(o, x, end - x) + IF RunsOn(o, x, end - x) THEN f[x + Run(o, x, end - x)] ELSE 0
  BY DEF IsRange, Run, RunsOn, FirstOther
<1> HIDE DEF end
<1> DEFINE Good(x) == f[x] \in Nat /\ IsRun(o, x, x + f[x], end)
           T == {m \in Nat : \E x \in Nat : x < end /\ m = end - x /\ ~Good(x)}
<1>3. T = {}
  <2> SUFFICES ASSUME T # {} PROVE FALSE
    OBVIOUS
  <2>1. T \subseteq Nat
    OBVIOUS
  <2>2. PICK m \in T : \A y \in T : m <= y
    <3> HIDE DEF T
    <3>1. QED
      BY <2>1, LeastNumber
  <2>3. PICK x \in Nat : x < end /\ m = end - x /\ ~Good(x)
    OBVIOUS
  <2>4. \A y \in Nat : x < y /\ y < end => Good(y)
    <3> TAKE y \in Nat
    <3> HAVE x < y /\ y < end
    <3>1. end - y \in Nat /\ ~(m <= end - y)
      BY <1>1, <2>3
    <3>2. end - y \notin T
      BY <2>2, <3>1
    <3>3. QED
      BY <3>1, <3>2
  <2> DEFINE r == Run(o, x, end - x)
  <2> HIDE DEF T, Good
  <2>5. CASE ~RunsOn(o, x, end - x)
    <3>1. r \in Nat /\ IsRun(o, x, x + r, end)
      BY <1>1, <2>3, <2>5, OneWord
    <3>2. f[x] = r
      BY <1>2, <2>5, <3>1
    <3>3. QED
      BY <2>3, <3>1, <3>2 DEF Good
  <2>6. CASE RunsOn(o, x, end - x)
    <3>1. /\ r \in Nat /\ r >= 1 /\ x + r < end
          /\ \A e \in Nat : IsRun(o, x + r, e, end) => IsRun(o, x, e, end)
      BY <1>1, <2>3, <2>6, OneWord
    <3>2. f[x] = r + f[x + r]
      BY <1>2, <2>6
    <3> HIDE DEF r
    <3>3. Good(x + r)
      BY <2>4, <3>1
    <3>4. f[x] \in Nat /\ x + f[x] = (x + r) + f[x + r]
      BY <3>1, <3>2, <3>3 DEF Good
    <3>5. Good(x)
      BY <3>1, <3>3, <3>4 DEF Good
    <3>6. QED
      BY <2>3, <3>5
  <2>7. QED
    BY <2>5, <2>6
<1>4. Good(s)
  <2>1. end - s \in Nat
    BY <1>1
  <2>2. QED
    BY <1>1, <1>3, <2>1
<1>5. QED
  BY <1>4 DEF end

\* Get_Continuous_Range returns the length of the run from lbid.
LEMMA ContinuousRange ==
    ASSUME NEW o \in {Write, OverWrite}, NEW lbid \in Nat, NEW nr \in Nat \ {0}
    PROVE  /\ Get_Continuous_Range(o, lbid, nr) \in 0..nr
           /\ IsRun(o, lbid, lbid + Get_Continuous_Range(o, lbid, nr), lbid + nr)
<1>1. \E g : IsRange(g, o, lbid, nr)
  BY RangeSolved
<1>2. \E f : IsRange(f, o, lbid, nr) /\ Get_Continuous_Range(o, lbid, nr) = f[lbid]
  BY <1>1 DEF Get_Continuous_Range, IsRange
<1>3. PICK f : IsRange(f, o, lbid, nr) /\ Get_Continuous_Range(o, lbid, nr) = f[lbid]
  BY <1>2
<1>4. f[lbid] \in Nat /\ IsRun(o, lbid, lbid + f[lbid], lbid + nr)
  BY <1>3, RangeIsRun
<1>5. QED
  BY <1>3, <1>4 DEF IsRun

-----------------------------------------------------------------------------
(* Lists of blocks that follow each other.                                  *)

\* The list of n blocks from s.
Blocks(s, n) == [i \in 1..n |-> s + i - 1]

\* Its length and its elements.
LEMMA BlocksType ==
    ASSUME NEW s \in Nat, NEW n \in Nat
    PROVE  /\ Blocks(s, n) \in Seq(Nat) /\ Len(Blocks(s, n)) = n
           /\ \A i \in 1..n : Blocks(s, n)[i] = s + i - 1
<1>1. \A i \in 1..n : s + i - 1 \in Nat
  OBVIOUS
<1>2. Blocks(s, n) \in [1..n -> Nat] /\ \A i \in 1..n : Blocks(s, n)[i] = s + i - 1
  BY <1>1 DEF Blocks
<1> HIDE DEF Blocks
<1>3. QED
  BY <1>2

\* A sequence of numbers is known by its length and elements.
LEMMA IsBlocks ==
    ASSUME NEW s \in Nat, NEW n \in Nat, NEW q \in Seq(Nat), Len(q) = n,
           \A i \in 1..n : q[i] = s + i - 1
    PROVE  q = Blocks(s, n)
<1>1. Blocks(s, n) \in Seq(Nat) /\ Len(Blocks(s, n)) = n /\ \A i \in 1..n : Blocks(s, n)[i] = s + i - 1
  BY BlocksType
<1>2. QED
  BY <1>1, SeqEqual

\* The list without a block is empty.
LEMMA NoBlocks == ASSUME NEW s \in Nat PROVE Blocks(s, 0) = <<>>
<1>1. Blocks(s, 0) \in Seq(Nat) /\ Len(Blocks(s, 0)) = 0
  BY BlocksType
<1>2. QED
  BY <1>1, EmptySeq

\* One block more.
LEMMA AppendBlock ==
    ASSUME NEW s \in Nat, NEW n \in Nat
    PROVE  Append(Blocks(s, n), s + n) = Blocks(s, n + 1)
<1>1. Blocks(s, n) \in Seq(Nat) /\ Len(Blocks(s, n)) = n /\ \A i \in 1..n : Blocks(s, n)[i] = s + i - 1
  BY BlocksType
<1> DEFINE q == Append(Blocks(s, n), s + n)
<1>2. q \in Seq(Nat) /\ Len(q) = n + 1 /\ \A i \in 1..n + 1 : q[i] = s + i - 1
  BY <1>1
<1> HIDE DEF q
<1>3. q = Blocks(s, n + 1)
  BY <1>2, IsBlocks
<1>4. QED
  BY <1>3 DEF q

\* A part of the list is such a list.
LEMMA SubBlocks ==
    ASSUME NEW s \in Nat, NEW n \in Nat, NEW a \in 1..n + 1, NEW b \in a - 1..n
    PROVE  SubSeq(Blocks(s, n), a, b) = Blocks(s + a - 1, b - a + 1)
<1>1. Blocks(s, n) \in Seq(Nat) /\ Len(Blocks(s, n)) = n /\ \A i \in 1..n : Blocks(s, n)[i] = s + i - 1
  BY BlocksType
<1> DEFINE q == SubSeq(Blocks(s, n), a, b)
           m == b - a + 1
<1>2. m \in Nat
  OBVIOUS
<1>3. q \in Seq(Nat) /\ Len(q) = m /\ \A i \in 1..m : q[i] = Blocks(s, n)[a + i - 1]
  <2> DEFINE p == Blocks(s, n)
  <2>1. a \in Int /\ b \in Int /\ (\A i \in a..b : p[i] \in Nat)
    <3>1. \A i \in a..b : i \in 1..n
      OBVIOUS
    <3>2. \A i \in 1..n : p[i] \in Nat
      BY <1>1
    <3>3. QED
      BY <3>1, <3>2
  <2> HIDE DEF p
  <2>2. /\ SubSeq(p, a, b) \in Seq(Nat)
        /\ Len(SubSeq(p, a, b)) = IF a <= b THEN b - a + 1 ELSE 0
        /\ \A i \in 1..b - a + 1 : SubSeq(p, a, b)[i] = p[a + i - 1]
    BY <2>1, SubSeqProperties
  <2>3. QED
    BY <2>2 DEF p
<1>4. \A i \in 1..m : q[i] = (s + a - 1) + i - 1
  BY <1>1, <1>3
<1>5. s + a - 1 \in Nat
  OBVIOUS
<1> HIDE DEF q, m
<1>6. q = Blocks(s + a - 1, m)
  BY <1>2, <1>3, <1>4, <1>5, IsBlocks
<1>7. QED
  BY <1>6 DEF q, m

-----------------------------------------------------------------------------
(* The operations of the list on such lists.                                *)

\* The blocks of a bio are added in the order of their LBIDs: each goes to the end.
LEMMA AddAtEnd ==
    ASSUME NEW s \in Nat, NEW n \in Nat
    PROVE  Add_to_LogicalBlock_List_by_Insertion_Sort(Blocks(s, n), s + n) = Blocks(s, n + 1)
<1> DEFINE list == Blocks(s, n)
           lbid == s + n
           P(p) == (p = 0 \/ list[p] <= lbid) /\ (\A q \in p + 1..Len(list) : list[q] > lbid)
           pos == CHOOSE p \in 0..Len(list) : P(p)
<1>1. list \in Seq(Nat) /\ Len(list) = n /\ \A i \in 1..n : list[i] = s + i - 1
  BY BlocksType
<1>2. Add_to_LogicalBlock_List_by_Insertion_Sort(list, lbid) =
        IF pos > 0 /\ list[pos] = lbid THEN list ELSE SubSeq(list, 1, pos) \o <<lbid>> \o Behind(list, pos)
  BY DEF Add_to_LogicalBlock_List_by_Insertion_Sort
<1>3. SubSeq(list, 1, n) = list
  <2>1. SubSeq(list, 1, n) = Blocks(s + 1 - 1, n - 1 + 1)
    <3>1. 1 \in 1..n + 1 /\ n \in 1 - 1..n
      OBVIOUS
    <3> HIDE DEF list
    <3>2. QED
      BY <3>1, SubBlocks DEF list
  <2>2. s + 1 - 1 = s /\ n - 1 + 1 = n
    OBVIOUS
  <2>3. QED
    BY <2>1, <2>2
<1>4. Behind(list, n) = <<>>
  BY <1>1, SubSeqEmpty DEF Behind
<1>5. \A p \in 0..n : P(p) <=> p = n
  <2> TAKE p \in 0..n
  <2>1. P(n)
    BY <1>1
  <2>2. ASSUME p < n PROVE ~P(p)
    <3>1. n \in p + 1..n /\ ~(list[n] > lbid)
      BY <1>1, <2>2
    <3>2. QED
      BY <1>1, <3>1
  <2>3. QED
    BY <2>1, <2>2
<1> HIDE DEF P
<1>6. pos = n
  BY <1>1, <1>5
<1>7. list \o <<lbid>> = Append(list, lbid)
  BY <1>1
<1>8. n > 0 => list[n] # lbid
  BY <1>1
<1> HIDE DEF pos
<1>9. Add_to_LogicalBlock_List_by_Insertion_Sort(list, lbid) = list \o <<lbid>> \o <<>>
  BY <1>2, <1>3, <1>4, <1>6, <1>8
<1>10. list \o <<lbid>> \o <<>> = Append(list, lbid)
  BY <1>1, <1>7
<1>11. QED
  BY <1>9, <1>10, AppendBlock

\* The recursion of Generate_All_LogicalBlocks.
IsList(list, q) ==
    list = [j \in 0..q.nr_LBIDs |->
            IF j = 0 THEN Create_LogicalBlock_List
            ELSE Add_to_LogicalBlock_List_by_Insertion_Sort(list[j - 1], q.sLBID + j - 1)]

\* Generate_All_LogicalBlocks lists the blocks of the request.
LEMMA AllBlocks ==
    ASSUME NEW q, q.sLBID \in Nat, q.nr_LBIDs \in Nat
    PROVE  Generate_All_LogicalBlocks(q) = Blocks(q.sLBID, q.nr_LBIDs)
<1> DEFINE s == q.sLBID
           n == q.nr_LBIDs
           g == [j \in 0..n |-> Blocks(s, j)]
<1>1. Blocks(s, 0) = Create_LogicalBlock_List
  BY NoBlocks DEF Create_LogicalBlock_List
<1>2. \A j \in 1..n : Blocks(s, j) = Add_to_LogicalBlock_List_by_Insertion_Sort(Blocks(s, j - 1), s + j - 1)
  <2> TAKE j \in 1..n
  <2>1. j - 1 \in Nat /\ s + (j - 1) = s + j - 1 /\ (j - 1) + 1 = j
    OBVIOUS
  <2>2. QED
    BY <2>1, AddAtEnd
<1>3. IsList(g, q)
  <2>1. \A j \in 0..n : g[j] = IF j = 0 THEN Create_LogicalBlock_List
                               ELSE Add_to_LogicalBlock_List_by_Insertion_Sort(g[j - 1], s + j - 1)
    <3> TAKE j \in 0..n
    <3>1. CASE j = 0
      BY <1>1, <3>1
    <3>2. CASE j # 0
      <4>1. j \in 1..n /\ j - 1 \in 0..n
        BY <3>2
      <4>2. g[j - 1] = Blocks(s, j - 1) /\ g[j] = Blocks(s, j)
        BY <4>1
      <4> HIDE DEF g
      <4>3. QED
        BY <1>2, <3>2, <4>1, <4>2
    <3>3. QED
      BY <3>1, <3>2
  <2>2. g = [j \in 0..n |-> g[j]]
    OBVIOUS
  <2> HIDE DEF g
  <2>3. g = [j \in 0..n |-> IF j = 0 THEN Create_LogicalBlock_List
                               ELSE Add_to_LogicalBlock_List_by_Insertion_Sort(g[j - 1], s + j - 1)]
    BY <2>1, <2>2
  <2>4. QED
    BY <2>3 DEF IsList
<1> HIDE DEF g
<1>4. \E f : IsList(f, q) /\ Generate_All_LogicalBlocks(q) = f[n]
  BY <1>3 DEF Generate_All_LogicalBlocks, IsList
<1>5. PICK f : IsList(f, q) /\ Generate_All_LogicalBlocks(q) = f[n]
  BY <1>4
<1>6. \A j \in 0..n : f[j] = IF j = 0 THEN Create_LogicalBlock_List
                             ELSE Add_to_LogicalBlock_List_by_Insertion_Sort(f[j - 1], s + j - 1)
  BY <1>5 DEF IsList
<1> DEFINE S == {j \in Nat : j <= n => f[j] = Blocks(s, j)}
<1>7. 0 \in S
  BY <1>1, <1>6
<1>8. ASSUME NEW j \in Nat, j \in S PROVE j + 1 \in S
  <2>1. SUFFICES ASSUME j + 1 <= n PROVE f[j + 1] = Blocks(s, j + 1)
    OBVIOUS
  <2>2. f[j] = Blocks(s, j) /\ j + 1 \in 0..n /\ j + 1 # 0 /\ j + 1 \in 1..n /\ (j + 1) - 1 = j
    BY <1>8, <2>1
  <2>3. f[j + 1] = Add_to_LogicalBlock_List_by_Insertion_Sort(f[j], s + (j + 1) - 1)
    BY <1>6, <2>2
  <2>4. Blocks(s, j + 1) = Add_to_LogicalBlock_List_by_Insertion_Sort(Blocks(s, j), s + (j + 1) - 1)
    BY <1>2, <2>2
  <2>5. QED
    BY <2>2, <2>3, <2>4
<1>9. Nat \subseteq S
  <2> HIDE DEF S
  <2>1. QED
    BY <1>7, <1>8, SetInduction
<1>10. QED
  BY <1>5, <1>9

\* __Move_Sub_List takes the first blocks.
LEMMA FirstBlocks ==
    ASSUME NEW s \in Nat, NEW n \in Nat, NEW length \in 0..n
    PROVE  /\ Get_Next_DIO_Request_LB_List(Blocks(s, n), length).sub_list = Blocks(s, length)
           /\ length > 0 =>
                Get_Next_DIO_Request_LB_List(Blocks(s, n), length).remain = Blocks(s + length, n - length)
<1>1. Len(Blocks(s, n)) = n
  BY BlocksType
<1>2. SplitAt(Blocks(s, n), length) = length
  BY <1>1 DEF SplitAt
<1>3. SubSeq(Blocks(s, n), 1, length) = Blocks(s + 1 - 1, length - 1 + 1)
  <2>1. 1 \in 1..n + 1 /\ length \in 1 - 1..n
    OBVIOUS
  <2>2. QED
    BY <2>1, SubBlocks
<1>4. SubSeq(Blocks(s, n), length + 1, n) = Blocks(s + (length + 1) - 1, n - (length + 1) + 1)
  <2>1. length + 1 \in 1..n + 1 /\ n \in (length + 1) - 1..n
    OBVIOUS
  <2>2. QED
    BY <2>1, SubBlocks
<1>5. /\ s + 1 - 1 = s /\ length - 1 + 1 = length
      /\ s + (length + 1) - 1 = s + length /\ n - (length + 1) + 1 = n - length
  OBVIOUS
<1>6. QED
  BY <1>1, <1>2, <1>3, <1>4, <1>5 DEF Get_Next_DIO_Request_LB_List, Behind

-----------------------------------------------------------------------------
(* Commits of a range at the front or at the back of such a list.           *)

\* The recursions of Commit_LB_List_by_Range.
IsCount(i, list, slbid, nr_lbids) ==
    i = [k \in 0..Len(list) |-> IF k = 0 THEN 0 ELSE Step(i[k - 1], list[k], slbid, nr_lbids)]
CountOf(list, slbid, nr_lbids) ==
    LET i[k \in 0..Len(list)] == IF k = 0 THEN 0 ELSE Step(i[k - 1], list[k], slbid, nr_lbids)
    IN i
RestOf(i, list) ==
    LET rest[k \in 0..Len(list)] ==
            IF k = 0 THEN <<>>
            ELSE IF i[k] = i[k - 1] THEN Append(rest[k - 1], list[k]) ELSE rest[k - 1]
    IN rest[Len(list)]
IsRest(rest, i, list) ==
    rest = [k \in 0..Len(list) |->
            IF k = 0 THEN <<>>
            ELSE IF i[k] = i[k - 1] THEN Append(rest[k - 1], list[k]) ELSE rest[k - 1]]

\* g counts along the list, and h keeps blocks, like the walk does.
Counts(g, list, a, m) ==
    /\ g \in [0..Len(list) -> Nat] /\ g[0] = 0
    /\ \A k \in 1..Len(list) : g[k] = Step(g[k - 1], list[k], a, m)
Keeps(h, g, list) ==
    /\ h \in [0..Len(list) -> Seq(Nat)] /\ h[0] = <<>>
    /\ \A k \in 1..Len(list) :
          /\ g[k] = g[k - 1] => h[k] = Append(h[k - 1], list[k])
          /\ g[k] # g[k - 1] => h[k] = h[k - 1]

\* Two functions that start alike and go on alike are alike.
Alike(f, g, n) == f[0] = g[0] /\ \A k \in Nat : k + 1 <= n /\ f[k] = g[k] => f[k + 1] = g[k + 1]

LEMMA SameValues ==
    ASSUME NEW n \in Nat, NEW f, NEW g, Alike(f, g, n)
    PROVE  \A k \in 0..n : f[k] = g[k]
<1> DEFINE S == {k \in Nat : k <= n => f[k] = g[k]}
<1>1. 0 \in S
  BY DEF Alike
<1>2. ASSUME NEW k \in Nat, k \in S PROVE k + 1 \in S
  BY <1>2 DEF Alike
<1>3. Nat \subseteq S
  <2> HIDE DEF S
  <2>1. QED
    BY <1>1, <1>2, SetInduction
<1>4. QED
  BY <1>3

\* Whatever does so is the walk.
LEMMA WalkFollows ==
    ASSUME NEW list \in Seq(Nat), NEW a \in Nat, NEW m \in Nat, NEW g, NEW h,
           Counts(g, list, a, m), Keeps(h, g, list)
    PROVE  Commit_LB_List_by_Range(list, a, m) = h[Len(list)]
<1> DEFINE n == Len(list)
<1>1. n \in Nat /\ 0 \in 0..n /\ \A k \in 0..n : k = 0 \/ k \in 1..n
  OBVIOUS
<1>2. IsCount(g, list, a, m)
  <2> DEFINE e(k) == IF k = 0 THEN 0 ELSE Step(g[k - 1], list[k], a, m)
  <2>1. \A k \in 0..n : g[k] = e(k)
    BY <1>1 DEF Counts
  <2> HIDE DEF e
  <2>2. g = [k \in 0..n |-> e(k)]
    BY <2>1 DEF Counts
  <2>3. QED
    BY <2>2 DEF IsCount, e
<1>3. ASSUME NEW i, IsCount(i, list, a, m) PROVE i = g
  <2>1. /\ \A k \in 0..n : i[k] = IF k = 0 THEN 0 ELSE Step(i[k - 1], list[k], a, m)
        /\ i = [k \in 0..n |-> i[k]]
    BY <1>3 DEF IsCount
  <2>2. i[0] = g[0]
    BY <1>1, <2>1 DEF Counts
  <2>3. ASSUME NEW k \in Nat, k + 1 <= n, i[k] = g[k] PROVE i[k + 1] = g[k + 1]
    <3>1. k + 1 \in 0..n /\ k + 1 # 0 /\ k + 1 \in 1..n /\ (k + 1) - 1 = k
      BY <1>1, <2>3
    <3>2. i[k + 1] = Step(i[k], list[k + 1], a, m)
      BY <2>1, <3>1
    <3>3. g[k + 1] = Step(g[k], list[k + 1], a, m)
      BY <3>1 DEF Counts
    <3>4. QED
      BY <2>3, <3>2, <3>3
  <2>4. \A k \in 0..n : i[k] = g[k]
    <3>1. Alike(i, g, n)
      BY <2>2, <2>3 DEF Alike
    <3> HIDE DEF n
    <3>2. QED
      BY <1>1, <3>1, SameValues
  <2>5. QED
    BY <2>1, <2>4 DEF Counts
<1>4. IsRest(h, g, list)
  <2> DEFINE e(k) == IF k = 0 THEN <<>> ELSE IF g[k] = g[k - 1] THEN Append(h[k - 1], list[k]) ELSE h[k - 1]
  <2>1. \A k \in 0..n : h[k] = e(k)
    BY <1>1 DEF Keeps
  <2> HIDE DEF e
  <2>2. h = [k \in 0..n |-> e(k)]
    BY <2>1 DEF Keeps
  <2>3. QED
    BY <2>2 DEF IsRest, e
<1>5. ASSUME NEW rest, IsRest(rest, g, list) PROVE rest[n] = h[n]
  <2>1. \A k \in 0..n : rest[k] = IF k = 0 THEN <<>>
                                  ELSE IF g[k] = g[k - 1] THEN Append(rest[k - 1], list[k]) ELSE rest[k - 1]
    BY <1>5 DEF IsRest
  <2>2. rest[0] = h[0]
    BY <1>1, <2>1 DEF Keeps
  <2>3. ASSUME NEW k \in Nat, k + 1 <= n, rest[k] = h[k] PROVE rest[k + 1] = h[k + 1]
    <3>1. k + 1 \in 0..n /\ k + 1 # 0 /\ k + 1 \in 1..n /\ (k + 1) - 1 = k
      BY <1>1, <2>3
    <3>2. rest[k + 1] = IF g[k + 1] = g[k] THEN Append(rest[k], list[k + 1]) ELSE rest[k]
      BY <2>1, <3>1
    <3>3. /\ g[k + 1] = g[k] => h[k + 1] = Append(h[k], list[k + 1])
          /\ g[k + 1] # g[k] => h[k + 1] = h[k]
      BY <3>1 DEF Keeps
    <3>4. QED
      BY <2>3, <3>2, <3>3
  <2>4. \A k \in 0..n : rest[k] = h[k]
    <3>1. Alike(rest, h, n)
      BY <2>2, <2>3 DEF Alike
    <3> HIDE DEF n
    <3>2. QED
      BY <1>1, <3>1, SameValues
  <2>5. QED
    BY <1>1, <2>4
<1>6. Commit_LB_List_by_Range(list, a, m) = RestOf(CountOf(list, a, m), list)
  BY DEF Commit_LB_List_by_Range, CountOf, RestOf
<1>7. IsCount(CountOf(list, a, m), list, a, m)
  BY <1>2 DEF IsCount, CountOf
<1>8. \E rest : IsRest(rest, g, list) /\ RestOf(g, list) = rest[n]
  BY <1>4 DEF RestOf, IsRest
<1>9. QED
  BY <1>3, <1>5, <1>6, <1>7, <1>8

\* A range at the front.
LEMMA CommitFront ==
    ASSUME NEW s \in Nat, NEW n \in Nat, NEW m \in 1..n
    PROVE  Commit_LB_List_by_Range(Blocks(s, n), s, m) = Blocks(s + m, n - m)
<1> DEFINE list == Blocks(s, n)
           cnt(k) == IF k <= m THEN k ELSE m
           g == [k \in 0..n |-> cnt(k)]
           h == [k \in 0..n |-> Blocks(s + m, k - cnt(k))]
<1>1. list \in Seq(Nat) /\ Len(list) = n /\ \A k \in 1..n : list[k] = s + k - 1
  BY BlocksType
<1>2. m \in Nat /\ m >= 1 /\ s + m \in Nat /\ \A k \in 0..n : cnt(k) \in Nat /\ k - cnt(k) \in Nat
  OBVIOUS
<1>3. 0 \in 0..n /\ n \in 0..n /\ cnt(0) = 0 /\ cnt(n) = m
  BY <1>2
<1>4. /\ \A k \in 1..n : /\ k - 1 \in 0..n /\ k \in 0..n
                         /\ k <= m => cnt(k) = k /\ cnt(k - 1) = k - 1
                         /\ k > m => cnt(k) = m /\ cnt(k - 1) = m
  BY <1>2
<1> HIDE DEF cnt
<1>5. \A k \in 0..n : g[k] = cnt(k) /\ h[k] = Blocks(s + m, k - cnt(k))
  OBVIOUS
<1>6. g \in [0..n -> Nat] /\ h \in [0..n -> Seq(Nat)]
  BY <1>2, BlocksType
<1> HIDE DEF list, g, h
<1>7. Counts(g, list, s, m)
  <2>1. ASSUME NEW k \in 1..n PROVE g[k] = Step(g[k - 1], list[k], s, m)
    <3>1. list[k] = s + k - 1 /\ g[k] = cnt(k) /\ g[k - 1] = cnt(k - 1)
      BY <1>1, <1>4, <1>5
    <3>2. CASE k <= m
      <4>1. g[k] = k /\ g[k - 1] = k - 1 /\ list[k] = s + (k - 1) /\ k - 1 # m /\ (k - 1) + 1 = k
        BY <1>2, <1>4, <3>1, <3>2
      <4>2. QED
        BY <4>1 DEF Step, Last
    <3>3. CASE k > m
      BY <1>2, <1>4, <3>1, <3>3 DEF Step, Last
    <3>4. QED
      BY <1>2, <3>2, <3>3
  <2>2. QED
    BY <1>1, <1>3, <1>5, <1>6, <2>1 DEF Counts
<1>8. Keeps(h, g, list)
  <2>1. ASSUME NEW k \in 1..n
        PROVE  /\ g[k] = g[k - 1] => h[k] = Append(h[k - 1], list[k])
               /\ g[k] # g[k - 1] => h[k] = h[k - 1]
    <3>1. /\ list[k] = s + k - 1 /\ g[k] = cnt(k) /\ g[k - 1] = cnt(k - 1)
          /\ h[k] = Blocks(s + m, k - cnt(k)) /\ h[k - 1] = Blocks(s + m, (k - 1) - cnt(k - 1))
      BY <1>1, <1>4, <1>5
    <3>2. CASE k <= m
      <4>1. cnt(k) = k /\ cnt(k - 1) = k - 1 /\ k # k - 1 /\ k - k = 0 /\ (k - 1) - (k - 1) = 0
        BY <1>4, <3>2
      <4>2. QED
        BY <3>1, <4>1
    <3>3. CASE k > m
      <4>1. cnt(k) = m /\ cnt(k - 1) = m
        BY <1>4, <3>3
      <4>2. (k - 1) - m \in Nat /\ s + m + ((k - 1) - m) = list[k] /\ (k - 1) - m + 1 = k - m
        BY <1>2, <3>1, <3>3
      <4>3. Append(Blocks(s + m, (k - 1) - m), list[k]) = Blocks(s + m, k - m)
        BY <1>2, <4>2, AppendBlock
      <4>4. QED
        BY <3>1, <4>1, <4>3
    <3>4. QED
      BY <1>2, <3>2, <3>3
  <2>2. h[0] = <<>>
    <3>1. h[0] = Blocks(s + m, 0 - 0)
      BY <1>3, <1>5
    <3>2. QED
      BY <1>2, <3>1, NoBlocks
  <2>3. QED
    BY <1>1, <1>6, <2>1, <2>2 DEF Keeps
<1>9. Commit_LB_List_by_Range(list, s, m) = h[Len(list)]
  <2>1. list \in Seq(Nat) /\ m \in Nat
    BY <1>1, <1>2
  <2>2. QED
    BY <2>1, <1>7, <1>8, WalkFollows
<1>10. h[n] = Blocks(s + m, n - m)
  BY <1>3, <1>5
<1>11. QED
  BY <1>1, <1>9, <1>10 DEF list

\* A range at the back.
LEMMA CommitBack ==
    ASSUME NEW s \in Nat, NEW n \in Nat, NEW c \in 0..n
    PROVE  Commit_LB_List_by_Range(Blocks(s, n), s + c, n - c) = Blocks(s, c)
<1> DEFINE list == Blocks(s, n)
           m == n - c
           cnt(k) == IF k <= c THEN 0 ELSE k - c
           g == [k \in 0..n |-> cnt(k)]
           h == [k \in 0..n |-> Blocks(s, k - cnt(k))]
<1>1. list \in Seq(Nat) /\ Len(list) = n /\ \A k \in 1..n : list[k] = s + k - 1
  BY BlocksType
<1>2. c \in Nat /\ m \in Nat /\ c + m = n /\ s + c \in Nat
      /\ \A k \in 0..n : cnt(k) \in Nat /\ k - cnt(k) \in Nat
  OBVIOUS
<1>3. 0 \in 0..n /\ n \in 0..n /\ cnt(0) = 0 /\ n - cnt(n) = c
  BY <1>2
<1>4. /\ \A k \in 1..n : /\ k - 1 \in 0..n /\ k \in 0..n
                         /\ k <= c => cnt(k) = 0 /\ cnt(k - 1) = 0
                         /\ k > c => cnt(k) = k - c /\ cnt(k - 1) = k - 1 - c
  BY <1>2
<1> HIDE DEF cnt, m
<1>5. \A k \in 0..n : g[k] = cnt(k) /\ h[k] = Blocks(s, k - cnt(k))
  OBVIOUS
<1>6. g \in [0..n -> Nat] /\ h \in [0..n -> Seq(Nat)]
  BY <1>2, BlocksType
<1> HIDE DEF list, g, h
<1>7. Counts(g, list, s + c, m)
  <2>1. ASSUME NEW k \in 1..n PROVE g[k] = Step(g[k - 1], list[k], s + c, m)
    <3>1. list[k] = s + k - 1 /\ g[k] = cnt(k) /\ g[k - 1] = cnt(k - 1)
      BY <1>1, <1>4, <1>5
    <3>2. CASE k <= c
      BY <1>2, <1>4, <3>1, <3>2 DEF Step, Last
    <3>3. CASE k > c
      <4>1. /\ g[k] = k - c /\ g[k - 1] = k - 1 - c /\ list[k] = s + c + (k - 1 - c)
            /\ k - 1 - c # m /\ (k - 1 - c) + 1 = k - c
        BY <1>2, <1>4, <3>1, <3>3
      <4>2. QED
        BY <4>1 DEF Step, Last
    <3>4. QED
      BY <1>2, <3>2, <3>3
  <2>2. QED
    BY <1>1, <1>3, <1>5, <1>6, <2>1 DEF Counts
<1>8. Keeps(h, g, list)
  <2>1. ASSUME NEW k \in 1..n
        PROVE  /\ g[k] = g[k - 1] => h[k] = Append(h[k - 1], list[k])
               /\ g[k] # g[k - 1] => h[k] = h[k - 1]
    <3>1. /\ list[k] = s + k - 1 /\ g[k] = cnt(k) /\ g[k - 1] = cnt(k - 1)
          /\ h[k] = Blocks(s, k - cnt(k)) /\ h[k - 1] = Blocks(s, (k - 1) - cnt(k - 1))
      BY <1>1, <1>4, <1>5
    <3>2. CASE k <= c
      <4>1. cnt(k) = 0 /\ cnt(k - 1) = 0 /\ k - 0 = k /\ (k - 1) - 0 = k - 1
        BY <1>4, <3>2
      <4>2. k - 1 \in Nat /\ s + (k - 1) = list[k] /\ (k - 1) + 1 = k
        BY <3>1
      <4>3. Append(Blocks(s, k - 1), list[k]) = Blocks(s, k)
        BY <4>2, AppendBlock
      <4>4. QED
        BY <3>1, <4>1, <4>3
    <3>3. CASE k > c
      <4>1. cnt(k) = k - c /\ cnt(k - 1) = k - 1 - c
        BY <1>4, <3>3
      <4>2. k - c # k - 1 - c /\ k - (k - c) = c /\ (k - 1) - (k - 1 - c) = c
        BY <1>2
      <4>3. QED
        BY <3>1, <4>1, <4>2
    <3>4. QED
      BY <1>2, <3>2, <3>3
  <2>2. h[0] = <<>>
    BY <1>3, <1>5, NoBlocks
  <2>3. QED
    BY <1>1, <1>6, <2>1, <2>2 DEF Keeps
<1>9. Commit_LB_List_by_Range(list, s + c, m) = h[Len(list)]
  BY <1>1, <1>2, <1>7, <1>8, WalkFollows
<1>10. h[n] = Blocks(s, c)
  BY <1>3, <1>5
<1>11. QED
  BY <1>1, <1>9, <1>10 DEF list, m

-----------------------------------------------------------------------------
(* The invariant.                                                           *)

DioSet == [op : {Read, Write, OverWrite}, sLBID : Nat, nr_LBIDs : Nat, LB_list : Seq(Nat)]
End == kreq.sLBID + kreq.nr_LBIDs
EndOf(d) == d.sLBID + d.nr_LBIDs

Types ==
    /\ kreq \in Kreqs
    /\ op \in {Read, Write, OverWrite}
    /\ op = Read <=> kreq.rw = Read
    /\ sLBID \in Nat /\ nr_LBIDs \in 0..kreq.nr_LBIDs
    /\ phase \in {"make", "io", "fail", "end"}
    /\ lb_list \in Seq(Nat)
    /\ dios \in Seq(DioSet)
    /\ lrs \in Seq(SUBSET (Nat \X Nat)) /\ Len(lrs) = Len(dios)

\* The dios follow each other, from the start of the request ...
Chain ==
    \A d \in 1..Len(dios) :
        /\ dios[d].nr_LBIDs >= 1 /\ EndOf(dios[d]) <= End
        /\ dios[d].sLBID = IF d = 1 THEN kreq.sLBID ELSE EndOf(dios[d - 1])

\* ... to what is still to be cut, or to the end of the request.
Front ==
    /\ phase = "make" =>
        /\ nr_LBIDs >= 1 /\ sLBID + nr_LBIDs = End
        /\ lb_list = Blocks(sLBID, nr_LBIDs)
        /\ sLBID = IF dios = <<>> THEN kreq.sLBID ELSE EndOf(dios[Len(dios)])
    /\ phase # "make" => lb_list = <<>>
    /\ phase \in {"io", "end"} => dios # <<>> /\ EndOf(dios[Len(dios)]) = End
    /\ phase = "fail" => dios = <<>>

\* A dio of a write is a run of its kind.
Runs ==
    \A d \in 1..Len(dios) :
        dios[d].op # Read => IsRun(dios[d].op, dios[d].sLBID, EndOf(dios[d]), End)

\* What is left of a list is what is left of its located requests.
Whole(list, L) == \E s \in Nat, n \in Nat \ {0} : list = Blocks(s, n) /\ L = {<<s, n>>}
Halves(list, L) ==
    \E s \in Nat, n \in Nat : \E c \in 1..n - 1 : list = Blocks(s, n) /\ L = {<<s, c>>, <<s + c, n - c>>}
Left(list, L) == (list = <<>> /\ L = {}) \/ Whole(list, L) \/ Halves(list, L)

Lists ==
    /\ \A d \in 1..Len(dios) : Left(dios[d].LB_list, lrs[d])
    /\ phase = "make" =>
        \A d \in 1..Len(dios) : dios[d].LB_list = Blocks(dios[d].sLBID, dios[d].nr_LBIDs)
    /\ ended = {d \in 1..Len(dios) : lrs[d] = {}}

CutInv == Types /\ Chain /\ Front /\ Runs /\ Lists

-----------------------------------------------------------------------------
(* What is left of a list.                                                  *)

\* A list is empty when no located request is left.
LEMMA LeftType ==
    ASSUME NEW list, NEW L, Left(list, L)
    PROVE  list \in Seq(Nat) /\ (list = <<>> <=> L = {})
<1>1. CASE list = <<>> /\ L = {}
  BY <1>1
<1>2. ASSUME NEW s \in Nat, NEW n \in Nat \ {0}, list = Blocks(s, n)
      PROVE  list \in Seq(Nat) /\ list # <<>>
  <2>1. list \in Seq(Nat) /\ Len(list) = n
    BY <1>2, BlocksType
  <2>2. QED
    BY <2>1
<1>3. CASE Whole(list, L)
  BY <1>2, <1>3 DEF Whole
<1>4. CASE Halves(list, L)
  <2>1. PICK s \in Nat, n \in Nat : \E c \in 1..n - 1 : list = Blocks(s, n) /\ L = {<<s, c>>, <<s + c, n - c>>}
    BY <1>4 DEF Halves
  <2>2. n \in Nat \ {0} /\ L # {} /\ list = Blocks(s, n)
    BY <2>1
  <2>3. QED
    BY <1>2, <2>2
<1>5. QED
  BY <1>1, <1>3, <1>4 DEF Left

\* The namenode's located requests cover the dio.
LEMMA CutIsLeft ==
    ASSUME NEW s \in Nat, NEW n \in Nat \ {0}, NEW L \in LocatedRequests(s, n)
    PROVE  L \in SUBSET (Nat \X Nat) /\ L # {} /\ Left(Blocks(s, n), L)
<1>1. CASE L = {<<s, n>>}
  <2>1. Whole(Blocks(s, n), L)
    BY <1>1 DEF Whole
  <2>2. QED
    BY <1>1, <2>1 DEF Left
<1>2. ASSUME NEW c \in Cuts \cap 1..n - 1, L = {<<s, c>>, <<s + c, n - c>>}
      PROVE  L \in SUBSET (Nat \X Nat) /\ L # {} /\ Left(Blocks(s, n), L)
  <2>1. Halves(Blocks(s, n), L)
    BY <1>2 DEF Halves
  <2>2. c \in Nat /\ s + c \in Nat /\ n - c \in Nat
    OBVIOUS
  <2>3. QED
    BY <1>2, <2>1, <2>2 DEF Left
<1>3. QED
  BY <1>1, <1>2 DEF LocatedRequests

\* The commit of a located request takes its blocks, in whatever order they come.
LEMMA CommitLeaves ==
    ASSUME NEW list, NEW L, Left(list, L), NEW lr \in L
    PROVE  Left(Commit_LB_List_by_Range(list, lr[1], lr[2]), L \ {lr})
<1>1. L # {}
  OBVIOUS
<1>2. CASE Whole(list, L)
  <2>1. PICK s \in Nat, n \in Nat \ {0} : list = Blocks(s, n) /\ L = {<<s, n>>}
    BY <1>2 DEF Whole
  <2>2. lr[1] = s /\ lr[2] = n /\ L \ {lr} = {}
    BY <2>1
  <2>3. n \in Nat /\ n \in 1..n /\ n - n = 0 /\ s + n \in Nat
    OBVIOUS
  <2>4. Commit_LB_List_by_Range(list, s, n) = <<>>
    BY <2>1, <2>3, CommitFront, NoBlocks
  <2>5. QED
    BY <2>2, <2>4 DEF Left
<1>3. CASE Halves(list, L)
  <2>1. PICK s \in Nat, n \in Nat : \E c \in 1..n - 1 : list = Blocks(s, n) /\ L = {<<s, c>>, <<s + c, n - c>>}
    BY <1>3 DEF Halves
  <2>2. PICK c \in 1..n - 1 : list = Blocks(s, n) /\ L = {<<s, c>>, <<s + c, n - c>>}
    BY <2>1
  <2>3. c \in 1..n /\ c \in 0..n /\ c \in Nat \ {0} /\ n - c \in Nat \ {0} /\ s + c \in Nat /\ s # s + c
    OBVIOUS
  <2>4. CASE lr = <<s, c>>
    <3>1. L \ {lr} = {<<s + c, n - c>>} /\ lr[1] = s /\ lr[2] = c
      BY <2>2, <2>3, <2>4
    <3>2. Commit_LB_List_by_Range(list, s, c) = Blocks(s + c, n - c)
      BY <2>2, <2>3, CommitFront
    <3>3. Whole(Blocks(s + c, n - c), {<<s + c, n - c>>})
      BY <2>3 DEF Whole
    <3>4. QED
      BY <3>1, <3>2, <3>3 DEF Left
  <2>5. CASE lr = <<s + c, n - c>>
    <3>1. L \ {lr} = {<<s, c>>} /\ lr[1] = s + c /\ lr[2] = n - c
      BY <2>2, <2>3, <2>5
    <3>2. Commit_LB_List_by_Range(list, s + c, n - c) = Blocks(s, c)
      BY <2>2, <2>3, CommitBack
    <3>3. Whole(Blocks(s, c), {<<s, c>>})
      BY <2>3 DEF Whole
    <3>4. QED
      BY <3>1, <3>2, <3>3 DEF Left
  <2>6. QED
    BY <2>2, <2>4, <2>5
<1>4. QED
  BY <1>1, <1>2, <1>3 DEF Left

-----------------------------------------------------------------------------
(* The steps.                                                               *)

\* The invariant holds before the first cut.
LEMMA InitCut == Init => CutInv
<1> SUFFICES ASSUME Init PROVE CutInv
  OBVIOUS
<1>1. /\ kreq \in Kreqs /\ kreq.rw \in {Read, Write} /\ kreq.sLBID \in Nat /\ kreq.nr_LBIDs \in Nat \ {0}
      /\ op = kreq.rw /\ sLBID = kreq.sLBID /\ nr_LBIDs = kreq.nr_LBIDs
      /\ dios = <<>> /\ lrs = <<>> /\ phase = "make" /\ ended = {}
  BY KreqAssumption DEF Init
<1>2. lb_list = Blocks(sLBID, nr_LBIDs)
  BY <1>1, AllBlocks DEF Init
<1>3. lb_list \in Seq(Nat)
  BY <1>1, <1>2, BlocksType
<1>4. dios \in Seq(DioSet) /\ lrs \in Seq(SUBSET (Nat \X Nat)) /\ Len(dios) = 0 /\ Len(lrs) = 0
  BY <1>1
<1>5. Types
  BY <1>1, <1>3, <1>4 DEF Types
<1>6. Chain /\ Runs /\ Lists
  BY <1>1, <1>4 DEF Chain, Runs, Lists
<1>7. Front
  BY <1>1, <1>2 DEF Front, End
<1>8. QED
  BY <1>5, <1>6, <1>7 DEF CutInv

\* A new dio over the next blocks.
LEMMA AddedDIO ==
    ASSUME CutInv, phase = "make", NEW o \in {Read, Write, OverWrite}, NEW length \in 1..nr_LBIDs,
           Add_DIO(o, length, Blocks(sLBID, length)), UNCHANGED <<kreq, ended>>,
           o # Read => IsRun(o, sLBID, sLBID + length, End)
    PROVE  /\ dios' \in Seq(DioSet) /\ lrs' \in Seq(SUBSET (Nat \X Nat)) /\ Len(lrs') = Len(dios')
           /\ nr_LBIDs' = nr_LBIDs - length /\ phase' = IF nr_LBIDs' = 0 THEN "io" ELSE "make"
           /\ dios' # <<>> /\ EndOf(dios'[Len(dios')]) = sLBID + length
           /\ Chain' /\ Runs'
           /\ \A d \in 1..Len(dios') : /\ Left(dios'[d].LB_list, lrs'[d])
                                       /\ dios'[d].LB_list = Blocks(dios'[d].sLBID, dios'[d].nr_LBIDs)
           /\ ended' = {d \in 1..Len(dios') : lrs'[d] = {}}
<1> DEFINE dio == Create_DIO(o, sLBID, length, Blocks(sLBID, length))
           n == Len(dios)
<1>1. /\ sLBID \in Nat /\ nr_LBIDs \in Nat /\ length \in Nat \ {0} /\ length <= nr_LBIDs
      /\ dios \in Seq(DioSet) /\ lrs \in Seq(SUBSET (Nat \X Nat)) /\ Len(lrs) = n /\ n \in Nat
      /\ kreq.sLBID \in Nat /\ kreq.nr_LBIDs \in Nat
  BY KreqAssumption DEF CutInv, Types
<1>2. /\ dio \in DioSet /\ dio.op = o /\ dio.sLBID = sLBID /\ dio.nr_LBIDs = length
      /\ dio.LB_list = Blocks(sLBID, length)
  BY <1>1, BlocksType DEF DioSet, Create_DIO
<1> HIDE DEF dio
<1>3. PICK cut \in LocatedRequests(sLBID, length) : lrs' = Append(lrs, cut)
  BY DEF Add_DIO
<1>4. cut \in SUBSET (Nat \X Nat) /\ cut # {} /\ Left(Blocks(sLBID, length), cut)
  BY <1>1, <1>3, CutIsLeft
<1>5. dios' = Append(dios, dio) /\ nr_LBIDs' = nr_LBIDs - length /\ phase' = IF nr_LBIDs' = 0 THEN "io" ELSE "make"
  BY DEF Add_DIO, Taken, dio
<1>6. /\ dios' \in Seq(DioSet) /\ Len(dios') = n + 1 /\ dios'[n + 1] = dio
      /\ \A d \in 1..n : dios'[d] = dios[d]
  BY <1>1, <1>2, <1>5
<1>7. /\ lrs' \in Seq(SUBSET (Nat \X Nat)) /\ Len(lrs') = n + 1 /\ lrs'[n + 1] = cut
      /\ \A d \in 1..n : lrs'[d] = lrs[d]
  BY <1>1, <1>3, <1>4
<1>8. \A d \in 1..n + 1 : d \in 1..n \/ d = n + 1
  BY <1>1
<1>9. /\ sLBID + nr_LBIDs = End /\ End' = End
      /\ sLBID = IF n = 0 THEN kreq.sLBID ELSE EndOf(dios[n])
  BY <1>1 DEF CutInv, Front, End
<1>10. EndOf(dio) = sLBID + length /\ sLBID + length <= End /\ End \in Nat
  BY <1>1, <1>2, <1>9 DEF EndOf, End
<1>11. Chain'
  <2>1. ASSUME NEW d \in 1..n + 1
        PROVE  /\ dios'[d].nr_LBIDs >= 1 /\ EndOf(dios'[d]) <= End
               /\ dios'[d].sLBID = IF d = 1 THEN kreq.sLBID ELSE EndOf(dios'[d - 1])
    <3>1. CASE d \in 1..n
      <4>1. d # 1 => d - 1 \in 1..n
        BY <3>1
      <4>2. /\ dios[d].nr_LBIDs >= 1 /\ EndOf(dios[d]) <= End
            /\ dios[d].sLBID = IF d = 1 THEN kreq.sLBID ELSE EndOf(dios[d - 1])
        BY <3>1 DEF CutInv, Chain
      <4>3. QED
        BY <1>6, <3>1, <4>1, <4>2
    <3>2. CASE d = n + 1
      <4>1. d = 1 => n = 0
        BY <1>1, <3>2
      <4>2. d # 1 => d - 1 = n /\ n \in 1..n /\ n # 0
        BY <1>1, <3>2
      <4>3. dios'[d].nr_LBIDs >= 1 /\ EndOf(dios'[d]) <= End
        BY <1>1, <1>2, <1>6, <1>10, <3>2
      <4>4. QED
        BY <1>2, <1>6, <1>9, <3>2, <4>1, <4>2, <4>3
    <3>3. QED
      BY <1>8, <3>1, <3>2
  <2>2. \A d \in 1..n + 1 :
            /\ dios'[d].nr_LBIDs >= 1 /\ EndOf(dios'[d]) <= End'
            /\ dios'[d].sLBID = IF d = 1 THEN kreq'.sLBID ELSE EndOf(dios'[d - 1])
    BY <1>9, <2>1
  <2>3. QED
    BY <1>6, <2>2 DEF Chain, EndOf
<1>12. Runs'
  <2>1. \A d \in 1..n + 1 :
            dios'[d].op # Read => IsRun(dios'[d].op, dios'[d].sLBID, EndOf(dios'[d]), End)
    <3>1. \A d \in 1..n : dios[d].op # Read => IsRun(dios[d].op, dios[d].sLBID, EndOf(dios[d]), End)
      BY DEF CutInv, Runs
    <3>2. dio.op # Read => IsRun(dio.op, dio.sLBID, EndOf(dio), End)
      BY <1>2, <1>10
    <3>3. QED
      BY <1>6, <1>8, <3>1, <3>2
  <2>2. \A d \in 1..n + 1 :
            dios'[d].op # Read => IsRun(dios'[d].op, dios'[d].sLBID, EndOf(dios'[d]), End')
    BY <1>9, <2>1
  <2>3. QED
    BY <1>6, <2>2 DEF Runs, EndOf, IsRun, OfKind, Allocated
<1>13. \A d \in 1..n + 1 : /\ Left(dios'[d].LB_list, lrs'[d])
                           /\ dios'[d].LB_list = Blocks(dios'[d].sLBID, dios'[d].nr_LBIDs)
  <2>1. \A d \in 1..n : /\ Left(dios[d].LB_list, lrs[d])
                        /\ dios[d].LB_list = Blocks(dios[d].sLBID, dios[d].nr_LBIDs)
    BY DEF CutInv, Lists
  <2>2. Left(dio.LB_list, cut) /\ dio.LB_list = Blocks(dio.sLBID, dio.nr_LBIDs)
    BY <1>2, <1>4
  <2>3. QED
    BY <1>6, <1>7, <1>8, <2>1, <2>2
<1>14. ended' = {d \in 1..n + 1 : lrs'[d] = {}}
  <2>1. ended = {d \in 1..n : lrs[d] = {}}
    BY DEF CutInv, Lists
  <2>2. {d \in 1..n + 1 : lrs'[d] = {}} = {d \in 1..n : lrs[d] = {}}
    <3>1. \A d \in 1..n : d \in 1..n + 1
      BY <1>1
    <3>2. QED
      BY <1>4, <1>7, <1>8, <3>1
  <2>3. QED
    BY <2>1, <2>2
<1>15. dios' # <<>> /\ EndOf(dios'[Len(dios')]) = sLBID + length
  BY <1>1, <1>6, <1>10
<1>16. QED
  BY <1>5, <1>6, <1>7, <1>11, <1>12, <1>13, <1>14, <1>15

\* A dio is made, and lb_list keeps the blocks behind it.
LEMMA AddedDIOKeeps ==
    ASSUME CutInv, phase = "make", NEW o \in {Read, Write, OverWrite}, NEW length \in 1..nr_LBIDs,
           Add_DIO(o, length, Blocks(sLBID, length)), UNCHANGED <<kreq, ended>>,
           o # Read => IsRun(o, sLBID, sLBID + length, End),
           op' = o, o = Read <=> op = Read,
           IF length = nr_LBIDs THEN lb_list' = <<>> /\ sLBID' \in {sLBID, sLBID + length}
           ELSE lb_list' = Blocks(sLBID + length, nr_LBIDs - length) /\ sLBID' = sLBID + length
    PROVE  CutInv'
<1>1. /\ dios' \in Seq(DioSet) /\ lrs' \in Seq(SUBSET (Nat \X Nat)) /\ Len(lrs') = Len(dios')
      /\ nr_LBIDs' = nr_LBIDs - length /\ phase' = IF nr_LBIDs' = 0 THEN "io" ELSE "make"
      /\ dios' # <<>> /\ EndOf(dios'[Len(dios')]) = sLBID + length
      /\ Chain' /\ Runs'
      /\ \A d \in 1..Len(dios') : /\ Left(dios'[d].LB_list, lrs'[d])
                                  /\ dios'[d].LB_list = Blocks(dios'[d].sLBID, dios'[d].nr_LBIDs)
      /\ ended' = {d \in 1..Len(dios') : lrs'[d] = {}}
  BY AddedDIO
<1>2. /\ sLBID \in Nat /\ nr_LBIDs \in 0..kreq.nr_LBIDs /\ length \in Nat \ {0} /\ length <= nr_LBIDs
      /\ kreq \in Kreqs /\ kreq.sLBID \in Nat /\ kreq.nr_LBIDs \in Nat /\ (op = Read <=> kreq.rw = Read)
  BY KreqAssumption DEF CutInv, Types
<1>3. sLBID + nr_LBIDs = End /\ End' = End
  BY DEF CutInv, Front, End
<1>4. nr_LBIDs' \in Nat /\ nr_LBIDs' <= kreq.nr_LBIDs /\ (nr_LBIDs' = 0 <=> length = nr_LBIDs)
  BY <1>1, <1>2
<1>5. lb_list' \in Seq(Nat) /\ sLBID' \in Nat
  <2>1. CASE length = nr_LBIDs
    BY <1>2, <2>1
  <2>2. CASE length # nr_LBIDs
    <3>1. sLBID + length \in Nat /\ nr_LBIDs - length \in Nat
      BY <1>2
    <3>2. QED
      BY <2>2, <3>1, BlocksType
  <2>3. QED
    BY <2>1, <2>2
<1>6. Types'
  BY <1>1, <1>2, <1>4, <1>5 DEF Types
<1>7. Lists'
  BY <1>1 DEF Lists
<1>8. Front'
  <2>1. CASE length = nr_LBIDs
    <3>1. phase' = "io" /\ lb_list' = <<>>
      BY <1>1, <1>4, <2>1
    <3>2. EndOf(dios'[Len(dios')]) = End'
      BY <1>1, <1>3, <2>1
    <3>3. QED
      BY <1>1, <3>1, <3>2 DEF Front, EndOf
  <2>2. CASE length # nr_LBIDs
    <3>1. /\ phase' = "make" /\ lb_list' = Blocks(sLBID', nr_LBIDs') /\ sLBID' = sLBID + length
          /\ nr_LBIDs' >= 1
      BY <1>1, <1>2, <1>4, <2>2
    <3>2. sLBID' + nr_LBIDs' = End'
      BY <1>1, <1>2, <1>3, <3>1
    <3>3. sLBID' = EndOf(dios'[Len(dios')])
      BY <1>1, <3>1
    <3>4. QED
      BY <1>1, <3>1, <3>2, <3>3 DEF Front, EndOf
  <2>3. QED
    BY <2>1, <2>2
<1>9. QED
  BY <1>1, <1>6, <1>7, <1>8 DEF CutInv

\* A read is one dio.
LEMMA ReadKeeps == ASSUME CutInv, Make_Read_DIO PROVE CutInv'
<1>1. /\ phase = "make" /\ op = Read /\ Add_DIO(op, nr_LBIDs, lb_list) /\ lb_list' = <<>>
      /\ UNCHANGED <<kreq, op, sLBID, ended>>
  BY DEF Make_Read_DIO
<1>2. lb_list = Blocks(sLBID, nr_LBIDs) /\ nr_LBIDs >= 1 /\ nr_LBIDs \in Nat
  BY <1>1, KreqAssumption DEF CutInv, Types, Front
<1>3. nr_LBIDs \in 1..nr_LBIDs
  BY <1>2
<1>4. Add_DIO(Read, nr_LBIDs, Blocks(sLBID, nr_LBIDs))
  BY <1>1, <1>2
<1>5. QED
  BY <1>1, <1>3, <1>4, AddedDIOKeeps

\* A write takes the next run, or fails if there is none.
LEMMA WriteKeeps == ASSUME CutInv, Make_Write_DIO PROVE CutInv'
<1> DEFINE length(o) == Get_Continuous_Range(o, sLBID, nr_LBIDs)
           split(o) == IF length(o) = nr_LBIDs THEN [sub_list |-> lb_list, remain |-> <<>>]
                       ELSE Get_Next_DIO_Request_LB_List(lb_list, length(o))
<1>1. PICK o \in Ops(sLBID) :
        /\ op' = o
        /\ IF split(o).sub_list # <<>>
           THEN /\ Add_DIO(o, length(o), split(o).sub_list)
                /\ lb_list' = split(o).remain
                /\ sLBID' = sLBID + length(o)
           ELSE /\ phase' = "fail"
                /\ dios' = <<>> /\ lrs' = <<>> /\ lb_list' = <<>>
                /\ UNCHANGED <<sLBID, nr_LBIDs>>
  BY DEF Make_Write_DIO
<1>2. phase = "make" /\ op # Read /\ UNCHANGED <<kreq, ended>>
  BY DEF Make_Write_DIO
<1>3. o \in {Write, OverWrite} /\ o # Read
  BY DEF Ops, Read, Write, OverWrite
<1>4. /\ sLBID \in Nat /\ nr_LBIDs \in Nat \ {0} /\ lb_list = Blocks(sLBID, nr_LBIDs)
      /\ sLBID + nr_LBIDs = End /\ lb_list \in Seq(Nat)
  BY <1>2, KreqAssumption DEF CutInv, Types, Front
<1>5. length(o) \in 0..nr_LBIDs /\ IsRun(o, sLBID, sLBID + length(o), End)
  BY <1>3, <1>4, ContinuousRange
<1>6. PICK m \in 0..nr_LBIDs : m = length(o)
  BY <1>5
<1>7. split(o).sub_list = Blocks(sLBID, m) /\
        (m > 0 => split(o).remain = IF m = nr_LBIDs THEN <<>> ELSE Blocks(sLBID + m, nr_LBIDs - m))
  <2>1. CASE m = nr_LBIDs
    BY <1>4, <1>6, <2>1
  <2>2. CASE m # nr_LBIDs
    BY <1>4, <1>6, <2>2, FirstBlocks
  <2>3. QED
    BY <2>1, <2>2
<1>8. PICK sub, remain : sub = split(o).sub_list /\ remain = split(o).remain
  OBVIOUS
<1> HIDE DEF split, length
<1>9. CASE sub # <<>>
  <2>1. m # 0
    BY <1>4, <1>7, <1>8, <1>9, NoBlocks
  <2>2. m \in 1..nr_LBIDs
    BY <1>4, <1>6, <2>1
  <2>3. Add_DIO(o, m, Blocks(sLBID, m)) /\ sLBID' = sLBID + m /\ op' = o
    BY <1>1, <1>6, <1>7, <1>8, <1>9
  <2>4. lb_list' = IF m = nr_LBIDs THEN <<>> ELSE Blocks(sLBID + m, nr_LBIDs - m)
    BY <1>1, <1>7, <1>8, <1>9, <2>2
  <2>5. IsRun(o, sLBID, sLBID + m, End)
    BY <1>5, <1>6
  <2>6. QED
    BY <1>2, <1>3, <2>2, <2>3, <2>4, <2>5, AddedDIOKeeps
<1>10. CASE sub = <<>>
  <2>1. phase' = "fail" /\ dios' = <<>> /\ lrs' = <<>> /\ lb_list' = <<>> /\ op' = o
        /\ UNCHANGED <<sLBID, nr_LBIDs, kreq, ended>>
    BY <1>1, <1>2, <1>8, <1>10
  <2>2. dios' \in Seq(DioSet) /\ lrs' \in Seq(SUBSET (Nat \X Nat)) /\ lb_list' \in Seq(Nat)
        /\ Len(dios') = 0 /\ Len(lrs') = 0
    BY <2>1
  <2>3. Types'
    BY <1>2, <1>3, <2>1, <2>2 DEF CutInv, Types
  <2>4. Chain' /\ Runs'
    BY <2>2 DEF Chain, Runs
  <2>5. Front'
    BY <2>1 DEF Front
  <2>6. ended = {}
    <3>1. \A d \in 1..Len(dios) : lrs[d] # {}
      <4>1. \A d \in 1..Len(dios) : Left(dios[d].LB_list, lrs[d]) /\ dios[d].nr_LBIDs >= 1
              /\ dios[d].LB_list = Blocks(dios[d].sLBID, dios[d].nr_LBIDs) /\ dios[d] \in DioSet
        BY <1>2 DEF CutInv, Lists, Chain, Types
      <4>2. ASSUME NEW d \in 1..Len(dios) PROVE lrs[d] # {}
        <5>1. PICK s \in Nat, k \in Nat : s = dios[d].sLBID /\ k = dios[d].nr_LBIDs
          BY <4>1 DEF DioSet
        <5>2. k >= 1 /\ dios[d].LB_list = Blocks(s, k)
          BY <4>1, <5>1
        <5>3. Len(Blocks(s, k)) = k
          BY BlocksType
        <5>4. dios[d].LB_list # <<>>
          BY <5>2, <5>3
        <5>5. QED
          BY <4>1, <5>4, LeftType
      <4>3. QED
        BY <4>2
    <3>2. QED
      BY <3>1 DEF CutInv, Lists
  <2>7. Lists'
    BY <2>1, <2>2, <2>6 DEF Lists
  <2>8. QED
    BY <2>3, <2>4, <2>5, <2>7 DEF CutInv
<1>11. QED
  BY <1>9, <1>10

\* A commit takes the blocks of its located request, and maybe the dio, away.
LEMMA CommitKeeps ==
    ASSUME CutInv, NEW d \in DOMAIN dios, NEW lr \in lrs[d], Commit_LB_to_DMS_IO(d, lr)
    PROVE  CutInv'
<1> DEFINE n == Len(dios)
<1>1. PICK list : list = Commit_LB_List_by_Range(dios[d].LB_list, lr[1], lr[2])
  OBVIOUS
<1>2. /\ phase = "io" /\ d \notin ended
      /\ lrs' = [lrs EXCEPT ![d] = @ \ {lr}]
      /\ dios' = [dios EXCEPT ![d].LB_list = list]
      /\ ended' = IF list = <<>> THEN ended \cup {d} ELSE ended
      /\ phase' = IF ended' = DOMAIN dios THEN "end" ELSE phase
      /\ UNCHANGED <<kreq, op, sLBID, nr_LBIDs, lb_list>>
  BY <1>1 DEF Commit_LB_to_DMS_IO
<1>3. dios \in Seq(DioSet) /\ lrs \in Seq(SUBSET (Nat \X Nat)) /\ Len(lrs) = n /\ n \in Nat /\ d \in 1..n
  BY DEF CutInv, Types
<1>4. Left(list, lrs[d] \ {lr})
  <2>1. Left(dios[d].LB_list, lrs[d])
    BY <1>3 DEF CutInv, Lists
  <2>2. QED
    BY <1>1, <2>1, CommitLeaves
<1>5. list \in Seq(Nat) /\ (list = <<>> <=> lrs[d] \ {lr} = {})
  BY <1>4, LeftType
<1>6. PICK dio : dio = [dios[d] EXCEPT !.LB_list = list]
  OBVIOUS
<1>7. dio \in DioSet /\ dio.op = dios[d].op /\ dio.sLBID = dios[d].sLBID /\ dio.nr_LBIDs = dios[d].nr_LBIDs
      /\ dio.LB_list = list
  <2>1. dios[d] \in DioSet
    BY <1>3
  <2>2. QED
    BY <1>5, <1>6, <2>1 DEF DioSet
<1>8. dios' = [dios EXCEPT ![d] = dio]
  BY <1>2, <1>6
<1>9. /\ dios' \in Seq(DioSet) /\ Len(dios') = n
      /\ \A i \in 1..n : dios'[i] = IF i = d THEN dio ELSE dios[i]
  BY <1>3, <1>7, <1>8
<1>10. /\ lrs' \in Seq(SUBSET (Nat \X Nat)) /\ Len(lrs') = n
       /\ \A i \in 1..n : lrs'[i] = IF i = d THEN lrs[d] \ {lr} ELSE lrs[i]
  <2>1. lrs[d] \ {lr} \in SUBSET (Nat \X Nat)
    BY <1>3
  <2>2. QED
    BY <1>2, <1>3, <2>1
<1>11. \A i \in 1..n : /\ dios'[i].op = dios[i].op /\ dios'[i].sLBID = dios[i].sLBID
                       /\ dios'[i].nr_LBIDs = dios[i].nr_LBIDs /\ EndOf(dios'[i]) = EndOf(dios[i])
                       /\ Left(dios'[i].LB_list, lrs'[i])
  <2> TAKE i \in 1..n
  <2>1. CASE i = d
    BY <1>4, <1>7, <1>9, <1>10, <2>1 DEF EndOf
  <2>2. CASE i # d
    BY <1>9, <1>10, <2>2 DEF EndOf, CutInv, Lists
  <2>3. QED
    BY <2>1, <2>2
<1>12. phase' \in {"io", "end"} /\ End' = End
  BY <1>2 DEF End
<1>13. Types'
  BY <1>2, <1>9, <1>10, <1>12 DEF CutInv, Types
<1>14. Chain'
  <2>1. \A i \in 1..n : i # 1 => i - 1 \in 1..n
    BY <1>3
  <2>2. \A i \in 1..n :
        /\ dios[i].nr_LBIDs >= 1 /\ EndOf(dios[i]) <= End
        /\ dios[i].sLBID = IF i = 1 THEN kreq.sLBID ELSE EndOf(dios[i - 1])
    BY DEF CutInv, Chain
  <2>3. \A i \in 1..n :
        /\ dios'[i].nr_LBIDs >= 1 /\ EndOf(dios'[i]) <= End'
        /\ dios'[i].sLBID = IF i = 1 THEN kreq'.sLBID ELSE EndOf(dios'[i - 1])
    BY <1>2, <1>11, <1>12, <2>1, <2>2
  <2>4. QED
    BY <1>9, <2>3 DEF Chain, EndOf
<1>15. Runs'
  <2>1. \A i \in 1..n : dios[i].op # Read => IsRun(dios[i].op, dios[i].sLBID, EndOf(dios[i]), End)
    BY DEF CutInv, Runs
  <2>2. \A i \in 1..n : dios'[i].op # Read => IsRun(dios'[i].op, dios'[i].sLBID, EndOf(dios'[i]), End')
    BY <1>11, <1>12, <2>1
  <2>3. QED
    BY <1>9, <2>2 DEF Runs, EndOf, IsRun, OfKind, Allocated
<1>16. Front'
  <2>1. dios # <<>> /\ EndOf(dios[n]) = End /\ lb_list = <<>>
    BY <1>2 DEF CutInv, Front
  <2>2. n \in 1..n
    BY <1>3
  <2>3. EndOf(dios'[Len(dios')]) = End' /\ lb_list' = <<>> /\ dios' # <<>>
    <3>1. EndOf(dios'[n]) = EndOf(dios[n])
      BY <1>11, <2>2
    <3>2. n # 0 /\ dios' # <<>>
      BY <1>3, <1>9
    <3>3. QED
      BY <1>2, <1>9, <1>12, <2>1, <3>1, <3>2
  <2>4. QED
    BY <1>12, <2>3 DEF Front, EndOf
<1>17. Lists'
  <2>1. ended = {i \in 1..n : lrs[i] = {}}
    BY DEF CutInv, Lists
  <2>2. ended' = {i \in 1..n : lrs'[i] = {}}
    BY <1>2, <1>3, <1>5, <1>10, <2>1
  <2>3. phase' # "make"
    BY <1>12
  <2>4. QED
    BY <1>9, <1>11, <2>2, <2>3 DEF Lists
<1>18. QED
  BY <1>13, <1>14, <1>15, <1>16, <1>17 DEF CutInv

\* The invariant is inductive ...
LEMMA NextKeeps == ASSUME CutInv, [Next]_vars PROVE CutInv'
<1>1. CASE Make_Read_DIO
  BY <1>1, ReadKeeps
<1>2. CASE Make_Write_DIO
  BY <1>2, WriteKeeps
<1>3. CASE \E d \in DOMAIN dios : \E lr \in lrs[d] : Commit_LB_to_DMS_IO(d, lr)
  BY <1>3, CommitKeeps
<1>4. CASE UNCHANGED vars
  BY <1>4 DEF vars, CutInv, Types, Chain, Front, Runs, Lists, End, EndOf, IsRun, OfKind, Allocated
<1>5. QED
  BY <1>1, <1>2, <1>3, <1>4 DEF Next

-----------------------------------------------------------------------------
(* The theorems.                                                            *)

\* Lists of blocks that follow each other are sorted and hold the range.
LEMMA SortedBlocks ==
    ASSUME NEW s \in Nat, NEW n \in Nat
    PROVE  Sorted(Blocks(s, n)) /\ Elements(Blocks(s, n)) = LBIDs(s, n)
<1>1. Blocks(s, n) \in Seq(Nat) /\ Len(Blocks(s, n)) = n /\ \A i \in 1..n : Blocks(s, n)[i] = s + i - 1
  BY BlocksType
<1>2. DOMAIN Blocks(s, n) = 1..n
  BY <1>1
<1>3. Sorted(Blocks(s, n))
  BY <1>1, <1>2 DEF Sorted
<1>4. \A b \in s..s + n - 1 : \E i \in 1..n : s + i - 1 = b
  <2> TAKE b \in s..s + n - 1
  <2>1. b - s + 1 \in 1..n /\ s + (b - s + 1) - 1 = b
    OBVIOUS
  <2>2. QED
    BY <2>1
<1>5. \A i \in 1..n : s + i - 1 \in s..s + n - 1
  OBVIOUS
<1>6. Elements(Blocks(s, n)) = {s + i - 1 : i \in 1..n}
  BY <1>1, <1>2 DEF Elements
<1>7. QED
  BY <1>3, <1>4, <1>5, <1>6 DEF LBIDs

\* What is left of a list is sorted.
LEMMA SortedLeft == ASSUME NEW list, NEW L, Left(list, L) PROVE Sorted(list)
<1>1. CASE list = <<>>
  BY <1>1 DEF Sorted
<1>2. CASE Whole(list, L) \/ Halves(list, L)
  BY <1>2, SortedBlocks DEF Whole, Halves
<1>3. QED
  BY <1>1, <1>2 DEF Left

\* All lists are sorted.
LEMMA AllSorted ==
    ASSUME CutInv
    PROVE  \A list \in {lb_list} \cup {dios[d].LB_list : d \in DOMAIN dios} : Sorted(list)
<1>1. DOMAIN dios = 1..Len(dios)
  BY DEF CutInv, Types
<1>2. \A d \in DOMAIN dios : Sorted(dios[d].LB_list)
  BY <1>1, SortedLeft DEF CutInv, Lists
<1>3. Sorted(lb_list)
  <2>1. CASE phase = "make"
    BY <2>1, KreqAssumption, SortedBlocks DEF CutInv, Types, Front
  <2>2. CASE phase # "make"
    BY <2>2 DEF CutInv, Front, Sorted
  <2>3. QED
    BY <2>1, <2>2
<1>4. QED
  BY <1>2, <1>3

\* ... and implies the three properties.
LEMMA Partition == CutInv => DiosPartitionRequest
<1> SUFFICES ASSUME CutInv PROVE DiosPartitionRequest
  OBVIOUS
<1>1. dios \in Seq(DioSet) /\ DOMAIN dios = 1..Len(dios)
  BY DEF CutInv, Types
<1>2. ASSUME phase = "make"
      PROVE  /\ Elements(lb_list) = LBIDs(sLBID, nr_LBIDs)
             /\ \A d \in DOMAIN dios :
                   Elements(dios[d].LB_list) = LBIDs(dios[d].sLBID, dios[d].nr_LBIDs)
  <2>1. Elements(lb_list) = LBIDs(sLBID, nr_LBIDs)
    BY <1>2, KreqAssumption, SortedBlocks DEF CutInv, Types, Front
  <2>2. \A d \in 1..Len(dios) : /\ dios[d].LB_list = Blocks(dios[d].sLBID, dios[d].nr_LBIDs)
                                /\ dios[d].sLBID \in Nat /\ dios[d].nr_LBIDs \in Nat
    <3>1. \A d \in 1..Len(dios) : dios[d] \in DioSet
      BY <1>1
    <3>2. \A d \in 1..Len(dios) : dios[d].LB_list = Blocks(dios[d].sLBID, dios[d].nr_LBIDs)
      BY <1>2 DEF CutInv, Lists
    <3>3. QED
      BY <3>1, <3>2 DEF DioSet
  <2>3. QED
    BY <1>1, <2>1, <2>2, SortedBlocks
<1>3. \A d \in DOMAIN dios :
            dios[d].sLBID = IF d = 1 THEN kreq.sLBID ELSE dios[d - 1].sLBID + dios[d - 1].nr_LBIDs
  BY <1>1 DEF CutInv, Chain, EndOf
<1>4. phase = "io" => dios[Len(dios)].sLBID + dios[Len(dios)].nr_LBIDs = kreq.sLBID + kreq.nr_LBIDs
  BY DEF CutInv, Front, EndOf, End
<1>5. QED
  BY <1>2, <1>3, <1>4, AllSorted DEF DiosPartitionRequest

\* A dio of a write is a run to its end or to the end of the request.
LEMMA LongestRun == CutInv => CutIsLongestRun
<1> SUFFICES ASSUME CutInv, NEW d \in DOMAIN dios, dios[d].op # Read
             PROVE  LET s == dios[d].sLBID  e == s + dios[d].nr_LBIDs IN
                    /\ \A b \in s..e - 1 : Allocated(s, b) = (dios[d].op = OverWrite)
                    /\ e < kreq.sLBID + kreq.nr_LBIDs => Allocated(s, e) # (dios[d].op = OverWrite)
  BY DEF CutIsLongestRun
<1>1. d \in 1..Len(dios)
  BY DEF CutInv, Types
<1>2. IsRun(dios[d].op, dios[d].sLBID, dios[d].sLBID + dios[d].nr_LBIDs, kreq.sLBID + kreq.nr_LBIDs)
  BY <1>1 DEF CutInv, Runs, EndOf, End
<1>3. QED
  BY <1>2 DEF IsRun, OfKind

\* A dio has ended when nothing is left of it.
LEMMA LastCommit == CutInv => DioEndsWithLastCommit
BY DEF CutInv, Types, Lists, DioEndsWithLastCommit

\* Every reachable state of a request that is cut is well typed: its lists are sorted.
THEOREM RequestTypeCorrect == Spec => []TypeOK
<1>1. CutInv => TypeOK
  <2> SUFFICES ASSUME CutInv PROVE TypeOK
    OBVIOUS
  <2>1. DOMAIN dios = DOMAIN lrs /\ ended \subseteq DOMAIN dios
    BY DEF CutInv, Types, Lists
  <2>2. QED
    BY <2>1, AllSorted DEF CutInv, Types, TypeOK
<1>2. QED
  BY <1>1, InitCut, NextKeeps, PTL DEF Spec

\* The dios made so far and what is left are the request, without a gap or an overlap, and
\* each list holds the blocks of its dio: __Make_DIO_Requst loses and doubles no block, for
\* requests of any length, any width of the allocation map and any cut of the namenode.
THEOREM RequestIsPartitioned == Spec => []DiosPartitionRequest
BY InitCut, NextKeeps, Partition, PTL DEF Spec

\* Get_Continuous_Range returns the longest run from its first block, over any number of
\* words of the allocation map, whatever operation the shift of Get_Allocation_Range gave.
THEOREM CutsAreRuns == Spec => []CutIsLongestRun
BY InitCut, NextKeeps, LongestRun, PTL DEF Spec

\* Commit_LB_to_DMS_IO removes a dio exactly with the commit of its last located request, in
\* whatever order they come: Commit_LB_List_by_Range empties the list then and not before.
THEOREM DiosEndWithLastCommit == Spec => []DioEndsWithLastCommit
BY InitCut, NextKeeps, LastCommit, PTL DEF Spec
=============================================================================
