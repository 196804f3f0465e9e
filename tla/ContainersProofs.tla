-------------------------- MODULE ContainersProofs --------------------------
(***************************************************************************)
(* Proofs about Containers, for every set of containers, every set of      *)
(* literals, every capacity of a short string and every chunk: what the    *)
(* operations on one string return, and from it that the containers stay   *)
(* well formed, own their blocks and are the lists a user takes them for.  *)
(***************************************************************************)
EXTENDS Containers, TLAPS, FiniteSetTheorems, SequenceTheorems,
        WellFoundedInduction

\* Every non-empty set of natural numbers has a least member: for the CHOOSE
\* of the first difference and of the first NUL.
LEMMA LeastNat ==
    ASSUME NEW T \in SUBSET Nat, T # {}
    PROVE  \E x \in T : \A y \in T : x <= y
  <1> DEFINE R == {ss \in Nat \X Nat : ss[1] < ss[2]}
  <1>1. IsWellFoundedOn(R, Nat)
    BY NatLessThanWellFounded DEF OpToRel
  <1> HIDE DEF R
  <1>2. PICK x \in T : \A y \in T : ~ (<<y, x>> \in R)
    BY <1>1, WFMin, Zenon
  <1>3. ASSUME NEW y \in T, ~ (x <= y)
        PROVE  FALSE
    <2>1. x \in Nat /\ y \in Nat
      OBVIOUS
    <2> DEFINE p == <<y, x>>
    <2>2. p \in Nat \X Nat /\ p[1] = y /\ p[2] = x
      BY <2>1
    <2>3. p[1] < p[2]
      BY <1>3, <2>1, <2>2
    <2>4. p \in R
      BY <2>2, <2>3 DEF R
    <2> QED
      BY <1>2, <2>4
  <1> QED
    BY <1>3

\* A finite heap leaves one of the first addresses free: FreshBlock and
\* FreshData choose among some.
LEMMA FreeAddress ==
    ASSUME NEW S, IsFiniteSet(S)
    PROVE  \E b \in 1 .. Cardinality(S) + 1 : b \notin S
  <1>1. Cardinality(S) \in Nat
    BY FS_CardinalityType
  <1>2. ASSUME 1 .. Cardinality(S) + 1 \subseteq S
        PROVE  FALSE
    <2>1. Cardinality(1 .. Cardinality(S) + 1) <= Cardinality(S)
      BY <1>2, FS_Subset
    <2>2. Cardinality(1 .. Cardinality(S) + 1) = Cardinality(S) + 1
      BY <1>1, FS_Interval
    <2> QED
      BY <1>1, <2>1, <2>2
  <1> QED
    BY <1>2

-----------------------------------------------------------------------------
(* One string. *)

\* A string as it is between operations (MN__STR_CHECK).
StrValue == [short : BOOLEAN, size : 0 .. MaxSize, alloc : Nat, block : Nat,
             data : Seq(Int)]
Ended(s) == Len(s.data) = s.size + 1 /\ s.data[s.size + 1] = Nul
WellFormed(s) ==
    /\ s \in StrValue
    /\ Ended(s)
    /\ s.short => s.size <= ShortMax
    /\ ~s.short => s.size <= s.alloc /\ s.alloc > 0

\* What growing s to r.size characters may have made of it, but for the block.
GrownFrom(s, r) ==
    /\ r \in StrValue
    /\ Ended(r)
    /\ r.block = s.block
    /\ IF NeedsBlock(s, r.size) THEN ~r.short /\ r.alloc > r.size
                                ELSE r.short = s.short /\ r.alloc = s.alloc

\* The capacity asked for is enough: rounding never goes below what is needed,
\* whichever way the masked bit falls.
LEMMA NewAllocHolds ==
    ASSUME NEW n \in Nat
    PROVE  NewAlloc(n) \in Nat /\ NewAlloc(n) > n
  <1>1. n \div 2 \in Nat
    OBVIOUS
  <1> DEFINE m == n + n \div 2
             odd == ((m + 1 + Chunk) \div Chunk) % 2 = 1
  <1>2. m \in Nat /\ m >= n
    BY <1>1
  <1>3. NewAlloc(n) = IF odd THEN (m + 1 + Chunk) - Chunk ELSE m + 1 + Chunk
    BY DEF NewAlloc, RoundAlloc
  <1> HIDE DEF m, odd
  <1> QED
    BY <1>2, <1>3, StrAssumption

LEMMA EmptyStrIsWellFormed ==
    WellFormed(EmptyStr) /\ Body(EmptyStr) = <<>>
  <1>1. <<Nul>> \in Seq(Int) /\ Len(<<Nul>>) = 1 /\ <<Nul>>[1] = Nul
    BY DEF Nul
  <1>2. WellFormed(EmptyStr)
    BY <1>1, StrAssumption, WorkloadAssumption
       DEF WellFormed, StrValue, Ended, EmptyStr, NoBlock
  <1>3. Body(EmptyStr) = <<>>
    BY SubSeqEmpty DEF Body, EmptyStr
  <1> QED
    BY <1>2, <1>3

\* The characters of a string are a sequence of its size.
LEMMA BodyIsSeq ==
    ASSUME NEW s, s \in StrValue, Ended(s)
    PROVE  /\ Body(s) \in Seq(Int)
           /\ Len(Body(s)) = s.size
           /\ \A i \in 1 .. s.size : Body(s)[i] = s.data[i]
  <1>1. s.size \in Nat /\ s.data \in Seq(Int) /\ Len(s.data) = s.size + 1
    BY WorkloadAssumption DEF StrValue, Ended
  <1>2. \A i \in 1 .. s.size : s.data[i] \in Int
    BY <1>1
  <1> QED
    BY <1>1, <1>2, SubSeqProperties, 1 \in Int, s.size \in Int DEF Body

\* mn__str_grow: the characters stay, the size is the one asked for.
LEMMA GrowGrows ==
    ASSUME NEW s, WellFormed(s), NEW n \in s.size .. MaxSize
    PROVE  /\ GrownFrom(s, Grow(s, n)) /\ Grow(s, n).size = n
           /\ \A i \in 1 .. s.size : Grow(s, n).data[i] = s.data[i]
  <1> DEFINE body == Body(s)
             junk == [i \in 1 .. n - s.size |-> Junk]
             cells == body \o junk \o <<Nul>>
  <1>1. s.size \in Nat /\ n \in 0 .. MaxSize /\ n >= s.size /\ n - s.size \in Nat
    BY WorkloadAssumption DEF WellFormed, StrValue
  <1>2. body \in Seq(Int) /\ Len(body) = s.size /\ \A i \in 1 .. s.size : body[i] = s.data[i]
    BY BodyIsSeq DEF WellFormed
  <1>3. junk \in Seq(Int) /\ Len(junk) = n - s.size
    BY <1>1 DEF Junk
  <1>4. <<Nul>> \in Seq(Int) /\ Len(<<Nul>>) = 1 /\ <<Nul>>[1] = Nul
    BY DEF Nul
  <1> HIDE DEF body, junk
  <1>5. /\ body \o junk \in Seq(Int) /\ Len(body \o junk) = n
        /\ \A i \in 1 .. s.size : (body \o junk)[i] = s.data[i]
    <2>1. /\ body \o junk \in Seq(Int) /\ Len(body \o junk) = Len(body) + Len(junk)
          /\ \A i \in 1 .. Len(body) + Len(junk) :
                (body \o junk)[i] = IF i <= Len(body) THEN body[i] ELSE junk[i - Len(body)]
      BY <1>2, <1>3, ConcatProperties
    <2> QED
      BY <1>1, <1>2, <1>3, <2>1
  <1>6. /\ cells \in Seq(Int) /\ Len(cells) = n + 1 /\ cells[n + 1] = Nul
        /\ \A i \in 1 .. s.size : cells[i] = s.data[i]
    <2> DEFINE long == body \o junk
               end == <<Nul>>
    <2>1. /\ long \o end \in Seq(Int) /\ Len(long \o end) = Len(long) + Len(end)
          /\ \A i \in 1 .. Len(long) + Len(end) :
                (long \o end)[i] = IF i <= Len(long) THEN long[i] ELSE end[i - Len(long)]
      BY <1>4, <1>5, ConcatProperties
    <2>2. cells = long \o end /\ Len(long) = n /\ Len(end) = 1 /\ end[1] = Nul
      BY <1>4, <1>5
    <2>3. \A i \in 1 .. s.size : long[i] = s.data[i]
      BY <1>5
    <2> HIDE DEF long, end, cells
    <2> QED
      BY <1>1, <2>1, <2>2, <2>3
  <1>7. Grow(s, n) = IF NeedsBlock(s, n)
                     THEN [s EXCEPT !.short = FALSE, !.size = n, !.alloc = NewAlloc(n),
                                    !.data = cells]
                     ELSE [s EXCEPT !.size = n, !.data = cells]
    BY DEF Grow, body, junk
  <1> HIDE DEF cells
  <1>8. CASE NeedsBlock(s, n)
    <2>1. NewAlloc(n) \in Nat /\ NewAlloc(n) > n
      BY <1>1, NewAllocHolds
    <2> QED
      BY <1>1, <1>6, <1>7, <1>8, <2>1
         DEF GrownFrom, WellFormed, StrValue, Ended
  <1>9. CASE ~NeedsBlock(s, n)
    BY <1>1, <1>6, <1>7, <1>9 DEF GrownFrom, WellFormed, StrValue, Ended
  <1> QED
    BY <1>8, <1>9

\* The characters of t are written behind the first k and nothing else changes.
LEMMA FillFills ==
    ASSUME NEW s, s \in StrValue, Ended(s),
           NEW k \in Nat, NEW t \in Seq(Int), k + Len(t) <= s.size
    PROVE  LET r == Fill(s, k, t)
           IN /\ r \in StrValue /\ Ended(r)
              /\ r.size = s.size /\ r.short = s.short /\ r.alloc = s.alloc /\ r.block = s.block
              /\ \A i \in 1 .. s.size :
                    r.data[i] = IF i \in k + 1 .. k + Len(t) THEN t[i - k] ELSE s.data[i]
  <1> DEFINE cells == [i \in DOMAIN s.data |->
                          IF i \in k + 1 .. k + Len(t) THEN t[i - k] ELSE s.data[i]]
  <1>1. /\ s.size \in Nat /\ s.data \in Seq(Int) /\ Len(s.data) = s.size + 1
        /\ s.data[s.size + 1] = Nul /\ DOMAIN s.data = 1 .. s.size + 1
        /\ Len(t) \in Nat
    BY WorkloadAssumption, LenProperties DEF StrValue, Ended
  <1>2. \A i \in 1 .. s.size + 1 :
           (IF i \in k + 1 .. k + Len(t) THEN t[i - k] ELSE s.data[i]) \in Int
    BY <1>1
  <1>3. cells \in Seq(Int) /\ Len(cells) = s.size + 1
    <2>1. s.size + 1 \in Nat /\ cells \in [1 .. s.size + 1 -> Int]
      BY <1>1, <1>2
    <2> HIDE DEF cells
    <2>2. cells \in Seq(Int) /\ DOMAIN cells = 1 .. s.size + 1
      BY <2>1, SeqDef
    <2> QED
      BY <2>1, <2>2, LenProperties
  <1>4. cells[s.size + 1] = Nul
    BY <1>1
  <1>5. \A i \in 1 .. s.size :
           cells[i] = IF i \in k + 1 .. k + Len(t) THEN t[i - k] ELSE s.data[i]
    BY <1>1
  <1>6. Fill(s, k, t) = [s EXCEPT !.data = cells]
    BY DEF Fill
  <1> HIDE DEF cells
  <1> QED
    BY <1>1, <1>3, <1>4, <1>5, <1>6 DEF StrValue, Ended

\* mn__str_push and the three mn__str_cat: the characters are appended, whether
\* the string had room for them or not.
LEMMA CatNAppends ==
    ASSUME NEW s, WellFormed(s), NEW t \in Seq(Int), s.size + Len(t) <= MaxSize
    PROVE  /\ GrownFrom(s, CatN(s, t))
           /\ CatN(s, t).size = s.size + Len(t)
           /\ Body(CatN(s, t)) = Body(s) \o t
  <1> DEFINE n == s.size + Len(t)
             g == Grow(s, n)
             r == CatN(s, t)
  <1>1. s.size \in Nat /\ Len(t) \in Nat /\ n \in s.size .. MaxSize
    BY WorkloadAssumption DEF WellFormed, StrValue
  <1>2. /\ GrownFrom(s, g) /\ g.size = n
        /\ \A i \in 1 .. s.size : g.data[i] = s.data[i]
    BY <1>1, GrowGrows
  <1>3. r = Fill(g, s.size, t)
    BY DEF CatN
  <1> HIDE DEF g, r
  <1>4. /\ r \in StrValue /\ Ended(r)
        /\ r.size = g.size /\ r.short = g.short /\ r.alloc = g.alloc /\ r.block = g.block
        /\ \A i \in 1 .. g.size :
              r.data[i] = IF i \in s.size + 1 .. s.size + Len(t) THEN t[i - s.size] ELSE g.data[i]
    BY <1>1, <1>2, <1>3, FillFills DEF GrownFrom
  <1>5. GrownFrom(s, r)
    BY <1>2, <1>4 DEF GrownFrom
  <1>6. /\ Body(r) \in Seq(Int) /\ Len(Body(r)) = n
        /\ \A i \in 1 .. n : Body(r)[i] = r.data[i]
    BY <1>2, <1>4, BodyIsSeq
  <1>7. /\ Body(s) \in Seq(Int) /\ Len(Body(s)) = s.size
        /\ \A i \in 1 .. s.size : Body(s)[i] = s.data[i]
    BY BodyIsSeq DEF WellFormed
  <1>8. /\ Body(s) \o t \in Seq(Int) /\ Len(Body(s) \o t) = n
        /\ \A i \in 1 .. n :
              (Body(s) \o t)[i] = IF i <= s.size THEN Body(s)[i] ELSE t[i - s.size]
    BY <1>7, ConcatProperties
  <1> HIDE DEF n
  <1>9. \A i \in 1 .. n : Body(r)[i] = (Body(s) \o t)[i]
    <2> SUFFICES ASSUME NEW i \in 1 .. n
                 PROVE  Body(r)[i] = (Body(s) \o t)[i]
      OBVIOUS
    <2>0. i \in Nat /\ i \in 1 .. g.size /\ n = s.size + Len(t)
      BY <1>1, <1>2 DEF n
    <2>1. CASE i <= s.size
      <3>1. i \in 1 .. s.size /\ i \notin s.size + 1 .. s.size + Len(t)
        BY <1>1, <2>0, <2>1
      <3>2. r.data[i] = g.data[i]
        BY <1>4, <2>0, <3>1
      <3> QED
        BY <1>2, <1>6, <1>7, <1>8, <2>1, <3>1, <3>2
    <2>2. CASE i > s.size
      <3>1. i \in s.size + 1 .. s.size + Len(t) /\ ~ (i <= s.size)
        BY <1>1, <2>0, <2>2
      <3>2. r.data[i] = t[i - s.size]
        BY <1>4, <2>0, <3>1
      <3>3. (Body(s) \o t)[i] = t[i - s.size]
        BY <1>8, <3>1
      <3> QED
        BY <1>6, <3>2, <3>3
    <2>3. i <= s.size \/ i > s.size
      BY <1>1, <2>0
    <2> QED
      BY <2>1, <2>2, <2>3
  <1>10. Body(r) = Body(s) \o t
    BY <1>6, <1>8, <1>9, SeqEqual
  <1> QED
    BY <1>2, <1>4, <1>5, <1>10 DEF n, r

\* The elements of a concatenation, by halves.
LEMMA ConcatAt ==
    ASSUME NEW a \in Seq(Int), NEW b \in Seq(Int)
    PROVE  /\ a \o b \in Seq(Int)
           /\ Len(a \o b) = Len(a) + Len(b)
           /\ \A i \in 1 .. Len(a) : (a \o b)[i] = a[i]
           /\ \A i \in 1 .. Len(b) : (a \o b)[Len(a) + i] = b[i]
  <1>1. /\ a \o b \in Seq(Int) /\ Len(a \o b) = Len(a) + Len(b)
        /\ \A i \in 1 .. Len(a) + Len(b) :
              (a \o b)[i] = IF i <= Len(a) THEN a[i] ELSE b[i - Len(a)]
    BY ConcatProperties
  <1>2. Len(a) \in Nat /\ Len(b) \in Nat
    OBVIOUS
  <1>3. ASSUME NEW i \in 1 .. Len(b)
        PROVE  (a \o b)[Len(a) + i] = b[i]
    <2>1. Len(a) + i \in 1 .. Len(a) + Len(b) /\ ~ (Len(a) + i <= Len(a))
          /\ (Len(a) + i) - Len(a) = i
      BY <1>2
    <2>2. (a \o b)[Len(a) + i] = b[(Len(a) + i) - Len(a)]
      BY <1>1, <2>1
    <2> QED
      BY <2>1, <2>2
  <1>4. ASSUME NEW i \in 1 .. Len(a)
        PROVE  (a \o b)[i] = a[i]
    <2>1. i \in 1 .. Len(a) + Len(b) /\ i <= Len(a)
      BY <1>2
    <2> QED
      BY <1>1, <2>1
  <1> QED
    BY <1>1, <1>3, <1>4

\* The elements of a tail and of a front.
LEMMA SubSeqAt ==
    ASSUME NEW q \in Seq(Int), NEW k \in 0 .. Len(q)
    PROVE  /\ SubSeq(q, 1, k) \in Seq(Int) /\ Len(SubSeq(q, 1, k)) = k
           /\ \A i \in 1 .. k : SubSeq(q, 1, k)[i] = q[i]
           /\ SubSeq(q, k + 1, Len(q)) \in Seq(Int)
           /\ Len(SubSeq(q, k + 1, Len(q))) = Len(q) - k
           /\ \A i \in 1 .. Len(q) - k : SubSeq(q, k + 1, Len(q))[i] = q[k + i]
  <1>1. Len(q) \in Nat /\ k \in Nat /\ k <= Len(q) /\ \A i \in 1 .. Len(q) : q[i] \in Int
    OBVIOUS
  <1>2. /\ SubSeq(q, 1, k) \in Seq(Int) /\ Len(SubSeq(q, 1, k)) = k
        /\ \A i \in 1 .. k : SubSeq(q, 1, k)[i] = q[i]
    BY <1>1, SubSeqProperties
  <1> DEFINE b == SubSeq(q, k + 1, Len(q))
  <1>3. /\ b \in Seq(Int)
        /\ Len(b) = IF k + 1 <= Len(q) THEN Len(q) - (k + 1) + 1 ELSE 0
        /\ \A i \in 1 .. Len(q) - (k + 1) + 1 : b[i] = q[k + 1 + i - 1]
    <2>1. PICK m, n : m = k + 1 /\ n = Len(q)
      OBVIOUS
    <2>2. /\ m \in 1 .. Len(q) + 1 /\ n \in m - 1 .. Len(q)
          /\ \A i \in m .. n : q[i] \in Int
      BY <1>1, <2>1
    <2>3. /\ SubSeq(q, m, n) \in Seq(Int)
          /\ Len(SubSeq(q, m, n)) = IF m <= n THEN n - m + 1 ELSE 0
          /\ \A i \in 1 .. n - m + 1 : SubSeq(q, m, n)[i] = q[m + i - 1]
      BY <2>2, SubSeqProperties
    <2> QED
      BY <2>1, <2>3
  <1> HIDE DEF b
  <1>4. Len(b) = Len(q) - k /\ Len(q) - (k + 1) + 1 = Len(q) - k
    BY <1>1, <1>3
  <1>5. ASSUME NEW i \in 1 .. Len(q) - k
        PROVE  b[i] = q[k + i]
    <2>1. k + 1 + i - 1 = k + i
      BY <1>1
    <2> QED
      BY <1>3, <1>4, <2>1
  <1> QED
    BY <1>2, <1>3, <1>4, <1>5 DEF b

\* The community operator, by elements.
LEMMA InsertAtInserts ==
    ASSUME NEW q \in Seq(Int), NEW k \in 0 .. Len(q), NEW c \in Int
    PROVE  LET r == InsertAt(q, k + 1, c)
           IN /\ r \in Seq(Int) /\ Len(r) = Len(q) + 1
              /\ \A i \in 1 .. k : r[i] = q[i]
              /\ r[k + 1] = c
              /\ \A i \in k + 1 .. Len(q) : r[i + 1] = q[i]
  <1> DEFINE a == SubSeq(q, 1, k)
             b == SubSeq(q, k + 1, Len(q))
             m == <<c>>
             am == a \o m
  <1>1. Len(q) \in Nat /\ k \in Nat /\ k <= Len(q)
    OBVIOUS
  <1>2. a \in Seq(Int) /\ Len(a) = k /\ \A i \in 1 .. k : a[i] = q[i]
    BY SubSeqAt
  <1>3. /\ b \in Seq(Int) /\ Len(b) = Len(q) - k
        /\ \A i \in 1 .. Len(q) - k : b[i] = q[k + i]
    BY SubSeqAt
  <1>4. m \in Seq(Int) /\ Len(m) = 1 /\ m[1] = c
    OBVIOUS
  <1>5. InsertAt(q, k + 1, c) = am \o b
    <2>1. (k + 1) - 1 = k
      BY <1>1
    <2> QED
      BY <2>1 DEF InsertAt
  <1> HIDE DEF a, b, m
  <1>6. /\ am \in Seq(Int) /\ Len(am) = k + 1
        /\ \A i \in 1 .. k : am[i] = q[i]
        /\ am[k + 1] = c
    <2>1. /\ am \in Seq(Int) /\ Len(am) = Len(a) + Len(m)
          /\ \A i \in 1 .. Len(a) : am[i] = a[i]
          /\ \A i \in 1 .. Len(m) : am[Len(a) + i] = m[i]
      BY <1>2, <1>4, ConcatAt
    <2> HIDE DEF am
    <2> QED
      BY <1>2, <1>4, <2>1
  <1> HIDE DEF am
  <1>7. /\ am \o b \in Seq(Int) /\ Len(am \o b) = Len(am) + Len(b)
        /\ \A i \in 1 .. Len(am) : (am \o b)[i] = am[i]
        /\ \A i \in 1 .. Len(b) : (am \o b)[Len(am) + i] = b[i]
    BY <1>3, <1>6, ConcatAt
  <1> DEFINE r == am \o b
  <1> HIDE DEF r
  <1>8. /\ r \in Seq(Int) /\ Len(r) = Len(q) + 1
        /\ \A i \in 1 .. k : r[i] = q[i]
        /\ r[k + 1] = c
    BY <1>1, <1>3, <1>6, <1>7 DEF r
  <1>9. ASSUME NEW i \in k + 1 .. Len(q)
        PROVE  r[i + 1] = q[i]
    <2>1. i - k \in 1 .. Len(b) /\ (k + 1) + (i - k) = i + 1 /\ k + (i - k) = i
      BY <1>1, <1>3
    <2>2. (am \o b)[Len(am) + (i - k)] = b[i - k]
      BY <1>7, <2>1
    <2>3. b[i - k] = q[k + (i - k)]
      BY <1>3, <2>1
    <2> QED
      BY <1>6, <2>1, <2>2, <2>3 DEF r
  <1> QED
    BY <1>5, <1>8, <1>9 DEF r

\* mn__str_insert: the shift from the end down keeps every character.
LEMMA StrInsertInserts ==
    ASSUME NEW s, WellFormed(s), s.size < MaxSize,
           NEW k \in 0 .. s.size, NEW c \in Int
    PROVE  /\ GrownFrom(s, StrInsert(s, k, c))
           /\ StrInsert(s, k, c).size = s.size + 1
           /\ Body(StrInsert(s, k, c)) = InsertAt(Body(s), k + 1, c)
  <1> DEFINE n == s.size + 1
             g == Grow(s, n)
             Cell(i) == IF i \in k + 2 .. s.size + 1 THEN s.data[i - 1]
                        ELSE IF i = k + 1 THEN c ELSE g.data[i]
             cells == [i \in DOMAIN g.data |-> Cell(i)]
             r == StrInsert(s, k, c)
             q == InsertAt(Body(s), k + 1, c)
  <1>1. s.size \in Nat /\ n \in s.size .. MaxSize /\ k \in Nat /\ k <= s.size /\ n = s.size + 1
    BY WorkloadAssumption DEF WellFormed, StrValue
  <1>2. /\ GrownFrom(s, g) /\ g.size = n
        /\ \A i \in 1 .. s.size : g.data[i] = s.data[i]
    BY <1>1, GrowGrows
  <1>3. r = [g EXCEPT !.data = cells]
    BY DEF StrInsert
  <1>4. /\ g.data \in Seq(Int) /\ DOMAIN g.data = 1 .. n + 1 /\ g.data[n + 1] = Nul
        /\ s.data \in Seq(Int) /\ DOMAIN s.data = 1 .. n
    BY <1>1, <1>2, LenProperties DEF GrownFrom, WellFormed, StrValue, Ended
  <1> HIDE DEF n, g, r, q
  <1>5. cells \in Seq(Int) /\ Len(cells) = n + 1
    <2>0. n + 1 \in Nat
      BY <1>1
    <2>1. ASSUME NEW i \in 1 .. n + 1
          PROVE  Cell(i) \in Int
      <3>1. i \in Nat /\ i \in DOMAIN g.data /\ g.data[i] \in Int
        BY <1>4, <2>0
      <3>2. CASE i \in k + 2 .. s.size + 1
        <4>1. PICK j : j = i - 1
          OBVIOUS
        <4>2. j \in 1 .. n
          BY <1>1, <3>2, <4>1
        <4>3. s.data[j] \in Int
          <5>1. s.data \in Seq(Int) /\ j \in 1 .. Len(s.data)
            BY <1>4, <4>2, LenProperties
          <5> QED
            BY <5>1, ElementOfSeq
        <4> QED
          BY <3>2, <4>1, <4>3
      <3>3. CASE i \notin k + 2 .. s.size + 1
        BY <3>1, <3>3
      <3> QED
        BY <3>2, <3>3
    <2>2. n + 1 \in Nat /\ cells \in [1 .. n + 1 -> Int]
      <3> HIDE DEF Cell
      <3>1. cells = [i \in 1 .. n + 1 |-> Cell(i)]
        BY <1>4
      <3> HIDE DEF cells
      <3> QED
        BY <2>0, <2>1, <3>1
    <2> HIDE DEF cells
    <2>3. cells \in Seq(Int) /\ DOMAIN cells = 1 .. n + 1
      BY <2>2, SeqDef
    <2> QED
      BY <2>2, <2>3, LenProperties
  <1>6. \A i \in 1 .. n + 1 : cells[i] = Cell(i)
    BY <1>4
  <1> HIDE DEF cells
  <1>7. /\ cells[n + 1] = Nul
        /\ \A i \in 1 .. k : cells[i] = s.data[i]
        /\ cells[k + 1] = c
        /\ \A i \in k + 1 .. s.size : cells[i + 1] = s.data[i]
    <2>1. n + 1 \in 1 .. n + 1 /\ n + 1 \notin k + 2 .. s.size + 1 /\ n + 1 # k + 1
      BY <1>1
    <2>2. cells[n + 1] = Nul
      BY <1>4, <1>6, <2>1
    <2>3. k + 1 \in 1 .. n + 1 /\ k + 1 \notin k + 2 .. s.size + 1
      BY <1>1
    <2>4. cells[k + 1] = c
      BY <1>6, <2>3
    <2>5. ASSUME NEW i \in 1 .. k
          PROVE  cells[i] = s.data[i]
      <3>1. i \in 1 .. n + 1 /\ i \in 1 .. s.size /\ i \notin k + 2 .. s.size + 1 /\ i # k + 1
        BY <1>1
      <3> QED
        BY <1>2, <1>6, <3>1
    <2>6. ASSUME NEW i \in k + 1 .. s.size
          PROVE  cells[i + 1] = s.data[i]
      <3>1. i + 1 \in 1 .. n + 1 /\ i + 1 \in k + 2 .. s.size + 1 /\ (i + 1) - 1 = i
        BY <1>1
      <3> QED
        BY <1>6, <3>1
    <2> QED
      BY <2>2, <2>4, <2>5, <2>6
  <1>8. GrownFrom(s, r) /\ r.size = n /\ r.data = cells
    BY <1>2, <1>3, <1>5, <1>7 DEF GrownFrom, StrValue, Ended
  <1>9. /\ Body(r) \in Seq(Int) /\ Len(Body(r)) = n
        /\ \A i \in 1 .. n : Body(r)[i] = cells[i]
    BY <1>8, BodyIsSeq DEF GrownFrom
  <1>10. /\ Body(s) \in Seq(Int) /\ Len(Body(s)) = s.size
         /\ \A i \in 1 .. s.size : Body(s)[i] = s.data[i]
    BY BodyIsSeq DEF WellFormed
  <1>11. /\ q \in Seq(Int) /\ Len(q) = n
         /\ \A i \in 1 .. k : q[i] = Body(s)[i]
         /\ q[k + 1] = c
         /\ \A i \in k + 1 .. s.size : q[i + 1] = Body(s)[i]
    <2> DEFINE t == Body(s)
    <2>1. t \in Seq(Int) /\ Len(t) = s.size /\ k \in 0 .. Len(t) /\ Len(t) + 1 = n
      BY <1>1, <1>10
    <2>2. q = InsertAt(t, k + 1, c)
      BY DEF q
    <2> HIDE DEF t
    <2>3. /\ q \in Seq(Int) /\ Len(q) = Len(t) + 1
          /\ \A i \in 1 .. k : q[i] = t[i]
          /\ q[k + 1] = c
          /\ \A i \in k + 1 .. Len(t) : q[i + 1] = t[i]
      BY <2>1, <2>2, InsertAtInserts
    <2> QED
      BY <2>1, <2>3 DEF t
  <1>12. ASSUME NEW i \in 1 .. n
         PROVE  Body(r)[i] = q[i]
    <2>1. CASE i \in 1 .. k
      <3>1. i \in 1 .. s.size
        BY <1>1, <2>1
      <3> QED
        BY <1>7, <1>9, <1>10, <1>11, <2>1, <3>1
    <2>2. CASE i = k + 1
      BY <1>7, <1>9, <1>11, <2>2
    <2>3. CASE i \in k + 2 .. n
      <3>1. PICK j \in k + 1 .. s.size : i = j + 1 /\ j \in 1 .. s.size
        <4> DEFINE j == i - 1
        <4>1. j \in k + 1 .. s.size /\ i = j + 1 /\ j \in 1 .. s.size
          BY <1>1, <2>3
        <4> HIDE DEF j
        <4> QED
          BY <4>1
      <3>2. cells[j + 1] = s.data[j] /\ q[j + 1] = Body(s)[j] /\ Body(s)[j] = s.data[j]
        BY <1>7, <1>10, <1>11, <3>1
      <3> QED
        BY <1>9, <3>1, <3>2
    <2>4. i \in 1 .. k \/ i = k + 1 \/ i \in k + 2 .. n
      BY <1>1
    <2> QED
      BY <2>1, <2>2, <2>3, <2>4
  <1>13. Body(r) = q
    BY <1>9, <1>11, <1>12, SeqEqual
  <1> QED
    BY <1>8, <1>13 DEF r, q, n

\* mn__str_init_copy: what the copy becomes is grown from an empty string, and
\* the cells uncovered by growing are all overwritten.
LEMMA CopyCopies ==
    ASSUME NEW s, WellFormed(s)
    PROVE  LET r == Fill(Grow(EmptyStr, s.size), 0, Body(s))
           IN GrownFrom(EmptyStr, r) /\ r.size = s.size /\ Body(r) = Body(s)
  <1> DEFINE g == Grow(EmptyStr, s.size)
             r == Fill(g, 0, Body(s))
  <1>1. s.size \in Nat /\ s.size <= MaxSize /\ EmptyStr.size = 0
    BY WorkloadAssumption DEF WellFormed, StrValue, EmptyStr
  <1>2. /\ Body(s) \in Seq(Int) /\ Len(Body(s)) = s.size
    BY BodyIsSeq DEF WellFormed
  <1>3. GrownFrom(EmptyStr, g) /\ g.size = s.size
    BY <1>1, EmptyStrIsWellFormed, GrowGrows, WorkloadAssumption
  <1> HIDE DEF g
  <1>4. /\ r \in StrValue /\ Ended(r)
        /\ r.size = g.size /\ r.short = g.short /\ r.alloc = g.alloc /\ r.block = g.block
        /\ \A i \in 1 .. g.size :
              r.data[i] = IF i \in 0 + 1 .. 0 + Len(Body(s)) THEN Body(s)[i - 0] ELSE g.data[i]
    BY <1>1, <1>2, <1>3, FillFills DEF GrownFrom
  <1> HIDE DEF r
  <1>5. /\ Body(r) \in Seq(Int) /\ Len(Body(r)) = s.size
        /\ \A i \in 1 .. s.size : Body(r)[i] = r.data[i]
    BY <1>3, <1>4, BodyIsSeq
  <1>6. ASSUME NEW i \in 1 .. s.size
        PROVE  Body(r)[i] = Body(s)[i]
    <2>1. i \in 0 + 1 .. 0 + Len(Body(s)) /\ i - 0 = i /\ i \in 1 .. g.size
      BY <1>1, <1>2, <1>3
    <2> QED
      BY <1>4, <1>5, <2>1
  <1>7. Body(r) = Body(s)
    BY <1>2, <1>5, <1>6, SeqEqual
  <1> QED
    BY <1>3, <1>4, <1>7 DEF GrownFrom, r, g

\* mn__str_clear.
LEMMA ClearedIsWellFormed ==
    ASSUME NEW s, WellFormed(s)
    PROVE  WellFormed(Cleared(s)) /\ Body(Cleared(s)) = <<>>
           /\ Cleared(s).short = s.short /\ Cleared(s).block = s.block
  <1>1. <<Nul>> \in Seq(Int) /\ Len(<<Nul>>) = 1 /\ <<Nul>>[1] = Nul
    BY DEF Nul
  <1>2. /\ WellFormed(Cleared(s))
        /\ Cleared(s).short = s.short /\ Cleared(s).block = s.block /\ Cleared(s).size = 0
    <2> DEFINE r == Cleared(s)
    <2>1. s \in StrValue
      BY DEF WellFormed
    <2>2. /\ r \in StrValue /\ r.data = <<Nul>> /\ r.size = 0
          /\ r.short = s.short /\ r.alloc = s.alloc /\ r.block = s.block
      <3>1. 0 \in 0 .. MaxSize
        BY WorkloadAssumption
      <3>2. r = [s EXCEPT !.size = 0, !.data = <<Nul>>]
        BY DEF Cleared
      <3> HIDE DEF r
      <3> QED
        BY <1>1, <2>1, <3>1, <3>2 DEF StrValue
    <2> HIDE DEF r
    <2>3. Ended(r)
      BY <1>1, <2>2 DEF Ended
    <2>4. s.size \in Nat /\ s.alloc \in Nat
      BY <2>1, WorkloadAssumption DEF StrValue
    <2>5. WellFormed(r)
      BY <2>2, <2>3, <2>4, StrAssumption DEF WellFormed
    <2> QED
      BY <2>2, <2>5 DEF r
  <1>3. Body(Cleared(s)) = <<>>
    BY <1>2, SubSeqEmpty DEF Body
  <1> QED
    BY <1>2, <1>3

-----------------------------------------------------------------------------
(* The strings of a program. *)

\* The invariant of the strings: inductive, and what TypeOK and OneOwner say of
\* them follows.  That the heap is finite is what lets a fresh block be found.
StrInv == /\ Held \subseteq Names
          /\ heap \subseteq Nat \ {NoBlock}
          /\ IsFiniteSet(heap)
          /\ \A n \in Held : WellFormed(str[n])
          /\ StrOneOwner

\* What StrOneOwner says, without the set of the long strings.
LEMMA StrOwners ==
    StrOneOwner <=>
        /\ \A n \in Held : ~str[n].short => str[n].block \in heap
        /\ \A b \in heap : \E n \in Held : ~str[n].short /\ str[n].block = b
        /\ \A n, m \in Held : ~str[n].short /\ ~str[m].short /\ str[n].block = str[m].block
                                => n = m
  BY DEF StrOneOwner

LEMMA StrOwnersThen ==
    StrOneOwner' <=>
        /\ \A n \in Held' : ~str'[n].short => str'[n].block \in heap'
        /\ \A b \in heap' : \E n \in Held' : ~str'[n].short /\ str'[n].block = b
        /\ \A n, m \in Held' : ~str'[n].short /\ ~str'[m].short /\ str'[n].block = str'[m].block
                                 => n = m
  BY DEF StrOneOwner

LEMMA FreshBlockIsFresh ==
    ASSUME IsFiniteSet(heap)
    PROVE  FreshBlock \in Nat \ {NoBlock} /\ FreshBlock \notin heap
  <1>1. \E b \in 1 .. Cardinality(heap) + 1 : b \notin heap
    BY FreeAddress
  <1>2. FreshBlock \in 1 .. Cardinality(heap) + 1 /\ FreshBlock \notin heap
    BY <1>1 DEF FreshBlock
  <1>3. Cardinality(heap) \in Nat
    BY FS_CardinalityType
  <1> QED
    BY <1>2, <1>3 DEF NoBlock

\* The string n becomes x, which owns what n owned.
LEMMA BecomeKeepsBlocks ==
    ASSUME StrInv, NEW n \in Names, NEW x, WellFormed(x), Become(n, x),
           UNCHANGED heap,
           n \in Held => x.short = str[n].short /\ x.block = str[n].block,
           n \notin Held => x.short
    PROVE  StrInv'
  <1>1. Held' = Held \cup {n} /\ str'[n] = x /\ \A m \in Held : m # n => str'[m] = str[m]
    BY DEF Become, Held
  <1>2. StrOneOwner'
    BY <1>1, StrOwners, StrOwnersThen DEF StrInv
  <1> QED
    BY <1>1, <1>2 DEF StrInv

\* The string n, which owned nothing, becomes the owner of a new block.
LEMMA BecomeTakesBlock ==
    ASSUME StrInv, NEW n \in Names, NEW x, WellFormed(x), Become(n, x),
           ~x.short, x.block \in Nat \ {NoBlock}, x.block \notin heap,
           heap' = heap \cup {x.block},
           n \in Held => str[n].short
    PROVE  StrInv'
  <1>1. Held' = Held \cup {n} /\ str'[n] = x /\ \A m \in Held : m # n => str'[m] = str[m]
    BY DEF Become, Held
  <1>2. StrOneOwner'
    BY <1>1, StrOwners, StrOwnersThen DEF StrInv
  <1>3. IsFiniteSet(heap')
    BY FS_AddElement DEF StrInv
  <1> QED
    BY <1>1, <1>2, <1>3 DEF StrInv

\* Growing a string, or failing to: the invariant survives, and the string has
\* the characters it was to have or those it had.
LEMMA ResizeOutcome ==
    ASSUME StrInv, NEW n \in Names, NEW s, WellFormed(s),
           n \in Held => s = str[n],
           n \notin Held => s.short,
           NEW r, GrownFrom(s, r), Resize(n, s, r)
    PROVE  /\ StrInv'
           /\ \E x : Become(n, x) /\ Body(x) \in {Body(r), Body(s)}
  <1>1. CASE ~NeedsBlock(s, r.size) /\ Become(n, r) /\ UNCHANGED heap
    <2>1. r.short = s.short /\ r.alloc = s.alloc /\ r.block = s.block
      BY <1>1 DEF GrownFrom
    <2>2. /\ s.size \in Nat /\ r.size \in Nat /\ s.alloc \in Nat /\ r \in StrValue
      BY WorkloadAssumption DEF WellFormed, StrValue, GrownFrom
    <2>3. WellFormed(r)
      BY <1>1, <2>1, <2>2, StrAssumption
         DEF WellFormed, GrownFrom, NeedsBlock, Room
    <2>4. StrInv'
      BY <1>1, <2>1, <2>3, BecomeKeepsBlocks
    <2> QED
      BY <1>1, <2>4
  <1>2. CASE /\ NeedsBlock(s, r.size)
             /\ LET b == IF s.short THEN FreshBlock ELSE s.block
                IN Become(n, [r EXCEPT !.block = b]) /\ heap' = heap \cup {b}
    <2> DEFINE b == IF s.short THEN FreshBlock ELSE s.block
               x == [r EXCEPT !.block = b]
    <2>1. r \in StrValue /\ Ended(r) /\ ~r.short /\ r.alloc > r.size /\ r.size \in Nat
          /\ s.block \in Nat
      BY <1>2, WorkloadAssumption DEF GrownFrom, StrValue, WellFormed
    <2>2. FreshBlock \in Nat \ {NoBlock} /\ FreshBlock \notin heap
      BY FreshBlockIsFresh DEF StrInv
    <2>3. b \in Nat
      BY <2>1, <2>2
    <2>4. Become(n, x) /\ heap' = heap \cup {b}
      BY <1>2
    <2> HIDE DEF b
    <2>5. /\ x \in StrValue /\ x.short = r.short /\ x.size = r.size /\ x.alloc = r.alloc
          /\ x.data = r.data /\ x.block = b
      BY <2>1, <2>3 DEF StrValue
    <2> HIDE DEF x
    <2>6. WellFormed(x)
      <3>1. r.alloc \in Nat
        BY <2>1 DEF StrValue
      <3> QED
        BY <2>1, <2>5, <3>1 DEF WellFormed, Ended
    <2>7. Body(x) = Body(r)
      BY <2>5 DEF Body
    <2>8. CASE s.short
      <3>1. StrInv'
        BY <2>1, <2>2, <2>4, <2>5, <2>6, <2>8, BecomeTakesBlock DEF b
      <3> QED
        BY <2>4, <2>7, <3>1
    <2>9. CASE ~s.short
      <3>1. n \in Held /\ s = str[n] /\ b = s.block
        BY <2>9 DEF b
      <3>2. b \in heap
        BY <2>9, <3>1, StrOwners DEF StrInv
      <3>3. UNCHANGED heap
        BY <2>4, <3>2
      <3>4. StrInv'
        <4>1. s.short = FALSE /\ x.short = FALSE
          BY <2>1, <2>5, <2>9 DEF StrValue, WellFormed
        <4>2. x.short = str[n].short /\ x.block = str[n].block
          BY <2>5, <3>1, <4>1
        <4> QED
          BY <2>4, <2>6, <3>1, <3>3, <4>2, BecomeKeepsBlocks
      <3> QED
        BY <2>4, <2>7, <3>4
    <2> QED
      BY <2>8, <2>9
  <1>3. CASE NeedsBlock(s, r.size) /\ Become(n, s) /\ UNCHANGED heap
    <2>1. StrInv'
      BY <1>3, BecomeKeepsBlocks
    <2> QED
      BY <1>3, <2>1
  <1> QED
    BY <1>1, <1>2, <1>3 DEF Resize

\* mn__str_slen finds the first NUL: a C string is a front of what it is in.
LEMMA CStrIsFront ==
    ASSUME NEW t \in Seq(Int)
    PROVE  CStr(t) \in Seq(Int) /\ Len(CStr(t)) <= Len(t)
  <1> DEFINE nuls == {i \in DOMAIN t : t[i] = Nul}
             end == CHOOSE i \in nuls : \A j \in nuls : i <= j
  <1>1. DOMAIN t = 1 .. Len(t) /\ Len(t) \in Nat /\ nuls \in SUBSET Nat
    BY LenProperties
  <1>2. CStr(t) = IF nuls = {} THEN t ELSE SubSeq(t, 1, end - 1)
    BY DEF CStr
  <1>3. CASE nuls = {}
    BY <1>1, <1>2, <1>3
  <1>4. CASE nuls # {}
    <2>1. end \in nuls
      BY <1>1, <1>4, LeastNat
    <2> HIDE DEF end
    <2>2. end - 1 \in 0 .. Len(t)
      BY <1>1, <2>1
    <2> HIDE DEF nuls
    <2> QED
      BY <1>1, <1>2, <1>4, <2>2, SubSeqAt
  <1> QED
    BY <1>3, <1>4

\* A text a program may hand over, and a character of one.
LEMMA TextsOfProgram ==
    /\ \A t \in Literals : /\ t \in Seq(Int) /\ Len(t) <= MaxSize
                           /\ CStr(t) \in Seq(Int) /\ Len(CStr(t)) <= MaxSize
    /\ Units \subseteq Int
  <1>1. ASSUME NEW t \in Literals
        PROVE  /\ t \in Seq(Int) /\ Len(t) <= MaxSize
               /\ CStr(t) \in Seq(Int) /\ Len(CStr(t)) <= MaxSize
    <2>1. t \in Seq(Int) /\ Len(t) <= MaxSize /\ Len(t) \in Nat /\ MaxSize \in Nat
      BY WorkloadAssumption
    <2>2. CStr(t) \in Seq(Int) /\ Len(CStr(t)) <= Len(t) /\ Len(CStr(t)) \in Nat
      BY <2>1, CStrIsFront
    <2> QED
      BY <2>1, <2>2
  <1>2. ASSUME NEW c \in Units
        PROVE  c \in Int
    <2>1. PICK t \in Literals : Len(t) = 1 /\ c = t[1]
      BY DEF Units
    <2> QED
      BY <2>1, WorkloadAssumption
  <1> QED
    BY <1>1, <1>2

-----------------------------------------------------------------------------
(* The strings are lists. *)

Texts == [n \in Held |-> Body(str[n])]

\* When the string n becomes x its list becomes the characters of x.
LEMMA CharsBecome ==
    ASSUME NEW n, NEW x, Become(n, x)
    PROVE  Chars!Become(n, Body(x))
  <1>1. Held' = Held \cup {n} /\ \A m \in Held' : str'[m] = IF m = n THEN x ELSE str[m]
    BY DEF Become, Held
  <1>2. Texts' = [m \in Held \cup {n} |-> IF m = n THEN Body(x) ELSE Texts[m]]
    BY <1>1 DEF Texts
  <1> QED
    BY <1>2 DEF Chars!Become, Chars!Live, Texts

\* ... and nothing changes if those are the ones it had.
LEMMA CharsStay ==
    ASSUME NEW n \in Held, NEW x, Become(n, x), Body(x) = Body(str[n])
    PROVE  UNCHANGED Texts
  <1>1. Held' = Held /\ \A m \in Held' : str'[m] = IF m = n THEN x ELSE str[m]
    BY DEF Become, Held
  <1> QED
    BY <1>1 DEF Texts

LEMMA CharsLive == Chars!Live = Held
  BY DEF Chars!Live

\* The instance computes with the same operators as the strings.
LEMMA CharsOperators ==
    /\ Chars!Units = Units
    /\ \A t : Chars!CStr(t) = CStr(t)
    /\ \A q, k, c : Chars!InsertAt(q, k, c) = InsertAt(q, k, c)
  BY DEF Chars!Units, Units, Chars!CStr, CStr, Chars!Nul, Nul,
         Chars!InsertAt, InsertAt

StrEffect == StrInv' /\ (Chars!ListsNext \/ UNCHANGED Texts)

\* The steps of Lists that need one more parameter than the container.
LEMMA ListsSteps ==
    ASSUME NEW n \in Names
    PROVE  /\ \A t \in Chars!Given : Chars!Create(n, t) \/ Chars!Cat(n, t) => Chars!ListsNext
           /\ \A c \in Units : Chars!Cat(n, <<c>>) => Chars!ListsNext
           /\ \A c \in Units, k \in 0 .. MaxSize :
                 Chars!Insert(n, k, c) \/ Chars!Set(n, k, c) => Chars!ListsNext
  BY CharsOperators, Zenon DEF Chars!ListsNext

\* A string that is made has the list asked for, or the empty one.
LEMMA InitEffect ==
    ASSUME StrInv, NEW n \in Names, n \notin Held, NEW r,
           GrownFrom(EmptyStr, r), Body(r) \in Chars!Given,
           Resize(n, EmptyStr, r)
    PROVE  StrEffect
  <1>1. WellFormed(EmptyStr) /\ Body(EmptyStr) = <<>> /\ EmptyStr.short
    BY EmptyStrIsWellFormed DEF EmptyStr
  <1>2. StrInv' /\ \E x : Become(n, x) /\ Body(x) \in {Body(r), Body(EmptyStr)}
    BY <1>1, ResizeOutcome
  <1>3. PICK x : Become(n, x) /\ Body(x) \in {Body(r), <<>>}
    BY <1>1, <1>2
  <1>4. Chars!Become(n, Body(x))
    BY <1>3, CharsBecome
  <1>5. Chars!Create(n, Body(r))
    BY <1>3, <1>4, CharsLive DEF Chars!Create
  <1> QED
    BY <1>2, <1>5 DEF StrEffect, Chars!ListsNext

\* A string that is appended to has the text appended, or is what it was.
LEMMA AppendEffect ==
    ASSUME StrInv, NEW n \in Names, NEW t \in Seq(Int), AppendTo(n, t),
           t \in Chars!Given \/ \E c \in Units : t = <<c>>
    PROVE  StrEffect
  <1>1. n \in Held /\ WellFormed(str[n]) /\ str[n].size + Len(t) <= MaxSize
    BY DEF StrInv, AppendTo
  <1> DEFINE r == CatN(str[n], t)
  <1>2. GrownFrom(str[n], r) /\ Body(r) = Body(str[n]) \o t
    BY <1>1, CatNAppends
  <1>3. Resize(n, str[n], r)
    BY DEF AppendTo
  <1> HIDE DEF r
  <1>4. StrInv' /\ \E x : Become(n, x) /\ Body(x) \in {Body(r), Body(str[n])}
    BY <1>1, <1>2, <1>3, ResizeOutcome
  <1>5. PICK x : Become(n, x) /\ Body(x) \in {Body(r), Body(str[n])}
    BY <1>4
  <1>6. CASE Body(x) = Body(str[n])
    BY <1>1, <1>4, <1>5, <1>6, CharsStay DEF StrEffect
  <1>7. CASE Body(x) = Body(r)
    <2>1. Chars!Become(n, Body(str[n]) \o t)
      BY <1>2, <1>5, <1>7, CharsBecome
    <2>2. Chars!Cat(n, t)
      BY <1>1, <2>1, CharsLive DEF Chars!Cat
    <2>3. Chars!ListsNext
      BY <2>2, ListsSteps
    <2> QED
      BY <1>4, <2>3 DEF StrEffect
  <1> QED
    BY <1>5, <1>6, <1>7

LEMMA InsertEffect ==
    ASSUME StrInv, NEW n \in Names, NEW c \in Units, NEW k \in 0 .. MaxSize,
           InsertChar(n, k, c)
    PROVE  StrEffect
  <1>1. n \in Held /\ WellFormed(str[n]) /\ k \in 0 .. str[n].size /\ str[n].size < MaxSize
        /\ c \in Int
    BY TextsOfProgram DEF StrInv, InsertChar
  <1> DEFINE r == StrInsert(str[n], k, c)
  <1>2. GrownFrom(str[n], r) /\ Body(r) = InsertAt(Body(str[n]), k + 1, c)
    BY <1>1, StrInsertInserts
  <1>3. Resize(n, str[n], r)
    BY DEF InsertChar
  <1> HIDE DEF r
  <1>4. StrInv' /\ \E x : Become(n, x) /\ Body(x) \in {Body(r), Body(str[n])}
    BY <1>1, <1>2, <1>3, ResizeOutcome
  <1>5. PICK x : Become(n, x) /\ Body(x) \in {Body(r), Body(str[n])}
    BY <1>4
  <1>6. CASE Body(x) = Body(str[n])
    BY <1>1, <1>4, <1>5, <1>6, CharsStay DEF StrEffect
  <1>7. CASE Body(x) = Body(r)
    <2>1. Chars!Become(n, InsertAt(Body(str[n]), k + 1, c))
      BY <1>2, <1>5, <1>7, CharsBecome
    <2>2. Len(Body(str[n])) = str[n].size /\ k <= str[n].size
      BY <1>1, BodyIsSeq DEF WellFormed
    <2>3. Texts[n] = Body(str[n])
      BY <1>1 DEF Texts
    <2>4. Chars!Insert(n, k, c) <=> /\ n \in Held
                                    /\ k <= Len(Texts[n])
                                    /\ Chars!Become(n, InsertAt(Texts[n], k + 1, c))
      BY CharsLive, CharsOperators, Zenon DEF Chars!Insert, Texts
    <2>5. Chars!Insert(n, k, c)
      BY <1>1, <2>1, <2>2, <2>3, <2>4
    <2> QED
      BY <1>4, <2>5, ListsSteps DEF StrEffect
  <1> QED
    BY <1>5, <1>6, <1>7

LEMMA CopyEffect ==
    ASSUME StrInv, NEW n \in Names, NEW m \in Held, InitCopy(n, m)
    PROVE  StrEffect
  <1> DEFINE r == Fill(Grow(EmptyStr, str[m].size), 0, Body(str[m]))
  <1>1. GrownFrom(EmptyStr, r) /\ Body(r) = Body(str[m])
    BY CopyCopies DEF StrInv
  <1>2. n \notin Held /\ Resize(n, EmptyStr, r)
    BY DEF InitCopy
  <1> HIDE DEF r
  <1>3. Body(r) \in Chars!Given
    BY <1>1, CharsLive DEF Chars!Given
  <1> QED
    BY <1>1, <1>2, <1>3, InitEffect

\* The old string of a move owns nothing any more.
LEMMA MoveEffect ==
    ASSUME StrInv, NEW n \in Names, NEW m \in Held, InitMove(n, m)
    PROVE  StrEffect
  <1>1. /\ n \notin Held /\ n # m /\ UNCHANGED heap
        /\ Held' = Held \cup {n} /\ str'[n] = str[m] /\ str'[m] = EmptyStr
        /\ \A o \in Held : o # m => str'[o] = str[o]
    BY DEF InitMove, Held
  <1>2. WellFormed(EmptyStr) /\ Body(EmptyStr) = <<>> /\ EmptyStr.short
    BY EmptyStrIsWellFormed DEF EmptyStr
  <1>3. StrOneOwner'
    BY <1>1, <1>2, StrOwners, StrOwnersThen DEF StrInv
  <1>4. StrInv'
    BY <1>1, <1>2, <1>3 DEF StrInv
  <1>5. Texts' = [o \in Held \cup {n} |-> IF o = n THEN Texts[m]
                                          ELSE IF o = m THEN <<>> ELSE Texts[o]]
    BY <1>1, <1>2 DEF Texts
  <1>6. Chars!Move(n, m) /\ m \in Names
    BY <1>1, <1>5, CharsLive DEF Chars!Move, Texts, StrInv
  <1> QED
    BY <1>4, <1>6 DEF StrEffect, Chars!ListsNext

LEMMA ClearEffect ==
    ASSUME StrInv, NEW n \in Names, Clear(n)
    PROVE  StrEffect
  <1>1. n \in Held /\ WellFormed(str[n]) /\ Become(n, Cleared(str[n])) /\ UNCHANGED heap
    BY DEF StrInv, Clear
  <1>2. /\ WellFormed(Cleared(str[n])) /\ Body(Cleared(str[n])) = <<>>
        /\ Cleared(str[n]).short = str[n].short /\ Cleared(str[n]).block = str[n].block
    BY <1>1, ClearedIsWellFormed
  <1>3. StrInv'
    BY <1>1, <1>2, BecomeKeepsBlocks
  <1>4. Chars!Become(n, <<>>)
    BY <1>1, <1>2, CharsBecome
  <1>5. Chars!Clear(n)
    BY <1>1, <1>4, CharsLive DEF Chars!Clear
  <1> QED
    BY <1>3, <1>5 DEF StrEffect, Chars!ListsNext

LEMMA DestroyEffect ==
    ASSUME StrInv, NEW n \in Names, DestroyStr(n)
    PROVE  StrEffect
  <1>1. /\ n \in Held /\ Held' = Held \ {n} /\ \A m \in Held' : str'[m] = str[m]
        /\ heap' = IF str[n].short THEN heap ELSE heap \ {str[n].block}
    BY DEF DestroyStr, Held
  <1>2. StrOneOwner'
    BY <1>1, StrOwners, StrOwnersThen DEF StrInv
  <1>3. IsFiniteSet(heap')
    BY <1>1, FS_RemoveElement DEF StrInv
  <1>4. StrInv'
    BY <1>1, <1>2, <1>3 DEF StrInv
  <1>5. Texts' = [m \in Held \ {n} |-> Texts[m]]
    BY <1>1 DEF Texts
  <1>6. Chars!Destroy(n)
    BY <1>1, <1>5, CharsLive DEF Chars!Destroy, Texts
  <1> QED
    BY <1>4, <1>6 DEF StrEffect, Chars!ListsNext

\* Every step of the program keeps the invariant and is a step of Lists, or is
\* none.
LEMMA StrStep ==
    ASSUME StrInv, StrNext
    PROVE  StrEffect
  <1>1. ASSUME NEW n \in Names, NEW t \in Literals,
               InitN(n, t) \/ InitN(n, CStr(t)) \/ CatLiteral(n, t) \/ CatString(n, t)
        PROVE  StrEffect
    <2>1. PICK u \in {t, CStr(t)} : InitN(n, u) \/ AppendTo(n, u)
      BY <1>1 DEF CatLiteral, CatString
    <2>2. u \in Seq(Int) /\ Len(u) <= MaxSize
      BY TextsOfProgram
    <2>5. u \in Chars!Given
      BY CharsOperators, Zenon DEF Chars!Given
    <2>3. CASE InitN(n, u)
      <3> DEFINE r == CatN(EmptyStr, u)
      <3>1. EmptyStr.size = 0 /\ 0 + Len(u) = Len(u)
        BY <2>2 DEF EmptyStr
      <3>2. GrownFrom(EmptyStr, r) /\ Body(r) = <<>> \o u
        BY <2>2, <3>1, EmptyStrIsWellFormed, CatNAppends
      <3>3. Body(r) = u
        BY <2>2, <3>2, ConcatEmptySeq
      <3>4. n \notin Held /\ Resize(n, EmptyStr, r)
        BY <2>3 DEF InitN
      <3> HIDE DEF r
      <3> QED
        BY <2>5, <3>2, <3>3, <3>4, InitEffect
    <2>4. CASE AppendTo(n, u)
      BY <2>2, <2>4, <2>5, AppendEffect
    <2> QED
      BY <2>1, <2>3, <2>4
  <1>2. ASSUME NEW n \in Names, NEW c \in Units, Push(n, c)
        PROVE  StrEffect
    <2>1. <<c>> \in Seq(Int)
      BY TextsOfProgram
    <2> QED
      BY <1>2, <2>1, AppendEffect DEF Push
  <1>3. ASSUME NEW n \in Names, NEW m \in Held, CatOther(n, m)
        PROVE  StrEffect
    <2>1. Body(str[m]) \in Seq(Int) /\ Body(str[m]) \in Chars!Given
      BY BodyIsSeq, CharsLive DEF Chars!Given, StrInv, WellFormed
    <2> QED
      BY <1>3, <2>1, AppendEffect DEF CatOther
  <1> QED
    BY <1>1, <1>2, <1>3, InsertEffect, CopyEffect, MoveEffect, ClearEffect, DestroyEffect
       DEF StrNext

-----------------------------------------------------------------------------
(* The vectors of a program. *)

\* A vector as it is between operations (MN__VEC_CHECK).
VecValue == [alloc : Nat, block : Nat, elems : Seq(Int)]
VecFits(v) == /\ v \in VecValue
              /\ Len(v.elems) <= v.alloc
              /\ v.alloc = 0 <=> v.block = NullData

\* The invariant of the vectors: inductive, and what TypeOK and OneOwner say of
\* them follows.
VecInv == /\ VecHeld \subseteq Names
          /\ blocks \subseteq Nat \ {NullData}
          /\ IsFiniteSet(blocks)
          /\ \A n \in VecHeld : VecFits(vec[n])
          /\ VecOneOwner

LEMMA VecOwners ==
    VecOneOwner <=>
        /\ \A n \in VecHeld : vec[n].block # NullData => vec[n].block \in blocks
        /\ \A b \in blocks : \E n \in VecHeld : vec[n].block # NullData /\ vec[n].block = b
        /\ \A n, m \in VecHeld : vec[n].block # NullData /\ vec[n].block = vec[m].block
                                   => n = m
  BY DEF VecOneOwner

LEMMA VecOwnersThen ==
    VecOneOwner' <=>
        /\ \A n \in VecHeld' : vec'[n].block # NullData => vec'[n].block \in blocks'
        /\ \A b \in blocks' : \E n \in VecHeld' : vec'[n].block # NullData /\ vec'[n].block = b
        /\ \A n, m \in VecHeld' : vec'[n].block # NullData /\ vec'[n].block = vec'[m].block
                                    => n = m
  BY DEF VecOneOwner

LEMMA FreshDataIsFresh ==
    ASSUME IsFiniteSet(blocks)
    PROVE  FreshData \in Nat \ {NullData} /\ FreshData \notin blocks
  <1>1. \E b \in 1 .. Cardinality(blocks) + 1 : b \notin blocks
    BY FreeAddress
  <1>2. FreshData \in 1 .. Cardinality(blocks) + 1 /\ FreshData \notin blocks
    BY <1>1 DEF FreshData
  <1>3. Cardinality(blocks) \in Nat
    BY FS_CardinalityType
  <1> QED
    BY <1>2, <1>3 DEF NullData

\* MN__VEC_GROW_ONE: doubling makes room for one more, also from nothing.
LEMMA GrowOneHolds ==
    ASSUME NEW size \in Nat, NEW alloc \in Nat, size <= alloc
    PROVE  /\ GrowOne(size, alloc) \in Nat
           /\ GrowOne(size, alloc) >= size + 1
  BY DEF GrowOne

LEMMA VecBecomeKeepsBlocks ==
    ASSUME VecInv, NEW n \in Names, NEW x, VecFits(x), VecBecome(n, x),
           UNCHANGED blocks,
           n \in VecHeld => x.block = vec[n].block,
           n \notin VecHeld => x.block = NullData
    PROVE  VecInv'
  <1>1. VecHeld' = VecHeld \cup {n} /\ vec'[n] = x
        /\ \A m \in VecHeld : m # n => vec'[m] = vec[m]
    BY DEF VecBecome, VecHeld
  <1>2. VecOneOwner'
    BY <1>1, VecOwners, VecOwnersThen DEF VecInv
  <1> QED
    BY <1>1, <1>2 DEF VecInv

LEMMA VecBecomeTakesBlock ==
    ASSUME VecInv, NEW n \in VecHeld, NEW x, VecFits(x), VecBecome(n, x),
           vec[n].block = NullData,
           x.block \in Nat \ {NullData}, x.block \notin blocks,
           blocks' = blocks \cup {x.block}
    PROVE  VecInv'
  <1>1. VecHeld' = VecHeld /\ vec'[n] = x /\ \A m \in VecHeld : m # n => vec'[m] = vec[m]
    BY DEF VecBecome, VecHeld
  <1>2. VecOneOwner'
    BY <1>1, VecOwners, VecOwnersThen DEF VecInv
  <1>3. IsFiniteSet(blocks')
    BY FS_AddElement DEF VecInv
  <1> QED
    BY <1>1, <1>2, <1>3 DEF VecInv

\* A vector takes its new capacity and elements, or keeps what it has.
LEMMA ReallocOutcome ==
    ASSUME VecInv, NEW n \in VecHeld, NEW cap \in Nat, NEW e \in Seq(Int),
           Len(e) <= cap, cap # vec[n].alloc => cap > 0,
           Realloc(n, cap, e)
    PROVE  /\ VecInv'
           /\ vec' = vec \/ \E x : VecBecome(n, x) /\ x.elems = e
  <1> DEFINE v == vec[n]
  <1>0. v \in VecValue /\ (v.alloc = 0 <=> v.block = NullData) /\ n \in Names
        /\ VecFits(v)
    BY DEF VecInv, VecFits
  <1>1. CASE cap = v.alloc /\ VecBecome(n, [v EXCEPT !.elems = e]) /\ UNCHANGED blocks
    <2> DEFINE x == [v EXCEPT !.elems = e]
    <2>1. x \in VecValue /\ x.elems = e /\ x.alloc = v.alloc /\ x.block = v.block
      BY <1>0 DEF VecValue
    <2> HIDE DEF x
    <2>2. VecFits(x) /\ VecBecome(n, x)
      BY <1>0, <1>1, <2>1 DEF VecFits, x
    <2>3. VecInv'
      BY <1>0, <1>1, <2>1, <2>2, VecBecomeKeepsBlocks
    <2> QED
      BY <2>1, <2>2, <2>3
  <1>2. CASE /\ cap # v.alloc
             /\ LET b == IF v.block = NullData THEN FreshData ELSE v.block
                IN /\ VecBecome(n, [alloc |-> cap, block |-> b, elems |-> e])
                   /\ blocks' = blocks \cup {b}
    <2> DEFINE b == IF v.block = NullData THEN FreshData ELSE v.block
               x == [alloc |-> cap, block |-> b, elems |-> e]
    <2>1. FreshData \in Nat \ {NullData} /\ FreshData \notin blocks
      BY FreshDataIsFresh DEF VecInv
    <2>2. b \in Nat /\ b # NullData /\ VecBecome(n, x) /\ blocks' = blocks \cup {b}
      BY <1>0, <1>2, <2>1 DEF VecValue
    <2>3. x \in VecValue /\ x.alloc = cap /\ x.block = b /\ x.elems = e
      BY <2>2 DEF VecValue
    <2>4. (v.block = NullData /\ b = FreshData) \/ (v.block # NullData /\ b = v.block)
      OBVIOUS
    <2> HIDE DEF x, b
    <2>5. VecFits(x)
      BY <1>2, <2>2, <2>3 DEF VecFits, NullData
    <2>6. CASE v.block = NullData
      <3>1. VecInv'
        BY <2>1, <2>2, <2>3, <2>4, <2>5, <2>6, VecBecomeTakesBlock
      <3> QED
        BY <2>2, <2>3, <3>1
    <2>7. CASE v.block # NullData
      <3>1. UNCHANGED blocks
        BY <2>2, <2>4, <2>7, VecOwners DEF VecInv
      <3>2. VecInv'
        BY <1>0, <2>2, <2>3, <2>4, <2>5, <2>7, <3>1, VecBecomeKeepsBlocks
      <3> QED
        BY <2>2, <2>3, <3>2
    <2> QED
      BY <2>6, <2>7
  <1>3. CASE UNCHANGED vecVars
    BY <1>3 DEF VecInv, VecOneOwner, VecHeld, vecVars
  <1> QED
    BY <1>1, <1>2, <1>3 DEF Realloc

-----------------------------------------------------------------------------
(* The vectors are lists. *)

Contents == [n \in VecHeld |-> vec[n].elems]

LEMMA ElemsBecome ==
    ASSUME NEW n, NEW x, NEW e, VecBecome(n, x), x.elems = e
    PROVE  Contents' = [m \in VecHeld \cup {n} |-> IF m = n THEN e ELSE Contents[m]]
  <1>1. VecHeld' = VecHeld \cup {n}
        /\ \A m \in VecHeld' : vec'[m] = IF m = n THEN x ELSE vec[m]
    BY DEF VecBecome, VecHeld
  <1> QED
    BY <1>1 DEF Contents

LEMMA ElemsLive == Elems!Live = VecHeld
  BY DEF Elems!Live

LEMMA ElemsOperators ==
    /\ Elems!Units = Units
    /\ \A q, k, c : Elems!InsertAt(q, k, c) = InsertAt(q, k, c)
    /\ \A q : Elems!Front(q) = Front(q)
  BY DEF Elems!Units, Units, Elems!InsertAt, InsertAt, Elems!Front, Front

LEMMA ElemsSteps ==
    ASSUME NEW n \in Names
    PROVE  /\ \A c \in Units : Elems!Cat(n, <<c>>) => Elems!ListsNext
           /\ \A c \in Units, k \in 0 .. MaxSize :
                 Elems!Insert(n, k, c) \/ Elems!Set(n, k, c) => Elems!ListsNext
           /\ \A t \in Elems!Given : Elems!Create(n, t) \/ Elems!Cat(n, t) => Elems!ListsNext
           /\ Elems!Pop(n) \/ Elems!Clear(n) \/ Elems!Destroy(n) => Elems!ListsNext
           /\ \A m \in Names : Elems!Move(n, m) => Elems!ListsNext
  BY ElemsOperators, Zenon DEF Elems!ListsNext

VecEffect == VecInv' /\ (Elems!ListsNext \/ UNCHANGED Contents)

LEMMA VecUnchanged ==
    ASSUME vec' = vec
    PROVE  UNCHANGED Contents
  BY DEF Contents, VecHeld

\* init: the vector is empty and has no block.
LEMMA VecInitialiseEffect ==
    ASSUME VecInv, NEW n \in Names, VecInitialise(n)
    PROVE  VecEffect
  <1>1. n \notin VecHeld /\ VecBecome(n, EmptyVec) /\ UNCHANGED blocks
    BY DEF VecInitialise
  <1>2. VecFits(EmptyVec) /\ EmptyVec.block = NullData /\ EmptyVec.elems = <<>>
    BY DEF VecFits, VecValue, EmptyVec, NullData
  <1>3. VecInv'
    BY <1>1, <1>2, VecBecomeKeepsBlocks
  <1>4. Contents' = [m \in VecHeld \cup {n} |-> IF m = n THEN <<>> ELSE Contents[m]]
    BY <1>1, <1>2, ElemsBecome
  <1>5. Elems!Create(n, <<>>) /\ <<>> \in Elems!Given
    BY <1>1, <1>4, ElemsLive DEF Elems!Create, Elems!Given, Elems!Become, Contents
  <1> QED
    BY <1>3, <1>5, ElemsSteps DEF VecEffect

LEMMA VecPushEffect ==
    ASSUME VecInv, NEW n \in Names, NEW e \in Units, VecPush(n, e)
    PROVE  VecEffect
  <1>0. PICK q, alloc : q = vec[n].elems /\ alloc = vec[n].alloc
    OBVIOUS
  <1> DEFINE cap == GrowOne(Len(q), alloc)
             r == Append(q, e)
  <1>1. /\ n \in VecHeld /\ q \in Seq(Int) /\ alloc \in Nat /\ Len(q) <= alloc
        /\ Realloc(n, cap, r) /\ e \in Int
    BY <1>0, TextsOfProgram DEF VecInv, VecFits, VecValue, VecPush
  <1>2. Len(q) \in Nat /\ cap \in Nat /\ cap >= Len(q) + 1
    <2>1. Len(q) \in Nat
      BY <1>1
    <2> QED
      BY <1>1, <2>1, GrowOneHolds
  <1>3. r \in Seq(Int) /\ Len(r) = Len(q) + 1
    BY <1>1, AppendProperties
  <1>6. r = q \o <<e>>
    BY <1>1, AppendIsConcat
  <1> HIDE DEF cap, r
  <1>7. PICK new \in Seq(Int) : new = r
    BY <1>3
  <1>8. /\ Len(new) <= cap /\ (cap # vec[n].alloc => cap > 0)
        /\ Realloc(n, cap, new)
    BY <1>1, <1>2, <1>3, <1>7
  <1>4. VecInv' /\ (vec' = vec \/ \E x : VecBecome(n, x) /\ x.elems = new)
    BY <1>1, <1>2, <1>8, ReallocOutcome
  <1>5. ASSUME NEW x, VecBecome(n, x), x.elems = new
        PROVE  Elems!ListsNext
    <2>1. Contents' = [m \in VecHeld \cup {n} |-> IF m = n THEN new ELSE Contents[m]]
      BY <1>5 DEF VecBecome, VecHeld, Contents
    <2>2. Contents[n] = q
      BY <1>0, <1>1 DEF Contents
    <2>3. new = Contents[n] \o <<e>>
      BY <1>6, <1>7, <2>2
    <2>4. Elems!Cat(n, <<e>>)
      BY <1>1, <2>1, <2>3, ElemsLive DEF Elems!Cat, Elems!Become, Contents
    <2> QED
      BY <2>4, ElemsSteps
  <1> QED
    BY <1>4, <1>5, VecUnchanged DEF VecEffect

LEMMA VecInsertEffect ==
    ASSUME VecInv, NEW n \in Names, NEW e \in Units, NEW k \in 0 .. MaxSize,
           VecInsert(n, k, e)
    PROVE  VecEffect
  <1>0. PICK q, alloc : q = vec[n].elems /\ alloc = vec[n].alloc
    OBVIOUS
  <1> DEFINE cap == GrowOne(Len(q), alloc)
             r == InsertAt(q, k + 1, e)
  <1>1. /\ n \in VecHeld /\ q \in Seq(Int) /\ alloc \in Nat /\ Len(q) <= alloc
        /\ Realloc(n, cap, r) /\ e \in Int /\ k \in 0 .. Len(q)
    BY <1>0, TextsOfProgram DEF VecInv, VecFits, VecValue, VecInsert
  <1>2. Len(q) \in Nat /\ cap \in Nat /\ cap >= Len(q) + 1
    <2>1. Len(q) \in Nat
      BY <1>1
    <2> QED
      BY <1>1, <2>1, GrowOneHolds
  <1>3. r \in Seq(Int) /\ Len(r) = Len(q) + 1
    BY <1>1, InsertAtInserts
  <1> HIDE DEF cap, r
  <1>6. PICK new \in Seq(Int) : new = r
    BY <1>3
  <1>7. /\ Len(new) <= cap /\ (cap # vec[n].alloc => cap > 0)
        /\ Realloc(n, cap, new)
    BY <1>1, <1>2, <1>3, <1>6
  <1>4. VecInv' /\ (vec' = vec \/ \E x : VecBecome(n, x) /\ x.elems = new)
    BY <1>1, <1>2, <1>7, ReallocOutcome
  <1>5. ASSUME NEW x, VecBecome(n, x), x.elems = new
        PROVE  Elems!ListsNext
    <2>1. Contents' = [m \in VecHeld \cup {n} |-> IF m = n THEN new ELSE Contents[m]]
      BY <1>5 DEF VecBecome, VecHeld, Contents
    <2>2. Contents[n] = q /\ k <= Len(q)
      BY <1>0, <1>1, <1>2 DEF Contents
    <2>3. new = Elems!InsertAt(Contents[n], k + 1, e)
      BY <1>6, <2>2, ElemsOperators DEF r
    <2>4. Elems!Insert(n, k, e)
      BY <1>1, <2>1, <2>2, <2>3, ElemsLive DEF Elems!Insert, Elems!Become, Contents
    <2> QED
      BY <2>4, ElemsSteps
  <1> QED
    BY <1>4, <1>5, VecUnchanged DEF VecEffect

LEMMA VecPopEffect ==
    ASSUME VecInv, NEW n \in Names, VecPop(n)
    PROVE  VecEffect
  <1>0. PICK v : v = vec[n]
    OBVIOUS
  <1> DEFINE q == v.elems
  <1>x. PICK x : x = [v EXCEPT !.elems = Front(q)]
    OBVIOUS
  <1>1. n \in VecHeld /\ VecFits(v) /\ q # <<>> /\ VecBecome(n, x) /\ UNCHANGED blocks
    BY <1>0, <1>x DEF VecInv, VecPop
  <1>2. v \in VecValue /\ q \in Seq(Int) /\ Len(q) \in Nat /\ Len(q) > 0 /\ v.alloc \in Nat
        /\ Len(q) <= v.alloc
    BY <1>1, EmptySeq DEF VecFits, VecValue
  <1>3. Front(q) \in Seq(Int) /\ Len(Front(q)) = Len(q) - 1
    <2>1. Len(q) - 1 \in 0 .. Len(q)
      BY <1>2
    <2> QED
      BY <1>2, <2>1, SubSeqAt DEF Front
  <1>4. /\ x \in VecValue /\ x.elems = Front(q) /\ x.alloc = v.alloc /\ x.block = v.block
    BY <1>x, <1>2, <1>3 DEF VecValue
  <1>5. VecFits(x)
    BY <1>1, <1>2, <1>3, <1>4 DEF VecFits
  <1>6. VecInv'
    BY <1>0, <1>1, <1>4, <1>5, VecBecomeKeepsBlocks
  <1>7. Contents' = [m \in VecHeld \cup {n} |-> IF m = n THEN Front(q) ELSE Contents[m]]
    <2> DEFINE new == Front(q)
    <2> HIDE DEF new
    <2>1. VecBecome(n, x) /\ x.elems = new
      BY <1>1, <1>4 DEF new
    <2>2. Contents' = [m \in VecHeld \cup {n} |-> IF m = n THEN new ELSE Contents[m]]
      BY <2>1 DEF VecBecome, VecHeld, Contents
    <2> QED
      BY <2>2 DEF new
  <1>8. Contents[n] = q
    BY <1>0, <1>1 DEF Contents
  <1>10. Elems!Pop(n)
    BY <1>1, <1>7, <1>8, ElemsLive, ElemsOperators DEF Elems!Pop, Elems!Become, Contents
  <1> QED
    BY <1>6, <1>10, ElemsSteps DEF VecEffect

LEMMA VecSetEffect ==
    ASSUME VecInv, NEW n \in Names, NEW e \in Units, NEW k \in 0 .. MaxSize,
           VecSet(n, k, e)
    PROVE  VecEffect
  <1>0. PICK v : v = vec[n]
    OBVIOUS
  <1> DEFINE q == v.elems
             r == [q EXCEPT ![k + 1] = e]
  <1>x. PICK x : x = [v EXCEPT !.elems[k + 1] = e]
    OBVIOUS
  <1>1. /\ n \in VecHeld /\ VecFits(v) /\ VecBecome(n, x) /\ UNCHANGED blocks
        /\ k \in 0 .. Len(q) - 1 /\ e \in Int
    BY <1>0, <1>x, TextsOfProgram DEF VecInv, VecSet
  <1>2. v \in VecValue /\ q \in Seq(Int) /\ Len(q) \in Nat /\ v.alloc \in Nat
        /\ Len(q) <= v.alloc
    BY <1>1 DEF VecFits, VecValue
  <1>3. r \in Seq(Int) /\ Len(r) = Len(q) /\ k < Len(q)
    <2>1. k + 1 \in 1 .. Len(q) /\ k < Len(q)
      BY <1>1, <1>2
    <2> QED
      BY <1>1, <1>2, <2>1, ExceptSeq
  <1>4. x = [v EXCEPT !.elems = r]
    BY <1>x, <1>2 DEF VecValue
  <1> HIDE DEF r
  <1>5. /\ x \in VecValue /\ x.elems = r /\ x.alloc = v.alloc /\ x.block = v.block
    BY <1>2, <1>3, <1>4 DEF VecValue
  <1>6. VecFits(x)
    BY <1>1, <1>2, <1>3, <1>5 DEF VecFits
  <1>7. VecInv'
    BY <1>0, <1>1, <1>5, <1>6, VecBecomeKeepsBlocks
  <1>8. Contents' = [m \in VecHeld \cup {n} |-> IF m = n THEN r ELSE Contents[m]]
    <2>1. VecBecome(n, x) /\ x.elems = r
      BY <1>1, <1>5
    <2> QED
      BY <2>1 DEF VecBecome, VecHeld, Contents
  <1>9. Contents[n] = q
    BY <1>0, <1>1 DEF Contents
  <1>11. Elems!Set(n, k, e)
    BY <1>1, <1>3, <1>8, <1>9, ElemsLive DEF Elems!Set, Elems!Become, Contents, r
  <1> QED
    BY <1>7, <1>11, ElemsSteps DEF VecEffect

LEMMA VecClearEffect ==
    ASSUME VecInv, NEW n \in Names, VecClear(n)
    PROVE  VecEffect
  <1>0. PICK v : v = vec[n]
    OBVIOUS
  <1>x. PICK x : x = [v EXCEPT !.elems = <<>>]
    OBVIOUS
  <1>1. n \in VecHeld /\ VecFits(v) /\ VecBecome(n, x) /\ UNCHANGED blocks
    BY <1>0, <1>x DEF VecInv, VecClear
  <1>2. v \in VecValue /\ v.alloc \in Nat
    BY <1>1 DEF VecFits, VecValue
  <1>3. x \in VecValue /\ x.elems = <<>> /\ x.alloc = v.alloc /\ x.block = v.block
    <2>1. <<>> \in Seq(Int) /\ Len(<<>>) = 0
      BY EmptySeq
    <2> QED
      BY <1>x, <1>2, <2>1 DEF VecValue
  <1>4. VecFits(x)
    <2>1. Len(<<>>) = 0
      BY EmptySeq
    <2> QED
      BY <1>1, <1>2, <1>3, <2>1 DEF VecFits
  <1>5. VecInv'
    BY <1>0, <1>1, <1>3, <1>4, VecBecomeKeepsBlocks
  <1>6. Contents' = [m \in VecHeld \cup {n} |-> IF m = n THEN <<>> ELSE Contents[m]]
    BY <1>1, <1>3 DEF VecBecome, VecHeld, Contents
  <1>7. Elems!Clear(n)
    BY <1>1, <1>6, ElemsLive DEF Elems!Clear, Elems!Become, Contents
  <1> QED
    BY <1>5, <1>7, ElemsSteps DEF VecEffect

\* A reserve shows in no element, whether it is refused or not.
LEMMA VecReserveEffect ==
    ASSUME VecInv, NEW n \in Names, NEW cap \in 0 .. MaxSize, VecReserve(n, cap)
    PROVE  VecEffect
  <1>0. PICK q, alloc : q = vec[n].elems /\ alloc = vec[n].alloc
    OBVIOUS
  <1>1. PICK new : new = SetSize(alloc, cap)
    OBVIOUS
  <1>2. /\ n \in VecHeld /\ q \in Seq(Int) /\ alloc \in Nat /\ Len(q) <= alloc /\ Len(q) \in Nat
        /\ Realloc(n, new, q)
    BY <1>0, <1>1 DEF VecInv, VecFits, VecValue, VecReserve
  <1>3. new \in Nat /\ Len(q) <= new /\ (new # alloc => new > 0)
    BY <1>1, <1>2, WorkloadAssumption DEF SetSize
  <1>4. VecInv' /\ (vec' = vec \/ \E x : VecBecome(n, x) /\ x.elems = q)
    BY <1>0, <1>2, <1>3, ReallocOutcome
  <1>5. ASSUME NEW x, VecBecome(n, x), x.elems = q
        PROVE  UNCHANGED Contents
    BY <1>0, <1>2, <1>5 DEF VecBecome, VecHeld, Contents
  <1> QED
    BY <1>4, <1>5, VecUnchanged DEF VecEffect

LEMMA VecMoveEffect ==
    ASSUME VecInv, NEW n \in Names, NEW m \in VecHeld, VecMove(n, m)
    PROVE  VecEffect
  <1>1. /\ n \notin VecHeld /\ n # m /\ UNCHANGED blocks
        /\ VecHeld' = VecHeld \cup {n} /\ vec'[n] = vec[m] /\ vec'[m] = EmptyVec
        /\ \A o \in VecHeld : o # m => vec'[o] = vec[o]
    BY DEF VecMove, VecHeld
  <1>2. VecFits(EmptyVec) /\ EmptyVec.block = NullData /\ EmptyVec.elems = <<>>
    BY DEF VecFits, VecValue, EmptyVec, NullData
  <1>3. VecOneOwner'
    BY <1>1, <1>2, VecOwners, VecOwnersThen DEF VecInv
  <1>4. VecInv'
    BY <1>1, <1>2, <1>3 DEF VecInv
  <1>5. Contents' = [o \in VecHeld \cup {n} |-> IF o = n THEN Contents[m]
                                                ELSE IF o = m THEN <<>> ELSE Contents[o]]
    BY <1>1, <1>2 DEF Contents
  <1>6. Elems!Move(n, m) /\ m \in Names
    BY <1>1, <1>5, ElemsLive DEF Elems!Move, Contents, VecInv
  <1> QED
    BY <1>4, <1>6, ElemsSteps DEF VecEffect

LEMMA VecDestroyEffect ==
    ASSUME VecInv, NEW n \in Names, VecDestroy(n)
    PROVE  VecEffect
  <1>1. /\ n \in VecHeld /\ VecHeld' = VecHeld \ {n} /\ \A m \in VecHeld' : vec'[m] = vec[m]
        /\ blocks' = blocks \ {vec[n].block}
    BY DEF VecDestroy, VecHeld
  <1>2. VecOneOwner'
    BY <1>1, VecOwners, VecOwnersThen DEF VecInv
  <1>3. IsFiniteSet(blocks')
    BY <1>1, FS_RemoveElement DEF VecInv
  <1>4. VecInv'
    BY <1>1, <1>2, <1>3 DEF VecInv
  <1>5. Contents' = [m \in VecHeld \ {n} |-> Contents[m]]
    BY <1>1 DEF Contents
  <1>6. Elems!Destroy(n)
    BY <1>1, <1>5, ElemsLive DEF Elems!Destroy, Contents
  <1> QED
    BY <1>4, <1>6, ElemsSteps DEF VecEffect

LEMMA VecStep ==
    ASSUME VecInv, VecNext
    PROVE  VecEffect
  BY VecInitialiseEffect, VecPushEffect, VecInsertEffect, VecPopEffect, VecSetEffect,
     VecClearEffect, VecReserveEffect, VecMoveEffect, VecDestroyEffect
     DEF VecNext

-----------------------------------------------------------------------------
(* The theorems. *)

ContainersInv == StrInv /\ VecInv

LEMMA InvInit ==
    ASSUME Init
    PROVE  ContainersInv
  <1>1. str = <<>> /\ heap = {} /\ vec = <<>> /\ blocks = {}
    BY DEF Init, StrInit, VecInit
  <1>2. Held = {} /\ VecHeld = {}
    BY <1>1 DEF Held, VecHeld
  <1> QED
    BY <1>1, <1>2, FS_EmptySet
       DEF ContainersInv, StrInv, VecInv, StrOneOwner, VecOneOwner

\* One step: whichever kind of container moves, the other does not.
LEMMA InvStep ==
    ASSUME ContainersInv, [Next]_<<kind, strVars, vecVars>>
    PROVE  /\ ContainersInv'
           /\ Chars!ListsNext \/ UNCHANGED Texts
           /\ Elems!ListsNext \/ UNCHANGED Contents
  <1>1. ASSUME UNCHANGED strVars
        PROVE  StrInv' /\ UNCHANGED Texts
    BY <1>1 DEF ContainersInv, StrInv, StrOneOwner, Held, strVars, Texts
  <1>2. ASSUME UNCHANGED vecVars
        PROVE  VecInv' /\ UNCHANGED Contents
    BY <1>2 DEF ContainersInv, VecInv, VecOneOwner, VecHeld, vecVars, Contents
  <1>3. ASSUME StrNext
        PROVE  StrInv' /\ (Chars!ListsNext \/ UNCHANGED Texts)
    BY <1>3, StrStep DEF ContainersInv, StrEffect
  <1>4. ASSUME VecNext
        PROVE  VecInv' /\ (Elems!ListsNext \/ UNCHANGED Contents)
    BY <1>4, VecStep DEF ContainersInv, VecEffect
  <1>5. \/ StrNext /\ UNCHANGED vecVars
        \/ VecNext /\ UNCHANGED strVars
        \/ UNCHANGED strVars /\ UNCHANGED vecVars
    BY DEF Next
  <1> QED
    BY <1>1, <1>2, <1>3, <1>4, <1>5 DEF ContainersInv

LEMMA ContainersInvariance == Spec => []ContainersInv
  <1>1. Init => ContainersInv
    BY InvInit
  <1>2. ContainersInv /\ [Next]_<<kind, strVars, vecVars>> => ContainersInv'
    BY InvStep
  <1> QED
    BY <1>1, <1>2, PTL DEF Spec

\* Strings and vectors are well formed between any two operations: what
\* MN__STR_CHECK and MN__VEC_CHECK assert inside them, and a terminator behind
\* every string.
THEOREM ContainersTypeOKThm == Spec => []TypeOK
  <1>1. ContainersInv => TypeOK
    <2> SUFFICES ASSUME ContainersInv
                 PROVE  TypeOK
      OBVIOUS
    <2>1. StrTypeOK
      BY DEF ContainersInv, StrInv, StrTypeOK, WellFormed, StrValue, Ended
    <2>2. StrCheck
      BY DEF ContainersInv, StrInv, StrCheck, WellFormed, Ended
    <2>3. VecTypeOK
      BY DEF ContainersInv, VecInv, VecTypeOK, VecFits, VecValue
    <2>4. VecCheck
      BY DEF ContainersInv, VecInv, VecCheck, VecFits
    <2> QED
      BY <2>1, <2>2, <2>3, <2>4 DEF TypeOK
  <1> QED
    BY <1>1, ContainersInvariance, PTL

\* Every block has exactly one owner, through copies, moves, growth and refused
\* growth, for any number of containers: nothing leaks, nothing is freed twice.
THEOREM OneOwnerThm == Spec => []OneOwner
  <1>1. ContainersInv => OneOwner
    BY DEF ContainersInv, StrInv, VecInv, OneOwner
  <1> QED
    BY <1>1, ContainersInvariance, PTL

\* Strings are the lists of characters that the operations say, whatever their
\* capacity, and a refused operation changes none.
THEOREM StrImplementsListsThm == Spec => StrImplementsLists
  <1>1. Init => Chars!ListsInit
    BY DEF Init, StrInit, Chars!ListsInit, Held
  <1>2. ContainersInv /\ [Next]_<<kind, strVars, vecVars>>
           => [Chars!ListsNext]_Texts
    BY InvStep
  <1>3. [][Chars!ListsNext]_Texts <=> [][Chars!ListsNext]_([n \in Held |-> Body(str[n])])
    BY DEF Texts
  <1> QED
    BY <1>1, <1>2, <1>3, ContainersInvariance, PTL
       DEF Spec, StrImplementsLists, Chars!ListsSpec

\* So are vectors; no capacity, reserved or grown, shows in the elements.
THEOREM VecImplementsListsThm == Spec => VecImplementsLists
  <1>1. Init => Elems!ListsInit
    BY DEF Init, VecInit, Elems!ListsInit, VecHeld
  <1>2. ContainersInv /\ [Next]_<<kind, strVars, vecVars>>
           => [Elems!ListsNext]_Contents
    BY InvStep
  <1>3. [][Elems!ListsNext]_Contents <=> [][Elems!ListsNext]_([n \in VecHeld |-> vec[n].elems])
    BY DEF Contents
  <1> QED
    BY <1>1, <1>2, <1>3, ContainersInvariance, PTL
       DEF Spec, VecImplementsLists, Elems!ListsSpec

-----------------------------------------------------------------------------
(* Comparison. *)

\* What can be compared: a string, a view of one, a view of a literal.
IsText(s) == s.size \in Nat /\ \A i \in 1 .. s.size : s.data[i] \in Int

Same(s, t) == s.size = t.size /\ \A i \in 1 .. s.size : s.data[i] = t.data[i]
FirstDiff(s, t, f) == /\ s.size = t.size
                      /\ f \in 1 .. s.size /\ s.data[f] # t.data[f]
                      /\ \A j \in 1 .. s.size : j < f => s.data[j] = t.data[j]

\* Two texts of one size are the same or have a first difference.
LEMMA SameOrFirstDiff ==
    ASSUME NEW s, IsText(s), NEW t, IsText(t), s.size = t.size
    PROVE  Same(s, t) \/ \E f : FirstDiff(s, t, f)
  <1> DEFINE diff == {i \in 1 .. s.size : s.data[i] # t.data[i]}
  <1>1. CASE diff = {}
    BY <1>1 DEF Same
  <1>2. CASE diff # {}
    <2>1. diff \in SUBSET Nat
      BY DEF IsText
    <2>2. PICK f \in diff : \A j \in diff : f <= j
      BY <1>2, <2>1, LeastNat
    <2>3. f \in 1 .. s.size /\ s.data[f] # t.data[f] /\ s.size \in Nat
      BY <2>2 DEF IsText
    <2>4. ASSUME NEW j \in 1 .. s.size, j < f
          PROVE  s.data[j] = t.data[j]
      <3>1. j \notin diff
        BY <2>2, <2>3, <2>4
      <3> QED
        BY <3>1
    <2> QED
      BY <2>3, <2>4 DEF FirstDiff
  <1> QED
    BY <1>1, <1>2

\* The verdict in each case.
LEMMA CmpSizes ==
    ASSUME NEW s, NEW t, s.size # t.size
    PROVE  Cmp(s, t) = IF s.size < t.size THEN -1 ELSE 1
  BY DEF Cmp

LEMMA CmpSame ==
    ASSUME NEW s, NEW t, Same(s, t)
    PROVE  Cmp(s, t) = 0
  <1>1. {i \in 1 .. s.size : s.data[i] # t.data[i]} = {} /\ s.size = t.size
    BY DEF Same
  <1> QED
    BY <1>1 DEF Cmp

LEMMA CmpFirstDiff ==
    ASSUME NEW s, IsText(s), NEW t, NEW f, FirstDiff(s, t, f)
    PROVE  Cmp(s, t) = IF s.data[f] < t.data[f] THEN -1 ELSE 1
  <1> DEFINE diff == {i \in 1 .. s.size : s.data[i] # t.data[i]}
             first == CHOOSE i \in diff : \A j \in diff : i <= j
  <1>1. s.size = t.size /\ f \in diff /\ diff \subseteq Nat
    BY DEF FirstDiff, IsText
  <1>2. ASSUME NEW j \in diff
        PROVE  f <= j
    <2>1. j \in 1 .. s.size /\ s.data[j] # t.data[j] /\ j \in Nat /\ f \in Nat
      BY <1>1
    <2>2. ~ (j < f)
      BY <2>1 DEF FirstDiff
    <2> QED
      BY <2>1, <2>2
  <1>3. first \in diff /\ \A j \in diff : first <= j
    BY <1>1, <1>2
  <1>4. Cmp(s, t) = IF s.size # t.size THEN IF s.size < t.size THEN -1 ELSE 1
                    ELSE IF diff = {} THEN 0
                    ELSE IF s.data[first] < t.data[first] THEN -1 ELSE 1
    BY DEF Cmp
  <1> HIDE DEF first, diff
  <1>5. first = f
    <2>1. first \in Nat /\ f \in Nat /\ first <= f /\ f <= first
      BY <1>1, <1>2, <1>3
    <2> QED
      BY <2>1
  <1> QED
    BY <1>1, <1>4, <1>5

\* The characters of a text are all there is of it.
LEMMA SameIsBody ==
    ASSUME NEW s, IsText(s), NEW t, IsText(t)
    PROVE  Same(s, t) <=> Body(s) = Body(t)
  <1>1. /\ Body(s) \in Seq(Int) /\ Len(Body(s)) = s.size
        /\ \A i \in 1 .. s.size : Body(s)[i] = s.data[i]
    BY SubSeqProperties, 1 \in Int, s.size \in Int DEF Body, IsText
  <1>2. /\ Body(t) \in Seq(Int) /\ Len(Body(t)) = t.size
        /\ \A i \in 1 .. t.size : Body(t)[i] = t.data[i]
    BY SubSeqProperties, 1 \in Int, t.size \in Int DEF Body, IsText
  <1>3. ASSUME Same(s, t)
        PROVE  Body(s) = Body(t)
    <2>1. Len(Body(s)) = Len(Body(t)) /\ \A i \in 1 .. Len(Body(s)) : Body(s)[i] = Body(t)[i]
      BY <1>1, <1>2, <1>3 DEF Same
    <2> QED
      BY <1>1, <1>2, <2>1, SeqEqual
  <1>4. ASSUME Body(s) = Body(t)
        PROVE  Same(s, t)
    BY <1>1, <1>2, <1>4 DEF Same
  <1> QED
    BY <1>3, <1>4

\* Comparing says zero of equal texts only, and the reverse of the reverse.
LEMMA CmpZeroAndReverse ==
    ASSUME NEW s, IsText(s), NEW t, IsText(t)
    PROVE  /\ (Cmp(s, t) = 0) <=> (Body(s) = Body(t))
           /\ Cmp(s, t) = -Cmp(t, s)
  <1>1. s.size \in Nat /\ t.size \in Nat
    BY DEF IsText
  <1>2. CASE s.size # t.size
    <2>1. ~Same(s, t)
      BY <1>2 DEF Same
    <2>2. /\ Cmp(s, t) = IF s.size < t.size THEN -1 ELSE 1
          /\ Cmp(t, s) = IF t.size < s.size THEN -1 ELSE 1
      BY <1>2, CmpSizes
    <2>3. Cmp(s, t) = -Cmp(t, s) /\ Cmp(s, t) # 0
      BY <1>1, <1>2, <2>2
    <2>4. Body(s) # Body(t)
      BY <2>1, SameIsBody
    <2> QED
      BY <2>3, <2>4
  <1>3. CASE Same(s, t)
    <2>1. Same(t, s)
      BY <1>3 DEF Same
    <2>2. Cmp(s, t) = 0 /\ Cmp(t, s) = 0
      BY <1>3, <2>1, CmpSame
    <2>3. Cmp(s, t) = -Cmp(t, s)
      <3>1. \A n \in Int : -n = 0 - n
        OBVIOUS
      <3>2. Cmp(t, s) \in Int /\ 0 - Cmp(t, s) = 0
        BY <2>2
      <3>3. -Cmp(t, s) = 0 - Cmp(t, s)
        BY <3>1, <3>2, Zenon
      <3> QED
        BY <2>2, <3>2, <3>3, Zenon
    <2>4. Body(s) = Body(t)
      BY <1>3, SameIsBody
    <2> QED
      BY <2>2, <2>3, <2>4
  <1>4. ASSUME NEW f, FirstDiff(s, t, f)
        PROVE  /\ (Cmp(s, t) = 0) <=> (Body(s) = Body(t))
               /\ Cmp(s, t) = -Cmp(t, s)
    <2>1. FirstDiff(t, s, f) /\ ~Same(s, t)
      BY <1>4 DEF FirstDiff, Same
    <2>2. s.data[f] \in Int /\ t.data[f] \in Int /\ s.data[f] # t.data[f]
      BY <1>4 DEF FirstDiff, IsText
    <2>3. /\ Cmp(s, t) = IF s.data[f] < t.data[f] THEN -1 ELSE 1
          /\ Cmp(t, s) = IF t.data[f] < s.data[f] THEN -1 ELSE 1
      BY <1>4, <2>1, CmpFirstDiff
    <2> QED
      BY <2>1, <2>2, <2>3, SameIsBody
  <1> QED
    BY <1>2, <1>3, <1>4, SameOrFirstDiff

\* A text before another is shorter, or smaller at their first difference.
LEMMA CmpBefore ==
    ASSUME NEW s, IsText(s), NEW t, IsText(t), Cmp(s, t) < 0
    PROVE  \/ s.size < t.size
           \/ \E f : FirstDiff(s, t, f) /\ s.data[f] < t.data[f]
  <1>1. s.size \in Nat /\ t.size \in Nat
    BY DEF IsText
  <1>2. CASE s.size # t.size
    BY <1>1, <1>2, CmpSizes
  <1>3. CASE Same(s, t)
    BY <1>3, CmpSame
  <1>4. ASSUME NEW f, FirstDiff(s, t, f)
        PROVE  s.data[f] < t.data[f]
    BY <1>4, CmpFirstDiff
  <1> QED
    BY <1>2, <1>3, <1>4, SameOrFirstDiff

LEMMA CmpTransitive ==
    ASSUME NEW s, IsText(s), NEW t, IsText(t), NEW u, IsText(u),
           Cmp(s, t) < 0, Cmp(t, u) < 0
    PROVE  Cmp(s, u) < 0
  <1>1. s.size \in Nat /\ t.size \in Nat /\ u.size \in Nat
    BY DEF IsText
  <1>2. s.size <= t.size /\ t.size <= u.size
    BY <1>1, CmpBefore DEF FirstDiff
  <1>3. CASE s.size < u.size
    BY <1>1, <1>3, CmpSizes
  <1>4. CASE s.size = t.size /\ t.size = u.size
    <2>1. PICK f : FirstDiff(s, t, f) /\ s.data[f] < t.data[f]
      BY <1>1, <1>4, CmpBefore
    <2>2. PICK g : FirstDiff(t, u, g) /\ t.data[g] < u.data[g]
      BY <1>1, <1>4, CmpBefore
    <2>3. /\ f \in 1 .. s.size /\ g \in 1 .. s.size /\ f \in Nat /\ g \in Nat
          /\ \A j \in 1 .. s.size : j < f => s.data[j] = t.data[j]
          /\ \A j \in 1 .. s.size : j < g => t.data[j] = u.data[j]
          /\ \A j \in 1 .. s.size : s.data[j] \in Int /\ t.data[j] \in Int /\ u.data[j] \in Int
      BY <1>4, <2>1, <2>2 DEF FirstDiff, IsText
    <2>4. PICK h \in {f, g} : h <= f /\ h <= g
      BY <2>3
    <2>5. h \in 1 .. s.size /\ s.data[h] < u.data[h]
      <3>1. h < f => s.data[h] = t.data[h]
        BY <2>3, <2>4
      <3>2. h < g => t.data[h] = u.data[h]
        BY <2>3, <2>4
      <3> QED
        BY <2>1, <2>2, <2>3, <2>4, <3>1, <3>2
    <2>6. \A j \in 1 .. s.size : j < h => s.data[j] = u.data[j]
      BY <2>3, <2>4
    <2>7. FirstDiff(s, u, h)
      BY <1>4, <2>3, <2>5, <2>6 DEF FirstDiff
    <2> QED
      BY <2>5, <2>7, CmpFirstDiff
  <1> QED
    BY <1>1, <1>2, <1>3, <1>4

\* Strings, views of them and views of literals are compared by what they say,
\* in a total order of which the empty view is the least; whatever capacity a
\* string has and whether its characters lie in it or in a block.
THEOREM CmpIsOrderThm == Spec => []CmpIsOrder
  <1>1. ContainersInv => CmpIsOrder
    <2> SUFFICES ASSUME ContainersInv
                 PROVE  CmpIsOrder
      OBVIOUS
    <2> DEFINE literals == {ViewN(t, Len(t)) : t \in Literals} \cup {ViewS(t) : t \in Literals}
               texts == {str[n] : n \in Held} \cup {View(str[n]) : n \in Held}
    <2>1. ASSUME NEW s \in texts
          PROVE  IsText(s)
      <3>1. PICK n \in Held : s = str[n] \/ s = View(str[n])
        BY <2>1
      <3>2. s.size = str[n].size /\ s.data = str[n].data
        BY <3>1 DEF View
      <3>3. /\ str[n].size \in Nat /\ str[n].data \in Seq(Int)
            /\ Len(str[n].data) = str[n].size + 1
        BY WorkloadAssumption DEF ContainersInv, StrInv, WellFormed, StrValue, Ended
      <3> QED
        BY <3>2, <3>3 DEF IsText
    <2>2. ASSUME NEW s \in literals
          PROVE  IsText(s)
      <3>1. PICK t \in Literals : s = ViewN(t, Len(t)) \/ s = ViewS(t)
        BY <2>2
      <3>2. t \in Seq(Int) /\ Len(t) \in Nat /\ Len(CStr(t)) \in Nat /\ Len(CStr(t)) <= Len(t)
        BY TextsOfProgram, CStrIsFront
      <3>3. s.size \in {Len(t), Len(CStr(t))} /\ s.data = t
        BY <3>1 DEF ViewN, ViewS
      <3> QED
        BY <3>2, <3>3 DEF IsText
    <2>3. ASSUME NEW s \in texts
          PROVE  Cmp(s, NullView) = (IF s.size = 0 THEN 0 ELSE 1)
      <3>1. s.size \in Nat /\ NullView.size = 0
        BY <2>1 DEF IsText, NullView
      <3>2. CASE s.size = 0
        <4>1. Same(s, NullView)
          BY <3>1, <3>2 DEF Same
        <4> QED
          BY <3>2, <4>1, CmpSame
      <3>3. CASE s.size # 0
        BY <3>1, <3>3, CmpSizes
      <3> QED
        BY <3>2, <3>3
    <2> HIDE DEF texts, literals
    <2>4. ASSUME NEW s \in texts
          PROVE  /\ \A t \in texts \cup literals :
                       /\ (Cmp(s, t) = 0) <=> (Body(s) = Body(t))
                       /\ Cmp(s, t) = -Cmp(t, s)
                       /\ \A u \in literals : Cmp(s, t) < 0 /\ Cmp(t, u) < 0 => Cmp(s, u) < 0
                 /\ Cmp(s, NullView) = (IF s.size = 0 THEN 0 ELSE 1)
      BY <2>1, <2>2, <2>3, CmpZeroAndReverse, CmpTransitive
    <2> QED
      BY <2>4 DEF CmpIsOrder, texts, literals
  <1> QED
    BY <1>1, ContainersInvariance, PTL
=============================================================================
