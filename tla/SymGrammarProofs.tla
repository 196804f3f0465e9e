-------------------------- MODULE SymGrammarProofs --------------------------
(***************************************************************************)
(* The parser follows its text: it accepts the texts of SymGrammar without *)
(* escapes and no others, unless memory runs out, and its tree holds the   *)
(* tokens the grammar finds in them; for every text, however long and      *)
(* deep, and every limit.                                                  *)
(***************************************************************************)
EXTENDS SymProofs, FiniteSetTheorems

-----------------------------------------------------------------------------
(* The reference: the tokens of a text from each place on. *)

\* The least of some numbers.
LEMMA MinIs ==
    ASSUME NEW S \in SUBSET Nat, S # {}
    PROVE  Min(S) \in S /\ \A x \in S : Min(S) <= x
  <1>1. \E x \in S : \A y \in S : x <= y
    BY LeastNat
  <1> QED
    BY <1>1, Zenon DEF Min

\* The part of the bytes t that is read.
LEMMA LegibleIs ==
    ASSUME NEW t \in Seq(0 .. 255)
    PROVE  LET c == Legible(t)
           IN /\ c \in Seq(Int) /\ Len(c) \in Nat /\ Len(c) <= Len(t)
              /\ \A i \in 1 .. Len(c) : c[i] = Signed(t[i]) /\ c[i] # Eof
              /\ Len(c) < Len(t) => t[Len(c) + 1] = 255
  <1> DEFINE ends == {i \in DOMAIN t : t[i] = 255}
             cut == IF ends = {} THEN t ELSE SubSeq(t, 1, Min(ends) - 1)
             n == Len(cut)
             c == [i \in DOMAIN cut |-> Signed(cut[i])]
  <1>1. Len(t) \in Nat /\ DOMAIN t = 1 .. Len(t) /\ \A i \in 1 .. Len(t) : t[i] \in 0 .. 255
    BY LenProperties, ElementOfSeq
  <1>2. /\ cut \in Seq(0 .. 255) /\ n \in Nat /\ n <= Len(t)
        /\ \A i \in 1 .. n : cut[i] = t[i] /\ t[i] # 255
        /\ n < Len(t) => t[n + 1] = 255
    <2>1. CASE ends = {}
      BY <1>1, <2>1
    <2>2. CASE ends # {}
      <3>1. PICK m : m = Min(ends)
        OBVIOUS
      <3>2. ends \in SUBSET Nat
        BY <1>1
      <3>3. m \in ends /\ \A x \in ends : m <= x
        BY <2>2, <3>1, <3>2, MinIs
      <3>4. m \in 1 .. Len(t) /\ t[m] = 255 /\ \A i \in 1 .. m - 1 : t[i] # 255
        BY <1>1, <3>3
      <3>5. cut = SubSeq(t, 1, m - 1)
        BY <2>2, <3>1
      <3> HIDE DEF cut, ends
      <3>6. /\ cut \in Seq(0 .. 255) /\ Len(cut) = m - 1
            /\ \A i \in 1 .. m - 1 : cut[i] = t[i]
        BY <1>1, <3>4, <3>5, SubSeqProperties
      <3> QED
        BY <1>1, <3>4, <3>6
    <2> QED
      BY <2>1, <2>2
  <1> HIDE DEF cut
  <1>3. DOMAIN cut = 1 .. n
    BY <1>2, LenProperties
  <1>4. \A i \in 1 .. n : Signed(cut[i]) = Signed(t[i]) /\ Signed(cut[i]) \in Int /\ Signed(t[i]) # Eof
    <2> SUFFICES ASSUME NEW i \in 1 .. n
                 PROVE  /\ Signed(cut[i]) = Signed(t[i]) /\ Signed(cut[i]) \in Int
                        /\ Signed(t[i]) # Eof
      OBVIOUS
    <2>1. cut[i] = t[i] /\ t[i] # 255 /\ t[i] \in 0 .. 255
      BY <1>1, <1>2
    <2>2. \A b \in 0 .. 255 : b # 255 => Signed(b) \in Int /\ Signed(b) # Eof
      BY DEF Signed, Eof
    <2> QED
      BY <2>1, <2>2
  <1>5. c \in [1 .. n -> Int] /\ \A i \in 1 .. n : c[i] = Signed(cut[i])
    BY <1>3, <1>4
  <1>6. c \in Seq(Int) /\ Len(c) = n
    <2> HIDE DEF c
    <2>1. c \in Seq(Int)
      BY <1>2, <1>5, SeqDef
    <2> QED
      BY <1>2, <1>5, <2>1, LenProperties
  <1>7. c = Legible(t)
    BY Zenon DEF Legible, cut
  <1> HIDE DEF c
  <1> QED
    BY <1>2, <1>4, <1>5, <1>6, <1>7

\* What the parser reads is the next character of that part, or the end.
LEMMA ChLegible ==
    ASSUME text \in Seq(0 .. 255), pos \in 0 .. Len(Legible(text))
    PROVE  /\ Ch = Eof <=> pos = Len(Legible(text))
           /\ pos < Len(Legible(text)) => Ch = Legible(text)[pos + 1]
  <1>1. PICK c : c = Legible(text)
    OBVIOUS
  <1>2. /\ c \in Seq(Int) /\ Len(c) \in Nat /\ Len(c) <= Len(text)
        /\ \A i \in 1 .. Len(c) : c[i] = Signed(text[i]) /\ c[i] # Eof
        /\ Len(c) < Len(text) => text[Len(c) + 1] = 255
    BY <1>1, LegibleIs
  <1>3. Len(text) \in Nat /\ pos \in 0 .. Len(c)
    BY <1>1, LenProperties
  <1>4. CASE pos < Len(c)
    <2>1. pos + 1 \in 1 .. Len(c) /\ ~(pos >= Len(text))
      BY <1>2, <1>3, <1>4
    <2>2. Ch = Signed(text[pos + 1])
      BY <2>1 DEF Ch
    <2> QED
      BY <1>1, <1>2, <1>3, <1>4, <2>1, <2>2
  <1>5. CASE pos = Len(c)
    <2>1. Ch = Eof
      <3>1. CASE pos >= Len(text)
        BY <3>1 DEF Ch
      <3>2. CASE ~(pos >= Len(text))
        <4>1. text[pos + 1] = 255
          BY <1>2, <1>3, <1>5, <3>2
        <4> QED
          BY <3>2, <4>1 DEF Ch, Signed, Eof
      <3> QED
        BY <3>1, <3>2
    <2> QED
      BY <1>1, <1>5, <2>1, <1>2
  <1> QED
    BY <1>3, <1>4, <1>5, <1>2

\* The least place of S behind i: there is one, and it is the only one.
LEMMA AfterIs ==
    ASSUME NEW n \in Nat, NEW S \in SUBSET (1 .. n), NEW i \in 1 .. n
    PROVE  /\ After(S, i, n + 1) \in i + 1 .. n + 1
           /\ After(S, i, n + 1) <= n => After(S, i, n + 1) \in S
           /\ \A k \in i + 1 .. After(S, i, n + 1) - 1 : k \notin S
  <1> DEFINE later == {j \in S : j > i}
  <1>1. \A j \in later : j \in Nat /\ j \in i + 1 .. n /\ j \in S
    OBVIOUS
  <1>2. After(S, i, n + 1) = IF later = {} THEN n + 1 ELSE Min(later)
    BY DEF After
  <1> HIDE DEF later
  <1>3. later \in SUBSET Nat
    BY <1>1
  <1>4. later # {} => Min(later) \in later /\ \A j \in later : Min(later) <= j
    BY <1>3, MinIs
  <1>5. \A k \in i + 1 .. n : k \in S => k \in later
    BY DEF later
  <1>6. CASE later = {}
    <2>1. After(S, i, n + 1) = n + 1
      BY <1>2, <1>6
    <2>2. \A k \in i + 1 .. n : k \notin S
      BY <1>5, <1>6
    <2> QED
      BY <2>1, <2>2
  <1>7. CASE later # {}
    <2>1. PICK m : m = Min(later)
      OBVIOUS
    <2>2. After(S, i, n + 1) = m
      BY <1>2, <1>7, <2>1
    <2>3. m \in Nat /\ m \in i + 1 .. n /\ m \in S /\ \A j \in later : m <= j
      BY <1>1, <1>4, <1>7, <2>1
    <2>4. \A k \in i + 1 .. m - 1 : k \notin S
      <3> SUFFICES ASSUME NEW k \in i + 1 .. m - 1, k \in S
                   PROVE  FALSE
        OBVIOUS
      <3>1. k \in i + 1 .. n
        BY <2>3
      <3>2. m <= k
        BY <1>5, <2>3, <3>1
      <3> QED
        BY <2>3, <3>1, <3>2
    <2> QED
      BY <2>2, <2>3, <2>4
  <1> QED
    BY <1>6, <1>7

\* What is in S with nothing of S before it is the first.
LEMMA AfterOnly ==
    ASSUME NEW n \in Nat, NEW S \in SUBSET (1 .. n), NEW i \in 1 .. n,
           NEW j \in i + 1 .. n + 1, j <= n => j \in S, \A k \in i + 1 .. j - 1 : k \notin S
    PROVE  After(S, i, n + 1) = j
  <1> DEFINE later == {x \in S : x > i}
  <1>1. \A x \in later : x \in Nat /\ x \in S /\ x > i /\ x <= n
    OBVIOUS
  <1>2. \A x \in later : x >= j
    <2> SUFFICES ASSUME NEW x \in later, ~(x >= j)
                 PROVE  FALSE
      OBVIOUS
    <2>1. x \in i + 1 .. j - 1
      BY <1>1
    <2> QED
      BY <1>1, <2>1
  <1>3. After(S, i, n + 1) = IF later = {} THEN n + 1 ELSE Min(later)
    BY DEF After
  <1>4. j <= n => j \in later
    OBVIOUS
  <1> HIDE DEF later
  <1>5. later \in SUBSET Nat
    BY <1>1
  <1>6. later # {} => Min(later) \in later /\ \A x \in later : Min(later) <= x
    BY <1>5, MinIs
  <1>7. CASE j = n + 1
    <2>1. later = {}
      BY <1>1, <1>2, <1>7
    <2> QED
      BY <1>3, <1>7, <2>1
  <1>8. CASE j <= n
    <2>1. Min(later) \in later /\ Min(later) <= j /\ later # {}
      BY <1>4, <1>6, <1>8
    <2>2. Min(later) >= j /\ Min(later) \in Nat
      BY <1>1, <1>2, <2>1
    <2> QED
      BY <1>3, <2>1, <2>2
  <1> QED
    BY <1>7, <1>8

\* What is in the pieces of a text.
Marks(c) == Symbols \cup {Bad} \cup UNION {ToSet(Piece(c, i).tokens) : i \in 1 .. Len(c)}

\* A piece goes forward, and is at most one token.
LEMMA PieceGoesOn ==
    ASSUME NEW c \in Seq(Int), NEW i \in 1 .. Len(c)
    PROVE  /\ Piece(c, i).next \in i + 1 .. Len(c) + 1
           /\ Piece(c, i).tokens = <<>> \/ \E x : Piece(c, i).tokens = <<x>>
  <1> DEFINE n == Len(c)
             quotes == {j \in 1 .. n : c[j] = Letter.quote}
             delims == {j \in 1 .. n : IsBlank(c[j]) \/ IsPunc(c[j])}
             shut == After(quotes, i, n + 1)
             stop == After(delims, i, n + 1)
             t == Piece(c, i)
             Is(p) == \E next \in i + 1 .. n + 1 : \E tokens :
                         /\ p = [tokens |-> tokens, next |-> next]
                         /\ tokens = <<>> \/ \E x : tokens = <<x>>
  <1>1. n \in Nat /\ quotes \in SUBSET (1 .. n) /\ delims \in SUBSET (1 .. n)
    BY LenProperties
  <1>2. shut \in i + 1 .. n + 1 /\ stop \in i + 1 .. n + 1
    <2> HIDE DEF quotes, delims, n
    <2> QED
      BY <1>1, AfterIs DEF n
  <1>3. t = IF IsBlank(c[i]) THEN [tokens |-> <<>>, next |-> i + 1]
            ELSE IF c[i] = Letter.lparen THEN [tokens |-> <<Open>>, next |-> i + 1]
            ELSE IF c[i] = Letter.rparen THEN [tokens |-> <<Close>>, next |-> i + 1]
            ELSE IF c[i] = Letter.quote
              THEN IF shut > n THEN [tokens |-> <<Bad>>, next |-> n + 1]
                   ELSE [tokens |-> <<StrToken(SubSeq(c, i + 1, shut - 1))>>, next |-> shut + 1]
            ELSE IF c[i] = Letter.tick
              THEN IF i + 2 <= n /\ c[i + 2] = Letter.tick /\ c[i + 1] >= 0
                   THEN [tokens |-> <<NumToken(c[i + 1])>>, next |-> i + 3]
                   ELSE [tokens |-> <<Bad>>, next |-> n + 1]
            ELSE [tokens |-> <<WordToken(SubSeq(c, i, stop - 1))>>, next |-> stop]
    BY Zenon DEF Piece
  <1> HIDE DEF shut, stop, n, quotes, delims, t
  <1>4. /\ i + 1 \in i + 1 .. n + 1 /\ n + 1 \in i + 1 .. n + 1
        /\ shut <= n => shut + 1 \in i + 1 .. n + 1
        /\ i + 2 <= n => i + 3 \in i + 1 .. n + 1
        /\ ~(shut > n) => shut <= n
    BY <1>1, <1>2 DEF n
  <1>5. Is(t)
    <2>1. CASE IsBlank(c[i])
      BY <1>3, <1>4, <2>1, Zenon
    <2>2. CASE ~IsBlank(c[i]) /\ c[i] = Letter.lparen
      BY <1>3, <1>4, <2>2, Zenon
    <2>3. CASE ~IsBlank(c[i]) /\ c[i] # Letter.lparen /\ c[i] = Letter.rparen
      BY <1>3, <1>4, <2>3, Zenon
    <2> DEFINE Plain == ~IsBlank(c[i]) /\ c[i] # Letter.lparen /\ c[i] # Letter.rparen
    <2>4. CASE Plain /\ c[i] = Letter.quote
      <3>1. CASE shut > n
        BY <1>3, <1>4, <2>4, <3>1, Zenon
      <3>2. CASE ~(shut > n)
        BY <1>3, <1>4, <2>4, <3>2, Zenon
      <3> QED
        BY <3>1, <3>2
    <2>5. CASE Plain /\ c[i] # Letter.quote /\ c[i] = Letter.tick
      <3>1. CASE i + 2 <= n /\ c[i + 2] = Letter.tick /\ c[i + 1] >= 0
        BY <1>3, <1>4, <2>5, <3>1, Zenon
      <3>2. CASE ~(i + 2 <= n /\ c[i + 2] = Letter.tick /\ c[i + 1] >= 0)
        BY <1>3, <1>4, <2>5, <3>2, Zenon
      <3> QED
        BY <3>1, <3>2
    <2>6. CASE Plain /\ c[i] # Letter.quote /\ c[i] # Letter.tick
      BY <1>2, <1>3, <1>4, <2>6, Zenon
    <2> QED
      BY <2>1, <2>2, <2>3, <2>4, <2>5, <2>6, Zenon
  <1>6. PICK next \in i + 1 .. n + 1, tokens \in {t.tokens} :
           /\ t.next = next
           /\ tokens = <<>> \/ \E x : tokens = <<x>>
    BY <1>5
  <1> QED
    BY <1>6 DEF t, n

\* f gives the tokens from each place of D on.
TokensOf(c, D, f) ==
    /\ f \in [D -> Seq(Marks(c))]
    /\ \A i \in D : f[i] = IF i > Len(c) THEN <<>>
                           ELSE Piece(c, i).tokens \o f[Piece(c, i).next]

\* A piece is of such tokens.
LEMMA PieceIsSeq ==
    ASSUME NEW c \in Seq(Int), NEW i \in 1 .. Len(c)
    PROVE  Piece(c, i).tokens \in Seq(Marks(c))
  <1>1. CASE Piece(c, i).tokens = <<>>
    BY <1>1
  <1>2. CASE \E x : Piece(c, i).tokens = <<x>>
    <2>1. PICK x : Piece(c, i).tokens = <<x>>
      BY <1>2
    <2>2. x \in ToSet(<<x>>)
      BY DEF ToSet
    <2>3. x \in Marks(c)
      BY <2>1, <2>2 DEF Marks
    <2> QED
      BY <2>1, <2>3
  <1> QED
    BY <1>1, <1>2, PieceGoesOn

\* The equations of TokensFrom have a solution: it goes from the end back.
LEMMA TokensExist ==
    ASSUME NEW c \in Seq(Int)
    PROVE  \E f : TokensOf(c, 1 .. Len(c) + 1, f)
  <1> DEFINE n == Len(c)
             From(k) == (n + 1) - k .. n + 1
             Has(k) == \E f : TokensOf(c, From(k), f)
             T == {k \in Nat : k <= n => Has(k)}
  <1>1. n \in Nat
    BY LenProperties
  <1>2. 0 \in T
    <2> DEFINE f == [i \in {n + 1} |-> <<>>]
    <2>1. From(0) = {n + 1}
      BY <1>1
    <2>2. f \in [{n + 1} -> Seq(Marks(c))] /\ f[n + 1] = <<>> /\ n + 1 > Len(c)
      BY <1>1
    <2> HIDE DEF f
    <2>3. TokensOf(c, {n + 1}, f)
      BY <2>2 DEF TokensOf
    <2>4. Has(0)
      BY <2>1, <2>3
    <2> HIDE DEF Has
    <2> QED
      BY <2>4
  <1>3. ASSUME NEW k \in Nat, k \in T, k + 1 <= n
        PROVE  Has(k + 1)
    <2>1. PICK f : TokensOf(c, From(k), f)
      <3>1. k <= n
        BY <1>1, <1>3
      <3> QED
        BY <1>3, <3>1
    <2> DEFINE D == From(k)
               E == From(k + 1)
               new == n - k
               word == Piece(c, new).tokens \o f[Piece(c, new).next]
               g == [i \in E |-> IF i = new THEN word ELSE f[i]]
    <2>2. /\ new \in 1 .. n /\ new \notin D /\ E = D \cup {new}
          /\ \A j \in new + 1 .. n + 1 : j \in D
          /\ \A i \in D : i <= n => i \in 1 .. n /\ \A j \in i + 1 .. n + 1 : j \in D
          /\ \A i \in D : i > n <=> ~(i <= n)
      BY <1>1, <1>3
    <2>3. /\ f \in [D -> Seq(Marks(c))]
          /\ \A i \in D : f[i] = IF i > n THEN <<>> ELSE Piece(c, i).tokens \o f[Piece(c, i).next]
      BY <2>1 DEF TokensOf
    <2> HIDE DEF D, E, new, From, n
    <2>4. \A i \in 1 .. n : Piece(c, i).tokens \in Seq(Marks(c)) /\ Piece(c, i).next \in i + 1 .. n + 1
      BY PieceIsSeq, PieceGoesOn DEF n
    <2>5. Piece(c, new).next \in D /\ word \in Seq(Marks(c))
      <3>1. Piece(c, new).next \in D
        BY <2>2, <2>4
      <3>2. f[Piece(c, new).next] \in Seq(Marks(c)) /\ Piece(c, new).tokens \in Seq(Marks(c))
        BY <2>2, <2>3, <2>4, <3>1
      <3> QED
        BY <3>1, <3>2, ConcatProperties
    <2>6. \A i \in D : i <= n => Piece(c, i).next \in D
      BY <2>2, <2>4
    <2>7. word = Piece(c, new).tokens \o f[Piece(c, new).next]
      OBVIOUS
    <2> HIDE DEF word
    <2>8. g \in [E -> Seq(Marks(c))] /\ g[new] = word /\ \A i \in D : g[i] = f[i]
      BY <2>2, <2>3, <2>5
    <2> HIDE DEF g
    <2>9. ASSUME NEW i \in E
          PROVE  g[i] = IF i > n THEN <<>> ELSE Piece(c, i).tokens \o g[Piece(c, i).next]
      <3>1. CASE i = new
        <4>1. ~(new > n)
          BY <1>1, <2>2
        <4> QED
          BY <2>5, <2>7, <2>8, <3>1, <4>1
      <3>2. CASE i \in D
        BY <2>2, <2>3, <2>6, <2>8, <3>2
      <3> QED
        BY <2>2, <3>1, <3>2
    <2>10. TokensOf(c, E, g)
      BY <2>8, <2>9, Zenon DEF TokensOf, n
    <2> QED
      BY <2>10 DEF E
  <1>4. \A k \in Nat : k \in T => k + 1 \in T
    <2> HIDE DEF Has
    <2> QED
      BY <1>1, <1>3
  <1>5. Has(n)
    <2> HIDE DEF Has
    <2>1. T \in SUBSET Nat
      OBVIOUS
    <2>2. T = Nat
      <3> HIDE DEF T
      <3> QED
        BY <1>2, <1>4, <2>1, AllNumbers
    <2> QED
      BY <1>1, <2>2
  <1>6. From(n) = 1 .. n + 1
    BY <1>1
  <1> QED
    BY <1>5, <1>6

\* The equation of TokensFrom.
LEMMA TokensFromIs ==
    ASSUME NEW c \in Seq(Int)
    PROVE  /\ TokensFrom(c)[Len(c) + 1] = <<>>
           /\ \A i \in 1 .. Len(c) + 1 : TokensFrom(c)[i] \in Seq(Marks(c))
           /\ \A i \in 1 .. Len(c) :
                 /\ Piece(c, i).next \in i + 1 .. Len(c) + 1
                 /\ TokensFrom(c)[i] = Piece(c, i).tokens \o TokensFrom(c)[Piece(c, i).next]
  <1> DEFINE n == Len(c)
             D == 1 .. n + 1
             M == Marks(c)
             Holds(f) == f = [i \in D |-> IF i > n THEN <<>>
                                          ELSE Piece(c, i).tokens \o f[Piece(c, i).next]]
             from == CHOOSE f : Holds(f)
  <1>1. n \in Nat
    BY LenProperties
  <1>2. TokensFrom(c) = from
    BY Zenon DEF TokensFrom
  <1>3. PICK f : TokensOf(c, D, f)
    BY TokensExist
  <1>4. Holds(f)
    <2>1. f = [i \in D |-> f[i]]
          /\ \A i \in D : f[i] = IF i > n THEN <<>> ELSE Piece(c, i).tokens \o f[Piece(c, i).next]
      BY <1>3 DEF TokensOf
    <2> QED
      BY <2>1, Zenon
  <1>5. Holds(from)
    <2> HIDE DEF Holds
    <2> QED
      BY <1>4, Zenon
  <1> HIDE DEF from
  <1>6. \A i \in D : from[i] = IF i > n THEN <<>> ELSE Piece(c, i).tokens \o from[Piece(c, i).next]
    BY <1>5, Zenon
  <1>7. \A i \in 1 .. n : Piece(c, i).next \in i + 1 .. n + 1 /\ Piece(c, i).tokens \in Seq(M)
    BY PieceGoesOn, PieceIsSeq
  <1> HIDE DEF Holds, M, n
  <1> DEFINE T == {k \in Nat : k <= n => \A i \in (n + 1) - k .. n + 1 : from[i] \in Seq(M)}
  <1>8. 0 \in T
    <2>1. from[n + 1] = <<>>
      BY <1>1, <1>6
    <2>2. \A i \in (n + 1) - 0 .. n + 1 : i = n + 1
      BY <1>1
    <2>3. <<>> \in Seq(M)
      OBVIOUS
    <2> QED
      BY <2>1, <2>2, <2>3
  <1>9. ASSUME NEW k \in Nat, k \in T
        PROVE  k + 1 \in T
    <2> SUFFICES ASSUME k + 1 <= n, NEW i \in (n + 1) - (k + 1) .. n + 1
                 PROVE  from[i] \in Seq(M)
      OBVIOUS
    <2>1. \A j \in (n + 1) - k .. n + 1 : from[j] \in Seq(M)
      BY <1>1, <1>9
    <2>2. CASE i = n - k
      <3>1. i \in 1 .. n /\ i \in D /\ ~(i > n)
        BY <1>1, <2>2
      <3>2. \A j \in i + 1 .. n + 1 : j \in (n + 1) - k .. n + 1
        BY <1>1, <2>2
      <3>3. from[Piece(c, i).next] \in Seq(M) /\ Piece(c, i).tokens \in Seq(M)
        BY <1>7, <2>1, <3>1, <3>2
      <3>4. from[i] = Piece(c, i).tokens \o from[Piece(c, i).next]
        BY <1>6, <3>1
      <3> QED
        BY <3>3, <3>4, ConcatProperties
    <2>3. CASE i # n - k
      <3>1. i \in (n + 1) - k .. n + 1
        BY <1>1, <2>3
      <3> QED
        BY <2>1, <3>1
    <2> QED
      BY <2>2, <2>3
  <1>10. n \in T
    <2>1. T \in SUBSET Nat
      OBVIOUS
    <2>2. T = Nat
      <3> HIDE DEF T
      <3> QED
        BY <1>8, <1>9, <2>1, AllNumbers
    <2> QED
      BY <1>1, <2>2
  <1>11. \A i \in D : from[i] \in Seq(M)
    <2>1. (n + 1) - n = 1 /\ n <= n
      BY <1>1
    <2> QED
      BY <1>10, <2>1
  <1>12. from[n + 1] = <<>>
    BY <1>1, <1>6
  <1>13. \A i \in 1 .. n : from[i] = Piece(c, i).tokens \o from[Piece(c, i).next]
    <2>1. \A i \in 1 .. n : i \in D /\ ~(i > n)
      BY <1>1
    <2> HIDE DEF D
    <2> QED
      BY <1>6, <2>1, Zenon
  <1> QED
    BY <1>2, <1>7, <1>11, <1>12, <1>13 DEF n, M

-----------------------------------------------------------------------------
(* What stands at a place of a text. *)

\* What ends a word, if not the end of the text.
IsDelim(x) == IsBlank(x) \/ IsPunc(x)

\* What a blank and a bracket are.
LEMMA MarkPieces ==
    ASSUME NEW c \in Seq(Int), NEW i \in 1 .. Len(c)
    PROVE  /\ IsBlank(c[i]) => TokensFrom(c)[i] = TokensFrom(c)[i + 1]
           /\ c[i] = Letter.lparen => TokensFrom(c)[i] = <<Open>> \o TokensFrom(c)[i + 1]
           /\ c[i] = Letter.rparen => TokensFrom(c)[i] = <<Close>> \o TokensFrom(c)[i + 1]
  <1>1. TokensFrom(c)[i] = Piece(c, i).tokens \o TokensFrom(c)[Piece(c, i).next]
    BY TokensFromIs
  <1>2. /\ Letter.lparen = 40 /\ Letter.rparen = 41 /\ ~IsBlank(40) /\ ~IsBlank(41)
    BY DEF Letter, IsBlank
  <1>3. CASE IsBlank(c[i])
    <2>1. Piece(c, i) = [tokens |-> <<>>, next |-> i + 1]
      BY <1>3, Zenon DEF Piece
    <2>2. Piece(c, i).tokens = <<>> /\ Piece(c, i).next = i + 1
      BY <2>1
    <2>3. i + 1 \in 1 .. Len(c) + 1
      BY LenProperties
    <2>4. TokensFrom(c)[i + 1] \in Seq(Marks(c))
      BY <2>3, TokensFromIs
    <2>5. <<>> \o TokensFrom(c)[i + 1] = TokensFrom(c)[i + 1]
      BY <2>4
    <2> QED
      BY <1>1, <1>2, <1>3, <2>2, <2>5
  <1>4. CASE c[i] = Letter.lparen
    <2>1. Piece(c, i) = [tokens |-> <<Open>>, next |-> i + 1]
      BY <1>2, <1>4, Zenon DEF Piece
    <2> QED
      BY <1>1, <1>2, <1>4, <2>1
  <1>5. CASE c[i] = Letter.rparen
    <2>1. c[i] # Letter.lparen /\ ~IsBlank(c[i])
      BY <1>2, <1>5
    <2>2. Piece(c, i) = [tokens |-> <<Close>>, next |-> i + 1]
      BY <1>5, <2>1, Zenon DEF Piece
    <2> QED
      BY <1>1, <1>2, <1>5, <2>2
  <1> QED
    BY <1>3, <1>4, <1>5

\* Behind a piece that takes the rest of the text there is nothing.
LEMMA BadEnds ==
    ASSUME NEW c \in Seq(Int)
    PROVE  <<Bad>> \o TokensFrom(c)[Len(c) + 1] = <<Bad>>
  <1>1. TokensFrom(c)[Len(c) + 1] = <<>>
    BY TokensFromIs, Zenon
  <1>2. <<Bad>> \o <<>> = <<Bad>>
    OBVIOUS
  <1> QED
    BY <1>1, <1>2

\* What begins with a quote.
LEMMA StringPiece ==
    ASSUME NEW c \in Seq(Int), NEW i \in 1 .. Len(c), c[i] = Letter.quote,
           NEW j \in i + 1 .. Len(c) + 1, j <= Len(c) => c[j] = Letter.quote,
           \A k \in i + 1 .. j - 1 : c[k] # Letter.quote
    PROVE  /\ j <= Len(c) => TokensFrom(c)[i] = <<StrToken(SubSeq(c, i + 1, j - 1))>>
                                                \o TokensFrom(c)[j + 1]
           /\ j = Len(c) + 1 => TokensFrom(c)[i] = <<Bad>>
  <1> DEFINE n == Len(c)
             quotes == {k \in 1 .. n : c[k] = Letter.quote}
             shut == After(quotes, i, n + 1)
  <1>1. TokensFrom(c)[i] = Piece(c, i).tokens \o TokensFrom(c)[Piece(c, i).next]
    BY TokensFromIs
  <1>2. c[i] # Letter.lparen /\ c[i] # Letter.rparen /\ ~IsBlank(c[i])
    BY DEF Letter, IsBlank
  <1>3. Piece(c, i) = IF shut > n THEN [tokens |-> <<Bad>>, next |-> n + 1]
                      ELSE [tokens |-> <<StrToken(SubSeq(c, i + 1, shut - 1))>>, next |-> shut + 1]
    BY <1>2, Zenon DEF Piece
  <1>4. n \in Nat /\ quotes \in SUBSET (1 .. n) /\ i \in 1 .. n /\ j \in i + 1 .. n + 1
    BY LenProperties
  <1>5. j <= n => j \in quotes
    BY <1>4
  <1>6. \A k \in i + 1 .. j - 1 : k \notin quotes
    OBVIOUS
  <1>7. shut = j
    <2> HIDE DEF quotes, n
    <2> QED
      BY <1>4, <1>5, <1>6, AfterOnly
  <1>8. CASE j <= n
    <2>1. ~(j > n)
      BY <1>4, <1>8
    <2>2. Piece(c, i) = [tokens |-> <<StrToken(SubSeq(c, i + 1, j - 1))>>, next |-> j + 1]
      BY <1>3, <1>7, <2>1
    <2>3. j # n + 1
      BY <1>4, <1>8
    <2>4. /\ Piece(c, i).tokens = <<StrToken(SubSeq(c, i + 1, j - 1))>>
          /\ Piece(c, i).next = j + 1
      BY <2>2
    <2>5. TokensFrom(c)[i] = <<StrToken(SubSeq(c, i + 1, j - 1))>> \o TokensFrom(c)[j + 1]
      BY <1>1, <2>4, Zenon
    <2> QED
      BY <2>3, <2>5, Zenon
  <1>9. CASE j = n + 1
    <2>1. j > n /\ ~(j <= n)
      BY <1>4, <1>9
    <2>2. Piece(c, i) = [tokens |-> <<Bad>>, next |-> n + 1]
      BY <1>3, <1>7, <2>1
    <2>3. TokensFrom(c)[i] = <<Bad>>
      BY <1>1, <2>2, BadEnds
    <2> HIDE DEF n
    <2> QED
      BY <2>1, <2>3 DEF n
  <1>10. j <= n \/ j = n + 1
    BY <1>4
  <1> HIDE DEF n
  <1> QED
    BY <1>8, <1>9, <1>10, Zenon DEF n

\* What begins with a tick.
LEMMA CharPiece ==
    ASSUME NEW c \in Seq(Int), NEW i \in 1 .. Len(c), c[i] = Letter.tick
    PROVE  /\ i + 2 <= Len(c) /\ c[i + 2] = Letter.tick /\ c[i + 1] >= 0 =>
                 TokensFrom(c)[i] = <<NumToken(c[i + 1])>> \o TokensFrom(c)[i + 3]
           /\ ~(i + 2 <= Len(c) /\ c[i + 2] = Letter.tick /\ c[i + 1] >= 0) =>
                 TokensFrom(c)[i] = <<Bad>>
  <1> DEFINE n == Len(c)
             Ends == i + 2 <= n /\ c[i + 2] = Letter.tick /\ c[i + 1] >= 0
  <1>1. TokensFrom(c)[i] = Piece(c, i).tokens \o TokensFrom(c)[Piece(c, i).next]
    BY TokensFromIs
  <1>2. c[i] # Letter.lparen /\ c[i] # Letter.rparen /\ ~IsBlank(c[i]) /\ c[i] # Letter.quote
    BY DEF Letter, IsBlank
  <1>3. Piece(c, i) = IF Ends THEN [tokens |-> <<NumToken(c[i + 1])>>, next |-> i + 3]
                      ELSE [tokens |-> <<Bad>>, next |-> n + 1]
    BY <1>2, Zenon DEF Piece
  <1> HIDE DEF Ends
  <1>4. Ends => TokensFrom(c)[i] = <<NumToken(c[i + 1])>> \o TokensFrom(c)[i + 3]
    BY <1>1, <1>3
  <1>5. ~Ends => TokensFrom(c)[i] = <<Bad>>
    <2> SUFFICES ASSUME ~Ends
                 PROVE  TokensFrom(c)[i] = <<Bad>>
      OBVIOUS
    <2>1. Piece(c, i) = [tokens |-> <<Bad>>, next |-> Len(c) + 1]
      BY <1>3
    <2>2. Piece(c, i).tokens = <<Bad>> /\ Piece(c, i).next = Len(c) + 1
      BY <2>1
    <2>3. TokensFrom(c)[i] = <<Bad>> \o TokensFrom(c)[Len(c) + 1]
      BY <1>1, <2>2
    <2> QED
      BY <2>3, BadEnds, Zenon
  <1> QED
    BY <1>4, <1>5 DEF Ends, n

\* A word that begins at i ends before j.
IsWord(c, i, j) ==
    /\ j \in i + 1 .. Len(c) + 1 /\ (j <= Len(c) => IsDelim(c[j]))
    /\ \A k \in i + 1 .. j - 1 : ~IsDelim(c[k])

\* What begins with anything else is a word, up to its end.
LEMMA WordPiece ==
    ASSUME NEW c \in Seq(Int), NEW i \in 1 .. Len(c),
           ~IsDelim(c[i]), c[i] # Letter.quote, c[i] # Letter.tick
    PROVE  /\ \E j : IsWord(c, i, j)
           /\ \A j : IsWord(c, i, j) =>
                 TokensFrom(c)[i] = <<WordToken(SubSeq(c, i, j - 1))>> \o TokensFrom(c)[j]
  <1> DEFINE n == Len(c)
             delims == {k \in 1 .. n : IsBlank(c[k]) \/ IsPunc(c[k])}
             stop == After(delims, i, n + 1)
  <1>1. TokensFrom(c)[i] = Piece(c, i).tokens \o TokensFrom(c)[Piece(c, i).next]
    BY TokensFromIs
  <1>2. c[i] # Letter.lparen /\ c[i] # Letter.rparen /\ ~IsBlank(c[i])
    BY DEF IsDelim, IsPunc
  <1>3. Piece(c, i) = [tokens |-> <<WordToken(SubSeq(c, i, stop - 1))>>, next |-> stop]
    BY <1>2, Zenon DEF Piece
  <1>4. n \in Nat /\ delims \in SUBSET (1 .. n) /\ i \in 1 .. n
    BY LenProperties
  <1>5. \A k \in 1 .. n : k \in delims <=> IsDelim(c[k])
    BY DEF IsDelim
  <1> HIDE DEF delims, n
  <1>6. /\ stop \in i + 1 .. n + 1 /\ (stop <= n => stop \in delims)
        /\ \A k \in i + 1 .. stop - 1 : k \notin delims
    BY <1>4, AfterIs
  <1>7. IsWord(c, i, stop)
    <2>1. \A k \in i + 1 .. stop - 1 : k \in 1 .. n
      BY <1>4, <1>6
    <2>2. stop <= n => IsDelim(c[stop])
      BY <1>4, <1>5, <1>6
    <2> QED
      BY <1>5, <1>6, <2>1, <2>2 DEF IsWord, n
  <1>8. ASSUME NEW j, IsWord(c, i, j)
        PROVE  stop = j
    <2>1. j \in i + 1 .. n + 1 /\ (j <= n => IsDelim(c[j])) /\ \A k \in i + 1 .. j - 1 : ~IsDelim(c[k])
      BY <1>8 DEF IsWord, n
    <2>2. \A k \in i + 1 .. j - 1 : k \in 1 .. n
      BY <1>4, <2>1
    <2>3. j <= n => j \in delims
      BY <1>4, <1>5, <2>1
    <2>4. \A k \in i + 1 .. j - 1 : k \notin delims
      BY <1>5, <2>1, <2>2
    <2> HIDE DEF stop
    <2> QED
      BY <1>4, <2>1, <2>3, <2>4, AfterOnly DEF stop
  <1> HIDE DEF stop
  <1> QED
    BY <1>1, <1>3, <1>7, <1>8

-----------------------------------------------------------------------------
(* Words and the numbers they stand for.                                     *)

\* f has the values of the first digits of w.
Values(w, radix, k, f) ==
    /\ f \in [0 .. k -> Int] /\ f[0] = 0
    /\ \A j \in 1 .. k : f[j] = radix * f[j - 1] + HexDig(w[j])

\* There are such values.
LEMMA ValuesExist ==
    ASSUME NEW w \in Seq(Int), NEW radix \in Int
    PROVE  \E f : Values(w, radix, Len(w), f)
  <1> DEFINE n == Len(w)
             Has(k) == \E f : Values(w, radix, k, f)
             T == {k \in Nat : k <= n => Has(k)}
  <1>1. n \in Nat /\ \A k \in 1 .. n : HexDig(w[k]) \in Int
    BY LenProperties, ElementOfSeq, HexDigRange
  <1>2. 0 \in T
    <2> DEFINE f == [k \in {0} |-> 0]
    <2>1. 0 .. 0 = {0} /\ 1 .. 0 = {}
      OBVIOUS
    <2>2. f \in [{0} -> Int] /\ f[0] = 0
      OBVIOUS
    <2> HIDE DEF f
    <2>3. Values(w, radix, 0, f)
      BY <2>1, <2>2 DEF Values
    <2>4. Has(0)
      BY <2>3
    <2> HIDE DEF Has
    <2> QED
      BY <2>4
  <1>3. ASSUME NEW k \in Nat, k \in T
        PROVE  k + 1 \in T
    <2>1. ASSUME k + 1 <= n
          PROVE  Has(k + 1)
      <3>1. Has(k)
        <4>1. k <= n
          BY <1>1, <2>1
        <4> HIDE DEF Has
        <4> QED
          BY <1>3, <4>1
      <3>2. PICK f : Values(w, radix, k, f)
        BY <3>1
      <3> DEFINE v == radix * f[k] + HexDig(w[k + 1])
                 g == [j \in 0 .. k + 1 |-> IF j = k + 1 THEN v ELSE f[j]]
      <3>3. /\ f \in [0 .. k -> Int] /\ f[0] = 0
            /\ \A j \in 1 .. k : f[j] = radix * f[j - 1] + HexDig(w[j])
        BY <3>2 DEF Values
      <3>4. k + 1 \in 1 .. n /\ k \in 0 .. k
        BY <1>1, <2>1
      <3>5. v \in Int
        <4>1. f[k] \in Int /\ HexDig(w[k + 1]) \in Int
          BY <1>1, <3>3, <3>4
        <4> QED
          BY <4>1
      <3>6. v = radix * f[k] + HexDig(w[k + 1])
        OBVIOUS
      <3> HIDE DEF v
      <3>7. g \in [0 .. k + 1 -> Int] /\ g[k + 1] = v /\ \A j \in 0 .. k : g[j] = f[j]
        BY <3>3, <3>5
      <3> HIDE DEF g
      <3>8. ASSUME NEW j \in 1 .. k + 1
            PROVE  g[j] = radix * g[j - 1] + HexDig(w[j])
        <4>1. j - 1 \in 0 .. k /\ g[j - 1] = f[j - 1]
          BY <3>7
        <4>2. CASE j = k + 1
          BY <3>6, <3>7, <4>1, <4>2
        <4>3. CASE j \in 1 .. k
          BY <3>3, <3>7, <4>1, <4>3
        <4> QED
          BY <4>2, <4>3
      <3>9. g[0] = 0
        BY <3>3, <3>7
      <3>10. Values(w, radix, k + 1, g)
        BY <3>7, <3>8, <3>9 DEF Values
      <3> QED
        BY <3>10
    <2> HIDE DEF Has
    <2> QED
      BY <2>1
  <1>4. Has(n)
    <2> HIDE DEF Has
    <2>1. T \in SUBSET Nat
      OBVIOUS
    <2>2. T = Nat
      <3> HIDE DEF T
      <3> QED
        BY <1>2, <1>3, <2>1, AllNumbers
    <2>3. n \in T /\ n <= n
      BY <1>1, <2>2
    <2> QED
      BY <2>3
  <1> QED
    BY <1>4

\* The value of a word is that of all its digits.
LEMMA ValueIs ==
    ASSUME NEW w \in Seq(Int), NEW radix \in Int
    PROVE  \E f : Values(w, radix, Len(w), f) /\ ValueOf(w, radix) = f[Len(w)]
  <1> DEFINE n == Len(w)
             Holds(f) == f = [k \in 0 .. n |->
                                 IF k = 0 THEN 0 ELSE radix * f[k - 1] + HexDig(w[k])]
             upto == CHOOSE f : Holds(f)
  <1>1. ValueOf(w, radix) = upto[n]
    BY Zenon DEF ValueOf
  <1>2. PICK f : Values(w, radix, n, f)
    BY ValuesExist
  <1>3. n \in Nat
    BY LenProperties
  <1>4. Holds(f)
    <2>1. f = [k \in 0 .. n |-> f[k]]
      BY <1>2 DEF Values
    <2>2. \A k \in 0 .. n : f[k] = IF k = 0 THEN 0 ELSE radix * f[k - 1] + HexDig(w[k])
      <3> SUFFICES ASSUME NEW k \in 0 .. n
                   PROVE  f[k] = IF k = 0 THEN 0 ELSE radix * f[k - 1] + HexDig(w[k])
        OBVIOUS
      <3>1. k = 0 \/ k \in 1 .. n
        BY <1>3
      <3>2. k \in 1 .. n => k # 0
        OBVIOUS
      <3> QED
        BY <1>2, <3>1, <3>2, Zenon DEF Values
    <2> QED
      BY <2>1, <2>2, Zenon
  <1>5. Holds(upto)
    <2> HIDE DEF Holds
    <2> QED
      BY <1>4, Zenon
  <1> HIDE DEF upto
  <1>6. \A k \in 0 .. n : upto[k] = IF k = 0 THEN 0 ELSE radix * upto[k - 1] + HexDig(w[k])
    BY <1>5, Zenon
  <1>7. /\ f[0] = 0 /\ upto[0] = 0
        /\ \A k \in 1 .. n : f[k] = radix * f[k - 1] + HexDig(w[k])
        /\ \A k \in 1 .. n : upto[k] = radix * upto[k - 1] + HexDig(w[k])
    <2>1. 0 \in 0 .. n /\ \A k \in 1 .. n : k \in 0 .. n /\ k # 0
      BY <1>3
    <2> QED
      BY <1>2, <1>6, <2>1, Zenon DEF Values
  <1> DEFINE T == {k \in Nat : k <= n => upto[k] = f[k]}
  <1>8. ASSUME NEW k \in Nat, k \in T
        PROVE  k + 1 \in T
    <2>1. ASSUME k + 1 <= n
          PROVE  upto[k + 1] = f[k + 1]
      <3>1. k + 1 \in 1 .. n /\ (k + 1) - 1 = k /\ k <= n
        BY <1>3, <2>1
      <3>2. upto[k] = f[k]
        BY <1>8, <3>1
      <3>3. upto[k + 1] = radix * upto[k] + HexDig(w[k + 1])
            /\ f[k + 1] = radix * f[k] + HexDig(w[k + 1])
        BY <1>7, <3>1
      <3> QED
        BY <3>2, <3>3
    <2> QED
      BY <2>1
  <1>9. upto[n] = f[n]
    <2>1. T \in SUBSET Nat
      OBVIOUS
    <2>2. 0 \in T
      BY <1>7
    <2>3. T = Nat
      <3> HIDE DEF T
      <3> QED
        BY <1>8, <2>1, <2>2, AllNumbers
    <2>4. n \in T /\ n <= n
      BY <1>3, <2>3
    <2> QED
      BY <2>4
  <1> QED
    BY <1>1, <1>2, <1>9

\* A digit more at the end.
LEMMA ValueGrows ==
    ASSUME NEW w \in Seq(Int), NEW radix \in Int, NEW x \in Int
    PROVE  /\ ValueOf(<<>>, radix) = 0
           /\ ValueOf(Append(w, x), radix) = ValueOf(w, radix) * radix + HexDig(x)
  <1>1. ValueOf(<<>>, radix) = 0
    <2>1. <<>> \in Seq(Int) /\ Len(<<>>) = 0
      OBVIOUS
    <2>2. PICK f : Values(<<>>, radix, 0, f) /\ ValueOf(<<>>, radix) = f[0]
      BY <2>1, ValueIs
    <2> QED
      BY <2>2 DEF Values
  <1>2. PICK v : v = Append(w, x)
    OBVIOUS
  <1>3. /\ v \in Seq(Int) /\ Len(v) = Len(w) + 1 /\ v[Len(w) + 1] = x
        /\ \A k \in 1 .. Len(w) : v[k] = w[k]
        /\ Len(w) \in Nat
    BY <1>2, AppendProperties, LenProperties
  <1>4. PICK n \in Nat : n = Len(w)
    BY <1>3
  <1>5. PICK f : Values(w, radix, n, f) /\ ValueOf(w, radix) = f[n]
    BY <1>4, ValueIs
  <1>6. PICK g : Values(v, radix, n + 1, g) /\ ValueOf(v, radix) = g[n + 1]
    BY <1>3, <1>4, ValueIs
  <1>7. /\ f[0] = 0 /\ g[0] = 0
        /\ f \in [0 .. n -> Int]
        /\ \A k \in 1 .. n : f[k] = radix * f[k - 1] + HexDig(w[k])
        /\ \A k \in 1 .. n + 1 : g[k] = radix * g[k - 1] + HexDig(v[k])
    BY <1>5, <1>6 DEF Values
  <1> DEFINE T == {k \in Nat : k <= n => f[k] = g[k]}
  <1>8. ASSUME NEW k \in Nat, k \in T
        PROVE  k + 1 \in T
    <2>1. ASSUME k + 1 <= n
          PROVE  f[k + 1] = g[k + 1]
      <3>1. k + 1 \in 1 .. n /\ k + 1 \in 1 .. n + 1 /\ (k + 1) - 1 = k /\ k <= n
        BY <2>1
      <3>2. f[k] = g[k] /\ w[k + 1] = v[k + 1]
        BY <1>3, <1>4, <1>8, <3>1
      <3>3. f[k + 1] = radix * f[k] + HexDig(w[k + 1]) /\ g[k + 1] = radix * g[k] + HexDig(v[k + 1])
        BY <1>7, <3>1
      <3> QED
        BY <3>2, <3>3
    <2> QED
      BY <2>1
  <1>9. f[n] = g[n]
    <2>1. T \in SUBSET Nat
      OBVIOUS
    <2>2. 0 \in T
      BY <1>7
    <2>3. T = Nat
      <3> HIDE DEF T
      <3> QED
        BY <1>8, <2>1, <2>2, AllNumbers
    <2>4. n \in T /\ n <= n
      BY <2>3
    <2> QED
      BY <2>4
  <1>10. ValueOf(v, radix) = radix * f[n] + HexDig(x)
    <2>1. n + 1 \in 1 .. n + 1 /\ (n + 1) - 1 = n
      OBVIOUS
    <2> QED
      BY <1>3, <1>4, <1>6, <1>7, <1>9, <2>1
  <1>11. f[n] \in Int /\ radix * f[n] = f[n] * radix
    <2>1. f[n] \in Int
      BY <1>7
    <2> QED
      BY <2>1
  <1> QED
    BY <1>1, <1>2, <1>5, <1>10, <1>11

\* A text read one character further.
LEMMA SubSeqGrows ==
    ASSUME NEW c \in Seq(Int), NEW i \in 1 .. Len(c) + 1, NEW j \in i - 1 .. Len(c) - 1
    PROVE  /\ SubSeq(c, i, j) \in Seq(Int) /\ Len(SubSeq(c, i, j)) = j - i + 1
           /\ SubSeq(c, i, i - 1) = <<>>
           /\ SubSeq(c, i, j + 1) = Append(SubSeq(c, i, j), c[j + 1])
  <1>1. Len(c) \in Nat /\ i \in Int /\ j \in Int /\ j + 1 \in Int /\ i <= j + 1
    BY LenProperties
  <1>2. \A k \in i .. j + 1 : c[k] \in Int
    BY <1>1, ElementOfSeq
  <1> DEFINE s == SubSeq(c, i, j)
             u == SubSeq(c, i, j + 1)
             e == SubSeq(c, i, i - 1)
             a == Append(s, c[j + 1])
  <1>3. /\ s \in Seq(Int) /\ Len(s) = j - i + 1
        /\ \A k \in 1 .. j - i + 1 : s[k] = c[i + k - 1]
    <2>1. \A k \in i .. j : c[k] \in Int
      BY <1>1, <1>2
    <2>2. /\ s \in Seq(Int) /\ Len(s) = IF i <= j THEN j - i + 1 ELSE 0
          /\ \A k \in 1 .. j - i + 1 : s[k] = c[i + k - 1]
      BY <1>1, <2>1, SubSeqProperties
    <2>3. ~(i <= j) => j - i + 1 = 0
      BY <1>1
    <2> HIDE DEF s
    <2> QED
      BY <2>2, <2>3
  <1>4. /\ u \in Seq(Int) /\ Len(u) = j + 1 - i + 1
        /\ \A k \in 1 .. j + 1 - i + 1 : u[k] = c[i + k - 1]
    BY <1>1, <1>2, SubSeqProperties
  <1>5. e = <<>>
    <2>1. e \in Seq(Int) /\ Len(e) = 0
      <3>1. i - 1 \in Int /\ ~(i <= i - 1) /\ \A k \in i .. i - 1 : c[k] \in Int
        BY <1>1
      <3> QED
        BY <1>1, <3>1, SubSeqProperties
    <2> QED
      BY <2>1, EmptySeq
  <1> HIDE DEF s, u, e
  <1>6. c[j + 1] \in Int
    BY <1>1, <1>2
  <1>7. /\ a \in Seq(Int) /\ Len(a) = Len(s) + 1 /\ a[Len(s) + 1] = c[j + 1]
        /\ \A k \in 1 .. Len(s) : a[k] = s[k]
    <2>1. PICK x \in Int : x = c[j + 1]
      BY <1>6
    <2>2. PICK w \in Seq(Int) : w = s
      BY <1>3
    <2>3. /\ Append(w, x) \in Seq(Int) /\ Len(Append(w, x)) = Len(w) + 1
          /\ Append(w, x)[Len(w) + 1] = x /\ \A k \in 1 .. Len(w) : Append(w, x)[k] = w[k]
      BY AppendProperties
    <2> QED
      BY <2>1, <2>2, <2>3
  <1> HIDE DEF a
  <1>8. ASSUME NEW k \in 1 .. Len(u)
        PROVE  u[k] = a[k]
    <2>1. CASE k = Len(s) + 1
      <3>1. i + k - 1 = j + 1
        BY <1>1, <1>3, <2>1
      <3> QED
        BY <1>4, <1>7, <2>1, <3>1
    <2>2. CASE k # Len(s) + 1
      <3>1. k \in 1 .. Len(s) /\ k \in 1 .. j - i + 1
        BY <1>1, <1>3, <1>4, <2>2
      <3> QED
        BY <1>3, <1>4, <1>7, <3>1
    <2> QED
      BY <2>1, <2>2
  <1>9. Len(u) = Len(a)
    BY <1>1, <1>3, <1>4, <1>7
  <1>10. u = a
    BY <1>4, <1>7, <1>8, <1>9, SeqEqual
  <1> QED
    BY <1>3, <1>5, <1>10 DEF s, u, e, a

-----------------------------------------------------------------------------
(* Brackets.                                                                 *)

\* The brackets among the first k of t.
Opens(t, k) == {i \in 1 .. k : t[i] = Open}
Closers(t, k) == {i \in 1 .. k : t[i] = Close}

\* How deep the text is nested behind its first k tokens.
LEMMA DepthIs ==
    ASSUME NEW t, NEW k \in Nat
    PROVE  /\ Depth(t, 0) = 0 /\ Depth(t, k) \in Int
           /\ Depth(t, k + 1) = IF t[k + 1] = Open THEN Depth(t, k) + 1
                                ELSE IF t[k + 1] = Close THEN Depth(t, k) - 1
                                ELSE Depth(t, k)
  <1>1. \A n : Depth(t, n) = Cardinality(Opens(t, n)) - Cardinality(Closers(t, n))
    BY DEF Depth, Opens, Closers
  <1>2. IsFiniteSet(Opens(t, k)) /\ IsFiniteSet(Closers(t, k))
    <2>1. IsFiniteSet(1 .. k)
      BY FS_Interval
    <2>2. Opens(t, k) \subseteq 1 .. k /\ Closers(t, k) \subseteq 1 .. k
      BY DEF Opens, Closers
    <2> QED
      BY <2>1, <2>2, FS_Subset
  <1>3. PICK a \in Nat, b \in Nat : /\ a = Cardinality(Opens(t, k))
                                    /\ b = Cardinality(Closers(t, k))
    BY <1>2, FS_CardinalityType
  <1>4. Open # Close
    BY SymbolsDiffer
  <1>5. 1 .. k + 1 = (1 .. k) \cup {k + 1} /\ k + 1 \notin 1 .. k
    OBVIOUS
  <1>6. /\ Opens(t, k + 1) = IF t[k + 1] = Open THEN Opens(t, k) \cup {k + 1} ELSE Opens(t, k)
        /\ Closers(t, k + 1) = IF t[k + 1] = Close THEN Closers(t, k) \cup {k + 1}
                               ELSE Closers(t, k)
        /\ k + 1 \notin Opens(t, k) /\ k + 1 \notin Closers(t, k)
    BY <1>5 DEF Opens, Closers
  <1>7. /\ Cardinality(Opens(t, k + 1)) = IF t[k + 1] = Open THEN a + 1 ELSE a
        /\ Cardinality(Closers(t, k + 1)) = IF t[k + 1] = Close THEN b + 1 ELSE b
    BY <1>2, <1>3, <1>6, FS_AddElement
  <1>8. Depth(t, 0) = 0
    <2>1. Opens(t, 0) = {} /\ Closers(t, 0) = {}
      BY DEF Opens, Closers
    <2> QED
      BY <1>1, <2>1, FS_EmptySet
  <1> QED
    BY <1>1, <1>3, <1>4, <1>7, <1>8

\* It is decided by those tokens.
LEMMA DepthSame ==
    ASSUME NEW t, NEW u, NEW k, \A i \in 1 .. k : t[i] = u[i]
    PROVE  Depth(t, k) = Depth(u, k)
  BY DEF Depth

\* What has been read so far, d brackets open.
Sound(P, d) ==
    /\ P \in Seq(Symbols)
    /\ \A k \in 1 .. Len(P) : Depth(P, k) >= 0
    /\ Depth(P, Len(P)) = d

\* Nothing is open at first.
LEMMA NothingSound == Sound(<<>>, 0)
  <1>1. Len(<<>>) = 0 /\ 1 .. 0 = {} /\ <<>> \in Seq(Symbols)
    OBVIOUS
  <1>2. Depth(<<>>, 0) = 0
    BY DepthIs
  <1> QED
    BY <1>1, <1>2 DEF Sound

\* One symbol more.
LEMMA SoundGrows ==
    ASSUME NEW P, NEW d \in Nat, Sound(P, d), NEW x \in Symbols
    PROVE  /\ x = Open => Sound(P \o <<x>>, d + 1)
           /\ x = Close /\ d # 0 => Sound(P \o <<x>>, d - 1)
           /\ x \notin {Open, Close} => Sound(P \o <<x>>, d)
  <1>1. PICK n \in Nat : n = Len(P)
    BY LenProperties DEF Sound
  <1>2. PICK Q : Q = P \o <<x>>
    OBVIOUS
  <1>3. P \in Seq(Symbols)
    BY DEF Sound
  <1>4. Q = Append(P, x)
    BY <1>2, <1>3, AppendIsConcat
  <1>5. /\ Q \in Seq(Symbols) /\ Len(Q) = n + 1 /\ Q[n + 1] = x
        /\ \A i \in 1 .. n : Q[i] = P[i]
    BY <1>1, <1>3, <1>4, AppendProperties
  <1>6. \A k \in 1 .. n : Depth(Q, k) = Depth(P, k)
    BY <1>5, DepthSame
  <1>7. Depth(Q, n) = d
    <2>1. Depth(Q, n) = Depth(P, n)
      BY <1>5, DepthSame
    <2> QED
      BY <1>1, <2>1 DEF Sound
  <1>8. Depth(Q, n + 1) = IF x = Open THEN d + 1 ELSE IF x = Close THEN d - 1 ELSE d
    BY <1>5, <1>7, DepthIs
  <1>9. ASSUME NEW e \in Nat, Depth(Q, n + 1) = e
        PROVE  Sound(Q, e)
    <2>1. ASSUME NEW k \in 1 .. n + 1
          PROVE  Depth(Q, k) >= 0
      <3>1. k \in 1 .. n \/ k = n + 1
        OBVIOUS
      <3>2. k \in 1 .. n => Depth(P, k) >= 0
        BY <1>1 DEF Sound
      <3> QED
        BY <1>6, <1>9, <3>1, <3>2
    <2> QED
      BY <1>5, <1>9, <2>1 DEF Sound
  <1>10. Open # Close
    BY SymbolsDiffer
  <1> QED
    BY <1>2, <1>8, <1>9, <1>10

\* What the symbols read so far and the next one say of the whole text.
Judgement(c, P, d, Q) ==
    LET t == P \o Q
    IN /\ Q = <<>> => t = P /\ (InLanguage(t) <=> d = 0)
       /\ \A R \in Seq(Marks(c)) :
             /\ Q = <<Bad>> \o R => ~InLanguage(t)
             /\ Q = <<Close>> \o R /\ d = 0 => ~InLanguage(t)

\* It says so when they are sound with d brackets open.
LEMMA Judged ==
    ASSUME NEW c \in Seq(Int), NEW P, NEW d \in Nat, Sound(P, d), NEW Q \in Seq(Marks(c))
    PROVE  Judgement(c, P, d, Q)
  <1> DEFINE U == Marks(c)
             t == P \o Q
  <1>1. PICK n \in Nat : n = Len(P)
    BY LenProperties DEF Sound
  <1>2. P \in Seq(Symbols) /\ Symbols \subseteq U /\ Bad \in U /\ Close \in U
    BY SymbolsDiffer DEF Sound, Marks
  <1> HIDE DEF U
  <1>3. P \in Seq(U)
    BY <1>2, SeqMonotonic
  <1>4. Bad \notin Symbols
    <2>1. Bad.type = "BAD" /\ Open.type = "OPEN" /\ Close.type = "CLOSE"
      BY DEF Bad, Open, Close, Token
    <2>2. \A tok \in Tokens : tok.type \in SymTypes
      BY DEF Tokens
    <2> QED
      BY <2>1, <2>2 DEF Symbols, SymTypes
  <1>5. ASSUME Q = <<>>
        PROVE  t = P /\ (InLanguage(t) <=> d = 0)
    <2>1. t = P
      BY <1>3, <1>5, ConcatEmptySeq
    <2>2. \A k \in DOMAIN P : P[k] # Bad
      BY <1>2, <1>4, LenProperties, ElementOfSeq
    <2>3. DOMAIN P = 1 .. Len(P)
      BY <1>2, LenProperties
    <2> HIDE DEF t
    <2> QED
      BY <2>1, <2>2, <2>3 DEF InLanguage, Balanced, Sound
  <1>6. ASSUME NEW R \in Seq(U), NEW x \in U, Q = <<x>> \o R
        PROVE  /\ n + 1 \in DOMAIN t /\ t[n + 1] = x
               /\ Depth(t, n) = d
    <2>1. Q \in Seq(U) /\ Len(Q) = Len(R) + 1 /\ Q[1] = x /\ Len(R) \in Nat
      BY <1>6, ConsIs, LenProperties
    <2>2. /\ t \in Seq(U) /\ Len(t) = Len(P) + Len(Q)
          /\ \A i \in 1 .. Len(P) + Len(Q) : t[i] = IF i <= Len(P) THEN P[i] ELSE Q[i - Len(P)]
      BY <1>3, <2>1, ConcatProperties
    <2> HIDE DEF t
    <2>3. n + 1 \in 1 .. Len(P) + Len(Q) /\ ~(n + 1 <= Len(P)) /\ (n + 1) - Len(P) = 1
          /\ \A i \in 1 .. n : i \in 1 .. Len(P) + Len(Q) /\ i <= Len(P)
      BY <1>1, <2>1
    <2>4. \A i \in 1 .. n : t[i] = P[i]
      BY <2>2, <2>3
    <2>5. Depth(t, n) = Depth(P, n)
      BY <2>4, DepthSame
    <2>6. n + 1 \in DOMAIN t /\ t[n + 1] = x
      BY <2>1, <2>2, <2>3, LenProperties
    <2> QED
      BY <1>1, <2>5, <2>6 DEF Sound
  <1> HIDE DEF t
  <1>7. ASSUME NEW R \in Seq(U), Q = <<Bad>> \o R
        PROVE  ~InLanguage(t)
    BY <1>2, <1>6, <1>7 DEF InLanguage
  <1>8. ASSUME NEW R \in Seq(U), Q = <<Close>> \o R, d = 0
        PROVE  ~InLanguage(t)
    <2>1. n + 1 \in DOMAIN t /\ t[n + 1] = Close /\ Depth(t, n) = 0
      BY <1>2, <1>6, <1>8
    <2>2. Depth(t, n + 1) = 0 - 1
      BY <2>1, DepthIs, SymbolsDiffer
    <2>3. ~(Depth(t, n + 1) >= 0)
      BY <2>2
    <2> QED
      BY <2>1, <2>3 DEF InLanguage, Balanced
  <1> QED
    BY <1>5, <1>7, <1>8, Zenon DEF Judgement, t, U

\* What closes m brackets.
Closes(m) == [i \in 1 .. m |-> Close]

\* They are taken from either end.
LEMMA ClosesAre ==
    ASSUME NEW m \in Nat
    PROVE  /\ Closes(m) \in Seq(Symbols) /\ Closes(0) = <<>>
           /\ Closes(m + 1) = <<Close>> \o Closes(m)
           /\ Closes(m + 1) = Closes(m) \o <<Close>>
  <1>1. Close \in Symbols
    BY SymbolsDiffer
  <1>2. \A k \in Nat : Closes(k) \in Seq(Symbols) /\ Len(Closes(k)) = k
    BY <1>1 DEF Closes
  <1>3. \A k \in Nat : \A i \in 1 .. k : Closes(k)[i] = Close
    BY DEF Closes
  <1>4. Closes(0) = <<>>
    BY <1>2, EmptySeq
  <1>5. PICK a : a = <<Close>> \o Closes(m)
    OBVIOUS
  <1>6. PICK b : b = Closes(m) \o <<Close>>
    OBVIOUS
  <1>7. /\ a \in Seq(Symbols) /\ Len(a) = m + 1 /\ a[1] = Close
        /\ \A i \in 1 .. m : a[i + 1] = Closes(m)[i]
    BY <1>1, <1>2, <1>5, ConsIs
  <1>8. b = Append(Closes(m), Close)
    BY <1>1, <1>2, <1>6, AppendIsConcat
  <1>9. /\ b \in Seq(Symbols) /\ Len(b) = m + 1 /\ b[m + 1] = Close
        /\ \A i \in 1 .. m : b[i] = Closes(m)[i]
    BY <1>1, <1>2, <1>8, AppendProperties
  <1>10. ASSUME NEW i \in 1 .. m + 1
         PROVE  a[i] = Close /\ b[i] = Close /\ Closes(m + 1)[i] = Close
    <2>1. i = 1 \/ (i - 1 \in 1 .. m /\ (i - 1) + 1 = i)
      OBVIOUS
    <2>2. i = m + 1 \/ i \in 1 .. m
      OBVIOUS
    <2>3. a[i] = Close
      BY <1>3, <1>7, <2>1
    <2>4. b[i] = Close
      BY <1>3, <1>9, <2>2
    <2> QED
      BY <1>3, <2>3, <2>4
  <1>11. m + 1 \in Nat
    OBVIOUS
  <1>12. Closes(m + 1) = a /\ Closes(m + 1) = b
    BY <1>2, <1>7, <1>9, <1>10, <1>11, SeqEqual
  <1> QED
    BY <1>2, <1>4, <1>5, <1>6, <1>12

\* A common end can be taken away.
LEMMA EndTaken ==
    ASSUME NEW S, NEW p \in Seq(S), NEW q \in Seq(S), NEW r \in Seq(S), p \o r = q \o r
    PROVE  p = q
  <1>1. Len(p) \in Nat /\ Len(q) \in Nat /\ Len(r) \in Nat
    BY LenProperties
  <1>2. PICK a, b : a = p \o r /\ b = q \o r
    OBVIOUS
  <1>3. /\ Len(a) = Len(p) + Len(r)
        /\ \A i \in 1 .. Len(p) + Len(r) : a[i] = IF i <= Len(p) THEN p[i] ELSE r[i - Len(p)]
    BY <1>2, ConcatProperties
  <1>4. /\ Len(b) = Len(q) + Len(r)
        /\ \A i \in 1 .. Len(q) + Len(r) : b[i] = IF i <= Len(q) THEN q[i] ELSE r[i - Len(q)]
    BY <1>2, ConcatProperties
  <1>5. a = b
    BY <1>2
  <1>6. Len(p) = Len(q)
    BY <1>1, <1>3, <1>4, <1>5
  <1>7. ASSUME NEW i \in 1 .. Len(p)
        PROVE  p[i] = q[i]
    <2>1. i \in 1 .. Len(p) + Len(r) /\ i <= Len(p) /\ i <= Len(q)
      BY <1>1, <1>6
    <2> QED
      BY <1>3, <1>4, <1>5, <1>6, <2>1
  <1> QED
    BY <1>6, <1>7, SeqEqual

-----------------------------------------------------------------------------
(* The dump of a whole tree.                                                 *)

\* f gives the dumps of the first k records together.
Dumped(t, k, f) ==
    /\ f \in [0 .. k -> Seq(Symbols)] /\ f[0] = <<>>
    /\ \A j \in 1 .. k : f[j] = IF j - 1 \in Children(t) THEN f[j - 1]
                                ELSE f[j - 1] \o Dump(t, j - 1)

\* There are such dumps.
LEMMA DumpedExist ==
    ASSUME NEW t \in Seq(Nodes), Linked(t)
    PROVE  \E f : Dumped(t, Len(t), f)
  <1> DEFINE n == Len(t)
             Has(k) == \E f : Dumped(t, k, f)
             T == {k \in Nat : k <= n => Has(k)}
  <1>1. n \in Nat /\ \A k \in 1 .. n : Dump(t, k - 1) \in Seq(Symbols)
    <2>1. n \in Nat /\ \A k \in 1 .. n : k - 1 \in Refs(t)
      BY LenProperties DEF Refs
    <2> QED
      BY <2>1, DumpsAre
  <1>2. 0 \in T
    <2> DEFINE f == [k \in {0} |-> <<>>]
    <2>1. 0 .. 0 = {0} /\ 1 .. 0 = {}
      OBVIOUS
    <2>2. f \in [{0} -> Seq(Symbols)] /\ f[0] = <<>>
      OBVIOUS
    <2> HIDE DEF f
    <2>3. Dumped(t, 0, f)
      BY <2>1, <2>2 DEF Dumped
    <2>4. Has(0)
      BY <2>3
    <2> HIDE DEF Has
    <2> QED
      BY <2>4
  <1>3. ASSUME NEW k \in Nat, k \in T
        PROVE  k + 1 \in T
    <2>1. ASSUME k + 1 <= n
          PROVE  Has(k + 1)
      <3>1. Has(k)
        <4>1. k <= n
          BY <1>1, <2>1
        <4> HIDE DEF Has
        <4> QED
          BY <1>3, <4>1
      <3>2. PICK f : Dumped(t, k, f)
        BY <3>1
      <3> DEFINE v == IF k \in Children(t) THEN f[k] ELSE f[k] \o Dump(t, k)
                 g == [j \in 0 .. k + 1 |-> IF j = k + 1 THEN v ELSE f[j]]
      <3>3. /\ f \in [0 .. k -> Seq(Symbols)] /\ f[0] = <<>>
            /\ \A j \in 1 .. k : f[j] = IF j - 1 \in Children(t) THEN f[j - 1]
                                        ELSE f[j - 1] \o Dump(t, j - 1)
        BY <3>2 DEF Dumped
      <3>4. k + 1 \in 1 .. n /\ k \in 0 .. k /\ (k + 1) - 1 = k
        BY <1>1, <2>1
      <3>5. v \in Seq(Symbols)
        <4>1. f[k] \in Seq(Symbols)
          BY <3>3, <3>4
        <4>2. Dump(t, k) \in Seq(Symbols)
          BY <1>1, <3>4
        <4> QED
          BY <4>1, <4>2, ConcatProperties
      <3>6. v = IF k \in Children(t) THEN f[k] ELSE f[k] \o Dump(t, k)
        OBVIOUS
      <3> HIDE DEF v
      <3>7. g \in [0 .. k + 1 -> Seq(Symbols)] /\ g[k + 1] = v /\ \A j \in 0 .. k : g[j] = f[j]
        BY <3>3, <3>5
      <3> HIDE DEF g
      <3>8. ASSUME NEW j \in 1 .. k + 1
            PROVE  g[j] = IF j - 1 \in Children(t) THEN g[j - 1]
                          ELSE g[j - 1] \o Dump(t, j - 1)
        <4>1. j - 1 \in 0 .. k /\ g[j - 1] = f[j - 1]
          BY <3>7
        <4>2. CASE j = k + 1
          BY <3>4, <3>6, <3>7, <4>1, <4>2
        <4>3. CASE j \in 1 .. k
          <5>1. g[j] = f[j]
            BY <3>7, <4>3
          <5> QED
            BY <3>3, <4>1, <4>3, <5>1
        <4> QED
          BY <4>2, <4>3
      <3>9. g[0] = <<>>
        BY <3>3, <3>7
      <3>10. Dumped(t, k + 1, g)
        BY <3>7, <3>8, <3>9 DEF Dumped
      <3> QED
        BY <3>10
    <2> HIDE DEF Has
    <2> QED
      BY <2>1
  <1>4. Has(n)
    <2> HIDE DEF Has
    <2>1. T \in SUBSET Nat
      OBVIOUS
    <2>2. T = Nat
      <3> HIDE DEF T
      <3> QED
        BY <1>2, <1>3, <2>1, AllNumbers
    <2>3. n \in T /\ n <= n
      BY <1>1, <2>2
    <2> QED
      BY <2>3
  <1> QED
    BY <1>4

\* Trees that agree on the first k records have the same dump of them.
LEMMA DumpedSame ==
    ASSUME NEW t, NEW u, NEW k \in Nat, NEW n \in Nat, NEW m \in Nat, k <= n, k <= m,
           NEW f, Dumped(t, n, f), NEW g, Dumped(u, m, g),
           \A r \in 0 .. k - 1 : /\ r \in Children(t) <=> r \in Children(u)
                                 /\ r \notin Children(t) => Dump(t, r) = Dump(u, r)
    PROVE  f[k] = g[k]
  <1> DEFINE T == {j \in Nat : j <= k => f[j] = g[j]}
  <1>1. 0 \in T
    BY DEF Dumped
  <1>2. ASSUME NEW j \in Nat, j \in T
        PROVE  j + 1 \in T
    <2>1. ASSUME j + 1 <= k
          PROVE  f[j + 1] = g[j + 1]
      <3>1. /\ j + 1 \in 1 .. n /\ j + 1 \in 1 .. m /\ (j + 1) - 1 = j /\ j <= k
            /\ j \in 0 .. k - 1
        BY <2>1
      <3>2. f[j] = g[j]
        BY <1>2, <3>1
      <3>3. f[j + 1] = IF j \in Children(t) THEN f[j] ELSE f[j] \o Dump(t, j)
        BY <3>1 DEF Dumped
      <3>4. g[j + 1] = IF j \in Children(u) THEN g[j] ELSE g[j] \o Dump(u, j)
        BY <3>1 DEF Dumped
      <3> QED
        BY <3>1, <3>2, <3>3, <3>4
    <2> QED
      BY <2>1
  <1>3. T \in SUBSET Nat
    OBVIOUS
  <1>4. T = Nat
    <2> HIDE DEF T
    <2> QED
      BY <1>1, <1>2, <1>3, AllNumbers
  <1>5. k \in T /\ k <= k
    BY <1>4
  <1> QED
    BY <1>5

\* Behind the first k records only children: they add nothing.
LEMMA DumpedEnds ==
    ASSUME NEW t, NEW n \in Nat, NEW f, Dumped(t, n, f), NEW k \in 0 .. n,
           \A r \in k .. n - 1 : r \in Children(t)
    PROVE  f[n] = f[k]
  <1> DEFINE T == {j \in Nat : k + j <= n => f[k + j] = f[k]}
  <1>1. 0 \in T
    OBVIOUS
  <1>2. ASSUME NEW j \in Nat, j \in T
        PROVE  j + 1 \in T
    <2>1. ASSUME k + (j + 1) <= n
          PROVE  f[k + (j + 1)] = f[k]
      <3> DEFINE i == k + j
      <3>1. /\ i + 1 \in 1 .. n /\ (i + 1) - 1 = i /\ k + j <= n /\ i \in k .. n - 1
            /\ k + (j + 1) = i + 1
        BY <2>1
      <3>2. f[i] = f[k]
        BY <1>2, <3>1
      <3> HIDE DEF i
      <3>3. f[i + 1] = f[i]
        BY <3>1 DEF Dumped
      <3> QED
        BY <3>1, <3>2, <3>3
    <2> QED
      BY <2>1
  <1>3. T \in SUBSET Nat
    OBVIOUS
  <1>4. T = Nat
    <2> HIDE DEF T
    <2> QED
      BY <1>1, <1>2, <1>3, AllNumbers
  <1>5. n - k \in Nat /\ k + (n - k) = n /\ n <= n
    OBVIOUS
  <1>6. n - k \in T
    <2> HIDE DEF T
    <2> QED
      BY <1>4, <1>5
  <1> QED
    BY <1>5, <1>6

\* The dump of the tree is that of all its records.
LEMMA DumpAllIs ==
    ASSUME NEW t \in Seq(Nodes), Linked(t)
    PROVE  \E f : Dumped(t, Len(t), f) /\ DumpAll(t) = f[Len(t)]
  <1> DEFINE n == Len(t)
             Holds(f) == f = [k \in 0 .. n |->
                                 IF k = 0 THEN <<>>
                                 ELSE IF k - 1 \in Children(t) THEN f[k - 1]
                                 ELSE f[k - 1] \o Dump(t, k - 1)]
             upto == CHOOSE f : Holds(f)
  <1>1. DumpAll(t) = upto[n]
    BY Zenon DEF DumpAll
  <1>2. PICK f : Dumped(t, n, f)
    BY DumpedExist
  <1>3. n \in Nat
    BY LenProperties
  <1>4. Holds(f)
    <2>1. f = [k \in 0 .. n |-> f[k]]
      BY <1>2 DEF Dumped
    <2>2. \A k \in 0 .. n : f[k] = IF k = 0 THEN <<>>
                                   ELSE IF k - 1 \in Children(t) THEN f[k - 1]
                                   ELSE f[k - 1] \o Dump(t, k - 1)
      <3> SUFFICES ASSUME NEW k \in 0 .. n
                   PROVE  f[k] = IF k = 0 THEN <<>>
                                 ELSE IF k - 1 \in Children(t) THEN f[k - 1]
                                 ELSE f[k - 1] \o Dump(t, k - 1)
        OBVIOUS
      <3>1. k = 0 \/ k \in 1 .. n
        BY <1>3
      <3>2. k \in 1 .. n => k # 0
        OBVIOUS
      <3> QED
        BY <1>2, <3>1, <3>2, Zenon DEF Dumped
    <2> QED
      BY <2>1, <2>2, Zenon
  <1>5. Holds(upto)
    <2> HIDE DEF Holds
    <2> QED
      BY <1>4, Zenon
  <1> HIDE DEF upto
  <1>6. \A k \in 0 .. n : upto[k] = IF k = 0 THEN <<>>
                                    ELSE IF k - 1 \in Children(t) THEN upto[k - 1]
                                    ELSE upto[k - 1] \o Dump(t, k - 1)
    BY <1>5, Zenon
  <1>7. upto = [k \in 0 .. n |-> upto[k]]
    BY <1>5
  <1>8. /\ upto[0] = <<>>
        /\ \A k \in 1 .. n : upto[k] = IF k - 1 \in Children(t) THEN upto[k - 1]
                                       ELSE upto[k - 1] \o Dump(t, k - 1)
    <2>1. 0 \in 0 .. n /\ \A k \in 1 .. n : k \in 0 .. n /\ k # 0
      BY <1>3
    <2> QED
      BY <1>6, <2>1, Zenon
  <1> DEFINE T == {k \in Nat : k <= n => upto[k] = f[k]}
  <1>9. ASSUME NEW k \in Nat, k \in T
        PROVE  k + 1 \in T
    <2>1. ASSUME k + 1 <= n
          PROVE  upto[k + 1] = f[k + 1]
      <3>1. k + 1 \in 1 .. n /\ (k + 1) - 1 = k /\ k <= n
        BY <1>3, <2>1
      <3>2. upto[k] = f[k]
        BY <1>9, <3>1
      <3>3. upto[k + 1] = IF k \in Children(t) THEN upto[k] ELSE upto[k] \o Dump(t, k)
        BY <1>8, <3>1
      <3>4. f[k + 1] = IF k \in Children(t) THEN f[k] ELSE f[k] \o Dump(t, k)
        BY <1>2, <3>1 DEF Dumped
      <3> QED
        BY <3>2, <3>3, <3>4
    <2> QED
      BY <2>1
  <1>10. upto[n] = f[n]
    <2>1. T \in SUBSET Nat
      OBVIOUS
    <2>2. 0 \in T
      BY <1>2, <1>8 DEF Dumped
    <2>3. T = Nat
      <3> HIDE DEF T
      <3> QED
        BY <1>9, <2>1, <2>2, AllNumbers
    <2>4. n \in T /\ n <= n
      BY <1>3, <2>3
    <2> QED
      BY <2>4
  <1> QED
    BY <1>1, <1>2, <1>10

-----------------------------------------------------------------------------
(* The open expressions are a path into the tree: each is the last child of  *)
(* the one before, and the first is the last record nobody has for a child.  *)

Path(t, d, o) ==
    /\ \A k \in 1 .. d : o[k] \in Refs(t) /\ At(t, o[k]).tok = ExprToken
    /\ \A k, j \in 1 .. d : k < j => o[k] < o[j]
    /\ \A k \in 1 .. d, r \in Refs(t) : \A i \in DOMAIN Kids(t, r) :
          Kids(t, r)[i] = o[k] => k > 1 /\ r = o[k - 1] /\ i = Len(Kids(t, r))
    /\ \A k \in 1 .. d - 1 : /\ Kids(t, o[k]) # <<>>
                             /\ Last(Kids(t, o[k])) = o[k + 1]
    /\ d > 0 => /\ o[1] \notin Children(t)
                /\ \A r \in Refs(t) : r > o[1] => r \in Children(t)

\* A record is a child if a link leads to it.
LEMMA ChildIs ==
    ASSUME NEW t, NEW q
    PROVE  q \in Children(t) <=> \E r \in Refs(t) : At(t, r).first = q \/ At(t, r).next = q
  BY DEF Children

\* The new record is a child unless it is at the top, and the others are
\* children if they were.
LEMMA ChildrenGrown ==
    ASSUME NEW t, NEW alloc, TreeOk(t, alloc),
           NEW b, PlaceOk(t, b), EndOf(t, b), NEW tok \in Tokens
    PROVE  LET u == SymNew(t, b, tok)
           IN /\ \A q \in Refs(t) : q \in Children(u) <=> q \in Children(t)
              /\ Len(t) \in Children(u) <=> b.parent # NoRef
  <1> DEFINE n == Len(t)
             u == SymNew(t, b, tok)
  <1>1. t \in Seq(Nodes) /\ Linked(t) /\ n \in Nat /\ b \in Places /\ Within(t, b)
    BY LenProperties DEF TreeOk, PlaceOk
  <1>2. /\ Len(u) = n + 1
        /\ At(u, n) = Record(tok)
        /\ \A r \in Refs(t) :
              /\ At(u, r).first = IF r = b.parent /\ b.prev = NoRef THEN n
                                  ELSE At(t, r).first
              /\ At(u, r).next = IF b.parent # NoRef /\ r = b.prev THEN n
                                 ELSE At(t, r).next
    BY <1>1, SymNewIs
  <1> HIDE DEF u
  <1>3. /\ n \in Refs(u) /\ n # NoRef /\ n \notin Refs(t) /\ Refs(t) \subseteq Refs(u)
        /\ NoRef \notin Refs(t) /\ \A r \in Refs(u) : r = n \/ r \in Refs(t)
    BY <1>1, <1>2 DEF Refs, NoRef
  <1>4. b.parent \in Refs(t) \cup {NoRef} /\ b.prev \in Refs(t) \cup {NoRef}
    BY <1>1 DEF Within
  <1>5. At(u, n).first = NoRef /\ At(u, n).next = NoRef
    BY <1>2 DEF Record
  <1>6. \A r \in Refs(t) : /\ At(t, r).first \in Refs(t) \cup {NoRef}
                           /\ At(t, r).next \in Refs(t) \cup {NoRef}
    BY <1>1, SiblingsFrom
  <1>7. /\ b.parent # NoRef /\ b.prev = NoRef => At(t, b.parent).first = NoRef
        /\ b.parent # NoRef /\ b.prev # NoRef => At(t, b.prev).next = NoRef
    BY <1>1, <1>4, KidsAre DEF EndOf
  <1> HIDE DEF n
  <1>8. ASSUME NEW q \in Refs(t)
        PROVE  q \in Children(u) <=> q \in Children(t)
    <2>1. ASSUME NEW r \in Refs(t)
          PROVE  /\ At(t, r).first = q <=> At(u, r).first = q
                 /\ At(t, r).next = q <=> At(u, r).next = q
      <3>1. At(t, r).first = q <=> At(u, r).first = q
        BY <1>2, <1>3, <1>7, <1>8, <2>1
      <3>2. At(t, r).next = q <=> At(u, r).next = q
        BY <1>2, <1>3, <1>7, <1>8, <2>1
      <3> QED
        BY <3>1, <3>2
    <2>2. At(u, n).first # q /\ At(u, n).next # q
      BY <1>3, <1>5, <1>8
    <2> QED
      BY <1>3, <2>1, <2>2, ChildIs
  <1>9. n \in Children(u) <=> b.parent # NoRef
    <2>1. CASE b.parent = NoRef
      <3>1. \A r \in Refs(t) : At(u, r).first # n /\ At(u, r).next # n
        BY <1>2, <1>3, <1>6, <2>1
      <3> QED
        BY <1>3, <1>5, <2>1, <3>1, ChildIs
    <2>2. CASE b.parent # NoRef /\ b.prev = NoRef
      <3>1. b.parent \in Refs(u) /\ At(u, b.parent).first = n
        BY <1>2, <1>3, <1>4, <2>2
      <3> QED
        BY <2>2, <3>1, ChildIs
    <2>3. CASE b.parent # NoRef /\ b.prev # NoRef
      <3>1. b.prev \in Refs(u) /\ At(u, b.prev).next = n
        BY <1>2, <1>3, <1>4, <2>3
      <3> QED
        BY <2>3, <3>1, ChildIs
    <2> QED
      BY <2>1, <2>2, <2>3
  <1> QED
    BY <1>8, <1>9 DEF u, n

\* The builder of the innermost open expression, or of the top level.
Innermost(d, o) == IF d = 0 THEN NoRef ELSE o[d]

\* A record added there leaves the path as it is; if it is an expression, it
\* goes on with it.
LEMMA PathGrows ==
    ASSUME NEW t, NEW alloc, TreeOk(t, alloc), OwnLasts(t),
           NEW b, PlaceOk(t, b), EndOf(t, b), NEW tok \in Tokens,
           NEW d \in Nat, NEW o, Path(t, d, o), b.parent = Innermost(d, o)
    PROVE  LET u == SymNew(t, b, tok)
           IN /\ Path(u, d, o)
              /\ \A p : /\ tok = ExprToken /\ p[d + 1] = Len(t)
                        /\ \A k \in 1 .. d : p[k] = o[k]
                        => Path(u, d + 1, p)
  <1> DEFINE n == Len(t)
             u == SymNew(t, b, tok)
  <1>1. t \in Seq(Nodes) /\ Linked(t) /\ n \in Nat /\ b \in Places /\ Within(t, b)
    BY LenProperties DEF TreeOk, PlaceOk
  <1>2. /\ u \in Seq(Nodes) /\ Len(u) = n + 1 /\ At(u, n).tok = tok
        /\ \A r \in Refs(t) : At(u, r).tok = At(t, r).tok
    BY <1>1, SymNewIs DEF Record
  <1>3. Linked(u)
    BY SymNewOk DEF TreeOk
  <1>4. /\ \A p \in Refs(t) : Kids(u, p) = IF p = b.parent THEN Append(Kids(t, p), n)
                                           ELSE Kids(t, p)
        /\ Kids(u, n) = <<>>
    BY KidsGrown
  <1>5. /\ \A q \in Refs(t) : q \in Children(u) <=> q \in Children(t)
        /\ n \in Children(u) <=> b.parent # NoRef
    BY ChildrenGrown
  <1> HIDE DEF u
  <1>6. /\ n \in Refs(u) /\ n \notin Refs(t) /\ Refs(t) \subseteq Refs(u) /\ NoRef \notin Refs(t)
        /\ \A r \in Refs(u) : r = n \/ r \in Refs(t)
        /\ \A r \in Refs(t) : r < n
    BY <1>1, <1>2 DEF Refs, NoRef
  <1>7. /\ \A k \in 1 .. d : o[k] \in Refs(t) /\ At(t, o[k]).tok = ExprToken
        /\ \A k, j \in 1 .. d : k < j => o[k] < o[j]
        /\ \A k \in 1 .. d, r \in Refs(t) : \A i \in DOMAIN Kids(t, r) :
              Kids(t, r)[i] = o[k] => k > 1 /\ r = o[k - 1] /\ i = Len(Kids(t, r))
        /\ \A k \in 1 .. d - 1 : /\ Kids(t, o[k]) # <<>>
                                 /\ Last(Kids(t, o[k])) = o[k + 1]
        /\ d > 0 => /\ o[1] \notin Children(t)
                    /\ \A r \in Refs(t) : r > o[1] => r \in Children(t)
    BY DEF Path
  <1>8. ASSUME NEW r \in Refs(t)
        PROVE  /\ Kids(t, r) \in Seq(Refs(t)) /\ Len(Kids(t, r)) \in Nat
               /\ DOMAIN Kids(t, r) = 1 .. Len(Kids(t, r))
               /\ \A i \in DOMAIN Kids(t, r) : Kids(t, r)[i] \in Refs(t)
               /\ r # b.parent => Kids(u, r) = Kids(t, r)
               /\ r = b.parent =>
                     /\ Len(Kids(u, r)) = Len(Kids(t, r)) + 1
                     /\ DOMAIN Kids(u, r) = 1 .. Len(Kids(t, r)) + 1
                     /\ Kids(u, r)[Len(Kids(t, r)) + 1] = n
                     /\ \A i \in DOMAIN Kids(t, r) : Kids(u, r)[i] = Kids(t, r)[i]
                     /\ Kids(u, r) # <<>> /\ Last(Kids(u, r)) = n
    <2>1. /\ Kids(t, r) \in Seq(Refs(t)) /\ Len(Kids(t, r)) \in Nat
          /\ DOMAIN Kids(t, r) = 1 .. Len(Kids(t, r))
          /\ \A i \in DOMAIN Kids(t, r) : Kids(t, r)[i] \in Refs(t)
      BY <1>1, KidsBehind
    <2>2. r # b.parent => Kids(u, r) = Kids(t, r)
      BY <1>4
    <2>3. ASSUME r = b.parent
          PROVE  /\ Len(Kids(u, r)) = Len(Kids(t, r)) + 1
                 /\ DOMAIN Kids(u, r) = 1 .. Len(Kids(t, r)) + 1
                 /\ Kids(u, r)[Len(Kids(t, r)) + 1] = n
                 /\ \A i \in DOMAIN Kids(t, r) : Kids(u, r)[i] = Kids(t, r)[i]
                 /\ Kids(u, r) # <<>> /\ Last(Kids(u, r)) = n
      <3>1. PICK s : s = Kids(t, r)
        OBVIOUS
      <3>2. s \in Seq(Refs(u)) /\ Kids(u, r) = Append(s, n) /\ n \in Refs(u)
        BY <1>4, <1>6, <2>1, <2>3, <3>1, SeqMonotonic
      <3>3. /\ Append(s, n) \in Seq(Refs(u)) /\ Len(Append(s, n)) = Len(s) + 1
            /\ Append(s, n)[Len(s) + 1] = n
            /\ \A i \in 1 .. Len(s) : Append(s, n)[i] = s[i]
        BY <3>2, AppendProperties
      <3>4. Append(s, n) # <<>> /\ Last(Append(s, n)) = n
        BY <3>2, LastOfAppend
      <3>5. DOMAIN Append(s, n) = 1 .. Len(s) + 1
        BY <3>3, LenProperties
      <3> QED
        BY <2>1, <3>1, <3>2, <3>3, <3>4, <3>5
    <2> QED
      BY <2>1, <2>2, <2>3
  <1> HIDE DEF n
  <1>9. ASSUME NEW k \in 1 .. d
        PROVE  /\ o[k] \in Refs(u) /\ At(u, o[k]).tok = ExprToken /\ o[k] # n /\ o[k] < n
               /\ k # d => o[k] # b.parent
    <2>1. o[k] \in Refs(u) /\ At(u, o[k]).tok = ExprToken /\ o[k] # n /\ o[k] < n
      BY <1>2, <1>6, <1>7
    <2>2. ASSUME k # d
          PROVE  o[k] # b.parent
      <3>1. d \in 1 .. d /\ k < d /\ d # 0
        BY <2>2
      <3>2. o[k] < o[d] /\ o[k] \in Refs(t)
        BY <1>7, <3>1
      <3>3. Refs(t) \subseteq Int
        BY DEF Refs
      <3> QED
        BY <3>1, <3>2, <3>3 DEF Innermost
    <2> QED
      BY <2>1, <2>2
  <1>10. ASSUME NEW k \in 1 .. d, NEW r \in Refs(u), NEW i \in DOMAIN Kids(u, r),
                Kids(u, r)[i] = o[k]
         PROVE  k > 1 /\ r = o[k - 1] /\ i = Len(Kids(u, r))
    <2>1. r \in Refs(t)
      BY <1>4, <1>6, <1>10
    <2>2. CASE r # b.parent
      BY <1>7, <1>8, <1>10, <2>1, <2>2
    <2>3. CASE r = b.parent
      <3>1. i \in DOMAIN Kids(t, r) \/ i = Len(Kids(t, r)) + 1
        BY <1>8, <1>10, <2>1, <2>3
      <3>2. i # Len(Kids(t, r)) + 1
        BY <1>8, <1>9, <1>10, <2>1, <2>3
      <3>3. Kids(t, r)[i] = o[k]
        BY <1>8, <1>10, <2>1, <2>3, <3>1, <3>2
      <3>4. k > 1 /\ r = o[k - 1]
        BY <1>7, <2>1, <3>1, <3>2, <3>3
      <3>5. k - 1 \in 1 .. d /\ k - 1 # d
        BY <3>4
      <3> QED
        BY <1>9, <2>3, <3>4, <3>5
    <2> QED
      BY <2>2, <2>3
  <1>11. ASSUME NEW k \in 1 .. d - 1
         PROVE  /\ Kids(u, o[k]) # <<>>
                /\ Last(Kids(u, o[k])) = o[k + 1]
    <2>1. k \in 1 .. d /\ k # d
      OBVIOUS
    <2> QED
      BY <1>7, <1>8, <1>9, <1>11, <2>1
  <1>12. ASSUME d > 0
         PROVE  /\ o[1] \notin Children(u)
                /\ \A r \in Refs(u) : r > o[1] => r \in Children(u)
    <2>1. 1 \in 1 .. d /\ d \in 1 .. d /\ d # 0
      BY <1>12
    <2>2. b.parent # NoRef
      BY <1>6, <1>7, <2>1 DEF Innermost
    <2> QED
      BY <1>5, <1>6, <1>7, <1>12, <2>1, <2>2
  <1>13. Path(u, d, o)
    BY <1>7, <1>9, <1>10, <1>11, <1>12, Zenon DEF Path
  <1>14. ASSUME NEW p, tok = ExprToken, p[d + 1] = n, \A k \in 1 .. d : p[k] = o[k]
         PROVE  Path(u, d + 1, p)
    <2>1. \A k \in 1 .. d + 1 : k = d + 1 \/ k \in 1 .. d
      OBVIOUS
    <2>2. \A k \in 1 .. d + 1 : p[k] \in Refs(u) /\ At(u, p[k]).tok = ExprToken
      BY <1>2, <1>6, <1>9, <1>14, <2>1
    <2>3. ASSUME NEW k \in 1 .. d + 1, NEW j \in 1 .. d + 1, k < j
          PROVE  p[k] < p[j]
      <3>1. CASE j = d + 1
        <4>1. k \in 1 .. d
          BY <2>3, <3>1
        <4> QED
          BY <1>9, <1>14, <3>1, <4>1
      <3>2. CASE j \in 1 .. d
        <4>1. k \in 1 .. d
          BY <2>3, <3>2
        <4> QED
          BY <1>7, <1>14, <2>3, <3>2, <4>1
      <3> QED
        BY <2>1, <3>1, <3>2
    <2>4. ASSUME NEW k \in 1 .. d + 1, NEW r \in Refs(u), NEW i \in DOMAIN Kids(u, r),
                 Kids(u, r)[i] = p[k]
          PROVE  k > 1 /\ r = p[k - 1] /\ i = Len(Kids(u, r))
      <3>1. CASE k \in 1 .. d
        <4>1. k > 1 /\ r = o[k - 1] /\ i = Len(Kids(u, r))
          BY <1>10, <1>14, <2>4, <3>1
        <4>2. k - 1 \in 1 .. d
          BY <3>1, <4>1
        <4> QED
          BY <1>14, <4>1, <4>2
      <3>2. CASE k = d + 1
        <4>1. Kids(u, r)[i] = n /\ r \in Refs(t)
          BY <1>4, <1>6, <1>14, <2>4, <3>2
        <4>2. r = b.parent
          BY <1>6, <1>8, <2>4, <4>1
        <4>3. d # 0 /\ r = o[d]
          BY <1>6, <4>1, <4>2 DEF Innermost
        <4>4. d \in 1 .. d /\ k - 1 = d /\ k > 1
          BY <3>2, <4>3
        <4>5. i \notin DOMAIN Kids(t, r)
          BY <1>6, <1>8, <4>1, <4>2
        <4>6. i = Len(Kids(u, r))
          BY <1>8, <2>4, <4>1, <4>2, <4>5
        <4> QED
          BY <1>14, <4>3, <4>4, <4>6
      <3> QED
        BY <2>1, <3>1, <3>2
    <2>5. ASSUME NEW k \in 1 .. (d + 1) - 1
          PROVE  Kids(u, p[k]) # <<>> /\ Last(Kids(u, p[k])) = p[k + 1]
      <3>1. CASE k = d
        <4>1. d # 0 /\ d \in 1 .. d /\ b.parent = o[d]
          BY <3>1, <2>5 DEF Innermost
        <4>2. p[k] = b.parent /\ b.parent \in Refs(t) /\ p[k + 1] = n
          BY <1>7, <1>14, <3>1, <4>1
        <4> QED
          BY <1>8, <4>2
      <3>2. CASE k # d
        <4>1. k \in 1 .. d - 1 /\ k \in 1 .. d /\ k + 1 \in 1 .. d
          BY <2>5, <3>2
        <4> QED
          BY <1>11, <1>14, <4>1
      <3> QED
        BY <3>1, <3>2
    <2>6. p[1] \notin Children(u) /\ \A r \in Refs(u) : r > p[1] => r \in Children(u)
      <3>1. CASE d = 0
        <4>1. p[1] = n /\ b.parent = NoRef
          BY <1>14, <3>1 DEF Innermost
        <4>2. \A r \in Refs(u) : ~(r > n)
          <5>1. Refs(u) \subseteq Int
            BY DEF Refs
          <5> QED
            BY <1>6, <5>1
        <4> QED
          BY <1>5, <4>1, <4>2
      <3>2. CASE d # 0
        <4>1. 1 \in 1 .. d /\ d > 0
          BY <3>2
        <4> QED
          BY <1>12, <1>14, <4>1
      <3> QED
        BY <3>1, <3>2
    <2> QED
      BY <2>2, <2>3, <2>4, <2>5, <2>6, Zenon DEF Path
  <1> QED
    BY <1>13, <1>14, Zenon DEF u, n

\* The path without its last expression, and no path.
LEMMA PathShrinks ==
    ASSUME NEW t, NEW d \in Nat, NEW o, Path(t, d, o)
    PROVE  d # 0 => Path(t, d - 1, o)
  <1> SUFFICES ASSUME d # 0
               PROVE  Path(t, d - 1, o)
    OBVIOUS
  <1>1. /\ \A k \in 1 .. d - 1 : k \in 1 .. d
        /\ \A k \in 1 .. (d - 1) - 1 : k \in 1 .. d - 1
        /\ d - 1 > 0 => d > 0
    OBVIOUS
  <1> QED
    BY <1>1, Zenon DEF Path

\* Nothing is open.
LEMMA NoPath ==
    ASSUME NEW t, NEW o
    PROVE  Path(t, 0, o)
  <1>1. 1 .. 0 = {} /\ 1 .. 0 - 1 = {} /\ ~(0 > 0)
    OBVIOUS
  <1> QED
    BY <1>1, Zenon DEF Path

\* Only the members of the path matter.
LEMMA PathSame ==
    ASSUME NEW t, NEW d \in Nat, NEW o, Path(t, d, o), NEW p, \A k \in 1 .. d : p[k] = o[k]
    PROVE  Path(t, d, p)
  <1>1. /\ \A k \in 1 .. d - 1 : k \in 1 .. d /\ k + 1 \in 1 .. d
        /\ \A k \in 1 .. d : k > 1 => k - 1 \in 1 .. d
        /\ d > 0 => 1 \in 1 .. d
    OBVIOUS
  <1> QED
    BY <1>1, Zenon DEF Path

-----------------------------------------------------------------------------
(* What a record more does to the dump: it stands before the brackets that   *)
(* close what is open.                                                       *)

\* FlattenSeq of a sequence with one more at the end.
LEMMA FlattenAppend ==
    ASSUME NEW S, NEW ss \in Seq(Seq(S)), NEW e \in Seq(S)
    PROVE  FlattenSeq(Append(ss, e)) = FlattenSeq(ss) \o e
  <1>1. PICK n \in Nat : n = Len(ss)
    BY LenProperties
  <1>2. PICK us : us = Append(ss, e)
    OBVIOUS
  <1>3. /\ us \in Seq(Seq(S)) /\ Len(us) = n + 1 /\ us[n + 1] = e
        /\ \A i \in 1 .. n : us[i] = ss[i]
    BY <1>1, <1>2, AppendProperties
  <1>4. us # <<>>
    BY <1>3, EmptySeq
  <1>5. PICK g : Joins(us, S, g) /\ FlattenSeq(us) = g[n + 1]
    BY <1>3, <1>4, FlattenIs
  <1>6. \A i \in 1 .. n + 1 : g[i] = IF i = 1 THEN us[i] ELSE g[i - 1] \o us[i]
    BY <1>3, <1>5 DEF Joins
  <1>7. CASE n = 0
    <2>1. FlattenSeq(us) = e
      BY <1>3, <1>5, <1>6, <1>7
    <2>2. ss = <<>>
      BY <1>1, <1>7, EmptySeq
    <2>3. FlattenSeq(ss) = <<>>
      <3>1. Len(ss) = 0
        BY <1>1, <1>7
      <3> QED
        BY <2>2, <3>1 DEF FlattenSeq
    <2>4. <<>> \o e = e
      BY ConcatEmptySeq
    <2> QED
      BY <1>2, <2>1, <2>3, <2>4
  <1>8. CASE n # 0
    <2>1. ss # <<>>
      BY <1>1, <1>8, EmptySeq
    <2>2. PICK f : Joins(ss, S, f) /\ FlattenSeq(ss) = f[n]
      BY <1>1, <2>1, FlattenIs
    <2>3. \A i \in 1 .. n : f[i] = IF i = 1 THEN ss[i] ELSE f[i - 1] \o ss[i]
      BY <1>1, <2>2 DEF Joins
    <2> DEFINE T == {m \in Nat : m + 1 <= n => f[m + 1] = g[m + 1]}
    <2>4. 0 \in T
      BY <1>3, <1>6, <1>8, <2>3
    <2>5. ASSUME NEW m \in Nat, m \in T
          PROVE  m + 1 \in T
      <3>1. ASSUME (m + 1) + 1 <= n
            PROVE  f[(m + 1) + 1] = g[(m + 1) + 1]
        <4> DEFINE i == (m + 1) + 1
        <4>1. i \in 1 .. n /\ i \in 1 .. n + 1 /\ i # 1 /\ i - 1 = m + 1 /\ m + 1 <= n
          BY <3>1
        <4> HIDE DEF i
        <4>2. f[m + 1] = g[m + 1]
          BY <2>5, <4>1
        <4>3. f[i] = f[i - 1] \o ss[i] /\ g[i] = g[i - 1] \o us[i]
          BY <1>6, <2>3, <4>1
        <4>4. f[i] = g[i]
          BY <1>3, <4>1, <4>2, <4>3
        <4> QED
          BY <4>4 DEF i
      <3> QED
        BY <3>1
    <2>6. f[n] = g[n]
      <3>1. T \in SUBSET Nat
        OBVIOUS
      <3>2. T = Nat
        <4> HIDE DEF T
        <4> QED
          BY <2>4, <2>5, <3>1, AllNumbers
      <3>3. n - 1 \in Nat /\ (n - 1) + 1 = n
        BY <1>8
      <3>4. n - 1 \in T
        <4> HIDE DEF T
        <4> QED
          BY <3>2, <3>3
      <3> QED
        BY <1>8, <3>3, <3>4
    <2>7. n + 1 \in 1 .. n + 1 /\ n + 1 # 1 /\ (n + 1) - 1 = n
      BY <1>8
    <2>8. g[n + 1] = g[n] \o e
      BY <1>3, <1>6, <2>7
    <2> QED
      BY <1>2, <1>5, <2>2, <2>6, <2>8
  <1> QED
    BY <1>7, <1>8

\* The dumps of the records q, one behind the other.
Words(t, q) == [k \in DOMAIN q |-> Dump(t, q[k])]
Spelled(t, q) == FlattenSeq(Words(t, q))

\* They are sequences of symbols.
LEMMA WordsAre ==
    ASSUME NEW t \in Seq(Nodes), Linked(t), NEW q \in Seq(Refs(t))
    PROVE  /\ Words(t, q) \in Seq(Seq(Symbols)) /\ Len(Words(t, q)) = Len(q)
           /\ \A k \in 1 .. Len(q) : Words(t, q)[k] = Dump(t, q[k])
  <1>1. /\ Len(q) \in Nat /\ DOMAIN q = 1 .. Len(q)
        /\ \A k \in 1 .. Len(q) : q[k] \in Refs(t)
    BY LenProperties, ElementOfSeq
  <1>2. \A k \in 1 .. Len(q) : Dump(t, q[k]) \in Seq(Symbols)
    BY <1>1, DumpsAre
  <1>3. Words(t, q) \in [1 .. Len(q) -> Seq(Symbols)]
        /\ \A k \in 1 .. Len(q) : Words(t, q)[k] = Dump(t, q[k])
    BY <1>1, <1>2 DEF Words
  <1> QED
    BY <1>1, <1>3, SeqDef, LenProperties

\* A list with one more record at the end.
LEMMA SpelledAppend ==
    ASSUME NEW t \in Seq(Nodes), Linked(t), NEW q \in Seq(Refs(t)), NEW r \in Refs(t)
    PROVE  /\ Spelled(t, q) \in Seq(Symbols)
           /\ Spelled(t, Append(q, r)) = Spelled(t, q) \o Dump(t, r)
  <1>1. PICK p : p = Append(q, r)
    OBVIOUS
  <1>2. PICK n \in Nat : n = Len(q)
    BY LenProperties
  <1>3. /\ p \in Seq(Refs(t)) /\ Len(p) = n + 1 /\ p[n + 1] = r
        /\ \A i \in 1 .. n : p[i] = q[i]
    BY <1>1, <1>2, AppendProperties
  <1>4. PICK e \in Seq(Symbols) : e = Dump(t, r)
    BY DumpsAre
  <1>5. PICK s : s = Words(t, q)
    OBVIOUS
  <1>6. /\ s \in Seq(Seq(Symbols)) /\ Len(s) = n /\ \A k \in 1 .. n : s[k] = Dump(t, q[k])
    BY <1>2, <1>5, WordsAre
  <1>7. PICK w : w = Words(t, p)
    OBVIOUS
  <1>8. /\ w \in Seq(Seq(Symbols)) /\ Len(w) = n + 1
        /\ \A k \in 1 .. n + 1 : w[k] = Dump(t, p[k])
    BY <1>3, <1>7, WordsAre
  <1>9. PICK a : a = Append(s, e)
    OBVIOUS
  <1>10. /\ a \in Seq(Seq(Symbols)) /\ Len(a) = n + 1 /\ a[n + 1] = e
         /\ \A k \in 1 .. n : a[k] = s[k]
    BY <1>6, <1>9, AppendProperties
  <1>11. ASSUME NEW k \in 1 .. n + 1
         PROVE  w[k] = a[k]
    <2>1. k \in 1 .. n \/ k = n + 1
      OBVIOUS
    <2> QED
      BY <1>3, <1>4, <1>6, <1>8, <1>10, <2>1
  <1>12. w = a
    <2>1. Len(w) = Len(a) /\ \A k \in 1 .. Len(w) : w[k] = a[k]
      BY <1>8, <1>10, <1>11
    <2> QED
      BY <1>8, <1>10, <2>1, SeqEqual, Zenon
  <1>13. FlattenSeq(a) = FlattenSeq(s) \o e
    BY <1>6, <1>9, FlattenAppend
  <1>14. FlattenSeq(s) \in Seq(Symbols)
    BY <1>4, <1>6, FlattenCons
  <1> QED
    BY <1>1, <1>4, <1>5, <1>7, <1>12, <1>13, <1>14 DEF Spelled

\* The dump of a record, from those of its children.
LEMMA DumpOf ==
    ASSUME NEW t \in Seq(Nodes), Linked(t), NEW r \in Refs(t)
    PROVE  /\ Dump(t, r) \in Seq(Symbols) /\ Spelled(t, Kids(t, r)) \in Seq(Symbols)
           /\ At(t, r).tok # ExprToken => Dump(t, r) = <<At(t, r).tok>>
           /\ At(t, r).tok = ExprToken =>
                 Dump(t, r) = <<Open>> \o (Spelled(t, Kids(t, r)) \o <<Close>>)
  <1>1. ListDump(t, At(t, r).first) = Spelled(t, Kids(t, r))
    BY Zenon DEF ListDump, Spelled, Words, Kids
  <1>2. At(t, r).first \in Refs(t) \cup {NoRef}
    BY SiblingsFrom
  <1> QED
    BY <1>1, <1>2, DumpsAre

\* A sequence ends with its last element.
LEMMA FrontLast ==
    ASSUME NEW S, NEW s \in Seq(S), s # <<>>
    PROVE  s = Append(Front(s), Last(s)) /\ Last(s) \in S
  <1>1. PICK n \in Nat : n = Len(s) /\ n # 0
    BY LenProperties, EmptySeq
  <1>2. PICK f : f = Front(s)
    OBVIOUS
  <1>3. f \in Seq(S) /\ Len(f) = n - 1 /\ \A k \in 1 .. n - 1 : f[k] = s[k]
    BY <1>1, <1>2, FrontIs
  <1>4. Last(s) = s[n] /\ s[n] \in S
    BY <1>1, ElementOfSeq DEF Last
  <1>5. PICK a : a = Append(f, s[n])
    OBVIOUS
  <1>6. /\ a \in Seq(S) /\ Len(a) = Len(f) + 1 /\ a[Len(f) + 1] = s[n]
        /\ \A k \in 1 .. Len(f) : a[k] = f[k]
    BY <1>3, <1>4, <1>5, AppendProperties
  <1>7. ASSUME NEW k \in 1 .. n
        PROVE  a[k] = s[k]
    <2>1. k \in 1 .. n - 1 \/ k = n
      OBVIOUS
    <2> QED
      BY <1>1, <1>3, <1>6, <2>1
  <1>8. a = s
    BY <1>1, <1>3, <1>6, <1>7, SeqEqual
  <1> QED
    BY <1>2, <1>4, <1>5, <1>8

\* y is x with w put in before its last m symbols, which are closing brackets.
Inserted(x, y, w, m) ==
    \E q \in Seq(Symbols) : x = q \o Closes(m) /\ y = q \o (w \o Closes(m))

\* What is put into a part is put into the whole.
LEMMA PartInserted ==
    ASSUME NEW a \in Seq(Symbols), NEW k \in Seq(Symbols), NEW w \in Seq(Symbols),
           NEW x \in Seq(Symbols), NEW y \in Seq(Symbols), NEW m \in Nat, Inserted(x, y, w, m)
    PROVE  /\ Inserted(a \o x, a \o y, w, m)
           /\ Inserted(a \o ((k \o x) \o <<Close>>), a \o ((k \o y) \o <<Close>>), w, m + 1)
  <1>1. PICK q \in Seq(Symbols) : x = q \o Closes(m) /\ y = q \o (w \o Closes(m))
    BY DEF Inserted
  <1>2. PICK c \in Seq(Symbols) : c = Closes(m)
    BY ClosesAre
  <1>3. PICK z \in Seq(Symbols) : z = <<Close>>
    BY SymbolsDiffer, OneIsSeq
  <1>4. PICK cz \in Seq(Symbols) : cz = c \o z /\ cz = Closes(m + 1)
    BY <1>2, <1>3, ClosesAre, ConcatProperties
  <1>5. PICK wc \in Seq(Symbols) : wc = w \o c
    BY ConcatProperties
  <1>6. wc \o z = w \o cz
    <2>1. Grouped(w, c, z)
      BY ConcatGroups, Zenon
    <2> QED
      BY <1>4, <1>5, <2>1 DEF Grouped
  <1>7. ASSUME NEW v \in Seq(Symbols)
        PROVE  /\ a \o (q \o v) = (a \o q) \o v
               /\ a \o ((k \o (q \o v)) \o z) = (a \o (k \o q)) \o (v \o z)
    <2>1. Grouped(k, q, v) /\ Grouped(a, q, v)
      BY ConcatGroups, Zenon
    <2>2. PICK kq \in Seq(Symbols) : kq = k \o q
      BY ConcatProperties
    <2>3. PICK vz \in Seq(Symbols) : vz = v \o z
      BY ConcatProperties
    <2>4. Grouped(kq, v, z) /\ Grouped(a, kq, vz)
      BY ConcatGroups, Zenon
    <2> QED
      BY <2>1, <2>2, <2>3, <2>4 DEF Grouped
  <1>8. a \o q \in Seq(Symbols) /\ a \o (k \o q) \in Seq(Symbols)
    <2>1. k \o q \in Seq(Symbols)
      BY ConcatProperties
    <2> QED
      BY <2>1, ConcatProperties
  <1>9. Inserted(a \o x, a \o y, w, m)
    <2>1. a \o x = (a \o q) \o c /\ a \o y = (a \o q) \o (w \o c)
      BY <1>1, <1>2, <1>5, <1>7
    <2> QED
      BY <1>2, <1>8, <2>1 DEF Inserted
  <1>10. Inserted(a \o ((k \o x) \o z), a \o ((k \o y) \o z), w, m + 1)
    <2>1. /\ a \o ((k \o x) \o z) = (a \o (k \o q)) \o cz
          /\ a \o ((k \o y) \o z) = (a \o (k \o q)) \o (w \o cz)
      BY <1>1, <1>2, <1>4, <1>5, <1>6, <1>7
    <2> QED
      BY <1>4, <1>8, <2>1 DEF Inserted
  <1> QED
    BY <1>3, <1>9, <1>10

\* Records whose dumps stay have the same dumps together.
LEMMA SpelledSame ==
    ASSUME NEW t, NEW u, NEW q, \A i \in DOMAIN q : Dump(u, q[i]) = Dump(t, q[i])
    PROVE  Spelled(u, q) = Spelled(t, q)
  <1>1. Words(u, q) = Words(t, q)
    BY DEF Words
  <1> QED
    BY <1>1 DEF Spelled

\* What a tree with a new record is made of, said without its construction.
Grown(t, u, d, o) ==
    LET n == Len(t)
    IN /\ t \in Seq(Nodes) /\ Linked(t) /\ u \in Seq(Nodes) /\ Linked(u)
       /\ n \in Nat /\ Len(u) = n + 1
       /\ Refs(t) = 0 .. n - 1 /\ Refs(u) = 0 .. n
       /\ \A r \in Refs(t) :
             /\ At(u, r).tok = At(t, r).tok
             /\ Kids(t, r) \in Seq(Refs(t)) /\ DOMAIN Kids(t, r) = 1 .. Len(Kids(t, r))
             /\ \A i \in DOMAIN Kids(t, r) : Kids(t, r)[i] \in Refs(t) /\ Kids(t, r)[i] > r
             /\ Kids(u, r) = IF d # 0 /\ r = o[d] THEN Append(Kids(t, r), n) ELSE Kids(t, r)
             /\ r \in Children(u) <=> r \in Children(t)
       /\ Kids(u, n) = <<>>
       /\ n \in Children(u) <=> d # 0

\* A tree that gets a record behind the last child of the innermost open
\* expression has grown so.
LEMMA GrownIs ==
    ASSUME NEW t, NEW alloc, TreeOk(t, alloc), OwnLasts(t),
           NEW b, PlaceOk(t, b), EndOf(t, b), NEW tok \in Tokens,
           NEW d \in Nat, NEW o, Path(t, d, o), b.parent = Innermost(d, o)
    PROVE  /\ Grown(t, SymNew(t, b, tok), d, o)
           /\ At(SymNew(t, b, tok), Len(t)).tok = tok
  <1> DEFINE n == Len(t)
             u == SymNew(t, b, tok)
  <1>1. t \in Seq(Nodes) /\ Linked(t) /\ n \in Nat /\ b \in Places /\ Within(t, b)
    BY LenProperties DEF TreeOk, PlaceOk
  <1>2. /\ u \in Seq(Nodes) /\ Len(u) = n + 1 /\ At(u, n).tok = tok
        /\ \A r \in Refs(t) : At(u, r).tok = At(t, r).tok
    BY <1>1, SymNewIs DEF Record
  <1>3. Linked(u)
    BY SymNewOk DEF TreeOk
  <1>4. /\ \A p \in Refs(t) : Kids(u, p) = IF p = b.parent THEN Append(Kids(t, p), n)
                                           ELSE Kids(t, p)
        /\ Kids(u, n) = <<>>
    BY KidsGrown
  <1>5. /\ \A q \in Refs(t) : q \in Children(u) <=> q \in Children(t)
        /\ n \in Children(u) <=> b.parent # NoRef
    BY ChildrenGrown
  <1> HIDE DEF u
  <1>6. Refs(t) = 0 .. n - 1 /\ Refs(u) = 0 .. n /\ NoRef \notin Refs(t)
    BY <1>1, <1>2 DEF Refs, NoRef
  <1>7. \A r \in Refs(t) :
          /\ Kids(t, r) \in Seq(Refs(t)) /\ DOMAIN Kids(t, r) = 1 .. Len(Kids(t, r))
          /\ \A i \in DOMAIN Kids(t, r) : Kids(t, r)[i] \in Refs(t) /\ Kids(t, r)[i] > r
    BY <1>1, KidsBehind
  <1>8. d # 0 => b.parent = o[d] /\ o[d] \in Refs(t)
    <2>1. d # 0 => d \in 1 .. d
      OBVIOUS
    <2> QED
      BY <2>1 DEF Path, Innermost
  <1>9. /\ \A r \in Refs(t) : r = b.parent <=> d # 0 /\ r = o[d]
        /\ b.parent # NoRef <=> d # 0
    BY <1>6, <1>8 DEF Innermost
  <1>10. /\ \A p \in Refs(t) : Kids(u, p) = IF d # 0 /\ p = o[d] THEN Append(Kids(t, p), n)
                                            ELSE Kids(t, p)
         /\ n \in Children(u) <=> d # 0
    BY <1>4, <1>5, <1>9
  <1>11. Grown(t, u, d, o)
    BY <1>1, <1>2, <1>3, <1>4, <1>5, <1>6, <1>7, <1>10, Zenon DEF Grown
  <1> QED
    BY <1>2, <1>11 DEF u, n

\* Off the path nothing changes.
LEMMA DumpStays ==
    ASSUME NEW t, NEW u, NEW d \in Nat, NEW o, Path(t, d, o), Grown(t, u, d, o)
    PROVE  \A r \in Refs(t) : (\A k \in 1 .. d : o[k] # r) => Dump(u, r) = Dump(t, r)
  <1> DEFINE Off(r) == \A k \in 1 .. d : o[k] # r
             T == {r \in Refs(t) : Off(r) => Dump(u, r) = Dump(t, r)}
  <1>1. /\ t \in Seq(Nodes) /\ Linked(t) /\ u \in Seq(Nodes) /\ Linked(u)
        /\ Refs(t) \subseteq Refs(u)
        /\ \A r \in Refs(t) :
             /\ At(u, r).tok = At(t, r).tok
             /\ \A i \in DOMAIN Kids(t, r) : Kids(t, r)[i] \in Refs(t) /\ Kids(t, r)[i] > r
             /\ Kids(u, r) = IF d # 0 /\ r = o[d] THEN Append(Kids(t, r), Len(t)) ELSE Kids(t, r)
    BY DEF Grown
  <1>2. ASSUME NEW r \in Refs(t), \A q \in Refs(t) : q > r => q \in T, Off(r)
        PROVE  Dump(u, r) = Dump(t, r)
    <2>1. Kids(u, r) = Kids(t, r)
      <3>1. d # 0 => d \in 1 .. d
        OBVIOUS
      <3> QED
        BY <1>1, <1>2, <3>1
    <2>2. ASSUME NEW i \in DOMAIN Kids(t, r)
          PROVE  Dump(u, Kids(t, r)[i]) = Dump(t, Kids(t, r)[i])
      <3>1. PICK q : q = Kids(t, r)[i] /\ q \in Refs(t) /\ q > r
        BY <1>1
      <3>2. ASSUME NEW k \in 1 .. d, o[k] = q
            PROVE  FALSE
        <4>1. k > 1 /\ r = o[k - 1]
          BY <3>1, <3>2, Zenon DEF Path
        <4>2. k - 1 \in 1 .. d
          BY <4>1
        <4> QED
          BY <1>2, <4>1, <4>2
      <3>3. q \in T /\ Off(q)
        BY <1>2, <3>1, <3>2
      <3> QED
        BY <3>1, <3>3
    <2>3. Spelled(u, Kids(t, r)) = Spelled(t, Kids(t, r))
      BY <2>2, SpelledSame
    <2>4. /\ At(t, r).tok # ExprToken => Dump(t, r) = <<At(t, r).tok>>
          /\ At(t, r).tok = ExprToken =>
                Dump(t, r) = <<Open>> \o (Spelled(t, Kids(t, r)) \o <<Close>>)
      BY <1>1, DumpOf
    <2>5. /\ At(u, r).tok # ExprToken => Dump(u, r) = <<At(u, r).tok>>
          /\ At(u, r).tok = ExprToken =>
                Dump(u, r) = <<Open>> \o (Spelled(u, Kids(u, r)) \o <<Close>>)
      BY <1>1, DumpOf
    <2>6. At(u, r).tok = At(t, r).tok
      BY <1>1
    <2>7. Spelled(u, Kids(u, r)) = Spelled(t, Kids(t, r))
      BY <2>1, <2>3
    <2> QED
      BY <2>4, <2>5, <2>6, <2>7, Zenon
  <1>3. T \in SUBSET Refs(t)
    OBVIOUS
  <1>4. \A r \in Refs(t) : (\A q \in Refs(t) : q > r => q \in T) => r \in T
    BY <1>2
  <1>5. T = Refs(t)
    <2> HIDE DEF T
    <2> QED
      BY <1>1, <1>3, <1>4, FromBehind
  <1> QED
    BY <1>5

\* In every open expression the new record stands before the brackets that
\* close what is open from there on.
LEMMA InsertedAt ==
    ASSUME NEW t, NEW u, NEW d \in Nat, NEW o, Path(t, d, o), Grown(t, u, d, o)
    PROVE  \A k \in 1 .. d : Inserted(Dump(t, o[k]), Dump(u, o[k]), Dump(u, Len(t)), (d - k) + 1)
  <1> DEFINE n == Len(t)
             s == Dump(u, n)
             At1(j) == Inserted(Dump(t, o[d - j]), Dump(u, o[d - j]), s, j + 1)
             T == {j \in Nat : j < d => At1(j)}
  <1>1. /\ t \in Seq(Nodes) /\ Linked(t) /\ u \in Seq(Nodes) /\ Linked(u)
        /\ n \in Refs(u) /\ Refs(t) \subseteq Refs(u) /\ Refs(t) = 0 .. n - 1 /\ n \in Nat
        /\ \A r \in Refs(t) :
             /\ At(u, r).tok = At(t, r).tok
             /\ Kids(t, r) \in Seq(Refs(t)) /\ DOMAIN Kids(t, r) = 1 .. Len(Kids(t, r))
             /\ \A i \in DOMAIN Kids(t, r) : Kids(t, r)[i] \in Refs(t)
             /\ Kids(u, r) = IF d # 0 /\ r = o[d] THEN Append(Kids(t, r), n) ELSE Kids(t, r)
    BY DEF Grown
  <1>2. /\ \A k \in 1 .. d : o[k] \in Refs(t) /\ At(t, o[k]).tok = ExprToken
        /\ \A k, j \in 1 .. d : k < j => o[k] < o[j]
        /\ \A k \in 1 .. d, r \in Refs(t) : \A i \in DOMAIN Kids(t, r) :
              Kids(t, r)[i] = o[k] => k > 1 /\ r = o[k - 1] /\ i = Len(Kids(t, r))
        /\ \A k \in 1 .. d - 1 : Kids(t, o[k]) # <<>> /\ Last(Kids(t, o[k])) = o[k + 1]
    BY DEF Path
  <1>3. \A r \in Refs(t) : (\A k \in 1 .. d : o[k] # r) => Dump(u, r) = Dump(t, r)
    BY DumpStays
  <1> HIDE DEF n
  <1>4. s \in Seq(Symbols)
    BY <1>1, DumpOf
  <1> HIDE DEF s
  <1>5. PICK a \in Seq(Symbols) : a = <<Open>>
    BY SymbolsDiffer, OneIsSeq
  <1>6. ASSUME d # 0
        PROVE  At1(0)
    <2>1. d \in 1 .. d /\ d - 0 = d
      BY <1>6
    <2>2. PICK r \in Refs(t) : r = o[d] /\ At(t, r).tok = ExprToken
      BY <1>2, <2>1
    <2>3. PICK q : q = Kids(t, r)
      OBVIOUS
    <2>4. q \in Seq(Refs(t)) /\ q \in Seq(Refs(u)) /\ Kids(u, r) = Append(q, n)
          /\ \A i \in DOMAIN q : q[i] \in Refs(t)
      <3>1. q \in Seq(Refs(t))
        BY <1>1, <2>3
      <3> QED
        BY <1>1, <1>6, <2>2, <2>3, <3>1, SeqMonotonic
    <2>5. ASSUME NEW i \in DOMAIN q, NEW k \in 1 .. d, o[k] = q[i]
          PROVE  FALSE
      <3>1. k > 1 /\ r = o[k - 1]
        BY <1>2, <2>2, <2>3, <2>5
      <3>2. k - 1 \in 1 .. d /\ k - 1 < d
        BY <3>1
      <3>3. o[k - 1] < o[d] /\ o[k - 1] \in Int /\ o[d] \in Int
        BY <1>1, <1>2, <2>1, <3>2
      <3> QED
        BY <2>2, <3>1, <3>3
    <2>6. Spelled(u, q) = Spelled(t, q)
      <3>1. \A i \in DOMAIN q : Dump(u, q[i]) = Dump(t, q[i])
        BY <1>3, <2>4, <2>5
      <3> QED
        BY <3>1, SpelledSame
    <2>7. PICK x \in Seq(Symbols) : x = Spelled(t, q)
      BY <1>1, <2>4, SpelledAppend
    <2>8. Spelled(u, Append(q, n)) = x \o s
      BY <1>1, <2>4, <2>6, <2>7, SpelledAppend DEF s
    <2>9. PICK z \in Seq(Symbols) : z = <<Close>>
      BY SymbolsDiffer, OneIsSeq
    <2>10. Dump(t, r) = a \o (x \o z)
      BY <1>1, <1>5, <2>2, <2>3, <2>7, <2>9, DumpOf
    <2>11. Dump(u, r) = a \o ((x \o s) \o z)
      <3>1. Dump(u, r) = <<Open>> \o (Spelled(u, Kids(u, r)) \o <<Close>>)
        BY <1>1, <2>2, DumpOf
      <3> QED
        BY <1>5, <2>4, <2>8, <2>9, <3>1
    <2>12. PICK ax \in Seq(Symbols) : ax = a \o x
      BY ConcatProperties
    <2>13. PICK sz \in Seq(Symbols) : sz = s \o z
      BY <1>4, ConcatProperties
    <2>14. Grouped(a, x, z) /\ Grouped(x, s, z) /\ Grouped(a, x, sz)
      BY <1>4, ConcatGroups, Zenon
    <2>15. a \o (x \o z) = ax \o z /\ a \o ((x \o s) \o z) = ax \o (s \o z)
      BY <2>12, <2>13, <2>14 DEF Grouped
    <2>16. Closes(1) = z
      <3>1. Closes(0 + 1) = <<Close>> \o Closes(0) /\ Closes(0) = <<>>
        BY ClosesAre
      <3>2. z \o <<>> = z
        BY ConcatEmptySeq
      <3> QED
        BY <2>9, <3>1, <3>2
    <2>17. Inserted(Dump(t, r), Dump(u, r), s, 1)
      BY <2>10, <2>11, <2>15, <2>16 DEF Inserted
    <2> QED
      BY <2>1, <2>2, <2>17
  <1>7. ASSUME NEW j \in Nat, j + 1 < d, At1(j)
        PROVE  At1(j + 1)
    <2>1. PICK k \in 1 .. d - 1 : k = d - (j + 1) /\ k + 1 = d - j /\ k \in 1 .. d /\ k # d
      <3>1. d - (j + 1) \in 1 .. d - 1 /\ (d - (j + 1)) + 1 = d - j
        BY <1>7
      <3> QED
        BY <3>1
    <2>2. PICK r \in Refs(t) : r = o[k] /\ At(t, r).tok = ExprToken
      BY <1>2, <2>1
    <2>3. PICK q : q = Kids(t, r)
      OBVIOUS
    <2>4. PICK e \in Refs(t) : e = o[k + 1] /\ e = Last(q)
      <3>1. k + 1 \in 1 .. d
        BY <2>1
      <3> QED
        BY <1>2, <2>2, <2>3, <3>1
    <2>5. q \in Seq(Refs(t)) /\ q # <<>> /\ DOMAIN q = 1 .. Len(q) /\ Len(q) \in Nat
          /\ \A i \in DOMAIN q : q[i] \in Refs(t)
      BY <1>1, <1>2, <2>2, <2>3, LenProperties
    <2>6. Kids(u, r) = q
      <3>1. k < d /\ d \in 1 .. d
        BY <2>1
      <3>2. r # o[d]
        <4>1. o[k] < o[d] /\ o[k] \in Int /\ o[d] \in Int
          BY <1>1, <1>2, <2>1, <3>1
        <4> QED
          BY <2>2, <4>1
      <3> QED
        BY <1>1, <2>3, <3>2
    <2>7. PICK f : f = Front(q)
      OBVIOUS
    <2>8. Len(q) # 0
      BY <2>5, EmptySeq
    <2>9. f \in Seq(Refs(t)) /\ Len(f) = Len(q) - 1 /\ \A i \in 1 .. Len(q) - 1 : f[i] = q[i]
      BY <2>5, <2>7, <2>8, FrontIs
    <2>10. q = Append(f, e)
      BY <2>4, <2>5, <2>7, FrontLast
    <2>11. ASSUME NEW i \in DOMAIN f
           PROVE  Dump(u, f[i]) = Dump(t, f[i])
      <3>1. i \in 1 .. Len(q) - 1 /\ i \in DOMAIN q /\ i # Len(q)
        BY <2>5, <2>8, <2>9, LenProperties
      <3>2. f[i] = q[i] /\ q[i] \in Refs(t)
        BY <2>5, <2>9, <3>1
      <3>3. \A h \in 1 .. d : o[h] # q[i]
        BY <1>2, <2>3, <3>1
      <3> QED
        BY <1>3, <3>2, <3>3
    <2>12. Spelled(u, f) = Spelled(t, f)
      BY <2>11, SpelledSame
    <2>13. PICK p \in Seq(Symbols) : p = Spelled(t, f)
      BY <1>1, <2>9, SpelledAppend
    <2>14. PICK x \in Seq(Symbols) : x = Dump(t, e)
      BY <1>1, DumpOf
    <2>15. PICK y \in Seq(Symbols) : y = Dump(u, e)
      BY <1>1, DumpOf
    <2>16. Spelled(t, q) = p \o x
      BY <1>1, <2>9, <2>10, <2>13, <2>14, SpelledAppend
    <2>17. Spelled(u, q) = p \o y
      <3>1. f \in Seq(Refs(u)) /\ e \in Refs(u)
        BY <1>1, <2>9, SeqMonotonic
      <3> QED
        BY <1>1, <2>10, <2>12, <2>13, <2>15, <3>1, SpelledAppend
    <2>18. Dump(t, r) = a \o ((p \o x) \o <<Close>>)
      <3>1. Dump(t, r) = <<Open>> \o (Spelled(t, Kids(t, r)) \o <<Close>>)
        BY <1>1, <2>2, DumpOf
      <3> QED
        BY <1>5, <2>3, <2>16, <3>1
    <2>19. Dump(u, r) = a \o ((p \o y) \o <<Close>>)
      <3>1. Dump(u, r) = <<Open>> \o (Spelled(u, Kids(u, r)) \o <<Close>>)
        BY <1>1, <2>2, DumpOf
      <3> QED
        BY <1>5, <2>6, <2>17, <3>1
    <2>20. Inserted(x, y, s, j + 1)
      BY <1>7, <2>1, <2>4, <2>14, <2>15
    <2>21. j + 1 \in Nat
      OBVIOUS
    <2>22. Inserted(a \o ((p \o x) \o <<Close>>), a \o ((p \o y) \o <<Close>>), s, (j + 1) + 1)
      BY <1>4, <2>20, <2>21, PartInserted, Zenon
    <2> QED
      BY <2>1, <2>2, <2>18, <2>19, <2>22
  <1> HIDE DEF At1
  <1>8. 0 \in T
    BY <1>6
  <1>9. \A j \in Nat : j \in T => j + 1 \in T
    <2> TAKE j \in Nat
    <2> HAVE j \in T
    <2>1. j + 1 < d => j < d
      OBVIOUS
    <2> QED
      BY <1>7, <2>1
  <1>10. T \in SUBSET Nat
    OBVIOUS
  <1>11. T = Nat
    <2> HIDE DEF T
    <2> QED
      BY <1>8, <1>9, <1>10, AllNumbers
  <1> TAKE k \in 1 .. d
  <1>12. d - k \in Nat /\ d - k < d /\ d - (d - k) = k
    OBVIOUS
  <1>13. At1(d - k)
    BY <1>11, <1>12
  <1> QED
    BY <1>12, <1>13 DEF At1, s, n

\* In the dump of the tree, too.
LEMMA InsertedAll ==
    ASSUME NEW t, NEW u, NEW d \in Nat, NEW o, Path(t, d, o), Grown(t, u, d, o)
    PROVE  Inserted(DumpAll(t), DumpAll(u), Dump(u, Len(t)), d)
  <1> DEFINE n == Len(t)
             s == Dump(u, n)
  <1>1. /\ t \in Seq(Nodes) /\ Linked(t) /\ u \in Seq(Nodes) /\ Linked(u)
        /\ n \in Nat /\ Len(u) = n + 1 /\ n \in Refs(u) /\ Refs(t) = 0 .. n - 1
        /\ Refs(t) \subseteq Refs(u)
        /\ \A r \in Refs(t) : r \in Children(u) <=> r \in Children(t)
        /\ n \in Children(u) <=> d # 0
    BY DEF Grown
  <1>2. \A r \in Refs(t) : (\A k \in 1 .. d : o[k] # r) => Dump(u, r) = Dump(t, r)
    BY DumpStays
  <1>3. PICK f : Dumped(t, n, f) /\ DumpAll(t) = f[n]
    BY <1>1, DumpAllIs
  <1>4. PICK g : Dumped(u, n + 1, g) /\ DumpAll(u) = g[n + 1]
    BY <1>1, DumpAllIs
  <1>5. s \in Seq(Symbols)
    BY <1>1, DumpOf
  <1> HIDE DEF s
  <1>6. \A k \in 0 .. n : f[k] \in Seq(Symbols)
    BY <1>3 DEF Dumped
  <1>7. CASE d = 0
    <2>1. f[n] = g[n]
      <3>1. \A r \in 0 .. n - 1 : /\ r \in Children(t) <=> r \in Children(u)
                                  /\ r \notin Children(t) => Dump(t, r) = Dump(u, r)
        BY <1>1, <1>2, <1>7
      <3>2. n <= n /\ n <= n + 1 /\ n + 1 \in Nat
        BY <1>1
      <3> HIDE DEF n
      <3> QED
        BY <1>1, <1>3, <1>4, <3>1, <3>2, DumpedSame
    <2>2. g[n + 1] = g[n] \o s
      <3>1. n + 1 \in 1 .. n + 1 /\ (n + 1) - 1 = n
        BY <1>1
      <3> QED
        BY <1>1, <1>4, <1>7, <3>1 DEF Dumped, s
    <2>3. PICK q \in Seq(Symbols) : q = f[n]
      BY <1>1, <1>6
    <2>4. Closes(0) = <<>>
      BY ClosesAre
    <2>5. q \o <<>> = q /\ s \o <<>> = s
      BY <1>5, ConcatEmptySeq
    <2>6. DumpAll(t) = q \o Closes(0) /\ DumpAll(u) = q \o (s \o Closes(0))
      BY <1>3, <1>4, <2>1, <2>2, <2>3, <2>4, <2>5
    <2> QED
      BY <1>7, <2>6 DEF Inserted, s, n
  <1>8. CASE d # 0
    <2>1. /\ \A k \in 1 .. d : o[k] \in Refs(t)
          /\ \A k, j \in 1 .. d : k < j => o[k] < o[j]
          /\ o[1] \notin Children(t) /\ \A r \in Refs(t) : r > o[1] => r \in Children(t)
      BY <1>8 DEF Path
    <2>2. PICK r \in Refs(t) : r = o[1] /\ r \in 0 .. n - 1
      BY <1>1, <1>8, <2>1
    <2>3. /\ r \in Nat /\ r + 1 \in Nat /\ r + 1 \in 0 .. n /\ r + 1 \in 0 .. n + 1
          /\ r <= n /\ r <= n + 1 /\ n + 1 \in Nat /\ r \in 0 .. n
          /\ r + 1 \in 1 .. n /\ r + 1 \in 1 .. n + 1 /\ (r + 1) - 1 = r
      BY <1>1, <2>2
    <2>4. f[n] = f[r + 1]
      <3>1. \A k \in r + 1 .. n - 1 : k \in Children(t)
        BY <1>1, <2>1, <2>2
      <3> HIDE DEF n
      <3> QED
        BY <1>1, <1>3, <2>3, <3>1, DumpedEnds
    <2>5. g[n + 1] = g[r + 1]
      <3>1. \A k \in r + 1 .. (n + 1) - 1 : k \in Children(u)
        <4> TAKE k \in r + 1 .. (n + 1) - 1
        <4>1. k = n \/ (k \in 0 .. n - 1 /\ k > r)
          BY <1>1, <2>2
        <4> QED
          BY <1>1, <1>8, <2>1, <2>2, <4>1
      <3> HIDE DEF n
      <3> QED
        BY <1>1, <1>4, <2>3, <3>1, DumpedEnds
    <2>6. f[r] = g[r]
      <3>1. ASSUME NEW q \in 0 .. r - 1
            PROVE  /\ q \in Children(t) <=> q \in Children(u)
                   /\ q \notin Children(t) => Dump(t, q) = Dump(u, q)
        <4>1. q \in Refs(t) /\ q < r
          BY <1>1, <2>2
        <4>2. ASSUME NEW k \in 1 .. d, o[k] = q
              PROVE  FALSE
          <5>1. 1 \in 1 .. d
            BY <1>8
          <5>2. k # 1 => 1 < k
            OBVIOUS
          <5>3. k # 1 => o[1] < o[k]
            BY <2>1, <5>1, <5>2
          <5> QED
            BY <2>2, <4>1, <4>2, <5>3
        <4> QED
          BY <1>1, <1>2, <4>1, <4>2
      <3> HIDE DEF n
      <3> QED
        BY <1>1, <1>3, <1>4, <2>3, <3>1, DumpedSame
    <2>7. f[r + 1] = f[r] \o Dump(t, r)
      BY <1>3, <2>1, <2>2, <2>3 DEF Dumped
    <2>8. g[r + 1] = g[r] \o Dump(u, r)
      BY <1>1, <1>4, <2>1, <2>2, <2>3 DEF Dumped
    <2>9. Inserted(Dump(t, r), Dump(u, r), s, d)
      <3>1. 1 \in 1 .. d /\ (d - 1) + 1 = d
        BY <1>8
      <3>2. Inserted(Dump(t, o[1]), Dump(u, o[1]), Dump(u, Len(t)), (d - 1) + 1)
        BY <3>1, InsertedAt
      <3> QED
        BY <2>2, <3>1, <3>2 DEF s
    <2>10. PICK a \in Seq(Symbols) : a = f[r]
      BY <1>6, <2>3
    <2>11. PICK x \in Seq(Symbols) : x = Dump(t, r)
      BY <1>1, DumpOf
    <2>12. PICK y \in Seq(Symbols) : y = Dump(u, r)
      BY <1>1, DumpOf
    <2>13. Inserted(a \o x, a \o y, s, d)
      <3>1. <<>> \in Seq(Symbols)
        OBVIOUS
      <3> QED
        BY <1>5, <2>9, <2>11, <2>12, <3>1, PartInserted, Zenon
    <2>14. DumpAll(t) = a \o x /\ DumpAll(u) = a \o y
      BY <1>3, <1>4, <2>4, <2>5, <2>6, <2>7, <2>8, <2>10, <2>11, <2>12
    <2> QED
      BY <2>13, <2>14 DEF s, n
  <1> QED
    BY <1>7, <1>8

\* A tree that holds what has been read, with what is open closed, does so
\* with a record more.
LEMMA TreeGrows ==
    ASSUME NEW t, NEW alloc, TreeOk(t, alloc), OwnLasts(t),
           NEW b, PlaceOk(t, b), EndOf(t, b), NEW tok \in Tokens,
           NEW d \in Nat, NEW o, Path(t, d, o), b.parent = Innermost(d, o),
           NEW P \in Seq(Symbols), DumpAll(t) = P \o Closes(d)
    PROVE  LET u == SymNew(t, b, tok)
           IN /\ tok # ExprToken => DumpAll(u) = (P \o <<tok>>) \o Closes(d)
              /\ tok = ExprToken => DumpAll(u) = (P \o <<Open>>) \o Closes(d + 1)
  <1> DEFINE n == Len(t)
             u == SymNew(t, b, tok)
             s == Dump(u, n)
  <1>1. Grown(t, u, d, o) /\ At(u, n).tok = tok
    BY GrownIs
  <1> HIDE DEF u
  <1>2. u \in Seq(Nodes) /\ Linked(u) /\ n \in Refs(u) /\ Kids(u, n) = <<>>
    BY <1>1 DEF Grown
  <1>3. Inserted(DumpAll(t), DumpAll(u), s, d)
    BY <1>1, InsertedAll
  <1>4. PICK c \in Seq(Symbols) : c = Closes(d)
    BY ClosesAre
  <1>5. PICK q \in Seq(Symbols) : P \o c = q \o c /\ DumpAll(u) = q \o (s \o c)
    BY <1>3, <1>4 DEF Inserted
  <1>6. q = P
    BY <1>5, EndTaken
  <1>7. DumpAll(u) = P \o (s \o c)
    BY <1>5, <1>6
  <1>8. ASSUME tok # ExprToken
        PROVE  DumpAll(u) = (P \o <<tok>>) \o c
    <2>1. s = <<tok>> /\ s \in Seq(Symbols)
      BY <1>1, <1>2, <1>8, DumpOf
    <2> HIDE DEF s
    <2>2. Grouped(P, s, c)
      BY <2>1, ConcatGroups, Zenon
    <2> QED
      BY <1>7, <2>1, <2>2 DEF Grouped
  <1>9. ASSUME tok = ExprToken
        PROVE  DumpAll(u) = (P \o <<Open>>) \o Closes(d + 1)
    <2>1. s = <<Open>> \o (Spelled(u, Kids(u, n)) \o <<Close>>)
      BY <1>1, <1>2, <1>9, DumpOf
    <2>2. Spelled(u, <<>>) = <<>>
      <3>1. Words(u, <<>>) = <<>>
        BY DEF Words
      <3>2. FlattenSeq(<<>>) = <<>>
        BY DEF FlattenSeq
      <3> QED
        BY <3>1, <3>2 DEF Spelled
    <2>3. PICK p \in Seq(Symbols) : p = <<Open>>
      BY SymbolsDiffer, OneIsSeq
    <2>4. PICK z \in Seq(Symbols) : z = <<Close>>
      BY SymbolsDiffer, OneIsSeq
    <2>5. s = p \o z
      <3>1. <<>> \o z = z
        BY ConcatEmptySeq
      <3> QED
        BY <1>2, <2>1, <2>2, <2>3, <2>4, <3>1
    <2>6. PICK zc \in Seq(Symbols) : zc = z \o c /\ zc = Closes(d + 1)
      BY <1>4, <2>4, ClosesAre, ConcatProperties
    <2>7. Grouped(p, z, c) /\ Grouped(P, p, zc)
      BY ConcatGroups, Zenon
    <2> HIDE DEF s
    <2> QED
      BY <1>7, <2>3, <2>5, <2>6, <2>7 DEF Grouped
  <1> QED
    BY <1>4, <1>8, <1>9 DEF u

\* What is open without the last bracket.
LEMMA OneCloses ==
    ASSUME NEW P \in Seq(Symbols), NEW d \in Nat, d # 0
    PROVE  P \o Closes(d) = (P \o <<Close>>) \o Closes(d - 1)
  <1>1. PICK e \in Nat : d = e + 1 /\ e = d - 1
    <2>1. d - 1 \in Nat /\ d = (d - 1) + 1
      OBVIOUS
    <2> QED
      BY <2>1
  <1>2. PICK z \in Seq(Symbols) : z = <<Close>>
    BY SymbolsDiffer, OneIsSeq
  <1>3. PICK c \in Seq(Symbols) : c = Closes(e)
    BY ClosesAre
  <1>4. Closes(e + 1) = z \o c
    BY <1>2, <1>3, ClosesAre
  <1>5. Grouped(P, z, c)
    BY ConcatGroups, Zenon
  <1> QED
    BY <1>1, <1>2, <1>3, <1>4, <1>5 DEF Grouped

-----------------------------------------------------------------------------
(* What the loops collect.                                                   *)

\* A string that is cleared is empty.
LEMMA ClearedIsEmpty ==
    ASSUME NEW s, StrOk(s)
    PROVE  Cleared(s).size = 0 /\ Body(Cleared(s)) = <<>>
  <1>1. PICK e : e = Cleared(s)
    OBVIOUS
  <1>2. e.size = 0 /\ StrOk(e)
    BY <1>1, ClearedOk DEF Cleared, StrOk, StrValue
  <1>3. Body(e) \in Seq(Int) /\ Len(Body(e)) = 0
    BY <1>2, BodyIsSeq
  <1> QED
    BY <1>1, <1>2, <1>3, EmptySeq

\* A character more in a string.
LEMMA CatNOne ==
    ASSUME NEW s, StrOk(s), NEW x \in Int
    PROVE  Body(CatN(s, <<x>>)) = Append(Body(s), x)
  <1> DEFINE t == <<x>>
             n == s.size + 1
             g == Grow(s, s.size + Len(t))
             c == CatN(s, t)
             junk == [i \in 1 .. n - s.size |-> Junk]
             end == <<Nul>>
             cells == (Body(s) \o junk) \o end
  <1>1. s.size \in Nat /\ n \in Nat /\ n - s.size = 1 /\ s.size + Len(t) = n
    BY DEF StrOk, StrValue
  <1>2. t \in Seq(Int) /\ Len(t) = 1 /\ t[1] = x
    OBVIOUS
  <1>3. StrOk(c)
    BY <1>2, CatNOk
  <1>4. PICK b \in Seq(Int) : b = Body(s) /\ Len(b) = s.size
    BY BodyIsSeq
  <1>5. g = IF NeedsBlock(s, n)
            THEN [s EXCEPT !.short = FALSE, !.size = n, !.alloc = NewAlloc(n), !.data = cells]
            ELSE [s EXCEPT !.size = n, !.data = cells]
    BY <1>1 DEF Grow
  <1>6. junk \in Seq(Int) /\ Len(junk) = 1 /\ end \in Seq(Int)
    BY <1>1 DEF Junk, Nul
  <1>7. c = [g EXCEPT !.data = [i \in DOMAIN g.data |->
                  IF i \in s.size + 1 .. s.size + Len(t) THEN t[i - s.size] ELSE g.data[i]]]
    BY DEF CatN, Fill
  <1> HIDE DEF c, t
  <1>8. \A i \in 1 .. s.size : cells[i] = b[i]
    <2> HIDE DEF junk, end, n
    <2>1. PICK bj \in Seq(Int) : bj = b \o junk
      BY <1>6, ConcatProperties
    <2>2. Len(bj) = s.size + 1 /\ \A i \in 1 .. s.size : bj[i] = b[i]
      <3>1. \A i \in 1 .. Len(b) + Len(junk) : bj[i] = IF i <= Len(b) THEN b[i]
                                                      ELSE junk[i - Len(b)]
        BY <1>6, <2>1, ConcatProperties
      <3>2. \A i \in 1 .. s.size : i \in 1 .. Len(b) + Len(junk) /\ i <= Len(b)
        BY <1>1, <1>4, <1>6
      <3>3. Len(bj) = Len(b) + Len(junk)
        BY <1>6, <2>1, ConcatProperties
      <3> QED
        BY <1>4, <1>6, <3>1, <3>2, <3>3
    <2>3. cells = bj \o end
      BY <1>4, <2>1
    <2> HIDE DEF cells
    <2>4. \A i \in 1 .. Len(bj) + Len(end) : cells[i] = IF i <= Len(bj) THEN bj[i]
                                                       ELSE end[i - Len(bj)]
      BY <1>6, <2>3, ConcatProperties
    <2>5. \A i \in 1 .. s.size : i \in 1 .. Len(bj) + Len(end) /\ i <= Len(bj)
      BY <1>1, <1>6, <2>2, LenProperties
    <2> QED
      BY <2>2, <2>4, <2>5
  <1> HIDE DEF cells
  <1>9. g.size = n /\ g.data = cells /\ DOMAIN g = {"short", "size", "alloc", "block", "data"}
    <2>1. PICK a : a = NewAlloc(n)
      OBVIOUS
    <2>2. s \in StrValue
      BY DEF StrOk
    <2>3. g = IF NeedsBlock(s, n)
              THEN [s EXCEPT !.short = FALSE, !.size = n, !.alloc = a, !.data = cells]
              ELSE [s EXCEPT !.size = n, !.data = cells]
      BY <1>5, <2>1
    <2> HIDE DEF g, n
    <2> QED
      BY <2>2, <2>3 DEF StrValue
  <1> HIDE DEF g
  <1>10. c.size = n /\ c.data = [i \in DOMAIN g.data |->
                   IF i \in s.size + 1 .. s.size + Len(t) THEN t[i - s.size] ELSE g.data[i]]
    BY <1>7, <1>9
  <1>11. /\ c.data \in Seq(Int) /\ Len(c.data) = n + 1
         /\ Body(c) \in Seq(Int) /\ Len(Body(c)) = n
    BY <1>3, <1>10, BodyIsSeq DEF StrOk, StrValue
  <1>12. /\ Append(b, x) \in Seq(Int) /\ Len(Append(b, x)) = n /\ Append(b, x)[n] = x
         /\ \A i \in 1 .. s.size : Append(b, x)[i] = b[i]
    BY <1>4, AppendProperties
  <1>13. ASSUME NEW i \in 1 .. n
         PROVE  Body(c)[i] = Append(b, x)[i]
    <2>1. Body(c)[i] = c.data[i]
      BY <1>1, <1>10, <1>11, <1>13, SubSeqProperties DEF Body
    <2>2. i \in DOMAIN c.data
      BY <1>1, <1>11, LenProperties
    <2>3. i \in DOMAIN g.data
      BY <1>10, <2>2
    <2>4. c.data[i] = IF i \in s.size + 1 .. s.size + Len(t) THEN t[i - s.size] ELSE g.data[i]
      BY <1>10, <2>3
    <2>5. CASE i = n
      <3>1. i \in s.size + 1 .. s.size + Len(t) /\ i - s.size = 1
        BY <1>1, <1>2, <2>5
      <3> QED
        BY <1>2, <1>12, <2>1, <2>4, <2>5, <3>1
    <2>6. CASE i # n
      <3>1. i \in 1 .. s.size /\ i \notin s.size + 1 .. s.size + Len(t)
        BY <1>1, <1>2, <2>6
      <3> QED
        BY <1>8, <1>9, <1>12, <2>1, <2>4, <3>1
    <2> QED
      BY <2>5, <2>6
  <1>14. Len(Body(c)) = Len(Append(b, x)) /\ \A i \in 1 .. Len(Body(c)) : Body(c)[i] = Append(b, x)[i]
    BY <1>11, <1>12, <1>13
  <1>15. Body(c) = Append(b, x)
    BY <1>11, <1>12, <1>14, SeqEqual, Zenon
  <1> QED
    BY <1>4, <1>15 DEF c, t

\* What the word from i to j - 1 means.
LEMMA WordTokenIs ==
    ASSUME NEW c \in Seq(Int), NEW i \in 1 .. Len(c), NEW j \in i + 1 .. Len(c) + 1
    PROVE  LET w == SubSeq(c, i, j - 1)
               hex == /\ i + 1 < j /\ c[i + 1] = Letter.x
                      /\ \A k \in i + 2 .. j - 1 : IsHex(c[k])
                      /\ (j - i) - 2 \in 1 .. HexLimit - 1
               dec == (\A k \in i .. j - 1 : IsDigit(c[k])) /\ j - i < DecLimit
           IN /\ ~IsDigit(c[i]) => WordToken(w) = StrToken(w)
              /\ c[i] = 48 /\ j = i + 1 => WordToken(w) = NumToken(0)
              /\ c[i] = 48 /\ hex => WordToken(w) = NumToken(ValueOf(SubSeq(c, i + 2, j - 1), 16))
              /\ c[i] = 48 /\ j # i + 1 /\ ~hex => WordToken(w) = Bad
              /\ c[i] \in 49 .. 57 /\ dec => WordToken(w) = NumToken(ValueOf(w, 10))
              /\ c[i] \in 49 .. 57 /\ ~dec => WordToken(w) = Bad
  <1> DEFINE w == SubSeq(c, i, j - 1)
             hex == /\ i + 1 < j /\ c[i + 1] = Letter.x
                    /\ \A k \in i + 2 .. j - 1 : IsHex(c[k])
                    /\ (j - i) - 2 \in 1 .. HexLimit - 1
             dec == (\A k \in i .. j - 1 : IsDigit(c[k])) /\ j - i < DecLimit
             rest == SubSeq(w, 3, Len(w))
             v == SubSeq(c, i + 2, j - 1)
  <1>1. Len(c) \in Nat /\ \A k \in 1 .. Len(c) : c[k] \in Int
    BY LenProperties, ElementOfSeq
  <1>2. /\ w \in Seq(Int) /\ Len(w) = j - i
        /\ \A k \in 1 .. j - i : w[k] = c[i + k - 1]
    <2>1. \A k \in i .. j - 1 : c[k] \in Int
      BY <1>1
    <2>2. (j - 1) - i + 1 = j - i /\ i \in Int /\ j - 1 \in Int
      BY <1>1
    <2> QED
      BY <1>1, <2>1, <2>2, SubSeqProperties
  <1>3. WordToken(w) = IF ~IsDigit(w[1]) THEN StrToken(w)
                       ELSE IF w = <<Letter.zero>> THEN NumToken(0)
                       ELSE IF w[1] = Letter.zero
                         THEN IF /\ w[2] = Letter.x /\ (\A k \in DOMAIN rest : IsHex(rest[k]))
                                 /\ Len(rest) \in 1 .. HexLimit - 1
                              THEN NumToken(ValueOf(rest, 16)) ELSE Bad
                       ELSE IF (\A k \in DOMAIN w : IsDigit(w[k])) /\ Len(w) < DecLimit
                         THEN NumToken(ValueOf(w, 10)) ELSE Bad
    BY DEF WordToken, AllIn
  <1> HIDE DEF w
  <1>4. w[1] = c[i] /\ DOMAIN w = 1 .. j - i
    <2>1. 1 \in 1 .. j - i /\ i + 1 - 1 = i
      BY <1>1
    <2> QED
      BY <1>2, <2>1, LenProperties
  <1>5. w = <<Letter.zero>> <=> c[i] = 48 /\ j = i + 1
    <2>1. PICK z \in Seq(Int) : z = <<48>> /\ Len(z) = 1 /\ z[1] = 48
      <3>1. <<48>> \in Seq(Int) /\ Len(<<48>>) = 1 /\ <<48>>[1] = 48
        OBVIOUS
      <3> QED
        BY <3>1
    <2>2. ASSUME c[i] = 48, j = i + 1
          PROVE  w = z
      <3>1. Len(w) = Len(z) /\ \A k \in 1 .. Len(w) : w[k] = z[k]
        BY <1>2, <1>4, <2>1, <2>2
      <3> QED
        BY <1>2, <3>1, SeqEqual, Zenon
    <2>3. ASSUME w = z
          PROVE  c[i] = 48 /\ j = i + 1
      BY <1>2, <1>4, <2>1, <2>3
    <2> QED
      BY <2>1, <2>2, <2>3 DEF Letter
  <1>6. ASSUME i + 1 < j
        PROVE  w[2] = c[i + 1] /\ rest = v /\ Len(v) = (j - i) - 2
               /\ ((\A k \in DOMAIN rest : IsHex(rest[k])) <=> \A k \in i + 2 .. j - 1 : IsHex(c[k]))
    <2>1. 2 \in 1 .. j - i /\ i + 2 - 1 = i + 1
      BY <1>1, <1>6
    <2>2. /\ v \in Seq(Int) /\ Len(v) = (j - i) - 2
          /\ \A k \in 1 .. (j - i) - 2 : v[k] = c[(i + 2) + k - 1]
      <3>1. \A k \in i + 2 .. j - 1 : c[k] \in Int
        BY <1>1
      <3>2. IF i + 2 <= (j - 1) + 1 THEN (j - 1) - (i + 2) + 1 = (j - i) - 2 ELSE FALSE
        BY <1>1, <1>6
      <3>3. i + 2 \in Int /\ j - 1 \in Int
        BY <1>1
      <3> QED
        BY <1>1, <3>1, <3>2, <3>3, SubSeqProperties
    <2>3. /\ rest \in Seq(Int) /\ Len(rest) = (j - i) - 2
          /\ \A k \in 1 .. (j - i) - 2 : rest[k] = w[3 + k - 1]
      <3>1. \A k \in 3 .. Len(w) : w[k] \in Int
        BY <1>2, ElementOfSeq
      <3>2. IF 3 <= Len(w) + 1 THEN Len(w) - 3 + 1 = (j - i) - 2 ELSE FALSE
        BY <1>1, <1>2, <1>6
      <3>3. 3 \in Int /\ Len(w) \in Int
        BY <1>2, LenProperties
      <3> QED
        BY <1>2, <3>1, <3>2, <3>3, SubSeqProperties
    <2> HIDE DEF rest, v
    <2>4. ASSUME NEW k \in 1 .. (j - i) - 2
          PROVE  rest[k] = v[k]
      <3>1. 3 + k - 1 \in 1 .. j - i /\ i + (3 + k - 1) - 1 = (i + 2) + k - 1
        BY <1>1
      <3> QED
        BY <1>2, <2>2, <2>3, <3>1
    <2>5. rest = v
      <3>1. Len(rest) = Len(v) /\ \A k \in 1 .. Len(rest) : rest[k] = v[k]
        BY <2>2, <2>3, <2>4
      <3> QED
        BY <2>2, <2>3, <3>1, SeqEqual, Zenon
    <2>6. (\A k \in DOMAIN v : IsHex(v[k])) <=> \A k \in i + 2 .. j - 1 : IsHex(c[k])
      <3>1. DOMAIN v = 1 .. (j - i) - 2
        BY <2>2, LenProperties
      <3>2. ASSUME \A k \in 1 .. (j - i) - 2 : IsHex(v[k]), NEW k \in i + 2 .. j - 1
            PROVE  IsHex(c[k])
        <4>1. (k - i) - 1 \in 1 .. (j - i) - 2 /\ (i + 2) + ((k - i) - 1) - 1 = k
          BY <1>1
        <4> QED
          BY <2>2, <3>2, <4>1
      <3>3. ASSUME \A k \in i + 2 .. j - 1 : IsHex(c[k]), NEW k \in 1 .. (j - i) - 2
            PROVE  IsHex(v[k])
        <4>1. (i + 2) + k - 1 \in i + 2 .. j - 1
          BY <1>1
        <4> QED
          BY <2>2, <3>3, <4>1
      <3> QED
        BY <3>1, <3>2, <3>3
    <2> QED
      BY <1>2, <2>1, <2>2, <2>5, <2>6
  <1>7. (\A k \in DOMAIN w : IsDigit(w[k])) <=> \A k \in i .. j - 1 : IsDigit(c[k])
    <2>1. ASSUME \A k \in 1 .. j - i : IsDigit(w[k]), NEW k \in i .. j - 1
          PROVE  IsDigit(c[k])
      <3>1. (k - i) + 1 \in 1 .. j - i /\ i + ((k - i) + 1) - 1 = k
        BY <1>1
      <3> QED
        BY <1>2, <2>1, <3>1
    <2>2. ASSUME \A k \in i .. j - 1 : IsDigit(c[k]), NEW k \in 1 .. j - i
          PROVE  IsDigit(w[k])
      <3>1. i + k - 1 \in i .. j - 1
        BY <1>1
      <3> QED
        BY <1>2, <2>2, <3>1
    <2> QED
      BY <1>4, <2>1, <2>2
  <1> HIDE DEF rest, v
  <1>8. c[i] = 48 => IsDigit(c[i])
    BY DEF IsDigit
  <1>9. c[i] \in 49 .. 57 => IsDigit(c[i]) /\ c[i] # 48
    BY DEF IsDigit
  <1>10. j # i + 1 => i + 1 < j
    BY <1>1
  <1>11. hex => i + 1 < j /\ j # i + 1
    BY <1>1
  <1>12. Letter.zero = 48
    BY DEF Letter
  <1>13. ~IsDigit(c[i]) => WordToken(w) = StrToken(w)
    BY <1>3, <1>4
  <1>14. c[i] = 48 /\ j = i + 1 => WordToken(w) = NumToken(0)
    BY <1>3, <1>4, <1>5, <1>8
  <1>15. c[i] = 48 /\ hex => WordToken(w) = NumToken(ValueOf(v, 16))
    BY <1>3, <1>4, <1>5, <1>6, <1>8, <1>11, <1>12, Zenon
  <1>16. c[i] = 48 /\ j # i + 1 /\ ~hex => WordToken(w) = Bad
    BY <1>3, <1>4, <1>5, <1>6, <1>8, <1>10, <1>12, Zenon
  <1>17. c[i] \in 49 .. 57 /\ dec => WordToken(w) = NumToken(ValueOf(w, 10))
    BY <1>2, <1>3, <1>4, <1>5, <1>7, <1>9, <1>12, Zenon
  <1>18. c[i] \in 49 .. 57 /\ ~dec => WordToken(w) = Bad
    BY <1>2, <1>3, <1>4, <1>5, <1>7, <1>9, <1>12, Zenon
  <1> QED
    BY <1>13, <1>14, <1>15, <1>16, <1>17, <1>18 DEF w, v

-----------------------------------------------------------------------------
(* The parser and the language: what it has read is in the tree, with the    *)
(* brackets that are still open closed.                                      *)

\* A text without escapes.
Plain(t) == \A i \in DOMAIN t : t[i] # Letter.backslash

\* Each mode is inside of a piece, which began at i, and has of the piece what
\* it has read: of the text c, whose first pos characters are read.
InAtom(c, i) == /\ mode = "atom" /\ i \in 1 .. pos
                /\ \A k \in i .. pos : ~IsDelim(c[k])
                /\ ~IsDigit(c[i]) /\ c[i] \notin {Letter.quote, Letter.tick}
                /\ Body(build_str) = SubSeq(c, i, pos)
InZero(c, i) == mode = "zero" /\ i \in 1 .. pos /\ i = pos /\ c[i] = Letter.zero /\ num = 0
InHex(c, i) == /\ mode = "hex" /\ i \in 1 .. pos - 1
               /\ c[i] = Letter.zero /\ c[i + 1] = Letter.x
               /\ \A k \in i + 2 .. pos : IsHex(c[k])
               /\ digits = (pos - i) - 1 /\ num = ValueOf(SubSeq(c, i + 2, pos), 16)
InDec(c, i) == /\ mode = "dec" /\ i \in 1 .. pos
               /\ c[i] \in 49 .. 57 /\ \A k \in i .. pos : IsDigit(c[k])
               /\ digits = (pos - i) + 1 /\ num = ValueOf(SubSeq(c, i, pos), 10)
InStr(c, i) == /\ mode = "str" /\ i \in 1 .. pos
               /\ c[i] = Letter.quote /\ \A k \in i + 1 .. pos : c[k] # Letter.quote
               /\ Body(build_str) = SubSeq(c, i + 1, pos)
InChr(c, i) == mode = "chr" /\ i \in 1 .. pos /\ i = pos /\ c[i] = Letter.tick
InChrEnd(c, i) == /\ mode = "chrEnd" /\ i \in 1 .. pos /\ i + 1 = pos
                  /\ c[i] = Letter.tick /\ c[pos] >= 0 /\ num = c[pos]
Begun(c, i) == \/ mode = "top" /\ i = pos + 1
               \/ InAtom(c, i) \/ InZero(c, i) \/ InHex(c, i) \/ InDec(c, i)
               \/ InStr(c, i) \/ InChr(c, i) \/ InChrEnd(c, i)

\* The builders on st are those of the open expressions of t, and bs is at the
\* top level.
Parents(st) == [k \in 1 .. Len(st) |-> st[k].parent]
Nested(t, st, bs) ==
    /\ OwnLasts(t) /\ bs.parent = NoRef
    /\ \A k \in 1 .. Len(st) : EndOf(t, st[k])
    /\ Path(t, Len(st), Parents(st))

\* The tree t, of which d expressions are open, holds the tokens P.
TreeHolds(P, t, d) == Sound(P, d) /\ DumpAll(t) = P \o Closes(d)

\* The tree holds the tokens before the piece that is being read.
Agrees(c, P, i) ==
    /\ TreeHolds(P, nodes, Len(stk)) /\ Nested(nodes, stk, base)
    /\ Tokenize(c) = P \o TokensFrom(c)[i]
    /\ pos \in 0 .. Len(c) /\ Begun(c, i)

\* While the text is read the tree holds what is before; then what is promised.
FollowInv ==
    LET c == Legible(text)
    IN Plain(text) =>
         /\ mode \in Reading => \E P, i : Agrees(c, P, i)
         /\ mode = "done" => InLanguage(Tokenize(c)) /\ DumpAll(nodes) = Tokenize(c)
         /\ mode = "failed" /\ msg # Quiet => ~InLanguage(Tokenize(c))

\* A byte that is read as a backslash is one.
LEMMA SignedBackslash ==
    ASSUME NEW b \in 0 .. 255
    PROVE  Signed(b) = 92 => b = 92
  BY DEF Signed

\* The character that is read, in a text without escapes.
LEMMA PlainCh ==
    ASSUME ReaderInv, Plain(text), NEW c, c = Legible(text), pos \in 0 .. Len(c)
    PROVE  /\ c \in Seq(Int) /\ Len(c) \in Nat
           /\ Ch = Eof <=> pos = Len(c)
           /\ Ch # Eof => /\ pos + 1 \in 1 .. Len(c) /\ pos + 1 \in 0 .. Len(c)
                          /\ Ch = c[pos + 1]
           /\ Delimits(Ch) <=> Ch = Eof \/ IsDelim(Ch)
           /\ Ch # Letter.backslash
  <1>1. text \in Seq(0 .. 255) /\ pos \in Nat
    BY DEF ReaderInv
  <1>2. /\ c \in Seq(Int) /\ Len(c) \in Nat /\ Len(c) <= Len(text)
        /\ \A i \in 1 .. Len(c) : c[i] = Signed(text[i])
    BY <1>1, LegibleIs
  <1>3. /\ Ch = Eof <=> pos = Len(c)
        /\ pos < Len(c) => Ch = c[pos + 1]
    BY <1>1, ChLegible
  <1>4. Ch # Eof => pos + 1 \in 1 .. Len(c) /\ pos + 1 \in 0 .. Len(c) /\ pos < Len(c)
    BY <1>2, <1>3
  <1>5. Ch # Letter.backslash
    <2>1. CASE Ch = Eof
      BY <2>1 DEF Eof, Letter
    <2>2. CASE Ch # Eof
      <3>1. PICK i \in 1 .. Len(text) : i = pos + 1 /\ Ch = Signed(text[i])
        BY <1>1, <1>2, <1>3, <1>4, <2>2, LenProperties
      <3>2. text[i] \in 0 .. 255 /\ i \in DOMAIN text
        <4> DEFINE B == 0 .. 255
        <4>1. text \in Seq(B)
          BY <1>1
        <4> HIDE DEF B
        <4>2. text[i] \in B /\ i \in DOMAIN text
          BY <4>1, ElementOfSeq, LenProperties
        <4> QED
          BY <4>2 DEF B
      <3>3. text[i] # 92
        BY <3>2 DEF Plain, Letter
      <3>4. Signed(text[i]) # 92
        BY <3>2, <3>3, SignedBackslash, Zenon
      <3> QED
        BY <3>1, <3>4 DEF Letter
    <2> QED
      BY <2>1, <2>2
  <1>6. Delimits(Ch) <=> Ch = Eof \/ IsDelim(Ch)
    BY DEF Delimits, IsDelim
  <1> QED
    BY <1>2, <1>3, <1>4, <1>5, <1>6

\* A record more: the builders stay those of the open expressions.
LEMMA AddNodeNests ==
    ASSUME ParserTreeInv, Nested(nodes, stk, base), NEW tok \in Tokens, AddNode(tok)
    PROVE  /\ Nested(nodes', Moved, base')
           /\ tok = ExprToken => Nested(nodes', Append(Moved, Inside(nodes)), base')
  <1> DEFINE t == nodes
             u == nodes'
             d == Len(stk)
             o == Parents(stk)
             m == Moved
             b == Builder
             in == Inside(nodes)
  <1>1. /\ u = SymNew(t, b, tok)
        /\ base' = IF stk = <<>> THEN Advanced(t, base) ELSE base
    BY DEF AddNode
  <1>2. /\ PlaceOk(t, b)
        /\ stk # <<>> => /\ d \in Nat \ {0}
                         /\ Front(stk) \in Seq(Places) /\ Len(Front(stk)) = d - 1
                         /\ \A k \in 1 .. d - 1 : Front(stk)[k] = stk[k]
    BY BuilderOk
  <1>3. TreeOk(t, nodesAlloc) /\ stk \in Seq(Places) /\ d \in Nat
        /\ \A k \in 1 .. d : Within(t, stk[k])
    BY LenProperties DEF ParserTreeInv
  <1>4. m \in Seq(Places) /\ Len(m) = d /\ PlaceOk(u, in)
    BY AddNodeKeeps
  <1>5. OwnLasts(t) /\ base.parent = NoRef /\ (\A k \in 1 .. d : EndOf(t, stk[k])) /\ Path(t, d, o)
    BY DEF Nested
  <1>6. base'.parent = NoRef
    BY <1>1, <1>5 DEF Advanced, Place
  <1>7. d = 0 <=> stk = <<>>
    BY <1>3, EmptySeq
  <1>8. b.parent = Innermost(d, o) /\ EndOf(t, b) /\ (d # 0 => b = stk[d])
    <2>1. CASE d = 0
      BY <1>5, <1>7, <2>1 DEF Builder, Innermost, EndOf
    <2>2. CASE d # 0
      <3>1. b = stk[d] /\ d \in 1 .. d
        BY <1>3, <1>7, <2>2 DEF Builder, Last
      <3> QED
        BY <1>5, <2>2, <3>1 DEF Innermost, Parents
    <2> QED
      BY <2>1, <2>2
  <1> HIDE DEF u, b, m, in
  <1>9. /\ OwnLasts(u) /\ EndOf(u, Advanced(t, b)) /\ EndOf(u, Inside(t))
        /\ \A e : Within(t, e) /\ EndOf(t, e) /\ (e.parent = b.parent => e.parent = NoRef)
                  => EndOf(u, e)
    BY <1>1, <1>2, <1>3, <1>5, <1>8, BuildersMoveOn
  <1>10. /\ Path(u, d, o)
         /\ \A p : tok = ExprToken /\ p[d + 1] = Len(t) /\ (\A k \in 1 .. d : p[k] = o[k])
                   => Path(u, d + 1, p)
    BY <1>1, <1>2, <1>3, <1>5, <1>8, PathGrows
  <1>11. ASSUME NEW k \in 1 .. d
         PROVE  EndOf(u, m[k]) /\ m[k].parent = o[k]
    <2>1. d \in 1 .. d /\ d # 0 /\ o[k] = stk[k].parent
      BY <1>3, <1>11 DEF Parents
    <2>2. m = Append(Front(stk), Advanced(t, stk[d]))
      BY <1>7, <2>1 DEF m, Moved, Last
    <2>3. Advanced(t, stk[d]) = Advanced(t, b) /\ b = stk[d]
      BY <1>8, <2>1
    <2>4. PICK e : e = Advanced(t, b)
      OBVIOUS
    <2>5. e.parent = b.parent /\ e \in Places
      <3>1. b \in Places /\ Len(t) \in Nat
        BY <1>2, <1>3, LenProperties DEF PlaceOk, TreeOk
      <3> QED
        BY <2>4, <3>1 DEF Advanced, Place, Places
    <2>6. PICK f : f = Front(stk)
      OBVIOUS
    <2>7. f \in Seq(Places) /\ Len(f) = d - 1 /\ \A j \in 1 .. d - 1 : f[j] = stk[j]
      BY <1>2, <1>7, <2>1, <2>6
    <2>8. m[d] = e /\ \A j \in 1 .. d - 1 : m[j] = stk[j]
      <3>1. m = Append(f, e)
        BY <2>2, <2>3, <2>4, <2>6
      <3>2. m[Len(f) + 1] = e /\ \A j \in 1 .. Len(f) : m[j] = f[j]
        BY <2>5, <2>7, <3>1, AppendProperties
      <3>3. Len(f) + 1 = d
        BY <1>3, <2>7
      <3> QED
        BY <2>7, <3>2, <3>3
    <2>9. CASE k = d
      BY <1>9, <2>1, <2>3, <2>4, <2>5, <2>8, <2>9
    <2>10. CASE k # d
      <3>1. k \in 1 .. d - 1 /\ k < d
        BY <1>3, <1>11, <2>10
      <3>2. o[k] < o[d] /\ o[k] \in Refs(t) /\ o[d] \in Refs(t)
        BY <1>5, <1>11, <2>1, <3>1, Zenon DEF Path
      <3>3. o[k] # o[d]
        <4>1. Refs(t) \subseteq Int
          BY DEF Refs
        <4> QED
          BY <3>2, <4>1
      <3>4. stk[k].parent # b.parent
        BY <1>8, <2>1, <3>3 DEF Innermost
      <3>5. EndOf(u, stk[k])
        BY <1>3, <1>5, <1>9, <1>11, <3>4, Zenon
      <3> QED
        BY <2>1, <2>8, <3>1, <3>5
    <2> QED
      BY <2>9, <2>10
  <1>12. Nested(u, m, base')
    <2>1. \A k \in 1 .. d : Parents(m)[k] = o[k]
      BY <1>4, <1>11 DEF Parents
    <2>2. Path(u, d, Parents(m))
      BY <1>3, <1>10, <2>1, PathSame
    <2> QED
      BY <1>4, <1>6, <1>9, <1>11, <2>2 DEF Nested
  <1>13. ASSUME tok = ExprToken
         PROVE  Nested(u, Append(m, in), base')
    <2>1. PICK a : a = Append(m, in)
      OBVIOUS
    <2>2. in.parent = Len(t) /\ in \in Places /\ in = Inside(t)
      BY <1>4 DEF in, Inside, Place, PlaceOk
    <2>3. a \in Seq(Places) /\ Len(a) = d + 1 /\ a[d + 1] = in /\ \A k \in 1 .. d : a[k] = m[k]
      BY <1>4, <2>1, <2>2, AppendProperties
    <2>4. \A k \in 1 .. d : k \in 1 .. d + 1
      BY <1>3
    <2>5. d + 1 \in 1 .. d + 1
      BY <1>3
    <2>6. Parents(a)[d + 1] = Len(t) /\ \A k \in 1 .. d : Parents(a)[k] = o[k]
      BY <1>11, <2>2, <2>3, <2>4, <2>5 DEF Parents
    <2>7. Path(u, d + 1, Parents(a))
      BY <1>10, <1>13, <2>6, Zenon
    <2>8. ASSUME NEW k \in 1 .. d + 1
          PROVE  EndOf(u, a[k])
      <3>1. k = d + 1 \/ k \in 1 .. d
        BY <1>3
      <3> QED
        BY <1>9, <1>11, <2>2, <2>3, <3>1
    <2> QED
      BY <1>6, <1>9, <2>1, <2>3, <2>7, <2>8 DEF Nested
  <1> QED
    BY <1>12, <1>13 DEF u, m, in

\* The tokens are cut into those before a piece, its own and the rest.
LEMMA Regroup ==
    ASSUME NEW c \in Seq(Int), NEW P \in Seq(Symbols), NEW x \in Symbols,
           NEW j \in 1 .. Len(c) + 1
    PROVE  P \o (<<x>> \o TokensFrom(c)[j]) = (P \o <<x>>) \o TokensFrom(c)[j]
  <1> DEFINE U == Marks(c)
  <1>1. Symbols \subseteq U
    BY DEF Marks
  <1>2. P \in Seq(U) /\ <<x>> \in Seq(U)
    <2> HIDE DEF U
    <2> QED
      BY <1>1, SeqMonotonic, OneIsSeq
  <1>3. TokensFrom(c)[j] \in Seq(U)
    BY TokensFromIs
  <1>4. PICK r \in Seq(U) : r = TokensFrom(c)[j]
    BY <1>3
  <1>5. PICK q \in Seq(U) : q = <<x>>
    BY <1>2
  <1> HIDE DEF U
  <1>6. Grouped(P, q, r)
    BY <1>2, ConcatGroups, Zenon
  <1> QED
    BY <1>4, <1>5, <1>6 DEF Grouped

\* How a step can keep FollowInv: the parser goes on,
LEMMA StillReads ==
    ASSUME NEW c, c = Legible(text), text' = text, mode' \in Reading,
           NEW P, NEW i, Agrees(c, P, i)'
    PROVE  FollowInv'
  <1>1. Legible(text') = c
    OBVIOUS
  <1>2. mode' \notin {"done", "failed"}
    BY DEF Reading
  <1>3. \E Q, j : Agrees(c, Q, j)'
    BY Zenon
  <1> QED
    BY <1>1, <1>2, <1>3, Zenon DEF FollowInv

\* it runs out of memory,
LEMMA QuietFails ==
    ASSUME NEW e, NEW p, Stop(e, Quiet, p)
    PROVE  FollowInv'
  <1>1. mode' = "failed" /\ msg' = Quiet
    BY DEF Stop
  <1>2. mode' \notin Reading /\ mode' # "done"
    BY <1>1 DEF Reading
  <1> QED
    BY <1>1, <1>2, Zenon DEF FollowInv

\* or it has found that the text is not of the language.
LEMMA SyntaxFollows ==
    ASSUME NEW c \in Seq(Int), c = Legible(text), NEW m, Syntax(m),
           NEW P, NEW d \in Nat, Sound(P, d),
           NEW i \in 1 .. Len(c) + 1, Tokenize(c) = P \o TokensFrom(c)[i],
           \/ TokensFrom(c)[i] = <<>> /\ d # 0
           \/ \E R \in Seq(Marks(c)) : \/ TokensFrom(c)[i] = <<Bad>> \o R
                                       \/ TokensFrom(c)[i] = <<Close>> \o R /\ d = 0
    PROVE  FollowInv'
  <1>1. mode' = "failed" /\ text' = text
    BY DEF Syntax, Fail, Stop
  <1>2. mode' \notin Reading /\ mode' # "done" /\ Legible(text') = c
    BY <1>1 DEF Reading
  <1>3. PICK Q \in Seq(Marks(c)) : Q = TokensFrom(c)[i]
    BY TokensFromIs
  <1>4. ~InLanguage(P \o Q)
    <2>1. Judgement(c, P, d, Q)
      BY Judged, Zenon
    <2> QED
      BY <1>3, <2>1, Zenon DEF Judgement
  <1> QED
    BY <1>1, <1>2, <1>3, <1>4, Zenon DEF FollowInv

\* A character is read.
LEMMA ReadFollows ==
    ASSUME NEW c, c = Legible(text), NEW P, NEW i, Agrees(c, P, i),
           NEW m \in Reading, Read(m), pos + 1 \in 0 .. Len(c),
           NEW j, Begun(c, j)', TokensFrom(c)[j] = TokensFrom(c)[i]
    PROVE  FollowInv'
  <1>1. mode' = m /\ pos' = pos + 1 /\ text' = text /\ UNCHANGED <<nodes, stk, base>>
    BY DEF Read, treeVars
  <1>2. /\ TreeHolds(P, nodes, Len(stk)) /\ Nested(nodes, stk, base)
        /\ Tokenize(c) = P \o TokensFrom(c)[i]
    BY DEF Agrees
  <1>3. TreeHolds(P, nodes', Len(stk')) /\ Nested(nodes', stk', base') /\ pos' \in 0 .. Len(c)
    BY <1>1, <1>2
  <1>4. Tokenize(c) = P \o TokensFrom(c)[j]
    BY <1>2
  <1>5. Agrees(c, P, j)'
    BY <1>3, <1>4, Zenon DEF Agrees
  <1> QED
    BY <1>1, <1>5, StillReads

\* A string is longer, or does not get its block.
LEMMA GatherFollows ==
    ASSUME NEW c, c = Legible(text), NEW P, NEW i, Agrees(c, P, i),
           NEW s, NEW x, NEW m \in Reading, Gather(s, x, m), pos + 1 \in 0 .. Len(c),
           NEW j, build_str' = CatN(s, x) /\ Read(m) => Begun(c, j)',
           TokensFrom(c)[j] = TokensFrom(c)[i]
    PROVE  FollowInv'
  <1>1. CASE Read(m) /\ build_str' = CatN(s, x)
    BY <1>1, ReadFollows
  <1>2. CASE Fail(ParseError, Quiet, pos + 1)
    BY <1>2, QuietFails DEF Fail
  <1> QED
    BY <1>1, <1>2 DEF Gather

\* A record is added.
LEMMA AddNodeFollows ==
    ASSUME ParserInv, NEW c \in Seq(Int), NEW P, NEW i, Agrees(c, P, i),
           NEW tok \in Tokens, AddNode(tok), NEW j \in 1 .. Len(c) + 1,
           TokensFrom(c)[i] = (IF tok = ExprToken THEN <<Open>> ELSE <<tok>>) \o TokensFrom(c)[j]
    PROVE  LET Q == P \o (IF tok = ExprToken THEN <<Open>> ELSE <<tok>>)
               st == IF tok = ExprToken THEN Append(Moved, Inside(nodes)) ELSE Moved
           IN /\ TreeHolds(Q, nodes', Len(st)) /\ Nested(nodes', st, base')
              /\ Tokenize(c) = Q \o TokensFrom(c)[j]
  <1> DEFINE x == IF tok = ExprToken THEN Open ELSE tok
             Q == P \o <<x>>
             st == IF tok = ExprToken THEN Append(Moved, Inside(nodes)) ELSE Moved
             d == Len(stk)
             e == IF tok = ExprToken THEN d + 1 ELSE d
  <1>1. /\ TreeHolds(P, nodes, d) /\ Nested(nodes, stk, base)
        /\ Tokenize(c) = P \o TokensFrom(c)[i]
    BY DEF Agrees
  <1>2. P \in Seq(Symbols) /\ Sound(P, d) /\ DumpAll(nodes) = P \o Closes(d)
    BY <1>1 DEF TreeHolds, Sound
  <1>3. d \in Nat /\ TreeOk(nodes, nodesAlloc) /\ PlaceOk(nodes, Builder) /\ stk \in Seq(Places)
    BY LenProperties, BuilderOk DEF ParserInv, ParserTreeInv
  <1>4. x \in Symbols /\ (tok # ExprToken => x \notin {Open, Close})
    BY SymbolsDiffer
  <1>5. Nested(nodes', st, base')
    BY <1>1, AddNodeNests DEF ParserInv
  <1>6. Moved \in Seq(Places) /\ Len(Moved) = d /\ Inside(nodes) \in Places
    BY AddNodeKeeps DEF ParserInv, PlaceOk
  <1>7. Len(st) = e
    <2>1. Len(Append(Moved, Inside(nodes))) = Len(Moved) + 1
      BY <1>6, AppendProperties
    <2> QED
      BY <1>6, <2>1
  <1>8. Sound(Q, e)
    <2>1. /\ x = Open => Sound(P \o <<x>>, d + 1)
          /\ x \notin {Open, Close} => Sound(P \o <<x>>, d)
      BY <1>2, <1>3, <1>4, SoundGrows
    <2> QED
      BY <1>4, <2>1
  <1>9. DumpAll(nodes') = Q \o Closes(e)
    <2>1. nodes' = SymNew(nodes, Builder, tok)
      BY DEF AddNode
    <2>2. /\ OwnLasts(nodes) /\ base.parent = NoRef
          /\ \A k \in 1 .. d : EndOf(nodes, stk[k])
          /\ Path(nodes, d, Parents(stk))
      BY <1>1 DEF Nested
    <2>3. Builder.parent = Innermost(d, Parents(stk)) /\ EndOf(nodes, Builder)
      <3>1. CASE d = 0
        BY <1>3, <2>2, <3>1, EmptySeq DEF Builder, Innermost, EndOf
      <3>2. CASE d # 0
        <4>1. stk # <<>> /\ d \in 1 .. d
          BY <1>3, <3>2
        <4>2. Builder = stk[d]
          BY <4>1 DEF Builder, Last
        <4> QED
          BY <2>2, <3>2, <4>1, <4>2 DEF Innermost, Parents
      <3> QED
        BY <3>1, <3>2
    <2>4. PICK o : o = Parents(stk)
      OBVIOUS
    <2>5. LET u == SymNew(nodes, Builder, tok)
          IN /\ tok # ExprToken => DumpAll(u) = (P \o <<tok>>) \o Closes(d)
             /\ tok = ExprToken => DumpAll(u) = (P \o <<Open>>) \o Closes(d + 1)
      BY <1>2, <1>3, <2>2, <2>3, <2>4, TreeGrows
    <2> QED
      BY <2>1, <2>5
  <1>10. Tokenize(c) = Q \o TokensFrom(c)[j]
    <2>1. TokensFrom(c)[i] = <<x>> \o TokensFrom(c)[j]
      OBVIOUS
    <2>2. P \o (<<x>> \o TokensFrom(c)[j]) = (P \o <<x>>) \o TokensFrom(c)[j]
      BY <1>2, <1>4, Regroup
    <2> QED
      BY <1>1, <2>1, <2>2
  <1>11. TreeHolds(Q, nodes', Len(st))
    <2> HIDE DEF Q, e, st
    <2> QED
      BY <1>7, <1>8, <1>9 DEF TreeHolds
  <1>12. Q = P \o (IF tok = ExprToken THEN <<Open>> ELSE <<tok>>)
    OBVIOUS
  <1> HIDE DEF Q, st
  <1>13. st = IF tok = ExprToken THEN Append(Moved, Inside(nodes)) ELSE Moved
    BY DEF st
  <1> QED
    BY <1>5, <1>10, <1>11, <1>12, <1>13, Zenon

\* An atom is finished, with the text read up to p.
LEMMA EmitFollows ==
    ASSUME ParserInv, NEW c \in Seq(Int), c = Legible(text), NEW P, NEW i, Agrees(c, P, i),
           NEW tok \in Tokens, tok # ExprToken, NEW p, p \in 0 .. Len(c), Emit(tok, p),
           TokensFrom(c)[i] = <<tok>> \o TokensFrom(c)[p + 1]
    PROVE  FollowInv'
  <1>1. CASE AddNode(tok) /\ stk' = Moved /\ mode' = "top" /\ pos' = p /\ UNCHANGED text
    <2> DEFINE Q == P \o <<tok>>
    <2>1. p + 1 \in 1 .. Len(c) + 1
      BY LenProperties
    <2>2. /\ TreeHolds(Q, nodes', Len(Moved)) /\ Nested(nodes', Moved, base')
          /\ Tokenize(c) = Q \o TokensFrom(c)[p + 1]
      <3>1. PICK x : x = IF tok = ExprToken THEN <<Open>> ELSE <<tok>>
        OBVIOUS
      <3>2. PICK st : st = IF tok = ExprToken THEN Append(Moved, Inside(nodes)) ELSE Moved
        OBVIOUS
      <3>3. x = <<tok>> /\ st = Moved
        BY <3>1, <3>2
      <3>4. TokensFrom(c)[i] = x \o TokensFrom(c)[p + 1]
        BY <3>3
      <3>5. /\ TreeHolds(P \o x, nodes', Len(st)) /\ Nested(nodes', st, base')
            /\ Tokenize(c) = (P \o x) \o TokensFrom(c)[p + 1]
        BY <1>1, <2>1, <3>1, <3>2, <3>4, AddNodeFollows, Zenon
      <3> QED
        BY <3>3, <3>5
    <2> HIDE DEF Q
    <2>3. Begun(c, p + 1)'
      BY <1>1 DEF Begun
    <2>4. pos' \in 0 .. Len(c)
      BY <1>1
    <2>5. Agrees(c, Q, p + 1)'
      BY <1>1, <2>2, <2>3, <2>4 DEF Agrees
    <2>6. mode' \in Reading
      BY <1>1 DEF Reading
    <2> QED
      BY <1>1, <2>5, <2>6, StillReads
  <1>2. CASE Stop(ParseError, Quiet, p)
    BY <1>2, QuietFails
  <1> QED
    BY <1>1, <1>2 DEF Emit, Refused, Fail

\* Between pieces: where the parser is.
LEMMA AtTop ==
    ASSUME ParserInv, Plain(text), NEW c, c = Legible(text), NEW P, NEW i, Agrees(c, P, i),
           mode = "top"
    PROVE  /\ i = pos + 1 /\ i \in 1 .. Len(c) + 1 /\ c \in Seq(Int) /\ Len(c) \in Nat
           /\ pos \in 0 .. Len(c) /\ Len(stk) \in Nat /\ stk \in Seq(Places)
           /\ Sound(P, Len(stk)) /\ DumpAll(nodes) = P \o Closes(Len(stk)) /\ P \in Seq(Symbols)
           /\ Nested(nodes, stk, base) /\ Tokenize(c) = P \o TokensFrom(c)[i]
           /\ Ch = Eof <=> i = Len(c) + 1
           /\ Ch # Eof => /\ i \in 1 .. Len(c) /\ i \in 0 .. Len(c) /\ Ch = c[i]
                          /\ i + 1 \in 1 .. Len(c) + 1
           /\ Delimits(Ch) <=> Ch = Eof \/ IsDelim(Ch)
           /\ StrOk(Fresh) /\ Body(Fresh) = <<>> /\ Ch \in Int
  <1>1. /\ TreeHolds(P, nodes, Len(stk)) /\ Nested(nodes, stk, base)
        /\ Tokenize(c) = P \o TokensFrom(c)[i]
        /\ pos \in 0 .. Len(c) /\ Begun(c, i)
    BY DEF Agrees
  <1>2. i = pos + 1
    BY <1>1 DEF Begun, InAtom, InZero, InHex, InDec, InStr, InChr, InChrEnd
  <1>3. /\ c \in Seq(Int) /\ Len(c) \in Nat
        /\ Ch = Eof <=> pos = Len(c)
        /\ Ch # Eof => pos + 1 \in 1 .. Len(c) /\ pos + 1 \in 0 .. Len(c) /\ Ch = c[pos + 1]
        /\ Delimits(Ch) <=> Ch = Eof \/ IsDelim(Ch)
    BY <1>1, PlainCh DEF ParserInv
  <1>4. stk \in Seq(Places) /\ Len(stk) \in Nat
    BY LenProperties DEF ParserInv, ParserTreeInv
  <1>5. StrOk(Fresh) /\ Body(Fresh) = <<>> /\ Ch \in Int
    <2>1. mode \in Reading
      BY DEF Reading
    <2> QED
      BY <2>1, ReaderFacts, ClearedIsEmpty DEF Fresh
  <1>6. Sound(P, Len(stk)) /\ DumpAll(nodes) = P \o Closes(Len(stk)) /\ P \in Seq(Symbols)
    BY <1>1 DEF TreeHolds, Sound
  <1>7. i \in 1 .. Len(c) + 1 /\ (Ch = Eof <=> i = Len(c) + 1)
    BY <1>1, <1>2, <1>3
  <1>8. Ch # Eof => /\ i \in 1 .. Len(c) /\ i \in 0 .. Len(c) /\ Ch = c[i]
                    /\ i + 1 \in 1 .. Len(c) + 1
    BY <1>2, <1>3
  <1> QED
    BY <1>1, <1>2, <1>3, <1>4, <1>5, <1>6, <1>7, <1>8

\* The end of the text is the end of a text of the language if nothing is open.
LEMMA AtEndFollows ==
    ASSUME ParserInv, Plain(text), NEW c, c = Legible(text), NEW P, NEW i, Agrees(c, P, i),
           mode = "top", AtEnd
    PROVE  FollowInv'
  <1>1. Ch = Eof /\ i = Len(c) + 1 /\ i \in 1 .. Len(c) + 1 /\ c \in Seq(Int)
    BY AtTop DEF AtEnd
  <1>2. PICK d \in Nat : d = Len(stk)
    BY AtTop
  <1>3. /\ Sound(P, d) /\ DumpAll(nodes) = P \o Closes(d) /\ P \in Seq(Symbols)
        /\ Tokenize(c) = P \o TokensFrom(c)[i] /\ stk \in Seq(Places)
    BY <1>2, AtTop
  <1>4. TokensFrom(c)[i] = <<>>
    BY <1>1, TokensFromIs
  <1>5. CASE stk # <<>> /\ Syntax("unmatched '('")
    <2>1. d # 0
      BY <1>2, <1>3, <1>5, EmptySeq
    <2> QED
      BY <1>1, <1>3, <1>4, <1>5, <2>1, SyntaxFollows
  <1>6. CASE stk = <<>> /\ Read("done")
    <2>1. mode' = "done" /\ text' = text /\ nodes' = nodes
      BY <1>6 DEF Read, treeVars
    <2>2. d = 0
      BY <1>2, <1>6
    <2>3. PICK Q \in Seq(Marks(c)) : Q = <<>>
      <3> DEFINE U == Marks(c)
      <3> HIDE DEF U
      <3>1. <<>> \in Seq(U)
        OBVIOUS
      <3> QED
        BY <3>1 DEF U
    <2>4. Judgement(c, P, d, Q)
      BY <1>1, <1>3, Judged, Zenon
    <2>5. P \o Q = P /\ InLanguage(P \o Q)
      BY <2>2, <2>3, <2>4, Zenon DEF Judgement
    <2>6. Closes(0) = <<>>
      BY ClosesAre
    <2>7. Tokenize(c) = P /\ DumpAll(nodes') = P /\ InLanguage(P)
      BY <1>3, <1>4, <2>1, <2>2, <2>3, <2>5, <2>6
    <2>8. Legible(text') = c /\ mode' \notin Reading /\ mode' # "failed"
      BY <2>1 DEF Reading
    <2> QED
      BY <2>1, <2>7, <2>8, Zenon DEF FollowInv
  <1> QED
    BY <1>5, <1>6 DEF AtEnd

\* An opening bracket: a record and a builder more.
LEMMA ExprBeginFollows ==
    ASSUME ParserInv, Plain(text), NEW c, c = Legible(text), NEW P, NEW i, Agrees(c, P, i),
           mode = "top", ExprBegin
    PROVE  FollowInv'
  <1>1. Ch # Eof
    BY DEF ExprBegin, Letter, Eof
  <1>2. /\ i = pos + 1 /\ i \in 1 .. Len(c) /\ c \in Seq(Int) /\ i + 1 \in 1 .. Len(c) + 1
        /\ i \in 0 .. Len(c) /\ Ch = c[i]
    BY <1>1, AtTop
  <1>3. CASE /\ AddNode(ExprToken) /\ stk' = Append(Moved, Inside(nodes))
             /\ mode' = "top" /\ pos' = pos + 1 /\ UNCHANGED text
    <2>1. PICK x : x = IF ExprToken = ExprToken THEN <<Open>> ELSE <<ExprToken>>
      OBVIOUS
    <2>2. PICK st : st = IF ExprToken = ExprToken THEN Append(Moved, Inside(nodes)) ELSE Moved
      OBVIOUS
    <2>3. x = <<Open>> /\ st = Append(Moved, Inside(nodes))
      BY <2>1, <2>2
    <2>4. TokensFrom(c)[i] = x \o TokensFrom(c)[i + 1]
      BY <1>2, <2>3, MarkPieces DEF ExprBegin
    <2>5. ExprToken \in Tokens
      BY TokensAreTokens
    <2>6. /\ TreeHolds(P \o x, nodes', Len(st)) /\ Nested(nodes', st, base')
          /\ Tokenize(c) = (P \o x) \o TokensFrom(c)[i + 1]
      BY <1>2, <1>3, <2>1, <2>2, <2>4, <2>5, AddNodeFollows, Zenon
    <2>7. Begun(c, i + 1)' /\ pos' \in 0 .. Len(c) /\ mode' \in Reading
      BY <1>2, <1>3 DEF Begun, Reading
    <2>8. PICK Q : Q = P \o x
      OBVIOUS
    <2>9. /\ TreeHolds(Q, nodes', Len(stk')) /\ Nested(nodes', stk', base')
          /\ Tokenize(c) = Q \o TokensFrom(c)[i + 1]
      BY <1>3, <2>3, <2>6, <2>8
    <2>10. PICK j : j = i + 1
      OBVIOUS
    <2>11. Agrees(c, Q, j)'
      BY <2>7, <2>9, <2>10 DEF Agrees
    <2> QED
      BY <1>3, <2>7, <2>11, StillReads
  <1>4. CASE Fail(ParseError, Quiet, pos + 1)
    BY <1>4, QuietFails DEF Fail
  <1> QED
    BY <1>3, <1>4 DEF ExprBegin

\* A closing bracket: a builder less.
LEMMA ExprEndFollows ==
    ASSUME ParserInv, Plain(text), NEW c, c = Legible(text), NEW P, NEW i, Agrees(c, P, i),
           mode = "top", ExprEnd
    PROVE  FollowInv'
  <1>1. Ch # Eof
    <2>1. Ch = 41
      BY Zenon DEF ExprEnd, Letter
    <2> QED
      BY <2>1 DEF Eof
  <1>2. /\ i = pos + 1 /\ i \in 1 .. Len(c) /\ c \in Seq(Int) /\ i + 1 \in 1 .. Len(c) + 1
        /\ i \in 0 .. Len(c) /\ Ch = c[i] /\ i \in 1 .. Len(c) + 1
    BY <1>1, AtTop
  <1>3. PICK d \in Nat : d = Len(stk)
    BY AtTop
  <1>4. /\ Sound(P, d) /\ DumpAll(nodes) = P \o Closes(d) /\ P \in Seq(Symbols)
        /\ Tokenize(c) = P \o TokensFrom(c)[i] /\ stk \in Seq(Places)
        /\ Nested(nodes, stk, base)
    BY <1>3, AtTop
  <1>5. TokensFrom(c)[i] = <<Close>> \o TokensFrom(c)[i + 1]
    BY <1>2, MarkPieces DEF ExprEnd
  <1>6. CASE stk = <<>> /\ Syntax("unmatched ')'")
    <2>1. d = 0
      BY <1>3, <1>6
    <2>2. TokensFrom(c)[i + 1] \in Seq(Marks(c))
      BY <1>2, TokensFromIs
    <2> QED
      BY <1>2, <1>4, <1>5, <1>6, <2>1, <2>2, SyntaxFollows
  <1>7. CASE /\ stk # <<>> /\ stk' = Front(stk) /\ mode' = "top" /\ pos' = pos + 1
             /\ UNCHANGED <<text, base, nodes>>
    <2>1. d # 0 /\ d - 1 \in Nat
      BY <1>3, <1>4, <1>7, EmptySeq
    <2>2. Len(stk') = d - 1 /\ \A k \in 1 .. d - 1 : stk'[k] = stk[k]
      BY <1>3, <1>4, <1>7, FrontIs
    <2>3. PICK Q : Q = P \o <<Close>>
      OBVIOUS
    <2>4. Close \in Symbols
      BY SymbolsDiffer
    <2>5. Sound(Q, d - 1)
      BY <1>4, <2>1, <2>3, <2>4, SoundGrows
    <2>6. DumpAll(nodes') = Q \o Closes(d - 1)
      BY <1>4, <1>7, <2>1, <2>3, OneCloses
    <2>7. Nested(nodes', stk', base')
      <3>1. /\ OwnLasts(nodes) /\ base.parent = NoRef
            /\ \A k \in 1 .. d : EndOf(nodes, stk[k])
            /\ Path(nodes, d, Parents(stk))
        BY <1>3, <1>4 DEF Nested
      <3>2. Path(nodes, d - 1, Parents(stk))
        BY <2>1, <3>1, PathShrinks
      <3>3. \A k \in 1 .. d - 1 : Parents(stk')[k] = Parents(stk)[k]
        BY <1>3, <2>2 DEF Parents
      <3>4. Path(nodes, d - 1, Parents(stk'))
        BY <2>1, <3>2, <3>3, PathSame
      <3>5. \A k \in 1 .. d - 1 : EndOf(nodes, stk'[k])
        BY <2>2, <3>1
      <3> QED
        BY <1>7, <2>2, <3>1, <3>4, <3>5 DEF Nested
    <2>8. Tokenize(c) = Q \o TokensFrom(c)[i + 1]
      <3>1. P \o (<<Close>> \o TokensFrom(c)[i + 1]) = (P \o <<Close>>) \o TokensFrom(c)[i + 1]
        BY <1>2, <1>4, <2>4, Regroup
      <3> QED
        BY <1>4, <1>5, <2>3, <3>1
    <2>9. PICK j : j = i + 1
      OBVIOUS
    <2>10. Begun(c, j)' /\ pos' \in 0 .. Len(c) /\ mode' \in Reading
      BY <1>2, <1>7, <2>9 DEF Begun, Reading
    <2>11. Agrees(c, Q, j)'
      BY <2>2, <2>5, <2>6, <2>7, <2>8, <2>9, <2>10 DEF Agrees, TreeHolds
    <2> QED
      BY <1>7, <2>10, <2>11, StillReads
  <1> QED
    BY <1>6, <1>7 DEF ExprEnd

\* What a piece begins with.
LEMMA PieceBegins ==
    ASSUME ParserInv, Plain(text), NEW c, c = Legible(text), NEW P, NEW i, Agrees(c, P, i),
           mode = "top", Blank \/ Number \/ Literal \/ AtomBegin
    PROVE  FollowInv'
  <1>1. Ch # Eof
    BY DEF Blank, Number, Literal, AtomBegin, Letter, Eof, IsBlank, IsDigit, Delimits
  <1>2. /\ i = pos + 1 /\ i \in 1 .. Len(c) /\ c \in Seq(Int) /\ i + 1 \in 1 .. Len(c) + 1
        /\ i \in 0 .. Len(c) /\ Ch = c[i] /\ i \in 1 .. Len(c) + 1 /\ pos \in 0 .. Len(c)
        /\ Delimits(Ch) <=> Ch = Eof \/ IsDelim(Ch)
        /\ StrOk(Fresh) /\ Body(Fresh) = <<>> /\ Ch \in Int
    BY <1>1, AtTop
  <1>3. i \in Nat /\ i \in 1 .. i /\ i \in i .. i /\ (\A k \in i .. i : k = i)
        /\ pos + 1 \in 0 .. Len(c) /\ i + 1 .. i = {}
    BY <1>2
  <1>4. /\ SubSeq(c, i, i) = <<c[i]>> /\ SubSeq(c, i + 1, i) = <<>>
        /\ ValueOf(SubSeq(c, i, i), 10) = HexDig(c[i]) /\ Append(<<>>, c[i]) = <<c[i]>>
    <2>1. SubSeq(c, i, i) = Append(SubSeq(c, i, i - 1), c[i]) /\ SubSeq(c, i, i - 1) = <<>>
      <3>1. i - 1 \in i - 1 .. Len(c) - 1 /\ (i - 1) + 1 = i /\ i - 1 = i - 1
        BY <1>2
      <3> QED
        BY <1>2, <3>1, SubSeqGrows
    <2>2. SubSeq(c, i + 1, i) = <<>>
      <3>1. (i + 1) - 1 = i
        BY <1>2
      <3>2. SubSeq(c, i + 1, (i + 1) - 1) = <<>>
        <4>1. SubSeq(c, i + 1, (i + 1) - 1) \in Seq(Int) /\ Len(SubSeq(c, i + 1, (i + 1) - 1)) = 0
          <5>1. \A k \in i + 1 .. (i + 1) - 1 : c[k] \in Int
            BY <1>2
          <5>2. ~(i + 1 <= (i + 1) - 1) /\ i + 1 \in Int /\ (i + 1) - 1 \in Int
            BY <1>2
          <5> QED
            BY <1>2, <5>1, <5>2, SubSeqProperties
        <4> QED
          BY <4>1, EmptySeq
      <3> QED
        BY <3>1, <3>2
    <2>3. c[i] \in Int /\ <<>> \in Seq(Int)
      BY <1>2
    <2>4. PICK x \in Int : x = c[i]
      BY <2>3
    <2>5. /\ ValueOf(<<>>, 10) = 0
          /\ ValueOf(Append(<<>>, x), 10) = ValueOf(<<>>, 10) * 10 + HexDig(x)
      <3>1. PICK w \in Seq(Int) : w = <<>>
        BY <2>3
      <3>2. 10 \in Int
        OBVIOUS
      <3>3. ValueOf(<<>>, 10) = 0 /\ ValueOf(Append(w, x), 10) = ValueOf(w, 10) * 10 + HexDig(x)
        BY <3>2, ValueGrows, Zenon
      <3> QED
        BY <3>1, <3>3
    <2>6. HexDig(x) \in Int
      BY HexDigRange
    <2>7. ValueOf(Append(<<>>, x), 10) = HexDig(x)
      BY <2>5, <2>6
    <2>8. Append(<<>>, x) = <<x>>
      OBVIOUS
    <2> QED
      BY <2>1, <2>2, <2>4, <2>7, <2>8
  <1>5. CASE Blank
    <2>1. PICK j : j = i + 1
      OBVIOUS
    <2>2. Read("top") /\ "top" \in Reading
      BY <1>5 DEF Blank, Reading
    <2>3. Begun(c, j)'
      BY <1>2, <2>1, <2>2 DEF Begun, Read
    <2>4. TokensFrom(c)[j] = TokensFrom(c)[i]
      BY <1>2, <1>5, <2>1, MarkPieces DEF Blank
    <2> QED
      BY <1>3, <2>2, <2>3, <2>4, ReadFollows
  <1>6. CASE Number
    <2>1. CASE Ch = Letter.zero /\ Read("zero") /\ num' = Ch - 48
      <3>1. mode' = "zero" /\ pos' = i
        BY <1>2, <2>1 DEF Read
      <3>2. InZero(c, i)'
        BY <1>2, <1>3, <2>1, <3>1 DEF InZero, Letter
      <3>3. Begun(c, i)' /\ "zero" \in Reading
        BY <3>2 DEF Begun, Reading
      <3> QED
        BY <1>3, <2>1, <3>3, ReadFollows
    <2>2. CASE Ch # Letter.zero /\ digits' = 1 /\ Read("dec") /\ num' = Ch - 48
      <3>1. mode' = "dec" /\ pos' = i
        BY <1>2, <2>2 DEF Read
      <3>2. IsDigit(c[i]) /\ c[i] \in 49 .. 57 /\ HexDig(c[i]) = c[i] - 48
        BY <1>2, <1>6, <2>2 DEF Number, IsDigit, Letter, HexDig
      <3>3. InDec(c, i)'
        <4>1. (i - i) + 1 = 1
          BY <1>2
        <4> QED
          BY <1>2, <1>3, <1>4, <2>2, <3>1, <3>2, <4>1 DEF InDec
      <3>4. Begun(c, i)' /\ "dec" \in Reading
        BY <3>3 DEF Begun, Reading
      <3> QED
        BY <1>3, <2>2, <3>4, ReadFollows
    <2> QED
      BY <1>6, <2>1, <2>2 DEF Number
  <1>7. CASE Literal
    <2>1. CASE Ch = Letter.quote /\ Read("str") /\ build_str' = Fresh
      <3>1. mode' = "str" /\ pos' = i
        BY <1>2, <2>1 DEF Read
      <3>2. InStr(c, i)'
        BY <1>2, <1>3, <1>4, <2>1, <3>1 DEF InStr
      <3>3. Begun(c, i)' /\ "str" \in Reading
        BY <3>2 DEF Begun, Reading
      <3> QED
        BY <1>3, <2>1, <3>3, ReadFollows
    <2>2. CASE Ch = Letter.tick /\ Read("chr")
      <3>1. mode' = "chr" /\ pos' = i
        BY <1>2, <2>2 DEF Read
      <3>2. InChr(c, i)'
        BY <1>2, <1>3, <2>2, <3>1 DEF InChr
      <3>3. Begun(c, i)' /\ "chr" \in Reading
        BY <3>2 DEF Begun, Reading
      <3> QED
        BY <1>3, <2>2, <3>3, ReadFollows
    <2> QED
      BY <1>7, <2>1, <2>2 DEF Literal
  <1>8. CASE AtomBegin
    <2>1. /\ ~Delimits(Ch) /\ ~IsDigit(Ch) /\ Ch \notin {Letter.quote, Letter.tick}
          /\ Gather(Fresh, <<Ch>>, "atom")
      BY <1>8 DEF AtomBegin
    <2>2. ~IsDelim(c[i])
      BY <1>2, <2>1
    <2>3. ASSUME build_str' = CatN(Fresh, <<Ch>>), Read("atom")
          PROVE  Begun(c, i)'
      <3>1. mode' = "atom" /\ pos' = i
        BY <1>2, <2>3 DEF Read
      <3>2. Body(build_str') = <<c[i]>>
        <4>1. Body(build_str') = Append(Body(Fresh), Ch)
          BY <1>2, <2>3, CatNOne
        <4> QED
          BY <1>2, <1>4, <4>1
      <3>3. InAtom(c, i)'
        BY <1>2, <1>3, <1>4, <2>1, <2>2, <3>1, <3>2 DEF InAtom
      <3> QED
        BY <3>3 DEF Begun
    <2>4. "atom" \in Reading
      BY DEF Reading
    <2> QED
      BY <1>3, <2>1, <2>3, <2>4, GatherFollows
  <1> QED
    BY <1>5, <1>6, <1>7, <1>8

\* Inside of a piece: what has been read of it.
LEMMA InPiece ==
    ASSUME ParserInv, Plain(text), NEW c, c = Legible(text), NEW P, NEW i, Agrees(c, P, i),
           mode \in Reading
    PROVE  /\ c \in Seq(Int) /\ Len(c) \in Nat /\ pos \in 0 .. Len(c) /\ pos \in Nat
           /\ Ch \in Int /\ (Ch = Eof <=> pos = Len(c))
           /\ Ch # Eof => /\ pos + 1 \in 1 .. Len(c) /\ pos + 1 \in 0 .. Len(c)
                          /\ Ch = c[pos + 1]
           /\ Delimits(Ch) <=> Ch = Eof \/ IsDelim(Ch)
           /\ Ch # Letter.backslash
           /\ Begun(c, i)
           /\ num \in Nat /\ digits \in Nat /\ DigitsOk
           /\ StrOk(build_str) /\ Body(build_str) \in Seq(Int)
  <1>1. pos \in 0 .. Len(c) /\ Begun(c, i)
    BY DEF Agrees
  <1>2. /\ c \in Seq(Int) /\ Len(c) \in Nat
        /\ Ch = Eof <=> pos = Len(c)
        /\ Ch # Eof => pos + 1 \in 1 .. Len(c) /\ pos + 1 \in 0 .. Len(c) /\ Ch = c[pos + 1]
        /\ Delimits(Ch) <=> Ch = Eof \/ IsDelim(Ch)
        /\ Ch # Letter.backslash
    BY <1>1, PlainCh DEF ParserInv
  <1>3. /\ Ch \in Int /\ pos \in Nat /\ num \in Nat /\ digits \in Nat /\ DigitsOk
        /\ StrOk(build_str) /\ Body(build_str) \in Seq(Int)
    BY ReaderFacts
  <1> QED
    BY <1>1, <1>2, <1>3

\* The piece is none of the language.
LEMMA BadFollows ==
    ASSUME ParserInv, Plain(text), NEW c, c = Legible(text), NEW P, NEW i, Agrees(c, P, i),
           mode \in Reading, NEW m, Syntax(m), i \in 1 .. Len(c),
           \/ TokensFrom(c)[i] = <<Bad>>
           \/ \E j \in 1 .. Len(c) + 1 : TokensFrom(c)[i] = <<Bad>> \o TokensFrom(c)[j]
    PROVE  FollowInv'
  <1>1. c \in Seq(Int) /\ Len(c) \in Nat
    BY InPiece
  <1>2. PICK d \in Nat : d = Len(stk)
    BY LenProperties DEF ParserInv, ParserTreeInv
  <1>3. Sound(P, d) /\ Tokenize(c) = P \o TokensFrom(c)[i]
    BY <1>2 DEF Agrees, TreeHolds
  <1>4. i \in 1 .. Len(c) + 1 /\ Len(c) + 1 \in 1 .. Len(c) + 1
    BY <1>1
  <1>5. \E j \in 1 .. Len(c) + 1 : TokensFrom(c)[i] = <<Bad>> \o TokensFrom(c)[j]
    BY <1>1, <1>4, BadEnds
  <1>6. \E R \in Seq(Marks(c)) : \/ TokensFrom(c)[i] = <<Bad>> \o R
                                 \/ TokensFrom(c)[i] = <<Close>> \o R /\ d = 0
    <2>1. PICK j \in 1 .. Len(c) + 1 : TokensFrom(c)[i] = <<Bad>> \o TokensFrom(c)[j]
      BY <1>5
    <2>2. TokensFrom(c)[j] \in Seq(Marks(c))
      BY <1>1, TokensFromIs
    <2> QED
      BY <2>1, <2>2
  <1> QED
    BY <1>1, <1>3, <1>4, <1>6, SyntaxFollows

\* A word of which the text up to p is read ends there, or later.
LEMMA WordEnds ==
    ASSUME NEW c \in Seq(Int), NEW i \in 1 .. Len(c), NEW p \in i .. Len(c),
           \A k \in i .. p : ~IsDelim(c[k]), c[i] \notin {Letter.quote, Letter.tick}
    PROVE  /\ p = Len(c) \/ IsDelim(c[p + 1]) =>
                 TokensFrom(c)[i] = <<WordToken(SubSeq(c, i, p))>> \o TokensFrom(c)[p + 1]
           /\ \E j \in p + 1 .. Len(c) + 1 :
                 /\ TokensFrom(c)[i] = <<WordToken(SubSeq(c, i, j - 1))>> \o TokensFrom(c)[j]
                 /\ p = Len(c) \/ IsDelim(c[p + 1]) => j = p + 1
                 /\ p # Len(c) /\ ~IsDelim(c[p + 1]) => p + 1 \in i .. j - 1
  <1>1. PICK n \in Nat : n = Len(c)
    BY LenProperties
  <1>2. ~IsDelim(c[i]) /\ c[i] # Letter.quote /\ c[i] # Letter.tick
    <2>1. i \in i .. p
      BY <1>1
    <2> QED
      BY <2>1
  <1>3. /\ \E j : IsWord(c, i, j)
        /\ \A j : IsWord(c, i, j) =>
              TokensFrom(c)[i] = <<WordToken(SubSeq(c, i, j - 1))>> \o TokensFrom(c)[j]
    BY <1>2, WordPiece
  <1>4. ASSUME p = Len(c) \/ IsDelim(c[p + 1])
        PROVE  TokensFrom(c)[i] = <<WordToken(SubSeq(c, i, p))>> \o TokensFrom(c)[p + 1]
    <2>1. IsWord(c, i, p + 1)
      <3>1. p + 1 \in i + 1 .. Len(c) + 1 /\ (p + 1 <= Len(c) => p # Len(c)) /\ (p + 1) - 1 = p
        BY <1>1
      <3>2. \A k \in i + 1 .. (p + 1) - 1 : k \in i .. p
        BY <1>1
      <3> QED
        BY <1>4, <3>1, <3>2 DEF IsWord
    <2>2. (p + 1) - 1 = p
      BY <1>1
    <2> QED
      BY <1>3, <2>1, <2>2
  <1>5. PICK j : IsWord(c, i, j)
    BY <1>3
  <1>6. j \in i + 1 .. n + 1 /\ (j <= n => IsDelim(c[j])) /\ \A k \in i + 1 .. j - 1 : ~IsDelim(c[k])
    BY <1>1, <1>5 DEF IsWord
  <1>7. j \in p + 1 .. n + 1
    <2>1. ASSUME j <= p
          PROVE  FALSE
      <3>1. j \in i .. p /\ j <= n
        BY <1>1, <1>6, <2>1
      <3> QED
        BY <1>6, <3>1
    <2> QED
      BY <1>1, <1>6, <2>1
  <1>8. ASSUME p # Len(c), ~IsDelim(c[p + 1])
        PROVE  p + 1 \in i .. j - 1
    <2>1. j # p + 1
      <3>1. p + 1 <= n
        BY <1>1, <1>8
      <3> QED
        BY <1>6, <1>8, <3>1
    <2> QED
      BY <1>1, <1>7, <2>1
  <1>9. ASSUME p = Len(c) \/ IsDelim(c[p + 1])
        PROVE  j = p + 1
    <2>1. ASSUME j # p + 1
          PROVE  FALSE
      <3>1. p + 1 \in i + 1 .. j - 1 /\ p # n
        BY <1>1, <1>7, <2>1
      <3> QED
        BY <1>1, <1>6, <1>9, <3>1
    <2> QED
      BY <2>1
  <1>10. TokensFrom(c)[i] = <<WordToken(SubSeq(c, i, j - 1))>> \o TokensFrom(c)[j]
    BY <1>3, <1>5
  <1>11. \E l \in p + 1 .. Len(c) + 1 :
                 /\ TokensFrom(c)[i] = <<WordToken(SubSeq(c, i, l - 1))>> \o TokensFrom(c)[l]
                 /\ p = Len(c) \/ IsDelim(c[p + 1]) => l = p + 1
                 /\ p # Len(c) /\ ~IsDelim(c[p + 1]) => p + 1 \in i .. l - 1
    BY <1>1, <1>7, <1>8, <1>9, <1>10, Zenon
  <1> QED
    BY <1>4, <1>11, Zenon

\* Digits are no delimiters.
LEMMA DigitsAreWords ==
    ASSUME NEW x \in Int
    PROVE  /\ IsDigit(x) => ~IsDelim(x) /\ x \notin {Letter.quote, Letter.tick} /\ HexDig(x) = x - 48
           /\ IsHex(x) => ~IsDelim(x)
           /\ x = Letter.zero => IsDigit(x)
           /\ x = Letter.x => ~IsDelim(x)
           /\ x \in 49 .. 57 => IsDigit(x) /\ x # Letter.zero
  BY DEF IsDigit, IsDelim, IsBlank, IsPunc, Letter, HexDig, IsHex, NotHex

\* A name.
LEMMA AtomFollows ==
    ASSUME ParserInv, Plain(text), NEW c, c = Legible(text), NEW P, NEW i, Agrees(c, P, i), Atom
    PROVE  FollowInv'
  <1>1. mode = "atom" /\ mode \in Reading
    BY DEF Atom, Reading
  <1>2. /\ c \in Seq(Int) /\ Len(c) \in Nat /\ pos \in 0 .. Len(c) /\ pos \in Nat /\ Ch \in Int
        /\ (Ch = Eof <=> pos = Len(c))
        /\ Ch # Eof => /\ pos + 1 \in 1 .. Len(c) /\ pos + 1 \in 0 .. Len(c)
                       /\ Ch = c[pos + 1]
        /\ Delimits(Ch) <=> Ch = Eof \/ IsDelim(Ch)
        /\ StrOk(build_str) /\ Body(build_str) \in Seq(Int)
    BY <1>1, InPiece
  <1>3. InAtom(c, i)
    <2>1. Begun(c, i)
      BY DEF Agrees
    <2> QED
      BY <1>1, <2>1 DEF Begun, InZero, InHex, InDec, InStr, InChr, InChrEnd
  <1>4. /\ i \in 1 .. pos /\ (\A k \in i .. pos : ~IsDelim(c[k]))
        /\ ~IsDigit(c[i]) /\ c[i] \notin {Letter.quote, Letter.tick}
        /\ Body(build_str) = SubSeq(c, i, pos)
    BY <1>3 DEF InAtom
  <1>5. i \in 1 .. Len(c) /\ pos \in i .. Len(c)
    BY <1>2, <1>4
  <1>6. CASE Delimits(Ch) /\ Emit(StrToken(Body(build_str)), pos)
    <2>1. pos = Len(c) \/ IsDelim(c[pos + 1])
      BY <1>2, <1>6
    <2>2. TokensFrom(c)[i] = <<WordToken(SubSeq(c, i, pos))>> \o TokensFrom(c)[pos + 1]
      BY <1>2, <1>4, <1>5, <2>1, WordEnds
    <2>3. pos + 1 \in i + 1 .. Len(c) + 1 /\ (pos + 1) - 1 = pos
      BY <1>2, <1>5
    <2>4. WordToken(SubSeq(c, i, pos)) = StrToken(SubSeq(c, i, pos))
      BY <1>2, <1>4, <1>5, <2>3, WordTokenIs
    <2>5. PICK tok : tok = StrToken(Body(build_str))
      OBVIOUS
    <2>6. tok \in Tokens /\ tok # ExprToken
      BY <1>2, <2>5, TokensAreTokens DEF StrToken, ExprToken, Token
    <2>7. TokensFrom(c)[i] = <<tok>> \o TokensFrom(c)[pos + 1] /\ Emit(tok, pos)
      BY <1>4, <1>6, <2>2, <2>4, <2>5
    <2> QED
      BY <1>2, <2>6, <2>7, EmitFollows
  <1>7. CASE ~Delimits(Ch) /\ Gather(build_str, <<Ch>>, "atom")
    <2>1. Ch # Eof /\ ~IsDelim(c[pos + 1])
      BY <1>2, <1>7
    <2>2. ASSUME build_str' = CatN(build_str, <<Ch>>), Read("atom")
          PROVE  Begun(c, i)'
      <3>1. mode' = "atom" /\ pos' = pos + 1
        BY <2>2 DEF Read
      <3>2. Body(build_str') = Append(Body(build_str), Ch)
        BY <1>2, <2>2, CatNOne
      <3>3. SubSeq(c, i, pos + 1) = Append(SubSeq(c, i, pos), c[pos + 1])
        <4>1. i \in 1 .. Len(c) + 1 /\ pos \in i - 1 .. Len(c) - 1
          BY <1>2, <1>5, <2>1
        <4> QED
          BY <1>2, <4>1, SubSeqGrows
      <3>4. Body(build_str') = SubSeq(c, i, pos')
        BY <1>2, <1>4, <2>1, <3>1, <3>2, <3>3
      <3>5. i \in 1 .. pos' /\ \A k \in i .. pos' : k \in i .. pos \/ k = pos + 1
        BY <1>2, <1>4, <3>1
      <3>6. \A k \in i .. pos' : ~IsDelim(c[k])
        BY <1>4, <2>1, <3>5
      <3>7. InAtom(c, i)'
        BY <1>4, <3>1, <3>4, <3>5, <3>6 DEF InAtom
      <3> QED
        BY <3>7 DEF Begun
    <2>3. pos + 1 \in 0 .. Len(c) /\ "atom" \in Reading
      BY <1>2, <2>1 DEF Reading
    <2> QED
      BY <1>7, <2>2, <2>3, GatherFollows
  <1> QED
    BY <1>6, <1>7 DEF Atom

\* A zero, and what may follow it.
LEMMA ZeroFollows ==
    ASSUME ParserInv, Plain(text), NEW c, c = Legible(text), NEW P, NEW i, Agrees(c, P, i), Zero
    PROVE  FollowInv'
  <1>1. mode = "zero" /\ mode \in Reading
    BY DEF Zero, Reading
  <1>2. /\ c \in Seq(Int) /\ Len(c) \in Nat /\ pos \in 0 .. Len(c) /\ pos \in Nat /\ Ch \in Int
        /\ (Ch = Eof <=> pos = Len(c))
        /\ Ch # Eof => /\ pos + 1 \in 1 .. Len(c) /\ pos + 1 \in 0 .. Len(c)
                       /\ Ch = c[pos + 1]
        /\ Delimits(Ch) <=> Ch = Eof \/ IsDelim(Ch)
        /\ digits = 0
    BY <1>1, InPiece DEF DigitsOk
  <1>3. InZero(c, i)
    <2>1. Begun(c, i)
      BY DEF Agrees
    <2> QED
      BY <1>1, <2>1 DEF Begun, InAtom, InHex, InDec, InStr, InChr, InChrEnd
  <1>4. i \in 1 .. pos /\ i = pos /\ c[i] = Letter.zero /\ num = 0 /\ c[i] = 48
    BY <1>3 DEF InZero, Letter
  <1>5. i \in 1 .. Len(c) /\ pos \in i .. Len(c) /\ (\A k \in i .. pos : k = i) /\ c[i] \in Int
    BY <1>2, <1>4
  <1>6. (\A k \in i .. pos : ~IsDelim(c[k])) /\ c[i] \notin {Letter.quote, Letter.tick}
    BY <1>4, <1>5, DigitsAreWords
  <1>7. CASE Delimits(Ch) /\ Emit(NumToken(0), pos)
    <2>1. pos = Len(c) \/ IsDelim(c[pos + 1])
      BY <1>2, <1>7
    <2>2. TokensFrom(c)[i] = <<WordToken(SubSeq(c, i, pos))>> \o TokensFrom(c)[pos + 1]
      BY <1>2, <1>5, <1>6, <2>1, WordEnds
    <2>3. pos + 1 \in i + 1 .. Len(c) + 1 /\ (pos + 1) - 1 = pos /\ pos + 1 = i + 1
      BY <1>2, <1>4, <1>5
    <2>4. WordToken(SubSeq(c, i, pos)) = NumToken(0)
      BY <1>2, <1>4, <1>5, <2>3, WordTokenIs
    <2>5. PICK tok : tok = NumToken(0)
      OBVIOUS
    <2>6. tok \in Tokens /\ tok # ExprToken
      BY <2>5, TokensAreTokens DEF NumToken, ExprToken, Token
    <2>7. TokensFrom(c)[i] = <<tok>> \o TokensFrom(c)[pos + 1] /\ Emit(tok, pos)
      BY <1>7, <2>2, <2>4, <2>5
    <2> QED
      BY <1>2, <2>6, <2>7, EmitFollows
  <1>8. CASE Ch = Letter.x /\ Read("hex") /\ UNCHANGED <<numVars, build_str>>
    <2>1. Ch # Eof
      BY <1>8 DEF Letter, Eof
    <2>2. mode' = "hex" /\ pos' = pos + 1 /\ digits' = 0 /\ num' = 0
      BY <1>2, <1>4, <1>8 DEF Read, numVars
    <2>3. /\ i \in 1 .. pos' - 1 /\ c[i + 1] = Letter.x /\ i + 2 .. pos' = {}
          /\ 0 = (pos' - i) - 1
      BY <1>2, <1>4, <1>8, <2>1, <2>2
    <2>4. ValueOf(SubSeq(c, i + 2, pos'), 16) = 0
      <3>1. SubSeq(c, i + 2, pos') = <<>>
        <4>1. pos' = (i + 2) - 1
          BY <1>2, <1>4, <2>2
        <4>2. (i + 2) \in 1 .. Len(c) + 1 /\ (i + 2) - 1 \in Int
          BY <1>2, <1>4, <2>1
        <4>3. SubSeq(c, i + 2, (i + 2) - 1) \in Seq(Int) /\ Len(SubSeq(c, i + 2, (i + 2) - 1)) = 0
          <5>1. \A k \in i + 2 .. (i + 2) - 1 : c[k] \in Int
            BY <1>2, <1>4
          <5>2. ~(i + 2 <= (i + 2) - 1) /\ i + 2 \in Int /\ (i + 2) - 1 \in Int
            BY <1>2, <1>4
          <5> QED
            BY <1>2, <5>1, <5>2, SubSeqProperties
        <4> QED
          BY <4>1, <4>3, EmptySeq
      <3>2. 16 \in Int /\ 0 \in Int
        OBVIOUS
      <3>3. PICK w \in Seq(Int) : w = Body(build_str)
        BY <1>1, InPiece
      <3>4. ValueOf(<<>>, 16) = 0
        BY <3>2, <3>3, ValueGrows, Zenon
      <3> QED
        BY <3>1, <3>4
    <2>5. InHex(c, i)'
      BY <1>4, <2>2, <2>3, <2>4 DEF InHex
    <2>6. Begun(c, i)' /\ "hex" \in Reading
      BY <2>5 DEF Begun, Reading
    <2> QED
      BY <1>2, <1>8, <2>1, <2>6, ReadFollows
  <1>9. CASE ~Delimits(Ch) /\ Ch # Letter.x /\ Syntax("invalid hex literal")
    <2>1. PICK j \in pos + 1 .. Len(c) + 1 :
            /\ TokensFrom(c)[i] = <<WordToken(SubSeq(c, i, j - 1))>> \o TokensFrom(c)[j]
            /\ pos = Len(c) \/ IsDelim(c[pos + 1]) => j = pos + 1
            /\ pos # Len(c) /\ ~IsDelim(c[pos + 1]) => pos + 1 \in i .. j - 1
      BY <1>2, <1>5, <1>6, WordEnds
    <2>2. pos + 1 \in i .. j - 1 /\ c[pos + 1] # Letter.x
      BY <1>2, <1>9, <2>1
    <2>3. j \in i + 1 .. Len(c) + 1 /\ j # i + 1 /\ c[i + 1] # Letter.x /\ j \in 1 .. Len(c) + 1
      BY <1>2, <1>4, <2>1, <2>2
    <2>4. WordToken(SubSeq(c, i, j - 1)) = Bad
      BY <1>2, <1>4, <1>5, <2>3, WordTokenIs
    <2> QED
      BY <1>1, <1>5, <1>9, <2>1, <2>3, <2>4, BadFollows
  <1> QED
    BY <1>7, <1>8, <1>9 DEF Zero

\* The digits after 0x.
LEMMA HexFollows ==
    ASSUME ParserInv, Plain(text), NEW c, c = Legible(text), NEW P, NEW i, Agrees(c, P, i), Hex
    PROVE  FollowInv'
  <1>1. mode = "hex" /\ mode \in Reading
    BY DEF Hex, Reading
  <1>2. /\ c \in Seq(Int) /\ Len(c) \in Nat /\ pos \in 0 .. Len(c) /\ pos \in Nat /\ Ch \in Int
        /\ (Ch = Eof <=> pos = Len(c))
        /\ Ch # Eof => /\ pos + 1 \in 1 .. Len(c) /\ pos + 1 \in 0 .. Len(c)
                       /\ Ch = c[pos + 1]
        /\ Delimits(Ch) <=> Ch = Eof \/ IsDelim(Ch)
        /\ digits \in Nat /\ digits <= HexLimit /\ HexLimit \in Nat /\ num \in Nat
    BY <1>1, InPiece, LimitAssumption DEF DigitsOk
  <1>3. InHex(c, i)
    <2>1. Begun(c, i)
      BY DEF Agrees
    <2> QED
      BY <1>1, <2>1 DEF Begun, InAtom, InZero, InDec, InStr, InChr, InChrEnd
  <1>4. /\ i \in 1 .. pos - 1 /\ c[i] = Letter.zero /\ c[i] = 48 /\ c[i + 1] = Letter.x
        /\ (\A k \in i + 2 .. pos : IsHex(c[k]))
        /\ digits = (pos - i) - 1 /\ num = ValueOf(SubSeq(c, i + 2, pos), 16)
    BY <1>3 DEF InHex, Letter
  <1>5. /\ i \in 1 .. Len(c) /\ pos \in i .. Len(c) /\ i + 2 \in 1 .. Len(c) + 1
        /\ pos \in (i + 2) - 1 .. Len(c)
    BY <1>2, <1>4
  <1>6. (\A k \in i .. pos : ~IsDelim(c[k])) /\ c[i] \notin {Letter.quote, Letter.tick}
    <2>1. \A k \in i .. pos : c[k] \in Int /\ (k = i \/ k = i + 1 \/ k \in i + 2 .. pos)
      BY <1>2, <1>4
    <2>2. i \in i .. pos
      BY <1>2, <1>4
    <2> QED
      BY <1>4, <2>1, <2>2, DigitsAreWords
  <1>7. PICK j \in pos + 1 .. Len(c) + 1 :
            /\ TokensFrom(c)[i] = <<WordToken(SubSeq(c, i, j - 1))>> \o TokensFrom(c)[j]
            /\ pos = Len(c) \/ IsDelim(c[pos + 1]) => j = pos + 1
            /\ pos # Len(c) /\ ~IsDelim(c[pos + 1]) => pos + 1 \in i .. j - 1
    BY <1>2, <1>5, <1>6, WordEnds
  <1>8. j \in i + 1 .. Len(c) + 1 /\ j # i + 1 /\ j \in 1 .. Len(c) + 1
    BY <1>2, <1>4, <1>7
  <1>9. CASE digits = HexLimit /\ Syntax("hex literal too long")
    <2>1. ~((j - i) - 2 \in 1 .. HexLimit - 1)
      <3>1. digits = HexLimit
        BY <1>9
      <3>2. digits = (pos - i) - 1
        BY <1>4
      <3>3. i \in Nat /\ j \in Nat /\ j >= pos + 1
        BY <1>2, <1>5, <1>7
      <3> QED
        BY <1>2, <3>1, <3>2, <3>3
    <2>2. WordToken(SubSeq(c, i, j - 1)) = Bad
      BY <1>2, <1>4, <1>5, <1>8, <2>1, WordTokenIs
    <2> QED
      BY <1>1, <1>5, <1>7, <1>8, <1>9, <2>2, BadFollows
  <1>10. CASE HexDig(Ch) # NotHex /\ Digit(16, HexDig(Ch), "hex")
    <2>1. Ch # Eof
      <3>1. HexDig(Ch) # NotHex
        BY <1>10
      <3> QED
        BY <3>1 DEF HexDig, NotHex, IsDigit, Eof
    <2>2. mode' = "hex" /\ pos' = pos + 1 /\ digits' = digits + 1 /\ num' = num * 16 + HexDig(Ch)
      BY <1>10 DEF Digit, Read
    <2>3. IsHex(c[pos + 1])
      BY <1>2, <1>10, <2>1 DEF IsHex
    <2>4. i \in 1 .. pos' - 1 /\ digits' = (pos' - i) - 1
      BY <1>2, <1>4, <2>2
    <2>5. \A k \in i + 2 .. pos' : k \in i + 2 .. pos \/ k = pos + 1
      BY <1>2, <1>4, <2>2
    <2>6. \A k \in i + 2 .. pos' : IsHex(c[k])
      BY <1>4, <2>3, <2>5
    <2>7. num' = ValueOf(SubSeq(c, i + 2, pos'), 16)
      <3>1. pos \in (i + 2) - 1 .. Len(c) - 1
        BY <1>2, <1>5, <2>1
      <3>2. /\ SubSeq(c, i + 2, pos) \in Seq(Int)
            /\ SubSeq(c, i + 2, pos + 1) = Append(SubSeq(c, i + 2, pos), c[pos + 1])
        BY <1>2, <1>5, <3>1, SubSeqGrows
      <3>3. PICK w \in Seq(Int) : w = SubSeq(c, i + 2, pos)
        BY <3>2
      <3>4. 16 \in Int
        OBVIOUS
      <3>5. ValueOf(Append(w, Ch), 16) = ValueOf(w, 16) * 16 + HexDig(Ch)
        BY <1>2, <3>4, ValueGrows, Zenon
      <3> QED
        BY <1>2, <1>4, <2>1, <2>2, <3>2, <3>3, <3>5
    <2>8. InHex(c, i)'
      BY <1>4, <2>2, <2>4, <2>6, <2>7 DEF InHex
    <2>9. Begun(c, i)' /\ "hex" \in Reading /\ Read("hex")
      BY <1>10, <2>8 DEF Begun, Reading, Digit
    <2> QED
      BY <1>2, <2>1, <2>9, ReadFollows
  <1>11. CASE digits # HexLimit /\ Delimits(Ch) /\ digits # 0 /\ Emit(NumToken(num), pos)
    <2>1. pos = Len(c) \/ IsDelim(c[pos + 1])
      BY <1>2, <1>11
    <2>2. TokensFrom(c)[i] = <<WordToken(SubSeq(c, i, pos))>> \o TokensFrom(c)[pos + 1]
      BY <1>2, <1>5, <1>6, <2>1, WordEnds
    <2>3. /\ pos + 1 \in i + 1 .. Len(c) + 1 /\ (pos + 1) - 1 = pos /\ i + 1 < pos + 1
          /\ ((pos + 1) - i) - 2 \in 1 .. HexLimit - 1
      BY <1>2, <1>4, <1>5, <1>11
    <2>4. WordToken(SubSeq(c, i, pos)) = NumToken(num)
      BY <1>2, <1>4, <1>5, <2>3, WordTokenIs
    <2>5. PICK tok : tok = NumToken(num)
      OBVIOUS
    <2>6. tok \in Tokens /\ tok # ExprToken
      BY <1>2, <2>5, TokensAreTokens DEF NumToken, ExprToken, Token
    <2>7. TokensFrom(c)[i] = <<tok>> \o TokensFrom(c)[pos + 1] /\ Emit(tok, pos)
      BY <1>11, <2>2, <2>4, <2>5
    <2> QED
      BY <1>2, <2>6, <2>7, EmitFollows
  <1>12. CASE /\ HexDig(Ch) = NotHex /\ (Delimits(Ch) => digits = 0)
              /\ Syntax("expected hex digits for hex literal")
    <2>1. \/ ~(\A k \in i + 2 .. j - 1 : IsHex(c[k]))
          \/ ~((j - i) - 2 \in 1 .. HexLimit - 1)
      <3>1. CASE Delimits(Ch)
        <4>1. digits = 0 /\ digits = (pos - i) - 1
          BY <1>4, <1>12, <3>1
        <4>2. pos = i + 1 /\ i \in Nat
          BY <1>2, <1>5, <4>1
        <4>3. j = pos + 1
          BY <1>2, <1>7, <3>1
        <4> QED
          BY <1>2, <4>2, <4>3
      <3>2. CASE ~Delimits(Ch)
        <4>1. Ch # Eof /\ ~IsDelim(c[pos + 1]) /\ pos # Len(c)
          BY <1>2, <3>2
        <4>2. pos + 1 \in i + 2 .. j - 1
          BY <1>2, <1>4, <1>7, <4>1
        <4>3. ~IsHex(c[pos + 1])
          BY <1>2, <1>12, <4>1 DEF IsHex
        <4> QED
          BY <4>2, <4>3
      <3> QED
        BY <3>1, <3>2
    <2>2. WordToken(SubSeq(c, i, j - 1)) = Bad
      BY <1>2, <1>4, <1>5, <1>8, <2>1, WordTokenIs
    <2> QED
      BY <1>1, <1>5, <1>7, <1>8, <1>12, <2>2, BadFollows
  <1> QED
    BY <1>9, <1>10, <1>11, <1>12 DEF Hex

\* The digits of a decimal number.
LEMMA DecFollows ==
    ASSUME ParserInv, Plain(text), NEW c, c = Legible(text), NEW P, NEW i, Agrees(c, P, i), Dec
    PROVE  FollowInv'
  <1>1. mode = "dec" /\ mode \in Reading
    BY DEF Dec, Reading
  <1>2. /\ c \in Seq(Int) /\ Len(c) \in Nat /\ pos \in 0 .. Len(c) /\ pos \in Nat /\ Ch \in Int
        /\ (Ch = Eof <=> pos = Len(c))
        /\ Ch # Eof => /\ pos + 1 \in 1 .. Len(c) /\ pos + 1 \in 0 .. Len(c)
                       /\ Ch = c[pos + 1]
        /\ Delimits(Ch) <=> Ch = Eof \/ IsDelim(Ch)
        /\ digits \in Nat /\ digits <= DecLimit /\ DecLimit \in Nat /\ num \in Nat
    BY <1>1, InPiece, LimitAssumption DEF DigitsOk
  <1>3. InDec(c, i)
    <2>1. Begun(c, i)
      BY DEF Agrees
    <2> QED
      BY <1>1, <2>1 DEF Begun, InAtom, InZero, InHex, InStr, InChr, InChrEnd
  <1>4. /\ i \in 1 .. pos /\ c[i] \in 49 .. 57
        /\ (\A k \in i .. pos : IsDigit(c[k]))
        /\ digits = (pos - i) + 1 /\ num = ValueOf(SubSeq(c, i, pos), 10)
    BY <1>3 DEF InDec
  <1>5. /\ i \in 1 .. Len(c) /\ pos \in i .. Len(c) /\ i \in 1 .. Len(c) + 1
        /\ \A k \in i .. pos : c[k] \in Int
    BY <1>2, <1>4
  <1>6. (\A k \in i .. pos : ~IsDelim(c[k])) /\ c[i] \notin {Letter.quote, Letter.tick}
    BY <1>4, <1>5, DigitsAreWords
  <1>7. PICK j \in pos + 1 .. Len(c) + 1 :
            /\ TokensFrom(c)[i] = <<WordToken(SubSeq(c, i, j - 1))>> \o TokensFrom(c)[j]
            /\ pos = Len(c) \/ IsDelim(c[pos + 1]) => j = pos + 1
            /\ pos # Len(c) /\ ~IsDelim(c[pos + 1]) => pos + 1 \in i .. j - 1
    BY <1>2, <1>5, <1>6, WordEnds
  <1>8. j \in i + 1 .. Len(c) + 1 /\ j \in 1 .. Len(c) + 1
    BY <1>2, <1>4, <1>7
  <1>9. CASE digits = DecLimit /\ Syntax("decimal literal too long")
    <2>1. ~(j - i < DecLimit)
      <3>1. digits = DecLimit
        BY <1>9
      <3>2. digits = (pos - i) + 1
        BY <1>4
      <3>3. i \in Nat /\ j \in Nat /\ j >= pos + 1
        BY <1>2, <1>5, <1>7
      <3> QED
        BY <1>2, <3>1, <3>2, <3>3
    <2>2. WordToken(SubSeq(c, i, j - 1)) = Bad
      BY <1>2, <1>4, <1>5, <1>8, <2>1, WordTokenIs
    <2> QED
      BY <1>1, <1>5, <1>7, <1>8, <1>9, <2>2, BadFollows
  <1>10. CASE IsDigit(Ch) /\ Digit(10, Ch - 48, "dec")
    <2>1. Ch # Eof /\ HexDig(Ch) = Ch - 48
      <3>1. IsDigit(Ch)
        BY <1>10
      <3> QED
        BY <1>2, <3>1, DigitsAreWords DEF IsDigit, Eof
    <2>2. mode' = "dec" /\ pos' = pos + 1 /\ digits' = digits + 1 /\ num' = num * 10 + (Ch - 48)
      BY <1>10 DEF Digit, Read
    <2>3. IsDigit(c[pos + 1])
      BY <1>2, <1>10, <2>1
    <2>4. i \in 1 .. pos' /\ digits' = (pos' - i) + 1
      BY <1>2, <1>4, <2>2
    <2>5. \A k \in i .. pos' : k \in i .. pos \/ k = pos + 1
      BY <1>2, <1>4, <2>2
    <2>6. \A k \in i .. pos' : IsDigit(c[k])
      BY <1>4, <2>3, <2>5
    <2>7. num' = ValueOf(SubSeq(c, i, pos'), 10)
      <3>1. pos \in i - 1 .. Len(c) - 1
        BY <1>2, <1>5, <2>1
      <3>2. /\ SubSeq(c, i, pos) \in Seq(Int)
            /\ SubSeq(c, i, pos + 1) = Append(SubSeq(c, i, pos), c[pos + 1])
        BY <1>2, <1>5, <3>1, SubSeqGrows
      <3>3. PICK w \in Seq(Int) : w = SubSeq(c, i, pos)
        BY <3>2
      <3>4. 10 \in Int
        OBVIOUS
      <3>5. ValueOf(Append(w, Ch), 10) = ValueOf(w, 10) * 10 + HexDig(Ch)
        BY <1>2, <3>4, ValueGrows, Zenon
      <3> QED
        BY <1>2, <1>4, <2>1, <2>2, <3>2, <3>3, <3>5
    <2>8. InDec(c, i)'
      BY <1>4, <2>2, <2>4, <2>6, <2>7 DEF InDec
    <2>9. Begun(c, i)' /\ "dec" \in Reading /\ Read("dec")
      BY <1>10, <2>8 DEF Begun, Reading, Digit
    <2> QED
      BY <1>2, <2>1, <2>9, ReadFollows
  <1>11. CASE digits # DecLimit /\ Delimits(Ch) /\ Emit(NumToken(num), pos)
    <2>1. pos = Len(c) \/ IsDelim(c[pos + 1])
      BY <1>2, <1>11
    <2>2. TokensFrom(c)[i] = <<WordToken(SubSeq(c, i, pos))>> \o TokensFrom(c)[pos + 1]
      BY <1>2, <1>5, <1>6, <2>1, WordEnds
    <2>3. /\ pos + 1 \in i + 1 .. Len(c) + 1 /\ (pos + 1) - 1 = pos
          /\ (pos + 1) - i < DecLimit
      BY <1>2, <1>4, <1>5, <1>11
    <2>4. WordToken(SubSeq(c, i, pos)) = NumToken(num)
      BY <1>2, <1>4, <1>5, <2>3, WordTokenIs
    <2>5. PICK tok : tok = NumToken(num)
      OBVIOUS
    <2>6. tok \in Tokens /\ tok # ExprToken
      BY <1>2, <2>5, TokensAreTokens DEF NumToken, ExprToken, Token
    <2>7. TokensFrom(c)[i] = <<tok>> \o TokensFrom(c)[pos + 1] /\ Emit(tok, pos)
      BY <1>11, <2>2, <2>4, <2>5
    <2> QED
      BY <1>2, <2>6, <2>7, EmitFollows
  <1>12. CASE /\ ~IsDigit(Ch) /\ ~Delimits(Ch)
              /\ Syntax("expected decimal digits for decimal literal")
    <2>1. Ch # Eof /\ ~IsDelim(c[pos + 1]) /\ pos # Len(c) /\ ~IsDigit(c[pos + 1])
      BY <1>2, <1>12
    <2>2. pos + 1 \in i .. j - 1
      BY <1>7, <2>1
    <2>3. WordToken(SubSeq(c, i, j - 1)) = Bad
      BY <1>2, <1>4, <1>5, <1>8, <2>1, <2>2, WordTokenIs
    <2> QED
      BY <1>1, <1>5, <1>7, <1>8, <1>12, <2>3, BadFollows
  <1> QED
    BY <1>9, <1>10, <1>11, <1>12 DEF Dec

\* A string.
LEMMA QuotedFollows ==
    ASSUME ParserInv, Plain(text), NEW c, c = Legible(text), NEW P, NEW i, Agrees(c, P, i), Quoted
    PROVE  FollowInv'
  <1>1. mode = "str" /\ mode \in Reading
    BY DEF Quoted, Reading
  <1>2. /\ c \in Seq(Int) /\ Len(c) \in Nat /\ pos \in 0 .. Len(c) /\ pos \in Nat /\ Ch \in Int
        /\ (Ch = Eof <=> pos = Len(c))
        /\ Ch # Eof => /\ pos + 1 \in 1 .. Len(c) /\ pos + 1 \in 0 .. Len(c)
                       /\ Ch = c[pos + 1]
        /\ StrOk(build_str) /\ Body(build_str) \in Seq(Int) /\ Ch # Letter.backslash
    BY <1>1, InPiece
  <1>3. InStr(c, i)
    <2>1. Begun(c, i)
      BY DEF Agrees
    <2> QED
      BY <1>1, <2>1 DEF Begun, InAtom, InZero, InHex, InDec, InChr, InChrEnd
  <1>4. /\ i \in 1 .. pos /\ c[i] = Letter.quote
        /\ \A k \in i + 1 .. pos : c[k] # Letter.quote
        /\ Body(build_str) = SubSeq(c, i + 1, pos)
    BY <1>3 DEF InStr
  <1>5. /\ i \in 1 .. Len(c) /\ pos \in i .. Len(c) /\ i + 1 \in 1 .. Len(c) + 1
        /\ pos + 1 \in i + 1 .. Len(c) + 1 /\ (pos + 1) - 1 = pos
    BY <1>2, <1>4
  <1>6. PICK j \in i + 1 .. Len(c) + 1 : j = pos + 1 /\ j - 1 = pos
    BY <1>5
  <1>7. \A k \in i + 1 .. j - 1 : c[k] # Letter.quote
    BY <1>4, <1>6
  <1>8. (j <= Len(c) => c[j] = Letter.quote)
        => /\ j <= Len(c) => TokensFrom(c)[i] = <<StrToken(SubSeq(c, i + 1, j - 1))>>
                                                \o TokensFrom(c)[j + 1]
           /\ j = Len(c) + 1 => TokensFrom(c)[i] = <<Bad>>
    BY <1>2, <1>4, <1>5, <1>7, StringPiece, Zenon
  <1>9. CASE Ch = Eof /\ Syntax("unfinished string literal")
    <2>1. Ch = Eof
      BY <1>9
    <2>2. j = Len(c) + 1 /\ ~(j <= Len(c))
      BY <1>2, <1>6, <2>1
    <2>3. TokensFrom(c)[i] = <<Bad>>
      BY <1>8, <2>2
    <2> QED
      BY <1>1, <1>5, <1>9, <2>3, BadFollows
  <1>10. CASE Ch = Letter.quote /\ Emit(StrToken(Body(build_str)), pos + 1)
    <2>1. Ch # Eof
      BY <1>10 DEF Letter, Eof
    <2>2. j <= Len(c) /\ c[j] = Letter.quote
      BY <1>2, <1>10, <1>6, <2>1
    <2>3. TokensFrom(c)[i] = <<StrToken(SubSeq(c, i + 1, pos))>> \o TokensFrom(c)[j + 1]
      BY <1>6, <1>8, <2>2
    <2>4. PICK tok : tok = StrToken(Body(build_str))
      OBVIOUS
    <2>5. tok \in Tokens /\ tok # ExprToken
      BY <1>2, <2>4, TokensAreTokens DEF StrToken, ExprToken, Token
    <2>6. PICK p : p = pos + 1
      OBVIOUS
    <2>7. TokensFrom(c)[i] = <<tok>> \o TokensFrom(c)[p + 1] /\ Emit(tok, p) /\ p \in 0 .. Len(c)
      BY <1>2, <1>4, <1>10, <1>6, <2>1, <2>3, <2>4, <2>6
    <2> QED
      BY <1>2, <2>5, <2>7, EmitFollows
  <1>11. CASE Ch \notin {Eof, Letter.backslash, Letter.quote} /\ Gather(build_str, <<Ch>>, "str")
    <2>1. Ch # Eof /\ c[pos + 1] # Letter.quote
      BY <1>2, <1>11
    <2>2. ASSUME build_str' = CatN(build_str, <<Ch>>), Read("str")
          PROVE  Begun(c, i)'
      <3>1. mode' = "str" /\ pos' = pos + 1
        BY <2>2 DEF Read
      <3>2. Body(build_str') = Append(Body(build_str), Ch)
        BY <1>2, <2>2, CatNOne
      <3>3. SubSeq(c, i + 1, pos + 1) = Append(SubSeq(c, i + 1, pos), c[pos + 1])
        <4>1. pos \in (i + 1) - 1 .. Len(c) - 1
          BY <1>2, <1>5, <2>1
        <4> QED
          BY <1>2, <1>5, <4>1, SubSeqGrows
      <3>4. Body(build_str') = SubSeq(c, i + 1, pos')
        BY <1>2, <1>4, <2>1, <3>1, <3>2, <3>3
      <3>5. i \in 1 .. pos' /\ \A k \in i + 1 .. pos' : k \in i + 1 .. pos \/ k = pos + 1
        BY <1>2, <1>4, <3>1
      <3>6. \A k \in i + 1 .. pos' : c[k] # Letter.quote
        BY <1>4, <2>1, <3>5
      <3>7. InStr(c, i)'
        BY <1>4, <3>1, <3>4, <3>5, <3>6 DEF InStr
      <3> QED
        BY <3>7 DEF Begun
    <2>3. pos + 1 \in 0 .. Len(c) /\ "str" \in Reading
      BY <1>2, <2>1 DEF Reading
    <2> QED
      BY <1>11, <2>2, <2>3, GatherFollows
  <1> QED
    BY <1>2, <1>9, <1>10, <1>11 DEF Quoted

\* The character between two ticks.
LEMMA ChrFollows ==
    ASSUME ParserInv, Plain(text), NEW c, c = Legible(text), NEW P, NEW i, Agrees(c, P, i), Chr
    PROVE  FollowInv'
  <1>1. mode = "chr" /\ mode \in Reading
    BY DEF Chr, Reading
  <1>2. /\ c \in Seq(Int) /\ Len(c) \in Nat /\ pos \in 0 .. Len(c) /\ pos \in Nat /\ Ch \in Int
        /\ (Ch = Eof <=> pos = Len(c))
        /\ Ch # Eof => /\ pos + 1 \in 1 .. Len(c) /\ pos + 1 \in 0 .. Len(c)
                       /\ Ch = c[pos + 1]
        /\ Ch # Letter.backslash
    BY <1>1, InPiece
  <1>3. InChr(c, i)
    <2>1. Begun(c, i)
      BY DEF Agrees
    <2> QED
      BY <1>1, <2>1 DEF Begun, InAtom, InZero, InHex, InDec, InStr, InChrEnd
  <1>4. i \in 1 .. pos /\ i = pos /\ c[i] = Letter.tick
    BY <1>3 DEF InChr
  <1>5. i \in 1 .. Len(c)
    BY <1>2, <1>4
  <1>6. CASE Ch = Eof /\ Syntax("expected character for character literal")
    <2>1. ~(i + 2 <= Len(c))
      <3>1. Ch = Eof
        BY <1>6
      <3> QED
        BY <1>2, <1>4, <3>1
    <2>2. TokensFrom(c)[i] = <<Bad>>
      BY <1>2, <1>4, <1>5, <2>1, CharPiece
    <2> QED
      BY <1>1, <1>5, <1>6, <2>2, BadFollows
  <1>7. CASE Ch < Eof /\ Fail(Ch, Quiet, pos + 1)
    BY <1>7, QuietFails DEF Fail
  <1>8. CASE /\ Ch >= 0 /\ Ch # Letter.backslash
             /\ Read("chrEnd") /\ num' = Ch /\ UNCHANGED <<digits, within, build_str>>
    <2>1. Ch # Eof
      <3>1. Ch >= 0
        BY <1>8
      <3> QED
        BY <1>2, <3>1 DEF Eof
    <2>2. mode' = "chrEnd" /\ pos' = pos + 1 /\ num' = Ch
      BY <1>8 DEF Read
    <2>3. c[pos'] = Ch /\ Ch >= 0
      BY <1>2, <1>8, <2>1, <2>2
    <2>4. i \in 1 .. pos' /\ i + 1 = pos'
      BY <1>2, <1>4, <2>2
    <2>5. InChrEnd(c, i)'
      BY <1>4, <2>2, <2>3, <2>4 DEF InChrEnd
    <2>6. Begun(c, i)' /\ "chrEnd" \in Reading
      BY <2>5 DEF Begun, Reading
    <2> QED
      BY <1>2, <1>8, <2>1, <2>6, ReadFollows
  <1> QED
    BY <1>2, <1>6, <1>7, <1>8 DEF Chr

\* The tick that closes it.
LEMMA ChrEndFollows ==
    ASSUME ParserInv, Plain(text), NEW c, c = Legible(text), NEW P, NEW i, Agrees(c, P, i), ChrEnd
    PROVE  FollowInv'
  <1>1. mode = "chrEnd" /\ mode \in Reading
    BY DEF ChrEnd, Reading
  <1>2. /\ c \in Seq(Int) /\ Len(c) \in Nat /\ pos \in 0 .. Len(c) /\ pos \in Nat /\ Ch \in Int
        /\ (Ch = Eof <=> pos = Len(c))
        /\ Ch # Eof => /\ pos + 1 \in 1 .. Len(c) /\ pos + 1 \in 0 .. Len(c)
                       /\ Ch = c[pos + 1]
        /\ num \in Nat
    BY <1>1, InPiece
  <1>3. InChrEnd(c, i)
    <2>1. Begun(c, i)
      BY DEF Agrees
    <2> QED
      BY <1>1, <2>1 DEF Begun, InAtom, InZero, InHex, InDec, InStr, InChr
  <1>4. /\ i \in 1 .. pos /\ i + 1 = pos /\ c[i] = Letter.tick
        /\ c[i + 1] >= 0 /\ num = c[i + 1]
    BY <1>3 DEF InChrEnd
  <1>5. i \in 1 .. Len(c) /\ pos + 1 = i + 2 /\ (pos + 1) + 1 = i + 3
    BY <1>2, <1>4
  <1>6. CASE Ch = Letter.tick /\ Emit(NumToken(num), pos + 1)
    <2>1. Ch # Eof
      BY <1>6 DEF Letter, Eof
    <2>2. i + 2 <= Len(c) /\ c[i + 2] = Letter.tick
      BY <1>2, <1>5, <1>6, <2>1
    <2>3. TokensFrom(c)[i] = <<NumToken(c[i + 1])>> \o TokensFrom(c)[i + 3]
      BY <1>2, <1>4, <1>5, <2>2, CharPiece
    <2>4. PICK tok : tok = NumToken(num)
      OBVIOUS
    <2>5. tok \in Tokens /\ tok # ExprToken
      BY <1>2, <2>4, TokensAreTokens DEF NumToken, ExprToken, Token
    <2>6. PICK p : p = pos + 1
      OBVIOUS
    <2>7. TokensFrom(c)[i] = <<tok>> \o TokensFrom(c)[p + 1] /\ Emit(tok, p) /\ p \in 0 .. Len(c)
      BY <1>2, <1>4, <1>5, <1>6, <2>1, <2>3, <2>4, <2>6
    <2> QED
      BY <1>2, <2>5, <2>7, EmitFollows
  <1>7. CASE Ch # Letter.tick /\ Syntax("expected ' to close character literal")
    <2>1. ~(i + 2 <= Len(c) /\ c[i + 2] = Letter.tick)
      <3>1. i + 2 <= Len(c) => Ch # Eof
        BY <1>2, <1>5
      <3> QED
        BY <1>2, <1>5, <1>7, <3>1
    <2>2. TokensFrom(c)[i] = <<Bad>>
      BY <1>2, <1>4, <1>5, <2>1, CharPiece
    <2> QED
      BY <1>1, <1>5, <1>7, <2>2, BadFollows
  <1> QED
    BY <1>6, <1>7 DEF ChrEnd

\* Whatever the parser does, it follows the text.
LEMMA ParserFollows ==
    ASSUME ParserInv, FollowInv, mode \in Reading, ParseStep, text' = text
    PROVE  FollowInv'
  <1>1. CASE ~Plain(text)
    <2>1. ~Plain(text')
      BY <1>1
    <2> QED
      BY <2>1, Zenon DEF FollowInv
  <1>2. CASE Plain(text)
    <2>1. PICK c : c = Legible(text)
      OBVIOUS
    <2>2. PICK P, i : Agrees(c, P, i)
      BY <1>2, <2>1, Zenon DEF FollowInv
    <2>3. CASE Top
      BY <1>2, <2>1, <2>2, <2>3, AtEndFollows, ExprBeginFollows, ExprEndFollows, PieceBegins
         DEF Top
    <2>4. CASE Atom \/ Zero
      BY <1>2, <2>1, <2>2, <2>4, AtomFollows, ZeroFollows
    <2>5. CASE Hex \/ Dec
      BY <1>2, <2>1, <2>2, <2>5, HexFollows, DecFollows
    <2>6. CASE Quoted \/ Chr \/ ChrEnd
      BY <1>2, <2>1, <2>2, <2>6, QuotedFollows, ChrFollows, ChrEndFollows
    <2>7. CASE Esc \/ EscHex
      <3>1. mode \in {"esc", "escHex"}
        BY <2>7 DEF Esc, EscHex
      <3>2. Begun(c, i)
        BY <2>2 DEF Agrees
      <3> QED
        BY <3>1, <3>2 DEF Begun, InAtom, InZero, InHex, InDec, InStr, InChr, InChrEnd
    <2> QED
      BY <2>3, <2>4, <2>5, <2>6, <2>7 DEF ParseStep
  <1> QED
    BY <1>1, <1>2

\* A parser that begins has read nothing, and its tree is empty.
LEMMA BeginFollows ==
    ASSUME NEW t, t \in Seq(0 .. 255), ParseBegin(t)
    PROVE  FollowInv'
  <1>1. /\ text' = t /\ pos' = 0 /\ mode' = "top" /\ stk' = <<>> /\ base' = TopPlace
        /\ nodes' = <<>>
    BY DEF ParseBegin
  <1>2. PICK c : c = Legible(t)
    OBVIOUS
  <1>3. c \in Seq(Int) /\ Len(c) \in Nat
    BY <1>2, LegibleIs
  <1>4. PICK P : P = <<>>
    OBVIOUS
  <1>5. Len(stk') = 0
    BY <1>1, EmptySeq
  <1>6. DumpAll(<<>>) = <<>>
    <2>1. <<>> \in Seq(Nodes) /\ Len(<<>>) = 0
      BY EmptySeq
    <2>2. Linked(<<>>)
      <3>1. Refs(<<>>) = {}
        BY EmptySeq DEF Refs
      <3> QED
        BY <3>1 DEF Linked
    <2>3. PICK f : Dumped(<<>>, Len(<<>>), f) /\ DumpAll(<<>>) = f[Len(<<>>)]
      BY <2>1, <2>2, DumpAllIs
    <2> QED
      BY <2>1, <2>3 DEF Dumped
  <1>7. TreeHolds(P, nodes', Len(stk'))
    <2>1. Closes(0) = <<>>
      BY ClosesAre
    <2>2. Sound(P, 0)
      BY <1>4, NothingSound
    <2>3. <<>> = <<>> \o <<>>
      OBVIOUS
    <2> QED
      BY <1>1, <1>4, <1>5, <1>6, <2>1, <2>2, <2>3 DEF TreeHolds
  <1>8. Nested(nodes', stk', base')
    <2>1. OwnLasts(<<>>)
      <3>1. Refs(<<>>) = {}
        BY EmptySeq DEF Refs
      <3> QED
        BY <3>1 DEF OwnLasts
    <2>2. TopPlace.parent = NoRef
      BY DEF TopPlace, Place
    <2>3. Path(nodes', 0, Parents(stk'))
      BY NoPath
    <2> QED
      BY <1>1, <1>5, <2>1, <2>2, <2>3 DEF Nested
  <1>9. Tokenize(c) = P \o TokensFrom(c)[1]
    <2>1. 1 \in 1 .. Len(c) + 1
      BY <1>3
    <2>2. TokensFrom(c)[1] \in Seq(Marks(c))
      BY <1>3, <2>1, TokensFromIs
    <2>3. PICK Q \in Seq(Marks(c)) : Q = TokensFrom(c)[1]
      BY <2>2
    <2>4. <<>> \o Q = Q
      BY ConcatEmptySeq, Zenon
    <2> QED
      BY <1>4, <2>3, <2>4 DEF Tokenize
  <1>10. Begun(c, 1)' /\ pos' \in 0 .. Len(c)
    BY <1>1, <1>3 DEF Begun
  <1>11. Agrees(c, P, 1)'
    BY <1>7, <1>8, <1>9, <1>10 DEF Agrees
  <1>12. \E Q, i : Agrees(c, Q, i)'
    BY <1>11
  <1>13. c = Legible(text') /\ mode' # "done" /\ mode' # "failed"
    BY <1>1, <1>2
  <1> QED
    BY <1>12, <1>13, Zenon DEF FollowInv

\* What no parser changes.
LEMMA FollowIdle ==
    ASSUME FollowInv, UNCHANGED parseVars
    PROVE  FollowInv'
  <1>1. UNCHANGED <<text, pos, mode, num, digits, build_str, stk, base, nodes, msg>>
    BY DEF parseVars, numVars, treeVars, endVars
  <1>2. ASSUME NEW c, NEW P, NEW i, Agrees(c, P, i)
        PROVE  Agrees(c, P, i)'
    BY <1>1, <1>2 DEF Agrees, Begun, InAtom, InZero, InHex, InDec, InStr, InChr, InChrEnd
  <1> QED
    BY <1>1, <1>2, Zenon DEF FollowInv

\* The parser accepts the texts of the language and no others, unless memory
\* runs out, and its tree holds the tokens of the text, for every text without
\* escapes and every limit.
THEOREM TreeFollowsTextThm == Spec => []TreeFollowsText
  <1>1. Init => FollowInv
    BY DEF Init, ParseInit, FollowInv, Reading
  <1>2. SymInv /\ FollowInv /\ [Next]_vars => FollowInv'
    <2> SUFFICES ASSUME SymInv, FollowInv, [Next]_vars
                 PROVE  FollowInv'
      OBVIOUS
    <2>1. CASE UNCHANGED parseVars
      BY <2>1, FollowIdle
    <2>2. ASSUME NEW t, t \in Seq(0 .. 255), ParseBegin(t)
          PROVE  FollowInv'
      BY <2>2, BeginFollows
    <2>3. CASE Parsing
      BY <2>3, StepReads, ParserFollows DEF Parsing, SymInv, ParserInv
    <2>4. CASE Starts
      BY <2>1, <2>2, <2>4, TextAssumption DEF Starts, CheckAlloc, MakeInit, NoSym
    <2>5. CASE Builds
      BY <2>1, <2>5 DEF Builds, BuildExpr, BuildAtom, BuildType, ConversionFails
    <2>6. CASE ParseFailed \/ CheckParsed \/ CheckWild \/ CheckEqual \/ CheckUnequal
               \/ ReportUnequal
      BY <2>1, <2>6 DEF ParseFailed, CheckParsed, CheckWild, CheckEqual, CheckUnequal,
                        ReportUnequal
    <2>7. CASE MakeParsed \/ WalkNext \/ WalkInto \/ MakeDestroy \/ FromSymFails
      BY <2>1, <2>7 DEF MakeParsed, WalkNext, WalkInto, MakeDestroy, FromSymFails
    <2>8. CASE UNCHANGED vars
      BY <2>1, <2>8 DEF vars
    <2>9. CASE (\E t \in CheckTexts : CheckInit(t)) \/ SecondRefused
      BY <2>1, <2>2, <2>9, TextAssumption DEF CheckInit, SecondRefused
    <2> QED
      BY <2>3, <2>4, <2>5, <2>6, <2>7, <2>8, <2>9, Zenon DEF Next
  <1>3. FollowInv => TreeFollowsText
    BY Zenon DEF FollowInv, TreeFollowsText, Plain
  <1> QED
    BY <1>1, <1>2, <1>3, SymInvariance, PTL DEF Spec
=============================================================================
