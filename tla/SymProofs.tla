----------------------------- MODULE SymProofs -----------------------------
(***************************************************************************)
(* Proofs about Sym, for every set of texts and tokens and every limit:    *)
(* the parser and the builders keep their storage well formed, the parser  *)
(* stays inside its text, no tree is leaked, the builders add to one       *)
(* ordered tree, the walkers visit the children of an expression, and a    *)
(* \u escape is written as the UTF-8 form of its number.                   *)
(***************************************************************************)
EXTENDS Sym, TLAPS, SequenceTheorems, WellFoundedInduction

-----------------------------------------------------------------------------
(* What the variables hold. *)

Tokens == [type : SymTypes, str : Seq(Int), num : Int]
Nodes == [tok : Tokens, first : Int, next : Int]
Places == [parent : Int, prev : Int]
StrValue == [short : BOOLEAN, size : Nat, alloc : Nat, block : Nat, data : Seq(Int)]
StrOk(s) == s \in StrValue /\ Len(s.data) = s.size + 1

\* A tree in its storage, and places in it.
TreeOk(t, alloc) ==
    /\ t \in Seq(Nodes) /\ alloc \in Nat /\ Len(t) <= alloc
    /\ Linked(t)
PlaceOk(t, b) == b \in Places /\ Within(t, b)

\* How many digits have been seen, or are to come, depends on the loop.
DigitsOk ==
    /\ digits \in 0 .. HexLimit + DecLimit + 4
    /\ mode = "zero" => digits = 0
    /\ mode = "hex" => digits <= HexLimit
    /\ mode = "dec" => digits <= DecLimit
    /\ mode = "escHex" => digits \in 1 .. 4

ReaderInv ==
    /\ text \in Seq(0 .. 255) /\ pos \in 0 .. Len(text) + 1
    /\ mode \in Reading \cup {"idle", "done", "failed"}
    /\ mode \in Reading => pos <= Len(text)
    /\ num \in Nat /\ DigitsOk /\ within \in {"str", "chr"}
    /\ StrOk(build_str)

ParserTreeInv ==
    /\ TreeOk(nodes, nodesAlloc)
    /\ stk \in Seq(Places) /\ stkAlloc \in Nat /\ Len(stk) <= stkAlloc
    /\ \A k \in 1 .. Len(stk) : Within(nodes, stk[k])
    /\ PlaceOk(nodes, base)

UserTreeInv ==
    /\ TreeOk(actual, actualAlloc)
    /\ handles \in Seq(Places)
    /\ \A h \in 1 .. Len(handles) : Within(actual, handles[h])

\* The storage a walker walks in is finished: until it is, the walker has not
\* left its first place.
WalkerInv ==
    /\ PlaceOk(nodes, walk)
    /\ phase \in {"half", "check", "make"} \/ (phase = "idle" /\ result = "NONE")
       => walk = TopPlace

\* What is owned depends on the phase alone, until the macro has returned.
OwnerInv ==
    /\ phase \in Phases
    /\ phase = "half" => owned = {"actual"}
    /\ phase \in {"check", "build", "unequal", "crashed"} => owned = {"actual", "expected"}
    /\ phase \in {"make", "walk"} => owned = {"made"}
    /\ phase = "idle" => /\ owned \subseteq Syms
                         /\ result = "NONE" => owned = {}
                         /\ Returned
    /\ phase \in {"build", "walk", "unequal", "crashed"} => mode = "done"
    /\ phase \in {"half", "check", "make", "build", "walk", "crashed"} => result = "NONE"
    /\ phase = "unequal" => result = "FAIL"

    /\ reason \in {"NONE", "SYM_SYNTAX", "SYM_INEQUALITY"}
    /\ result \in {"NONE", "PASS", "FAIL", "ERROR", "PASS_NOMEM"}

SymInv == ReaderInv /\ ParserTreeInv /\ UserTreeInv /\ WalkerInv /\ OwnerInv

-----------------------------------------------------------------------------
(* Characters, numbers and strings. *)

\* Unless the end is read there is a character at pos.
LEMMA ChRange ==
    ASSUME text \in Seq(0 .. 255), pos \in Nat
    PROVE  Ch \in Int /\ (Ch # Eof => pos < Len(text))
  <1>1. CASE pos >= Len(text)
    BY <1>1 DEF Ch, Eof
  <1>2. CASE pos < Len(text)
    <2>1. pos + 1 \in 1 .. Len(text)
      BY <1>2
    <2> DEFINE Bytes == 0 .. 255
    <2>2. \A i \in 1 .. Len(text) : text[i] \in Bytes
      <3>1. text \in Seq(Bytes)
        OBVIOUS
      <3> HIDE DEF Bytes
      <3> QED
        BY <3>1
    <2>3. \A b \in 0 .. 255 : Signed(b) \in Int
      BY DEF Signed
    <2>4. Signed(text[pos + 1]) \in Int
      BY <2>1, <2>2, <2>3, Zenon
    <2> QED
      BY <1>2, <2>4 DEF Ch
  <1> QED
    BY <1>1, <1>2, LenProperties

LEMMA HexDigRange ==
    ASSUME NEW c \in Int
    PROVE  HexDig(c) \in Int /\ (HexDig(c) # NotHex => HexDig(c) \in Nat)
  BY DEF HexDig, NotHex, IsDigit

LEMMA GrowOneHolds ==
    ASSUME NEW n \in Nat, NEW a \in Nat, n <= a
    PROVE  GrowOne(n, a) \in Nat /\ n + 1 <= GrowOne(n, a)
  BY DEF GrowOne

LEMMA EmptyStrOk == StrOk(EmptyStr)
  <1>1. <<Nul>> \in Seq(Int) /\ Len(<<Nul>>) = 1
    BY DEF Nul
  <1> QED
    BY <1>1 DEF StrOk, StrValue, EmptyStr, NoBlock

LEMMA ClearedOk ==
    ASSUME NEW s, StrOk(s)
    PROVE  StrOk(Cleared(s))
  <1> DEFINE end == <<Nul>>
             c == Cleared(s)
  <1>1. end \in Seq(Int) /\ Len(end) = 1
    BY DEF Nul
  <1>2. c = [s EXCEPT !.size = 0, !.data = end]
    BY DEF Cleared
  <1> HIDE DEF end, c
  <1>3. c \in StrValue /\ c.size = 0 /\ c.data = end
    BY <1>1, <1>2 DEF StrOk, StrValue
  <1>4. StrOk(c)
    BY <1>1, <1>3 DEF StrOk
  <1> QED
    BY <1>4 DEF c

LEMMA BodyIsSeq ==
    ASSUME NEW s, StrOk(s)
    PROVE  Body(s) \in Seq(Int) /\ Len(Body(s)) = s.size
  <1>1. s.size \in Nat /\ s.data \in Seq(Int) /\ Len(s.data) = s.size + 1
    BY DEF StrOk, StrValue
  <1>2. \A i \in 1 .. s.size : s.data[i] \in Int
    BY <1>1
  <1> QED
    BY <1>1, <1>2, SubSeqProperties DEF Body

\* Rounding only ever takes back what it has added.
LEMMA NewAllocIsNat ==
    ASSUME NEW n \in Nat
    PROVE  NewAlloc(n) \in Nat
  <1> DEFINE m == n + n \div 2
             odd == ((m + 1 + Chunk) \div Chunk) % 2 = 1
  <1>1. m \in Nat
    OBVIOUS
  <1>2. NewAlloc(n) = IF odd THEN (m + 1 + Chunk) - Chunk ELSE m + 1 + Chunk
    BY DEF NewAlloc, RoundAlloc
  <1> HIDE DEF m, odd
  <1> QED
    BY <1>1, <1>2, StrAssumption

\* Whatever is appended, the string keeps one cell more than characters.
LEMMA CatNOk ==
    ASSUME NEW s, StrOk(s), NEW t \in Seq(Int)
    PROVE  StrOk(CatN(s, t))
  <1> DEFINE n == s.size + Len(t)
             junk == [i \in 1 .. n - s.size |-> Junk]
             cells == Body(s) \o junk \o <<Nul>>
             g == Grow(s, n)
             filled == [i \in DOMAIN g.data |->
                           IF i \in s.size + 1 .. s.size + Len(t) THEN t[i - s.size]
                           ELSE g.data[i]]
  <1>1. s.size \in Nat /\ Len(t) \in Nat /\ n \in Nat /\ n - s.size = Len(t)
    BY DEF StrOk, StrValue
  <1>2. cells \in Seq(Int) /\ Len(cells) = n + 1
    <2>1. junk \in Seq(Int) /\ Len(junk) = Len(t)
      BY <1>1 DEF Junk
    <2>2. <<Nul>> \in Seq(Int) /\ Len(<<Nul>>) = 1
      BY DEF Nul
    <2>3. Body(s) \in Seq(Int) /\ Len(Body(s)) = s.size
      BY BodyIsSeq
    <2> DEFINE body == Body(s)
               end == <<Nul>>
    <2> HIDE DEF junk, body, end
    <2>4. body \o junk \in Seq(Int) /\ Len(body \o junk) = s.size + Len(t)
      BY <1>1, <2>1, <2>3, ConcatProperties DEF body
    <2>5. /\ (body \o junk) \o end \in Seq(Int)
          /\ Len((body \o junk) \o end) = s.size + Len(t) + 1
      BY <1>1, <2>2, <2>4, ConcatProperties DEF end
    <2> QED
      BY <2>5 DEF body, end
  <1>3. g = IF NeedsBlock(s, n)
            THEN [s EXCEPT !.short = FALSE, !.size = n, !.alloc = NewAlloc(n),
                           !.data = cells]
            ELSE [s EXCEPT !.size = n, !.data = cells]
    BY DEF Grow
  <1> HIDE DEF cells, junk
  <1>4. g \in StrValue /\ g.size = n /\ g.data = cells
    BY <1>1, <1>2, <1>3, NewAllocIsNat DEF StrOk, StrValue
  <1> HIDE DEF g
  <1>5. filled \in Seq(Int) /\ Len(filled) = n + 1
    <2>1. DOMAIN g.data = 1 .. n + 1
      BY <1>2, <1>4, LenProperties
    <2>2. ASSUME NEW i \in 1 .. n + 1
          PROVE  (IF i \in s.size + 1 .. s.size + Len(t) THEN t[i - s.size]
                  ELSE g.data[i]) \in Int
      <3>1. CASE i \in s.size + 1 .. s.size + Len(t)
        <4>1. i - s.size \in 1 .. Len(t)
          BY <1>1, <3>1
        <4>2. t[i - s.size] \in Int
          BY <4>1
        <4> QED
          BY <3>1, <4>2
      <3>2. CASE i \notin s.size + 1 .. s.size + Len(t)
        <4>1. g.data[i] \in Int
          BY <1>1, <1>2, <1>4
        <4> QED
          BY <3>2, <4>1
      <3> QED
        BY <3>1, <3>2
    <2>3. n + 1 \in Nat /\ filled \in [1 .. n + 1 -> Int]
      BY <1>1, <2>1, <2>2
    <2> HIDE DEF filled, n
    <2>4. filled \in Seq(Int) /\ DOMAIN filled = 1 .. n + 1
      BY <2>3, SeqDef
    <2> QED
      BY <2>3, <2>4, LenProperties
  <1>6. CatN(s, t) = [g EXCEPT !.data = filled]
    BY DEF CatN, Fill, g
  <1> HIDE DEF filled, n
  <1> QED
    BY <1>4, <1>5, <1>6 DEF StrOk, StrValue

\* The bytes of a code point are integers, however many there are.
LEMMA Utf8IsSeq ==
    ASSUME NEW r \in Nat
    PROVE  Utf8(r) \in Seq(Int)
  <1> DEFINE low(n) == ((r \div n) % 64) + 128
             bytes == IF r <= 127 THEN <<r>>
                      ELSE IF r <= 2047 THEN <<r \div 64 + 192, low(1)>>
                      ELSE IF r <= 65535 THEN <<r \div 4096 + 224, low(64), low(1)>>
                      ELSE <<r \div 262144 + 240, low(4096), low(64), low(1)>>
  <1>1. /\ low(1) \in Int /\ low(64) \in Int /\ low(4096) \in Int
        /\ r \div 64 + 192 \in Int /\ r \div 4096 + 224 \in Int
        /\ r \div 262144 + 240 \in Int
    OBVIOUS
  <1>2. bytes \in Seq(Int)
    <2> HIDE DEF low
    <2> QED
      BY <1>1
  <1>3. Utf8(r) = [i \in DOMAIN bytes |-> Signed(bytes[i])]
    BY DEF Utf8
  <1> HIDE DEF bytes
  <1>4. \A i \in 1 .. Len(bytes) : Signed(bytes[i]) \in Int
    BY <1>2 DEF Signed
  <1>5. Utf8(r) \in [1 .. Len(bytes) -> Int] /\ Len(bytes) \in Nat
    BY <1>2, <1>3, <1>4, LenProperties
  <1> HIDE DEF Utf8
  <1> QED
    BY <1>5, SeqDef

-----------------------------------------------------------------------------
(* Trees. *)

LEMMA EmptyTreeOk == TreeOk(<<>>, 0)
  <1>1. Refs(<<>>) = {}
    BY EmptySeq DEF Refs
  <1>2. <<>> \in Seq(Nodes) /\ Len(<<>>) = 0
    OBVIOUS
  <1> QED
    BY <1>1, <1>2 DEF TreeOk, Linked

LEMMA TopPlaceOk ==
    ASSUME NEW t
    PROVE  PlaceOk(t, TopPlace)
  BY DEF PlaceOk, Places, Within, TopPlace, Place, NoRef

LEMMA TokensAreTokens ==
    /\ ExprToken \in Tokens
    /\ \A n \in Int : NumToken(n) \in Tokens
    /\ \A s \in Seq(Int) : StrToken(s) \in Tokens
    /\ UserTokens \subseteq Tokens
  <1>1. <<>> \in Seq(Int)
    OBVIOUS
  <1>2. ExprToken \in Tokens
    BY <1>1 DEF ExprToken, Token, Tokens, SymTypes
  <1>3. \A n \in Int : NumToken(n) \in Tokens
    BY <1>1 DEF NumToken, Token, Tokens, SymTypes
  <1>4. \A s \in Seq(Int) : StrToken(s) \in Tokens
    BY DEF StrToken, Token, Tokens, SymTypes
  <1>5. UserTokens \subseteq Tokens
    BY TokenAssumption DEF Tokens, SymTypes
  <1> QED
    BY <1>2, <1>3, <1>4, <1>5

LEMMA RelinkedNode ==
    ASSUME NEW rec \in Nodes, NEW n \in Int
    PROVE  /\ LET new == [rec EXCEPT !.first = n]
              IN new \in Nodes /\ new.first = n /\ new.tok = rec.tok /\ new.next = rec.next
           /\ LET new == [rec EXCEPT !.next = n]
              IN new \in Nodes /\ new.next = n /\ new.tok = rec.tok /\ new.first = rec.first
  <1>1. [rec EXCEPT !.first = n] = [tok |-> rec.tok, first |-> n, next |-> rec.next]
    BY DEF Nodes
  <1>2. [rec EXCEPT !.next = n] = [tok |-> rec.tok, first |-> rec.first, next |-> n]
    BY DEF Nodes
  <1> QED
    BY <1>1, <1>2 DEF Nodes

\* A tree after mptest__sym_new, record by record: the new one at the end, and
\* one link that leads to it.
LEMMA SymNewIs ==
    ASSUME NEW t \in Seq(Nodes), NEW b \in Places, Within(t, b), NEW tok \in Tokens
    PROVE  LET u == SymNew(t, b, tok)
           IN /\ u \in Seq(Nodes) /\ Len(u) = Len(t) + 1
              /\ At(u, Len(t)) = Record(tok)
              /\ \A r \in Refs(t) :
                    /\ At(u, r).tok = At(t, r).tok
                    /\ At(u, r).first = IF r = b.parent /\ b.prev = NoRef THEN Len(t)
                                        ELSE At(t, r).first
                    /\ At(u, r).next = IF b.parent # NoRef /\ r = b.prev THEN Len(t)
                                       ELSE At(t, r).next
  <1> DEFINE rec == Record(tok)
             g == Append(t, rec)
             n == Len(t)
             u == SymNew(t, b, tok)
  <1>1. rec \in Nodes
    BY DEF Record, Nodes, NoRef
  <1>2. n \in Nat /\ b.parent \in Int /\ b.prev \in Int
    BY DEF Places
  <1>3. /\ g \in Seq(Nodes) /\ Len(g) = n + 1 /\ g[n + 1] = rec
        /\ \A i \in 1 .. n : g[i] = t[i]
    BY <1>1, AppendProperties
  <1>4. \A i \in 1 .. n : t[i] \in Nodes
    OBVIOUS
  <1>5. u = IF b.parent = NoRef THEN g
            ELSE IF b.prev = NoRef THEN [g EXCEPT ![b.parent + 1].first = n]
            ELSE [g EXCEPT ![b.prev + 1].next = n]
    BY DEF SymNew
  <1>6. \A r \in Refs(t) : r \in Int /\ r # NoRef /\ r # n /\ r + 1 \in 1 .. n
    BY <1>2 DEF Refs, NoRef
  <1> HIDE DEF rec, g, u, n
  <1> SUFFICES /\ u \in Seq(Nodes) /\ Len(u) = n + 1
               /\ u[n + 1] = rec
               /\ \A i \in 1 .. n :
                     /\ u[i].tok = t[i].tok
                     /\ u[i].first = IF i = b.parent + 1 /\ b.prev = NoRef THEN n
                                     ELSE t[i].first
                     /\ u[i].next = IF b.parent # NoRef /\ i = b.prev + 1 THEN n
                                    ELSE t[i].next
    <2>1. \A r \in Refs(t) : At(u, r) = u[r + 1] /\ At(t, r) = t[r + 1]
      BY DEF At
    <2>2. At(u, n) = u[n + 1]
      BY DEF At
    <2>3. ASSUME NEW r \in Refs(t)
          PROVE  /\ At(u, r).tok = At(t, r).tok
                 /\ At(u, r).first = IF r = b.parent /\ b.prev = NoRef THEN n
                                     ELSE At(t, r).first
                 /\ At(u, r).next = IF b.parent # NoRef /\ r = b.prev THEN n
                                    ELSE At(t, r).next
      <3>1. PICK i : i = r + 1
        OBVIOUS
      <3>2. /\ i \in 1 .. n /\ At(u, r) = u[i] /\ At(t, r) = t[i]
            /\ r = b.parent <=> i = b.parent + 1
            /\ r = b.prev <=> i = b.prev + 1
        BY <1>2, <1>6, <2>1, <3>1
      <3> QED
        BY <3>2
    <2> QED
      BY <2>2, <2>3, Zenon DEF u, n, rec
  <1>7. CASE b.parent = NoRef
    BY <1>2, <1>3, <1>5, <1>7 DEF NoRef
  <1>8. CASE b.parent # NoRef /\ b.prev = NoRef
    <2> DEFINE p == b.parent + 1
    <2>1. p \in 1 .. n
      BY <1>6, <1>8 DEF Within
    <2>2. p \in 1 .. n + 1 /\ g[p] \in Nodes
      BY <1>2, <1>3, <2>1
    <2> DEFINE new == [g[p] EXCEPT !.first = n]
    <2>3. /\ new \in Nodes /\ new.first = n
          /\ new.tok = g[p].tok /\ new.next = g[p].next
      <3>1. n \in Int
        BY <1>2
      <3> QED
        BY <2>2, <3>1, RelinkedNode
    <2>4. u = [g EXCEPT ![p] = new]
      BY <1>5, <1>8
    <2> HIDE DEF p, new
    <2>5. /\ u \in Seq(Nodes) /\ Len(u) = n + 1
          /\ \A i \in 1 .. n + 1 : u[i] = IF i = p THEN new ELSE g[i]
      BY <1>3, <2>2, <2>3, <2>4, ExceptSeq
    <2>6. p # n + 1 /\ \A i \in 1 .. n : i \in 1 .. n + 1
      BY <1>2, <2>1
    <2>7. u[n + 1] = rec
      BY <1>2, <1>3, <2>5, <2>6
    <2>8. \A i \in 1 .. n : i # b.prev + 1
      BY <1>8, <1>2 DEF NoRef
    <2> QED
      BY <1>3, <1>8, <2>3, <2>5, <2>6, <2>7, <2>8, Zenon DEF p
  <1>9. CASE b.parent # NoRef /\ b.prev # NoRef
    <2> DEFINE p == b.prev + 1
    <2>1. p \in 1 .. n
      BY <1>6, <1>9 DEF Within
    <2>2. p \in 1 .. n + 1 /\ g[p] \in Nodes
      BY <1>2, <1>3, <2>1
    <2> DEFINE new == [g[p] EXCEPT !.next = n]
    <2>3. /\ new \in Nodes /\ new.next = n
          /\ new.tok = g[p].tok /\ new.first = g[p].first
      <3>1. n \in Int
        BY <1>2
      <3> QED
        BY <2>2, <3>1, RelinkedNode
    <2>4. u = [g EXCEPT ![p] = new]
      BY <1>5, <1>9
    <2> HIDE DEF p, new
    <2>5. /\ u \in Seq(Nodes) /\ Len(u) = n + 1
          /\ \A i \in 1 .. n + 1 : u[i] = IF i = p THEN new ELSE g[i]
      BY <1>3, <2>2, <2>3, <2>4, ExceptSeq
    <2>6. p # n + 1 /\ \A i \in 1 .. n : i \in 1 .. n + 1
      BY <1>2, <2>1
    <2>7. u[n + 1] = rec
      BY <1>2, <1>3, <2>5, <2>6
    <2> QED
      BY <1>3, <1>9, <2>3, <2>5, <2>6, <2>7, Zenon DEF p
  <1> QED
    BY <1>7, <1>8, <1>9

\* The new record is the last, so the links to it lead forward, and it is not
\* reached by any other.
LEMMA SymNewOk ==
    ASSUME NEW t, NEW alloc, TreeOk(t, alloc), NEW b, PlaceOk(t, b), NEW tok \in Tokens
    PROVE  LET u == SymNew(t, b, tok)
           IN /\ TreeOk(u, GrowOne(Len(t), alloc)) /\ Len(u) = Len(t) + 1
              /\ \A c : Within(t, c) => Within(u, c)
              /\ PlaceOk(u, Advanced(t, b)) /\ PlaceOk(u, Inside(t))
  <1> DEFINE n == Len(t)
             u == SymNew(t, b, tok)
  <1>1. t \in Seq(Nodes) /\ b \in Places /\ Within(t, b) /\ Linked(t)
        /\ alloc \in Nat /\ n <= alloc /\ n \in Nat
    BY DEF TreeOk, PlaceOk
  <1>2. /\ u \in Seq(Nodes) /\ Len(u) = n + 1
        /\ At(u, n) = Record(tok)
        /\ \A r \in Refs(t) :
              /\ At(u, r).first = IF r = b.parent /\ b.prev = NoRef THEN n
                                  ELSE At(t, r).first
              /\ At(u, r).next = IF b.parent # NoRef /\ r = b.prev THEN n
                                 ELSE At(t, r).next
    BY <1>1, SymNewIs
  <1>3. At(u, n).first = NoRef /\ At(u, n).next = NoRef
    BY <1>2 DEF Record
  <1>4. \A r \in Refs(t) : /\ At(t, r).first \in {NoRef} \cup r + 1 .. n - 1
                           /\ At(t, r).next \in {NoRef} \cup r + 1 .. n - 1
    BY <1>1 DEF Linked
  <1> HIDE DEF u
  <1>5. /\ Refs(u) = 0 .. n /\ Refs(t) = 0 .. n - 1
        /\ \A r \in Refs(u) : r = n \/ r \in Refs(t)
    BY <1>1, <1>2 DEF Refs
  <1> HIDE DEF n
  <1>6. \A r \in Refs(u) : /\ At(u, r).first \in {NoRef} \cup r + 1 .. n
                           /\ At(u, r).next \in {NoRef} \cup r + 1 .. n
    BY <1>1, <1>2, <1>3, <1>4, <1>5
  <1>7. \A r \in Refs(t) : /\ At(t, r).first # n /\ At(t, r).next # n
    BY <1>1, <1>4, <1>5 DEF NoRef
  <1>8. n # NoRef /\ n \notin Refs(t)
    BY <1>1, <1>5 DEF NoRef
  <1>9. ASSUME NEW r \in Refs(u), NEW q \in Refs(u)
        PROVE  /\ At(u, r).first # NoRef => At(u, r).first # At(u, q).next
               /\ r # q => /\ At(u, r).first # NoRef => At(u, r).first # At(u, q).first
                           /\ At(u, r).next # NoRef => At(u, r).next # At(u, q).next
    <2>1. ASSUME r \in Refs(t), q \in Refs(t)
          PROVE  /\ At(t, r).first # NoRef => At(t, r).first # At(t, q).next
                 /\ r # q => /\ At(t, r).first # NoRef => At(t, r).first # At(t, q).first
                             /\ At(t, r).next # NoRef => At(t, r).next # At(t, q).next
      BY <1>1, <2>1 DEF Linked
    <2>4. NoRef \notin Refs(t)
      BY <1>5 DEF NoRef
    <2>5. n \notin {NoRef}
      BY <1>8
    <2>2. CASE r \in Refs(t) /\ q \in Refs(t)
      <3>1. /\ At(u, r).first = n => r = b.parent /\ b.prev = NoRef
            /\ At(u, r).next = n => r = b.prev /\ b.prev # NoRef
            /\ At(u, q).first = n => q = b.parent /\ b.prev = NoRef
            /\ At(u, q).next = n => q = b.prev /\ b.prev # NoRef
        BY <1>2, <1>7, <1>8, <2>2, <2>4
      <3>2. /\ At(u, r).first \in {n, At(t, r).first} /\ At(u, r).next \in {n, At(t, r).next}
            /\ At(u, q).first \in {n, At(t, q).first} /\ At(u, q).next \in {n, At(t, q).next}
        BY <1>2, <2>2
      <3> QED
        BY <2>1, <2>2, <3>1, <3>2
    <2>3. CASE r = n \/ q = n
      BY <1>3, <1>5, <1>6, <2>3, <2>5
    <2> QED
      BY <1>5, <2>2, <2>3
  <1>10. Linked(u)
    <2>1. Len(u) - 1 = n
      BY <1>1, <1>2
    <2> QED
      BY <1>6, <1>9, <2>1, Zenon DEF Linked
  <1>11. TreeOk(u, GrowOne(n, alloc))
    BY <1>1, <1>2, <1>10, GrowOneHolds DEF TreeOk
  <1>12. \A c : Within(t, c) => Within(u, c)
    BY <1>1, <1>5 DEF Within
  <1>13. Advanced(t, b) = [parent |-> b.parent, prev |-> n] /\ Inside(t) = [parent |-> n, prev |-> NoRef]
    BY DEF Advanced, Inside, Place, n
  <1>14. PlaceOk(u, Advanced(t, b)) /\ PlaceOk(u, Inside(t))
    BY <1>1, <1>5, <1>13 DEF PlaceOk, Places, Within, NoRef
  <1> QED
    BY <1>2, <1>11, <1>12, <1>14 DEF u, n

-----------------------------------------------------------------------------
(* What the steps of the parser have in common. *)

ParserInv == ReaderInv /\ ParserTreeInv

\* A step that reads, and one that gives up, leave the trees alone.
LEMMA ReadKeeps ==
    ASSUME ParserInv, UNCHANGED <<text, treeVars>>,
           mode' \in Reading \cup {"done", "failed"},
           pos' \in 0 .. Len(text) + 1, mode' \in Reading => pos' <= Len(text),
           num' \in Nat, DigitsOk', within' \in {"str", "chr"}, StrOk(build_str')
    PROVE  ParserInv'
  <1>1. ReaderInv'
    BY DEF ParserInv, ReaderInv
  <1>2. ParserTreeInv'
    BY DEF ParserInv, ParserTreeInv, treeVars
  <1> QED
    BY <1>1, <1>2 DEF ParserInv

LEMMA FailKeeps ==
    ASSUME ParserInv, NEW e, NEW m, NEW p \in 0 .. Len(text) + 1, Stop(e, m, p)
    PROVE  ParserInv'
  <1>1. mode' = "failed" /\ pos' = p /\ UNCHANGED <<text, numVars, build_str, treeVars>>
    BY DEF Fail, Stop
  <1>2. /\ num' = num /\ digits' = digits /\ within' = within /\ build_str' = build_str
        /\ UNCHANGED <<text, treeVars>>
    BY <1>1 DEF numVars
  <1>3. num' \in Nat /\ within' \in {"str", "chr"} /\ StrOk(build_str')
    BY <1>2 DEF ParserInv, ReaderInv
  <1>4. DigitsOk'
    BY <1>1, <1>2 DEF ParserInv, ReaderInv, DigitsOk
  <1>5. mode' \notin Reading
    BY <1>1 DEF Reading
  <1> QED
    BY <1>1, <1>2, <1>3, <1>4, <1>5, ReadKeeps

\* From a loop that reads, one more character may be read.
LEMMA SyntaxKeeps ==
    ASSUME ParserInv, mode \in Reading, NEW e, NEW m, Fail(e, m, pos + 1)
    PROVE  ParserInv'
  <1>1. pos + 1 \in 0 .. Len(text) + 1
    BY DEF ParserInv, ReaderInv
  <1>2. PICK p \in 0 .. Len(text) + 1 : p = pos + 1
    BY <1>1
  <1>3. Stop(e, m, p)
    BY <1>2 DEF Fail, Stop
  <1> QED
    BY <1>3, FailKeeps

\* Reading on is right while the end has not been read.
LEMMA ReadOnKeeps ==
    ASSUME ParserInv, mode \in Reading, Ch # Eof, NEW m \in Reading, Read(m),
           num' \in Nat, DigitsOk', within' \in {"str", "chr"}, StrOk(build_str')
    PROVE  ParserInv'
  <1>1. text \in Seq(0 .. 255) /\ pos \in Nat /\ Len(text) \in Nat
    BY LenProperties DEF ParserInv, ReaderInv
  <1>2. pos < Len(text)
    BY <1>1, ChRange
  <1>3. mode' = m /\ pos' = pos + 1 /\ UNCHANGED <<text, treeVars>>
    BY DEF Read
  <1>4. pos' \in 0 .. Len(text) + 1 /\ pos' <= Len(text)
    BY <1>1, <1>2, <1>3
  <1> QED
    BY <1>3, <1>4, ReadKeeps

\* The numbers stay, and with them the digits if the next loop counts none.
LEMMA NumVarsStay ==
    ASSUME ParserInv, UNCHANGED numVars, mode' \notin {"zero", "hex", "dec", "escHex"}
    PROVE  num' \in Nat /\ DigitsOk' /\ within' \in {"str", "chr"}
  <1>1. num' = num /\ digits' = digits /\ within' = within
    BY DEF numVars
  <1>2. num' \in Nat /\ within' \in {"str", "chr"}
    BY <1>1 DEF ParserInv, ReaderInv
  <1>3. DigitsOk'
    BY <1>1 DEF ParserInv, ReaderInv, DigitsOk
  <1> QED
    BY <1>2, <1>3

LEMMA GatherKeeps ==
    ASSUME ParserInv, mode \in Reading, Ch # Eof, NEW s, StrOk(s), NEW cs \in Seq(Int),
           NEW m \in {"atom", "str"}, Gather(s, cs, m)
    PROVE  ParserInv'
  <1>1. CASE Read(m) /\ build_str' = CatN(s, cs) /\ UNCHANGED numVars
    <2>1. StrOk(build_str')
      BY <1>1, CatNOk
    <2>2. m \in Reading /\ mode' \notin {"zero", "hex", "dec", "escHex"}
      BY <1>1 DEF Reading, Read
    <2>3. num' \in Nat /\ DigitsOk' /\ within' \in {"str", "chr"}
      BY <1>1, <2>2, NumVarsStay
    <2> QED
      BY <1>1, <2>1, <2>2, <2>3, ReadOnKeeps
  <1>2. CASE Fail(ParseError, Quiet, pos + 1)
    BY <1>2, SyntaxKeeps
  <1> QED
    BY <1>1, <1>2 DEF Gather

LEMMA FrontIs ==
    ASSUME NEW S, NEW s \in Seq(S), s # <<>>
    PROVE  /\ Front(s) \in Seq(S) /\ Len(Front(s)) = Len(s) - 1
           /\ \A k \in 1 .. Len(s) - 1 : Front(s)[k] = s[k]
  <1>1. PICK n : n = Len(s) - 1
    OBVIOUS
  <1>2. n \in Nat /\ n \in Int /\ 1 \in Int /\ Len(s) \in Nat
    BY <1>1, EmptySeq, LenProperties
  <1>3. \A i \in 1 .. n : s[i] \in S
    BY <1>1, <1>2
  <1>4. /\ SubSeq(s, 1, n) \in Seq(S)
        /\ Len(SubSeq(s, 1, n)) = IF 1 <= n THEN n - 1 + 1 ELSE 0
        /\ \A i \in 1 .. n - 1 + 1 : SubSeq(s, 1, n)[i] = s[1 + i - 1]
    BY <1>2, <1>3, SubSeqProperties
  <1>5. Len(SubSeq(s, 1, n)) = n /\ \A i \in 1 .. n : SubSeq(s, 1, n)[i] = s[i]
    BY <1>2, <1>4
  <1> QED
    BY <1>1, <1>4, <1>5 DEF Front

\* The top of the stack, and the stack with its top moved on.
LEMMA BuilderOk ==
    ASSUME ParserTreeInv
    PROVE  /\ PlaceOk(nodes, Builder)
           /\ stk # <<>> => /\ Len(stk) \in Nat \ {0}
                            /\ Front(stk) \in Seq(Places) /\ Len(Front(stk)) = Len(stk) - 1
                            /\ \A k \in 1 .. Len(stk) - 1 : Front(stk)[k] = stk[k]
  <1>1. stk \in Seq(Places) /\ Len(stk) \in Nat
        /\ \A k \in 1 .. Len(stk) : stk[k] \in Places /\ Within(nodes, stk[k])
    BY LenProperties DEF ParserTreeInv
  <1>2. stk # <<>> => Len(stk) \in Nat \ {0}
    BY <1>1, EmptySeq
  <1>3. PlaceOk(nodes, Builder)
    BY <1>1, <1>2 DEF Builder, PlaceOk, Last, ParserTreeInv
  <1>4. ASSUME stk # <<>>
        PROVE  /\ Front(stk) \in Seq(Places) /\ Len(Front(stk)) = Len(stk) - 1
               /\ \A k \in 1 .. Len(stk) - 1 : Front(stk)[k] = stk[k]
    BY <1>1, <1>4, FrontIs
  <1> QED
    BY <1>2, <1>3, <1>4

\* A record is added to the tree, and its builder moves on: all places are in
\* the tree, then, and there is room for one more on the stack.
LEMMA AddNodeKeeps ==
    ASSUME ParserTreeInv, NEW tok \in Tokens, AddNode(tok)
    PROVE  /\ TreeOk(nodes', nodesAlloc') /\ PlaceOk(nodes', base')
           /\ PlaceOk(nodes', Inside(nodes))
           /\ Moved \in Seq(Places) /\ Len(Moved) = Len(stk)
           /\ \A k \in 1 .. Len(stk) : Within(nodes', Moved[k])
  <1>1. /\ nodes' = SymNew(nodes, Builder, tok)
        /\ nodesAlloc' = GrowOne(Len(nodes), nodesAlloc)
        /\ base' = IF stk = <<>> THEN Advanced(nodes, base) ELSE base
    BY DEF AddNode
  <1>2. PlaceOk(nodes, Builder) /\ TreeOk(nodes, nodesAlloc) /\ PlaceOk(nodes, base)
    BY BuilderOk DEF ParserTreeInv
  <1>3. /\ TreeOk(nodes', nodesAlloc')
        /\ \A c : Within(nodes, c) => Within(nodes', c)
        /\ PlaceOk(nodes', Advanced(nodes, Builder)) /\ PlaceOk(nodes', Inside(nodes))
    BY <1>1, <1>2, SymNewOk
  <1>4. PlaceOk(nodes', base')
    <2>1. CASE stk = <<>>
      BY <1>1, <1>3, <2>1 DEF Builder
    <2>2. CASE stk # <<>>
      BY <1>1, <1>2, <1>3, <2>2 DEF PlaceOk
    <2> QED
      BY <2>1, <2>2
  <1>5. CASE stk = <<>>
    BY <1>3, <1>4, <1>5, EmptySeq DEF Moved, ParserTreeInv
  <1>6. CASE stk # <<>>
    <2> DEFINE f == Front(stk)
               adv == Advanced(nodes, Last(stk))
    <2>1. /\ f \in Seq(Places) /\ Len(f) = Len(stk) - 1 /\ Len(stk) \in Nat \ {0}
          /\ \A k \in 1 .. Len(stk) - 1 : f[k] = stk[k]
      BY <1>6, BuilderOk
    <2>2. adv \in Places /\ Within(nodes', adv)
      BY <1>3, <1>6 DEF Builder, PlaceOk
    <2>3. Moved = Append(f, adv)
      BY <1>6 DEF Moved
    <2>4. \A k \in 1 .. Len(stk) : Within(nodes', stk[k])
      BY <1>3 DEF ParserTreeInv
    <2> HIDE DEF f, adv
    <2>5. /\ Moved \in Seq(Places) /\ Len(Moved) = Len(f) + 1
          /\ \A k \in 1 .. Len(f) : Moved[k] = f[k]
          /\ Moved[Len(f) + 1] = adv
      BY <2>1, <2>2, <2>3, AppendProperties
    <2>6. Len(Moved) = Len(stk) /\ Moved[Len(stk)] = adv
      BY <2>1, <2>5
    <2>7. ASSUME NEW k \in 1 .. Len(stk)
          PROVE  Within(nodes', Moved[k])
      <3>1. k = Len(stk) \/ k \in 1 .. Len(stk) - 1
        BY <2>1
      <3>2. k \in 1 .. Len(stk) - 1 => Moved[k] = stk[k]
        BY <2>1, <2>5
      <3> QED
        BY <2>2, <2>4, <2>6, <3>1, <3>2
    <2> QED
      BY <1>3, <1>4, <2>5, <2>6, <2>7
  <1> QED
    BY <1>5, <1>6

LEMMA EmitKeeps ==
    ASSUME ParserInv, NEW tok \in Tokens, NEW p \in 0 .. Len(text), Emit(tok, p)
    PROVE  ParserInv'
  <1>1. CASE Stop(ParseError, Quiet, p)
    <2>1. p \in 0 .. Len(text) + 1
      BY LenProperties DEF ParserInv, ReaderInv
    <2> QED
      BY <1>1, <2>1, FailKeeps
  <1>2. CASE /\ AddNode(tok)
             /\ stk' = Moved
             /\ mode' = "top" /\ pos' = p
             /\ UNCHANGED <<text, numVars, build_str, stkAlloc, endVars>>
    <2>1. /\ TreeOk(nodes', nodesAlloc') /\ PlaceOk(nodes', base')
          /\ Moved \in Seq(Places) /\ Len(Moved) = Len(stk)
          /\ \A k \in 1 .. Len(stk) : Within(nodes', Moved[k])
      BY <1>2, AddNodeKeeps DEF ParserInv
    <2>2. ParserTreeInv'
      BY <1>2, <2>1 DEF ParserInv, ParserTreeInv
    <2>3. num' \in Nat /\ DigitsOk' /\ within' \in {"str", "chr"}
      BY <1>2, NumVarsStay
    <2>4. text' = text /\ build_str' = build_str /\ Len(text) \in Nat
      BY <1>2, LenProperties DEF ParserInv, ReaderInv
    <2>5. pos' \in 0 .. Len(text') + 1 /\ pos' <= Len(text')
      BY <1>2, <2>4
    <2>6. text' \in Seq(0 .. 255) /\ StrOk(build_str')
      BY <2>4 DEF ParserInv, ReaderInv
    <2>7. mode' \in Reading
      BY <1>2 DEF Reading
    <2>8. ReaderInv'
      BY <2>3, <2>5, <2>6, <2>7 DEF ReaderInv
    <2> QED
      BY <2>2, <2>8 DEF ParserInv
  <1> QED
    BY <1>1, <1>2 DEF Emit, Refused, Fail

-----------------------------------------------------------------------------
(* The loops of the parser. *)

\* What a step may use of the state it is taken in.
LEMMA ReaderFacts ==
    ASSUME ParserInv, mode \in Reading
    PROVE  /\ Ch \in Int /\ pos \in Nat /\ Len(text) \in Nat
           /\ pos \in 0 .. Len(text) /\ (Ch # Eof => pos + 1 \in 0 .. Len(text))
           /\ num \in Nat /\ digits \in Nat /\ DigitsOk /\ within \in {"str", "chr"}
           /\ StrOk(build_str) /\ StrOk(Fresh) /\ Body(build_str) \in Seq(Int)
  <1>1. text \in Seq(0 .. 255) /\ pos \in Nat /\ Len(text) \in Nat /\ pos <= Len(text)
    BY LenProperties DEF ParserInv, ReaderInv
  <1>2. Ch \in Int /\ (Ch # Eof => pos < Len(text))
    BY <1>1, ChRange
  <1>3. num \in Nat /\ DigitsOk /\ within \in {"str", "chr"} /\ StrOk(build_str)
    BY DEF ParserInv, ReaderInv
  <1>4. digits \in Nat
    BY <1>3, LimitAssumption DEF DigitsOk
  <1>5. StrOk(Fresh) /\ Body(build_str) \in Seq(Int)
    BY <1>3, ClearedOk, BodyIsSeq DEF Fresh
  <1> QED
    BY <1>1, <1>2, <1>3, <1>4, <1>5

LEMMA AtEndKeeps ==
    ASSUME ParserInv, mode = "top", AtEnd
    PROVE  ParserInv'
  <1>0. mode \in Reading
    BY DEF Reading
  <1>1. CASE Syntax("unmatched '('")
    BY <1>0, <1>1, SyntaxKeeps DEF Syntax
  <1>2. CASE Read("done") /\ build_str' = Fresh /\ UNCHANGED numVars
    <2>1. mode' = "done" /\ pos' = pos + 1 /\ UNCHANGED <<text, treeVars>>
      BY <1>2 DEF Read
    <2>2. mode' \notin Reading /\ pos' \in 0 .. Len(text) + 1
      BY <1>0, <2>1, ReaderFacts DEF Reading
    <2>3. num' \in Nat /\ DigitsOk' /\ within' \in {"str", "chr"}
      BY <1>2, <2>1, NumVarsStay
    <2>4. StrOk(build_str')
      BY <1>0, <1>2, ReaderFacts
    <2> QED
      BY <2>1, <2>2, <2>3, <2>4, ReadKeeps
  <1> QED
    BY <1>1, <1>2 DEF AtEnd

\* The step is back at the head of the loop, having read one character.
LEMMA TopAgainKeeps ==
    ASSUME ParserInv, mode = "top", Ch # Eof, ParserTreeInv',
           mode' = "top" /\ pos' = pos + 1 /\ build_str' = Fresh,
           UNCHANGED <<text, numVars>>
    PROVE  ParserInv'
  <1>0. mode \in Reading /\ mode' \in Reading
    BY DEF Reading
  <1>1. num' \in Nat /\ DigitsOk' /\ within' \in {"str", "chr"}
    BY NumVarsStay
  <1>2. StrOk(build_str')
    BY <1>0, ReaderFacts
  <1>3. pos' \in 0 .. Len(text') + 1 /\ pos' <= Len(text')
    BY <1>0, ReaderFacts
  <1>4. text' \in Seq(0 .. 255)
    BY DEF ParserInv, ReaderInv
  <1>5. ReaderInv'
    BY <1>0, <1>1, <1>2, <1>3, <1>4 DEF ReaderInv
  <1> QED
    BY <1>5 DEF ParserInv

LEMMA ExprBeginKeeps ==
    ASSUME ParserInv, mode = "top", ExprBegin
    PROVE  ParserInv'
  <1>9. Ch = Letter.lparen
    BY DEF ExprBegin
  <1>0. mode \in Reading /\ Ch # Eof
    BY <1>9 DEF Reading, Letter, Eof
  <1>1. CASE Fail(ParseError, Quiet, pos + 1)
    BY <1>0, <1>1, SyntaxKeeps
  <1>2. CASE /\ AddNode(ExprToken)
             /\ stk' = Append(Moved, Inside(nodes))
             /\ stkAlloc' = GrowOne(Len(stk), stkAlloc)
             /\ mode' = "top" /\ pos' = pos + 1 /\ build_str' = Fresh
             /\ UNCHANGED <<text, numVars, endVars>>
    <2> DEFINE inner == Inside(nodes)
               moved == Moved
    <2>1. ParserTreeInv /\ AddNode(ExprToken) /\ ExprToken \in Tokens
      BY <1>2, TokensAreTokens DEF ParserInv
    <2>2. /\ TreeOk(nodes', nodesAlloc') /\ PlaceOk(nodes', base') /\ PlaceOk(nodes', inner)
          /\ moved \in Seq(Places) /\ Len(moved) = Len(stk)
          /\ \A k \in 1 .. Len(stk) : Within(nodes', moved[k])
      BY <2>1, AddNodeKeeps
    <2>3. stk' = Append(moved, inner) /\ inner \in Places /\ Within(nodes', inner)
      BY <1>2, <2>2 DEF PlaceOk
    <2>4. Len(stk) \in Nat /\ stkAlloc \in Nat /\ Len(stk) <= stkAlloc
      BY <2>1, LenProperties DEF ParserTreeInv
    <2>5. stkAlloc' \in Nat /\ Len(stk) + 1 <= stkAlloc'
      BY <1>2, <2>4, GrowOneHolds
    <2> HIDE DEF inner, moved
    <2>6. /\ stk' \in Seq(Places) /\ Len(stk') = Len(stk) + 1
          /\ \A k \in 1 .. Len(stk) : stk'[k] = moved[k]
          /\ stk'[Len(stk) + 1] = inner
      BY <2>2, <2>3, AppendProperties
    <2>7. ASSUME NEW k \in 1 .. Len(stk')
          PROVE  Within(nodes', stk'[k])
      <3>1. k \in 1 .. Len(stk) \/ k = Len(stk) + 1
        BY <2>4, <2>6
      <3> QED
        BY <2>2, <2>3, <2>6, <3>1
    <2>8. ParserTreeInv'
      BY <2>2, <2>5, <2>6, <2>7 DEF ParserTreeInv
    <2> QED
      BY <1>0, <1>2, <2>8, TopAgainKeeps
  <1> QED
    BY <1>1, <1>2 DEF ExprBegin

LEMMA ExprEndKeeps ==
    ASSUME ParserInv, mode = "top", ExprEnd
    PROVE  ParserInv'
  <1>9. Ch = Letter.rparen
    BY DEF ExprEnd
  <1>0. mode \in Reading /\ Ch # Eof
    BY <1>9 DEF Reading, Letter, Eof
  <1>1. CASE Syntax("unmatched ')'")
    BY <1>0, <1>1, SyntaxKeeps DEF Syntax
  <1>2. CASE /\ stk # <<>>
             /\ stk' = Front(stk)
             /\ mode' = "top" /\ pos' = pos + 1 /\ build_str' = Fresh
             /\ UNCHANGED <<text, numVars, stkAlloc, base, nodes, nodesAlloc, endVars>>
    <2>1. /\ stk' \in Seq(Places) /\ Len(stk') = Len(stk) - 1 /\ Len(stk) \in Nat \ {0}
          /\ \A k \in 1 .. Len(stk) - 1 : stk'[k] = stk[k]
      BY <1>2, BuilderOk DEF ParserInv
    <2>2. \A k \in 1 .. Len(stk') : k \in 1 .. Len(stk) /\ stk'[k] = stk[k]
      BY <2>1
    <2>3. stkAlloc \in Nat /\ Len(stk) <= stkAlloc
      BY DEF ParserInv, ParserTreeInv
    <2>4. Len(stk') <= stkAlloc
      BY <2>1, <2>3
    <2>5. ParserTreeInv'
      BY <1>2, <2>1, <2>2, <2>4 DEF ParserInv, ParserTreeInv
    <2> QED
      BY <1>0, <1>2, <2>5, TopAgainKeeps
  <1> QED
    BY <1>1, <1>2 DEF ExprEnd

LEMMA TopKeeps ==
    ASSUME ParserInv, Top
    PROVE  ParserInv'
  <1>0. mode = "top" /\ mode \in Reading
    BY DEF Top, Reading
  <1>1. ASSUME Blank
        PROVE  ParserInv'
    <2>1. Ch # Eof
      BY <1>1 DEF Blank, IsBlank, Eof
    <2>2. ParserTreeInv'
      BY <1>1 DEF Blank, Read, ParserInv, ParserTreeInv, treeVars
    <2> QED
      BY <1>0, <1>1, <2>1, <2>2, TopAgainKeeps DEF Blank, Read
  <1>2. ASSUME Number
        PROVE  ParserInv'
    <2>1. Ch \in 48 .. 57 /\ Ch # Eof
      BY <1>2 DEF Number, IsDigit, Eof
    <2>2. num' = Ch - 48 /\ within' = within /\ build_str' = Fresh
      BY <1>2 DEF Number
    <2>3. num' \in Nat /\ within' \in {"str", "chr"} /\ StrOk(build_str')
      BY <1>0, <2>1, <2>2, ReaderFacts
    <2>4. PICK m \in {"zero", "dec"} : Read(m) /\ digits' = IF m = "zero" THEN 0 ELSE 1
      BY <1>2 DEF Number
    <2>5. DigitsOk' /\ m \in Reading
      BY <2>4, LimitAssumption DEF DigitsOk, Read, Reading
    <2> QED
      BY <1>0, <2>1, <2>3, <2>4, <2>5, ReadOnKeeps
  <1>3. ASSUME Literal
        PROVE  ParserInv'
    <2>1. Ch # Eof /\ build_str' = Fresh /\ UNCHANGED numVars
      BY <1>3 DEF Literal, Letter, Eof
    <2>2. PICK m \in {"str", "chr"} : Read(m)
      BY <1>3 DEF Literal
    <2>3. num' \in Nat /\ DigitsOk' /\ within' \in {"str", "chr"}
      BY <2>1, <2>2, NumVarsStay DEF Read
    <2>4. StrOk(build_str') /\ m \in Reading
      BY <1>0, <2>1, ReaderFacts DEF Reading
    <2> QED
      BY <1>0, <2>1, <2>2, <2>3, <2>4, ReadOnKeeps
  <1>4. ASSUME AtomBegin
        PROVE  ParserInv'
    <2>1. Ch # Eof /\ Gather(Fresh, <<Ch>>, "atom")
      BY <1>4 DEF AtomBegin, Delimits
    <2>2. StrOk(Fresh) /\ <<Ch>> \in Seq(Int)
      BY <1>0, ReaderFacts
    <2>3. PICK s, cs : s = Fresh /\ cs = <<Ch>>
      OBVIOUS
    <2>4. StrOk(s) /\ cs \in Seq(Int) /\ Gather(s, cs, "atom")
      BY <2>1, <2>2, <2>3
    <2> QED
      BY <1>0, <2>1, <2>4, GatherKeeps
  <1> QED
    BY <1>0, <1>1, <1>2, <1>3, <1>4, AtEndKeeps, ExprBeginKeeps, ExprEndKeeps DEF Top

LEMMA AtomKeeps ==
    ASSUME ParserInv, Atom
    PROVE  ParserInv'
  <1>0. mode \in Reading
    BY DEF Atom, Reading
  <1>1. CASE Emit(StrToken(Body(build_str)), pos)
    <2>1. StrToken(Body(build_str)) \in Tokens /\ pos \in 0 .. Len(text)
      BY <1>0, ReaderFacts, TokensAreTokens
    <2>2. PICK tok, p : tok = StrToken(Body(build_str)) /\ p = pos
      OBVIOUS
    <2>3. tok \in Tokens /\ p \in 0 .. Len(text) /\ Emit(tok, p)
      BY <1>1, <2>1, <2>2
    <2> QED
      BY <2>3, EmitKeeps
  <1>2. CASE ~Delimits(Ch) /\ Gather(build_str, <<Ch>>, "atom")
    <2>1. Ch # Eof /\ StrOk(build_str) /\ <<Ch>> \in Seq(Int)
      BY <1>0, <1>2, ReaderFacts DEF Delimits
    <2>2. PICK s, cs : s = build_str /\ cs = <<Ch>>
      OBVIOUS
    <2>3. StrOk(s) /\ cs \in Seq(Int) /\ Gather(s, cs, "atom")
      BY <1>2, <2>1, <2>2 DEF Gather
    <2> QED
      BY <1>0, <2>1, <2>3, GatherKeeps
  <1> QED
    BY <1>1, <1>2 DEF Atom

\* The number read so far, or 0, becomes a record.
LEMMA EmitNumKeeps ==
    ASSUME ParserInv, mode \in Reading, NEW n \in Int, NEW p \in 0 .. Len(text),
           Emit(NumToken(n), p)
    PROVE  ParserInv'
  <1>1. PICK tok \in Tokens : tok = NumToken(n)
    BY TokensAreTokens
  <1>2. Emit(tok, p)
    BY <1>1
  <1> QED
    BY <1>2, EmitKeeps

LEMMA ZeroKeeps ==
    ASSUME ParserInv, Zero
    PROVE  ParserInv'
  <1>0. mode \in Reading
    BY DEF Zero, Reading
  <1>1. CASE Emit(NumToken(0), pos)
    <2>1. PICK p \in 0 .. Len(text) : p = pos
      BY <1>0, ReaderFacts
    <2>2. Emit(NumToken(0), p)
      BY <1>1, <2>1
    <2> QED
      BY <1>0, <2>2, EmitNumKeeps
  <1>2. CASE Ch = Letter.x /\ Read("hex") /\ UNCHANGED <<numVars, build_str>>
    <2>1. mode = "zero"
      BY DEF Zero
    <2>2. Ch # Eof
      BY <1>2 DEF Letter, Eof
    <2>3. num' = num /\ digits' = digits /\ within' = within /\ build_str' = build_str
      BY <1>2 DEF numVars
    <2>4. num' \in Nat /\ within' \in {"str", "chr"} /\ StrOk(build_str')
      BY <1>0, <2>3, ReaderFacts
    <2>5. digits = 0 /\ mode' = "hex"
      BY <1>0, <1>2, <2>1, ReaderFacts DEF DigitsOk, Read
    <2>6. DigitsOk' /\ "hex" \in Reading
      BY <2>3, <2>5, LimitAssumption DEF DigitsOk, Reading
    <2> QED
      BY <1>0, <1>2, <2>2, <2>4, <2>6, ReadOnKeeps
  <1>3. CASE Syntax("invalid hex literal")
    BY <1>0, <1>3, SyntaxKeeps DEF Syntax
  <1> QED
    BY <1>1, <1>2, <1>3 DEF Zero

\* A digit more: the number grows, and stays a number.
LEMMA DigitKeeps ==
    ASSUME ParserInv, mode \in Reading, Ch # Eof, NEW radix \in Nat, NEW dig \in Nat,
           NEW m \in {"hex", "dec"}, Digit(radix, dig, m),
           digits + 1 \in 0 .. (IF m = "hex" THEN HexLimit ELSE DecLimit)
    PROVE  ParserInv'
  <1>1. /\ Read(m) /\ mode' = m
        /\ num' = num * radix + dig /\ digits' = digits + 1
        /\ within' = within /\ build_str' = build_str
    BY DEF Digit, Read
  <1>2. /\ num \in Nat /\ digits \in Nat /\ within \in {"str", "chr"} /\ StrOk(build_str)
    BY ReaderFacts
  <1>3. num' \in Nat
    BY <1>1, <1>2
  <1>4. DigitsOk' /\ m \in Reading
    BY <1>1, <1>2, LimitAssumption DEF DigitsOk, Reading
  <1> QED
    BY <1>1, <1>2, <1>3, <1>4, ReadOnKeeps

LEMMA HexKeeps ==
    ASSUME ParserInv, Hex
    PROVE  ParserInv'
  <1>0. mode = "hex" /\ mode \in Reading
    BY DEF Hex, Reading
  <1>1. ASSUME NEW m, Syntax(m)
        PROVE  ParserInv'
    BY <1>0, <1>1, SyntaxKeeps DEF Syntax
  <1>2. CASE digits # HexLimit /\ HexDig(Ch) # NotHex /\ Digit(16, HexDig(Ch), "hex")
    <2>1. Ch # Eof
      BY <1>2 DEF HexDig, Eof, NotHex, IsDigit
    <2>2. HexDig(Ch) \in Nat
      BY <1>0, <1>2, ReaderFacts, HexDigRange
    <2>3. PICK dig \in Nat : dig = HexDig(Ch)
      BY <2>2
    <2>4. Digit(16, dig, "hex")
      BY <1>2, <2>3
    <2>5. digits + 1 \in 0 .. HexLimit
      BY <1>0, <1>2, ReaderFacts, LimitAssumption DEF DigitsOk
    <2> QED
      BY <1>0, <2>1, <2>4, <2>5, DigitKeeps
  <1>3. CASE Emit(NumToken(num), pos)
    <2>1. PICK p \in 0 .. Len(text), n \in Int : p = pos /\ n = num
      BY <1>0, ReaderFacts
    <2>2. Emit(NumToken(n), p)
      BY <1>3, <2>1
    <2> QED
      BY <1>0, <2>2, EmitNumKeeps
  <1> QED
    BY <1>1, <1>2, <1>3, Zenon DEF Hex

LEMMA DecKeeps ==
    ASSUME ParserInv, Dec
    PROVE  ParserInv'
  <1>0. mode = "dec" /\ mode \in Reading
    BY DEF Dec, Reading
  <1>1. ASSUME NEW m, Syntax(m)
        PROVE  ParserInv'
    BY <1>0, <1>1, SyntaxKeeps DEF Syntax
  <1>2. CASE digits # DecLimit /\ IsDigit(Ch) /\ Digit(10, Ch - 48, "dec")
    <2>1. Ch # Eof /\ Ch - 48 \in Nat
      BY <1>2 DEF Eof, IsDigit
    <2>2. PICK dig \in Nat : dig = Ch - 48
      BY <2>1
    <2>3. Digit(10, dig, "dec")
      BY <1>2, <2>2
    <2>4. digits + 1 \in 0 .. DecLimit
      BY <1>0, <1>2, ReaderFacts, LimitAssumption DEF DigitsOk
    <2> QED
      BY <1>0, <2>1, <2>3, <2>4, DigitKeeps
  <1>3. CASE Emit(NumToken(num), pos)
    <2>1. PICK p \in 0 .. Len(text), n \in Int : p = pos /\ n = num
      BY <1>0, ReaderFacts
    <2>2. Emit(NumToken(n), p)
      BY <1>3, <2>1
    <2> QED
      BY <1>0, <2>2, EmitNumKeeps
  <1> QED
    BY <1>1, <1>2, <1>3, Zenon DEF Dec

\* An escape begins: what it will be part of is noted, and nothing else.
LEMMA EscapeBeginKeeps ==
    ASSUME ParserInv, mode \in Reading, Ch # Eof, Read("esc"),
           within' \in {"str", "chr"}, UNCHANGED <<num, digits, build_str>>
    PROVE  ParserInv'
  <1>1. num' \in Nat /\ StrOk(build_str')
    BY ReaderFacts
  <1>2. mode' = "esc" /\ DigitsOk
    BY ReaderFacts DEF Read
  <1>3. DigitsOk' /\ "esc" \in Reading
    BY <1>2 DEF DigitsOk, Reading
  <1> QED
    BY <1>1, <1>3, ReadOnKeeps

LEMMA QuotedKeeps ==
    ASSUME ParserInv, Quoted
    PROVE  ParserInv'
  <1>0. mode \in Reading
    BY DEF Quoted, Reading
  <1>1. ASSUME NEW m, Syntax(m)
        PROVE  ParserInv'
    BY <1>0, <1>1, SyntaxKeeps DEF Syntax
  <1>2. CASE /\ Ch = Letter.backslash
             /\ Read("esc") /\ within' = "str" /\ UNCHANGED <<num, digits, build_str>>
    <2>1. Ch # Eof
      BY <1>2 DEF Letter, Eof
    <2> QED
      BY <1>0, <1>2, <2>1, EscapeBeginKeeps
  <1>3. CASE Ch = Letter.quote /\ Emit(StrToken(Body(build_str)), pos + 1)
    <2>1. Ch # Eof
      BY <1>3 DEF Letter, Eof
    <2>2. StrToken(Body(build_str)) \in Tokens /\ pos + 1 \in 0 .. Len(text)
      BY <1>0, <2>1, ReaderFacts, TokensAreTokens
    <2>3. PICK tok, p : tok = StrToken(Body(build_str)) /\ p = pos + 1
      OBVIOUS
    <2>4. tok \in Tokens /\ p \in 0 .. Len(text) /\ Emit(tok, p)
      BY <1>3, <2>2, <2>3
    <2> QED
      BY <2>4, EmitKeeps
  <1>4. CASE Ch # Eof /\ Gather(build_str, <<Ch>>, "str")
    <2>1. StrOk(build_str) /\ <<Ch>> \in Seq(Int)
      BY <1>0, ReaderFacts
    <2>2. PICK s, cs : s = build_str /\ cs = <<Ch>>
      OBVIOUS
    <2>3. StrOk(s) /\ cs \in Seq(Int) /\ Gather(s, cs, "str")
      BY <1>4, <2>1, <2>2 DEF Gather
    <2> QED
      BY <1>0, <1>4, <2>3, GatherKeeps
  <1> QED
    BY <1>1, <1>2, <1>3, <1>4, Zenon DEF Quoted

\* The character of a literal is known.
LEMMA ChrEndNext ==
    ASSUME ParserInv, mode \in Reading, Ch # Eof, Read("chrEnd"), num' \in Nat,
           UNCHANGED <<digits, within, build_str>>
    PROVE  ParserInv'
  <1>1. within' \in {"str", "chr"} /\ StrOk(build_str')
    BY ReaderFacts
  <1>2. mode' = "chrEnd" /\ DigitsOk
    BY ReaderFacts DEF Read
  <1>3. DigitsOk' /\ "chrEnd" \in Reading
    BY <1>2 DEF DigitsOk, Reading
  <1> QED
    BY <1>1, <1>3, ReadOnKeeps

LEMMA ChrKeeps ==
    ASSUME ParserInv, Chr
    PROVE  ParserInv'
  <1>0. mode \in Reading
    BY DEF Chr, Reading
  <1>1. ASSUME NEW m, Syntax(m)
        PROVE  ParserInv'
    BY <1>0, <1>1, SyntaxKeeps DEF Syntax
  <1>2. CASE Fail(Ch, Quiet, pos + 1)
    <2>1. PICK e : e = Ch
      OBVIOUS
    <2>2. Fail(e, Quiet, pos + 1)
      BY <1>2, <2>1
    <2> QED
      BY <1>0, <2>2, SyntaxKeeps
  <1>3. CASE /\ Ch = Letter.backslash
             /\ Read("esc") /\ within' = "chr" /\ UNCHANGED <<num, digits, build_str>>
    <2>1. Ch # Eof
      BY <1>3 DEF Letter, Eof
    <2> QED
      BY <1>0, <1>3, <2>1, EscapeBeginKeeps
  <1>4. CASE /\ Ch >= 0 /\ Ch # Letter.backslash
             /\ Read("chrEnd") /\ num' = Ch /\ UNCHANGED <<digits, within, build_str>>
    <2>1. Ch # Eof /\ num' \in Nat
      BY <1>0, <1>4, ReaderFacts DEF Eof
    <2> QED
      BY <1>0, <1>4, <2>1, ChrEndNext
  <1> QED
    BY <1>1, <1>2, <1>3, <1>4, Zenon DEF Chr

LEMMA ChrEndKeeps ==
    ASSUME ParserInv, ChrEnd
    PROVE  ParserInv'
  <1>0. mode \in Reading
    BY DEF ChrEnd, Reading
  <1>1. ASSUME NEW m, Syntax(m)
        PROVE  ParserInv'
    BY <1>0, <1>1, SyntaxKeeps DEF Syntax
  <1>2. CASE Ch = Letter.tick /\ Emit(NumToken(num), pos + 1)
    <2>1. Ch # Eof
      BY <1>2 DEF Letter, Eof
    <2>2. PICK p \in 0 .. Len(text), n \in Int : p = pos + 1 /\ n = num
      BY <1>0, <2>1, ReaderFacts
    <2>3. Emit(NumToken(n), p)
      BY <1>2, <2>2
    <2> QED
      BY <1>0, <2>3, EmitNumKeeps
  <1> QED
    BY <1>1, <1>2, Zenon DEF ChrEnd

LEMMA RuneKeeps ==
    ASSUME ParserInv, mode \in Reading, Ch # Eof, NEW r \in Nat, Rune(r)
    PROVE  ParserInv'
  <1>1. CASE Read("chrEnd") /\ num' = r /\ UNCHANGED <<digits, within, build_str>>
    BY <1>1, ChrEndNext
  <1>2. CASE Gather(build_str, Utf8(r), "str")
    <2>1. StrOk(build_str) /\ Utf8(r) \in Seq(Int)
      BY ReaderFacts, Utf8IsSeq
    <2>2. PICK s, cs : s = build_str /\ cs = Utf8(r)
      OBVIOUS
    <2>3. StrOk(s) /\ cs \in Seq(Int) /\ Gather(s, cs, "str")
      BY <1>2, <2>1, <2>2 DEF Gather
    <2> QED
      BY <2>3, GatherKeeps
  <1> QED
    BY <1>1, <1>2 DEF Rune

LEMMA EscKeeps ==
    ASSUME ParserInv, Esc
    PROVE  ParserInv'
  <1>0. mode \in Reading
    BY DEF Esc, Reading
  <1>1. ASSUME NEW m, Syntax(m)
        PROVE  ParserInv'
    BY <1>0, <1>1, SyntaxKeeps DEF Syntax
  <1>2. CASE Ch \in DOMAIN Escapes /\ Rune(Escapes[Ch])
    <2>1. DOMAIN Escapes = {116, 114, 48, 110, 34} /\ \A c \in DOMAIN Escapes : Escapes[c] \in Nat
      BY DEF Escapes
    <2>2. Ch # Eof
      BY <1>2, <2>1 DEF Eof
    <2>3. PICK r \in Nat : r = Escapes[Ch]
      BY <1>2, <2>1
    <2>4. Rune(r)
      BY <1>2, <2>3
    <2> QED
      BY <1>0, <2>2, <2>4, RuneKeeps
  <1>3. CASE /\ Ch \in {Letter.x, Letter.u}
             /\ Read("escHex") /\ num' = 0
             /\ digits' = IF Ch = Letter.x THEN 2 ELSE 4
             /\ UNCHANGED <<within, build_str>>
    <2>1. Ch # Eof
      BY <1>3 DEF Letter, Eof
    <2>2. num' \in Nat /\ within' \in {"str", "chr"} /\ StrOk(build_str')
      BY <1>0, <1>3, ReaderFacts
    <2>3. mode' = "escHex" /\ digits' \in {2, 4}
      BY <1>3 DEF Read
    <2>4. DigitsOk' /\ "escHex" \in Reading
      BY <2>3, LimitAssumption DEF DigitsOk, Reading
    <2> QED
      BY <1>0, <1>3, <2>1, <2>2, <2>4, ReadOnKeeps
  <1> QED
    BY <1>1, <1>2, <1>3, Zenon DEF Esc

LEMMA EscHexKeeps ==
    ASSUME ParserInv, EscHex
    PROVE  ParserInv'
  <1>0. mode = "escHex" /\ mode \in Reading
    BY DEF EscHex, Reading
  <1>1. ASSUME NEW m, Syntax(m)
        PROVE  ParserInv'
    BY <1>0, <1>1, SyntaxKeeps DEF Syntax
  <1>2. ASSUME HexDig(Ch) # NotHex
        PROVE  Ch # Eof /\ num * 16 + HexDig(Ch) \in Nat
    <2>1. Ch # Eof
      BY <1>2 DEF HexDig, Eof, NotHex, IsDigit
    <2>2. HexDig(Ch) \in Nat /\ num \in Nat
      BY <1>0, <1>2, ReaderFacts, HexDigRange
    <2> QED
      BY <2>1, <2>2
  <1>3. CASE HexDig(Ch) # NotHex /\ digits = 1 /\ Rune(num * 16 + HexDig(Ch))
    <2>1. PICK r \in Nat : r = num * 16 + HexDig(Ch)
      BY <1>2, <1>3
    <2>2. Rune(r)
      BY <1>3, <2>1
    <2> QED
      BY <1>0, <1>2, <1>3, <2>2, RuneKeeps
  <1>4. CASE /\ HexDig(Ch) # NotHex /\ digits > 1
             /\ Read("escHex")
             /\ num' = num * 16 + HexDig(Ch) /\ digits' = digits - 1
             /\ UNCHANGED <<within, build_str>>
    <2>1. Ch # Eof /\ num' \in Nat
      BY <1>2, <1>4
    <2>2. within' \in {"str", "chr"} /\ StrOk(build_str')
      BY <1>0, <1>4, ReaderFacts
    <2>3. mode' = "escHex" /\ digits \in 1 .. 4 /\ digits' = digits - 1 /\ digits > 1
      BY <1>0, <1>4, ReaderFacts DEF Read, DigitsOk
    <2>4. DigitsOk' /\ "escHex" \in Reading
      BY <2>3, LimitAssumption DEF DigitsOk, Reading
    <2> QED
      BY <1>0, <1>4, <2>1, <2>2, <2>4, ReadOnKeeps
  <1> QED
    BY <1>1, <1>3, <1>4, Zenon DEF EscHex

\* Every step of the parser.
LEMMA ParseStepKeeps ==
    ASSUME ParserInv, ParseStep
    PROVE  ParserInv'
  BY TopKeeps, AtomKeeps, ZeroKeeps, HexKeeps, DecKeeps, QuotedKeeps, ChrKeeps,
     ChrEndKeeps, EscKeeps, EscHexKeeps DEF ParseStep

\* A parser that is given a text, and one that has none yet.
LEMMA ParseBeginOk ==
    ASSUME NEW t \in Seq(0 .. 255), ParseBegin(t)
    PROVE  ParserInv'
  <1>1. /\ text' = t /\ pos' = 0 /\ mode' = "top"
        /\ num' = 0 /\ digits' = 0 /\ within' = "str" /\ build_str' = EmptyStr
        /\ stk' = <<>> /\ stkAlloc' = 0 /\ base' = TopPlace
        /\ nodes' = <<>> /\ nodesAlloc' = 0
    BY DEF ParseBegin
  <1>2. Len(t) \in Nat
    BY LenProperties
  <1>3. DigitsOk'
    BY <1>1, LimitAssumption DEF DigitsOk
  <1>4. StrOk(build_str')
    BY <1>1, EmptyStrOk
  <1>5. ReaderInv'
    BY <1>1, <1>2, <1>3, <1>4 DEF ReaderInv, Reading
  <1>6. TreeOk(nodes', nodesAlloc') /\ PlaceOk(nodes', base')
    BY <1>1, EmptyTreeOk, TopPlaceOk
  <1>7. /\ stk' \in Seq(Places) /\ stkAlloc' \in Nat /\ Len(stk') <= stkAlloc'
        /\ \A k \in 1 .. Len(stk') : Within(nodes', stk'[k])
    BY <1>1
  <1> QED
    BY <1>5, <1>6, <1>7 DEF ParserInv, ParserTreeInv

LEMMA ParseInitOk ==
    ASSUME ParseInit
    PROVE  ParserInv
  <1>1. /\ text = <<>> /\ pos = 0 /\ mode = "idle"
        /\ num = 0 /\ digits = 0 /\ within = "str" /\ build_str = EmptyStr
        /\ stk = <<>> /\ stkAlloc = 0 /\ base = TopPlace
        /\ nodes = <<>> /\ nodesAlloc = 0
    BY DEF ParseInit
  <1>2. DigitsOk
    BY <1>1, LimitAssumption DEF DigitsOk
  <1>3. ReaderInv
    BY <1>1, <1>2, EmptyStrOk DEF ReaderInv, Reading
  <1>4. TreeOk(nodes, nodesAlloc) /\ PlaceOk(nodes, base)
    BY <1>1, EmptyTreeOk, TopPlaceOk
  <1>5. /\ stk \in Seq(Places) /\ stkAlloc \in Nat /\ Len(stk) <= stkAlloc
        /\ \A k \in 1 .. Len(stk) : Within(nodes, stk[k])
    BY <1>1
  <1> QED
    BY <1>3, <1>4, <1>5 DEF ParserInv, ParserTreeInv

-----------------------------------------------------------------------------
(* The builders of the program. *)

\* One handle is moved, to a place in the tree as it has become.
LEMMA HandlesMoved ==
    ASSUME NEW hs \in Seq(Places), NEW h \in 1 .. Len(hs), NEW b, NEW t,
           PlaceOk(t, b), \A k \in 1 .. Len(hs) : Within(t, hs[k])
    PROVE  /\ [hs EXCEPT ![h] = b] \in Seq(Places)
           /\ Len([hs EXCEPT ![h] = b]) = Len(hs)
           /\ \A k \in 1 .. Len(hs) : /\ [hs EXCEPT ![h] = b][k] = IF k = h THEN b ELSE hs[k]
                                      /\ Within(t, [hs EXCEPT ![h] = b][k])
  <1> DEFINE new == [hs EXCEPT ![h] = b]
  <1>1. b \in Places /\ Within(t, b)
    BY DEF PlaceOk
  <1>2. /\ new \in Seq(Places) /\ Len(new) = Len(hs)
        /\ \A k \in 1 .. Len(hs) : new[k] = IF k = h THEN b ELSE hs[k]
    BY <1>1, ExceptSeq
  <1> HIDE DEF new
  <1>3. \A k \in 1 .. Len(hs) : Within(t, new[k])
    BY <1>1, <1>2
  <1> QED
    BY <1>2, <1>3 DEF new

LEMMA BuildAtomKeeps ==
    ASSUME UserTreeInv, NEW h \in DOMAIN handles, NEW tok \in UserTokens, BuildAtom(h, tok)
    PROVE  UserTreeInv'
  <1>1. /\ actual' = SymNew(actual, handles[h], tok)
        /\ actualAlloc' = GrowOne(Len(actual), actualAlloc)
        /\ handles' = [handles EXCEPT ![h] = Advanced(actual, handles[h])]
    BY DEF BuildAtom
  <1>2. /\ TreeOk(actual, actualAlloc) /\ handles \in Seq(Places)
        /\ h \in 1 .. Len(handles) /\ PlaceOk(actual, handles[h]) /\ tok \in Tokens
    BY TokensAreTokens, LenProperties DEF UserTreeInv, PlaceOk
  <1>3. /\ TreeOk(actual', actualAlloc')
        /\ \A c : Within(actual, c) => Within(actual', c)
        /\ PlaceOk(actual', Advanced(actual, handles[h]))
    BY <1>1, <1>2, SymNewOk
  <1>4. \A k \in 1 .. Len(handles) : Within(actual', handles[k])
    BY <1>3 DEF UserTreeInv
  <1>5. /\ handles' \in Seq(Places) /\ Len(handles') = Len(handles)
        /\ \A k \in 1 .. Len(handles) : Within(actual', handles'[k])
    BY <1>1, <1>2, <1>3, <1>4, HandlesMoved
  <1> QED
    BY <1>3, <1>5 DEF UserTreeInv

LEMMA BuildExprKeeps ==
    ASSUME UserTreeInv, NEW h \in DOMAIN handles, BuildExpr(h)
    PROVE  UserTreeInv'
  <1> DEFINE moved == [handles EXCEPT ![h] = Advanced(actual, handles[h])]
             inner == Inside(actual)
  <1>1. /\ actual' = SymNew(actual, handles[h], ExprToken)
        /\ actualAlloc' = GrowOne(Len(actual), actualAlloc)
        /\ handles' = Append(moved, inner)
    BY DEF BuildExpr
  <1>2. /\ TreeOk(actual, actualAlloc) /\ handles \in Seq(Places)
        /\ h \in 1 .. Len(handles) /\ PlaceOk(actual, handles[h]) /\ ExprToken \in Tokens
    BY TokensAreTokens, LenProperties DEF UserTreeInv, PlaceOk
  <1>3. /\ TreeOk(actual', actualAlloc')
        /\ \A c : Within(actual, c) => Within(actual', c)
        /\ PlaceOk(actual', Advanced(actual, handles[h])) /\ PlaceOk(actual', inner)
    BY <1>1, <1>2, SymNewOk
  <1>4. \A k \in 1 .. Len(handles) : Within(actual', handles[k])
    BY <1>3 DEF UserTreeInv
  <1>5. /\ moved \in Seq(Places) /\ Len(moved) = Len(handles)
        /\ \A k \in 1 .. Len(handles) : Within(actual', moved[k])
    BY <1>2, <1>3, <1>4, HandlesMoved
  <1>6. inner \in Places /\ Within(actual', inner) /\ Len(handles) \in Nat
    BY <1>2, <1>3, LenProperties DEF PlaceOk
  <1> HIDE DEF moved, inner
  <1>7. /\ handles' \in Seq(Places) /\ Len(handles') = Len(handles) + 1
        /\ \A k \in 1 .. Len(handles) : handles'[k] = moved[k]
        /\ handles'[Len(handles) + 1] = inner
    BY <1>1, <1>5, <1>6, AppendProperties
  <1>8. ASSUME NEW k \in 1 .. Len(handles')
        PROVE  Within(actual', handles'[k])
    <2>1. k \in 1 .. Len(handles) \/ k = Len(handles) + 1
      BY <1>6, <1>7
    <2> QED
      BY <1>5, <1>6, <1>7, <2>1
  <1> QED
    BY <1>3, <1>7, <1>8 DEF UserTreeInv

LEMMA BuildTypeKeeps ==
    ASSUME UserTreeInv, NEW h \in DOMAIN handles, NEW tok \in UserTokens, BuildType(h, tok)
    PROVE  UserTreeInv'
  <1> DEFINE outer == SymNew(actual, handles[h], ExprToken)
             inner == Inside(actual)
             alloc == GrowOne(Len(actual), actualAlloc)
  <1>1. /\ actual' = SymNew(outer, inner, tok)
        /\ actualAlloc' = GrowOne(Len(outer), alloc)
        /\ handles' = [handles EXCEPT ![h] = Advanced(outer, inner)]
    BY DEF BuildType
  <1>2. /\ TreeOk(actual, actualAlloc) /\ handles \in Seq(Places)
        /\ h \in 1 .. Len(handles) /\ PlaceOk(actual, handles[h])
        /\ ExprToken \in Tokens /\ tok \in Tokens
    BY TokensAreTokens, LenProperties DEF UserTreeInv, PlaceOk
  <1>3. /\ TreeOk(outer, alloc) /\ PlaceOk(outer, inner)
        /\ \A c : Within(actual, c) => Within(outer, c)
    BY <1>2, SymNewOk
  <1> HIDE DEF outer, inner, alloc
  <1>4. /\ TreeOk(actual', actualAlloc')
        /\ \A c : Within(outer, c) => Within(actual', c)
        /\ PlaceOk(actual', Advanced(outer, inner))
    BY <1>1, <1>2, <1>3, SymNewOk
  <1>5. \A k \in 1 .. Len(handles) : Within(actual', handles[k])
    BY <1>3, <1>4 DEF UserTreeInv
  <1>6. /\ handles' \in Seq(Places) /\ Len(handles') = Len(handles)
        /\ \A k \in 1 .. Len(handles) : Within(actual', handles'[k])
    BY <1>1, <1>2, <1>4, <1>5, HandlesMoved
  <1> QED
    BY <1>4, <1>6 DEF UserTreeInv

LEMMA UserTreeStays ==
    ASSUME UserTreeInv, UNCHANGED userVars
    PROVE  UserTreeInv'
  BY DEF UserTreeInv, userVars

-----------------------------------------------------------------------------
(* The invariant of the module. *)

LEMMA PeekNextRange ==
    ASSUME NEW t \in Seq(Nodes), Linked(t), NEW w, PlaceOk(t, w)
    PROVE  PeekNext(t, w) \in Refs(t) \cup {NoRef}
  <1>1. Len(t) \in Nat /\ Refs(t) = 0 .. Len(t) - 1
    BY LenProperties DEF Refs
  <1>2. \A r \in Refs(t) : /\ At(t, r).first \in Refs(t) \cup {NoRef}
                           /\ At(t, r).next \in Refs(t) \cup {NoRef}
    BY <1>1 DEF Linked
  <1>3. w.parent \in Refs(t) \cup {NoRef} /\ w.prev \in Refs(t) \cup {NoRef}
    BY DEF PlaceOk, Within
  <1>4. t # <<>> => 0 \in Refs(t)
    BY <1>1, EmptySeq
  <1> QED
    BY <1>2, <1>3, <1>4 DEF PeekNext

LEMMA WalkerStays ==
    ASSUME SymInv, UNCHANGED <<nodes, walk>>,
           phase' \in {"half", "check", "make"} \/ (phase' = "idle" /\ result' = "NONE")
           => walk = TopPlace
    PROVE  WalkerInv'
  BY DEF SymInv, WalkerInv

LEMMA SymInit ==
    ASSUME Init
    PROVE  SymInv
  <1>1. ReaderInv /\ ParserTreeInv
    BY ParseInitOk DEF Init, ParserInv
  <1>2. UserTreeInv
    <2>1. actual = <<>> /\ actualAlloc = 0 /\ handles = <<>>
      BY DEF Init
    <2>2. handles \in Seq(Places) /\ \A h \in 1 .. Len(handles) : Within(actual, handles[h])
      BY <2>1
    <2> QED
      BY <2>1, <2>2, EmptyTreeOk DEF UserTreeInv
  <1>3. WalkerInv
    BY TopPlaceOk DEF Init, WalkerInv
  <1>4. OwnerInv
    BY DEF Init, OwnerInv, Phases, Returned
  <1> QED
    BY <1>1, <1>2, <1>3, <1>4 DEF SymInv

\* A macro begins.
LEMMA StartsKeep ==
    ASSUME SymInv, result = "NONE", Starts
    PROVE  SymInv'
  <1>0. CheckTexts \subseteq Seq(0 .. 255) /\ MakeTexts \subseteq Seq(0 .. 255)
    BY TextAssumption
  <1>1. ASSUME CheckAlloc
        PROVE  SymInv'
    <2>1. ReaderInv' /\ ParserTreeInv'
      BY <1>1 DEF CheckAlloc, parseVars, numVars, treeVars, endVars, SymInv, ReaderInv,
                  ParserTreeInv, DigitsOk
    <2>2. UserTreeInv'
      <3>1. actual' = <<>> /\ actualAlloc' = 0 /\ handles' = <<>>
        BY <1>1 DEF CheckAlloc
      <3>2. handles' \in Seq(Places) /\ \A h \in 1 .. Len(handles') : Within(actual', handles'[h])
        BY <3>1
      <3> QED
        BY <3>1, <3>2, EmptyTreeOk DEF UserTreeInv
    <2>3. walk' = TopPlace
      BY <1>1 DEF CheckAlloc, walkVars, SymInv, WalkerInv
    <2>4. WalkerInv'
      BY <2>3, TopPlaceOk DEF WalkerInv
    <2>5. owned = {} /\ phase' = "half" /\ owned' = owned \cup {"actual"}
          /\ result' = "NONE" /\ reason' = reason
      BY <1>1 DEF CheckAlloc, verdictVars, SymInv, OwnerInv
    <2>6. OwnerInv'
      BY <2>5 DEF SymInv, OwnerInv, Phases
    <2> QED
      BY <2>1, <2>2, <2>4, <2>6 DEF SymInv
  <1>2. ASSUME NEW t \in MakeTexts, MakeInit(t)
        PROVE  SymInv'
    <2>1. ReaderInv' /\ ParserTreeInv'
      BY <1>0, <1>2, ParseBeginOk DEF MakeInit, ParserInv
    <2>2. UserTreeInv'
      BY <1>2, UserTreeStays DEF MakeInit, SymInv
    <2>3. walk' = TopPlace
      BY <1>2 DEF MakeInit, walkVars, SymInv, WalkerInv
    <2>4. WalkerInv'
      BY <2>3, TopPlaceOk DEF WalkerInv
    <2>5. owned = {} /\ phase' = "make" /\ owned' = owned \cup {"made"}
          /\ result' = "NONE" /\ reason' = reason
      BY <1>2 DEF MakeInit, verdictVars, SymInv, OwnerInv
    <2>6. OwnerInv'
      BY <2>5 DEF SymInv, OwnerInv, Phases
    <2> QED
      BY <2>1, <2>2, <2>4, <2>6 DEF SymInv
  <1>3. ASSUME NoSym
        PROVE  SymInv'
    <2>1. ReaderInv' /\ ParserTreeInv'
      BY <1>3 DEF NoSym, parseVars, numVars, treeVars, endVars, SymInv, ReaderInv,
                  ParserTreeInv, DigitsOk
    <2>2. UserTreeInv'
      BY <1>3, UserTreeStays DEF NoSym, SymInv
    <2>3. WalkerInv'
      <3>1. UNCHANGED <<nodes, walk>> /\ phase' = "idle" /\ result' = "ERROR"
        BY <1>3 DEF NoSym, parseVars, treeVars, walkVars
      <3> QED
        BY <3>1, WalkerStays
    <2>4. OwnerInv'
      <3>1. owned' = {} /\ result' = "ERROR" /\ phase' = "idle" /\ reason' = reason
        BY <1>3 DEF NoSym, SymInv, OwnerInv
      <3> QED
        BY <3>1 DEF SymInv, OwnerInv, Returned, Phases
    <2> QED
      BY <2>1, <2>2, <2>3, <2>4 DEF SymInv
  <1> QED
    BY <1>1, <1>2, <1>3 DEF Starts

\* The second sym of ASSERT_SYMEQ, and the text; or no second sym.
LEMMA CheckInitKeeps ==
    ASSUME SymInv, NEW t \in CheckTexts, CheckInit(t)
    PROVE  SymInv'
  <1>1. t \in Seq(0 .. 255)
    BY TextAssumption
  <1>2. ReaderInv' /\ ParserTreeInv'
    BY <1>1, ParseBeginOk DEF CheckInit, ParserInv
  <1>3. UserTreeInv'
    BY UserTreeStays DEF CheckInit, SymInv
  <1>4. walk' = TopPlace
    BY DEF CheckInit, walkVars, SymInv, WalkerInv
  <1>5. WalkerInv'
    BY <1>4, TopPlaceOk DEF WalkerInv
  <1>6. owned = {"actual"} /\ phase' = "check" /\ owned' = owned \cup {"expected"}
        /\ result' = "NONE" /\ reason' = reason
    BY DEF CheckInit, verdictVars, SymInv, OwnerInv
  <1>7. OwnerInv'
    BY <1>6 DEF SymInv, OwnerInv, Phases
  <1> QED
    BY <1>2, <1>3, <1>5, <1>7 DEF SymInv

\* What the parser keeps stays when the parser is not called.
LEMMA ParserStays ==
    ASSUME SymInv, UNCHANGED parseVars
    PROVE  ReaderInv' /\ ParserTreeInv'
  BY DEF parseVars, numVars, treeVars, endVars, SymInv, ReaderInv, ParserTreeInv, DigitsOk

\* The steps that end a phase: storage and places stay.
LEMMA PhaseEnds ==
    ASSUME SymInv, UNCHANGED <<parseVars, userVars>>, WalkerInv', OwnerInv'
    PROVE  SymInv'
  <1>1. ReaderInv' /\ ParserTreeInv'
    BY ParserStays
  <1>2. UserTreeInv'
    BY UserTreeStays DEF SymInv
  <1> QED
    BY <1>1, <1>2 DEF SymInv

LEMMA SecondRefusedKeeps ==
    ASSUME SymInv, SecondRefused
    PROVE  SymInv'
  <1>1. /\ UNCHANGED <<parseVars, userVars, walkVars>>
        /\ owned' = owned \ {"actual"} /\ owned = {"actual"} /\ reason' = reason
        /\ result' = "ERROR" /\ phase' = "idle"
    BY DEF SecondRefused, SymInv, OwnerInv
  <1>2. owned' = {}
    BY <1>1
  <1>3. OwnerInv'
    BY <1>1, <1>2 DEF SymInv, OwnerInv, Returned, Phases
  <1>4. WalkerInv'
    BY <1>1, WalkerStays DEF parseVars, treeVars, walkVars
  <1> QED
    BY <1>1, <1>3, <1>4, PhaseEnds

LEMMA ParsingKeeps ==
    ASSUME SymInv, Parsing
    PROVE  SymInv'
  <1>1. ReaderInv' /\ ParserTreeInv'
    BY ParseStepKeeps DEF Parsing, SymInv, ParserInv
  <1>2. UserTreeInv'
    BY UserTreeStays DEF Parsing, SymInv
  <1>3. walk' = TopPlace
    BY DEF Parsing, walkVars, SymInv, WalkerInv
  <1>4. WalkerInv'
    BY <1>3, TopPlaceOk DEF WalkerInv
  <1>5. phase \in {"check", "make"} /\ UNCHANGED <<phase, owned, reason, result>>
    BY DEF Parsing, verdictVars
  <1>6. OwnerInv'
    BY <1>5 DEF SymInv, OwnerInv
  <1> QED
    BY <1>1, <1>2, <1>4, <1>6 DEF SymInv

LEMMA ParseFailedKeeps ==
    ASSUME SymInv, ParseFailed
    PROVE  SymInv'
  <1>1. /\ phase \in {"check", "make"} /\ UNCHANGED <<parseVars, userVars, walkVars>>
        /\ owned' = owned \ (IF phase = "check" THEN {"actual", "expected"} ELSE {"made"})
        /\ reason' \in {"SYM_SYNTAX", reason} /\ result' = "ERROR" /\ phase' = "idle"
    BY DEF ParseFailed
  <1>2. owned' = {}
    BY <1>1 DEF SymInv, OwnerInv
  <1>3. OwnerInv'
    BY <1>1, <1>2 DEF SymInv, OwnerInv, Returned, Phases
  <1>4. WalkerInv'
    BY <1>1, WalkerStays DEF parseVars, treeVars, walkVars
  <1> QED
    BY <1>1, <1>3, <1>4, PhaseEnds

LEMMA CheckParsedKeeps ==
    ASSUME SymInv, CheckParsed
    PROVE  SymInv'
  <1>1. ReaderInv' /\ ParserTreeInv'
    BY ParserStays DEF CheckParsed
  <1>2. UserTreeInv'
    <2>1. handles' = <<TopPlace>> /\ UNCHANGED <<actual, actualAlloc>>
      BY DEF CheckParsed
    <2>2. TopPlace \in Places /\ Within(actual', TopPlace)
      BY TopPlaceOk DEF PlaceOk
    <2>3. /\ handles' \in Seq(Places)
          /\ \A h \in 1 .. Len(handles') : Within(actual', handles'[h])
      BY <2>1, <2>2
    <2> QED
      BY <2>1, <2>3 DEF SymInv, UserTreeInv
  <1>3. WalkerInv'
    BY WalkerStays DEF CheckParsed, parseVars, treeVars, walkVars
  <1>4. OwnerInv'
    BY DEF CheckParsed, parseVars, verdictVars, SymInv, OwnerInv, Phases
  <1> QED
    BY <1>1, <1>2, <1>3, <1>4 DEF SymInv

LEMMA BuildsKeep ==
    ASSUME SymInv, Builds
    PROVE  SymInv'
  <1>1. CASE ConversionFails
    <2>1. /\ phase = "build" /\ result' = "ERROR" /\ phase' = "idle"
          /\ UNCHANGED <<parseVars, userVars, owned, walkVars, reason>>
      BY <1>1 DEF ConversionFails
    <2>2. mode' = "done" /\ owned' = {"actual", "expected"}
      BY <2>1 DEF parseVars, SymInv, OwnerInv
    <2>3. OwnerInv'
      BY <2>1, <2>2 DEF SymInv, OwnerInv, Returned, Phases, Syms
    <2>4. WalkerInv'
      BY <2>1, WalkerStays DEF parseVars, treeVars, walkVars
    <2> QED
      BY <2>1, <2>3, <2>4, PhaseEnds
  <1>2. ASSUME UserTreeInv', phase = "build",
               UNCHANGED <<parseVars, phase, owned, walkVars, verdictVars>>
        PROVE  SymInv'
    <2>1. ReaderInv' /\ ParserTreeInv'
      BY <1>2, ParserStays
    <2>2. WalkerInv'
      BY <1>2, WalkerStays DEF parseVars, treeVars, walkVars
    <2>3. OwnerInv'
      BY <1>2 DEF parseVars, verdictVars, SymInv, OwnerInv
    <2> QED
      BY <1>2, <2>1, <2>2, <2>3 DEF SymInv
  <1>3. ASSUME NEW h \in DOMAIN handles, BuildExpr(h)
        PROVE  SymInv'
    BY <1>2, <1>3, BuildExprKeeps DEF BuildExpr, SymInv
  <1>4. ASSUME NEW h \in DOMAIN handles, NEW tok \in UserTokens, BuildAtom(h, tok)
        PROVE  SymInv'
    BY <1>2, <1>4, BuildAtomKeeps DEF BuildAtom, SymInv
  <1>5. ASSUME NEW h \in DOMAIN handles, NEW tok \in UserTokens, BuildType(h, tok)
        PROVE  SymInv'
    BY <1>2, <1>5, BuildTypeKeeps DEF BuildType, SymInv
  <1> QED
    BY <1>1, <1>3, <1>4, <1>5 DEF Builds

\* The comparison, and what becomes of the trees then.
LEMMA ChecksKeep ==
    ASSUME SymInv, CheckWild \/ CheckEqual \/ CheckUnequal \/ ReportUnequal
    PROVE  SymInv'
  <1>1. UNCHANGED <<parseVars, userVars, walkVars>>
    BY DEF CheckWild, CheckEqual, CheckUnequal, ReportUnequal
  <1>2. OwnerInv'
    <2>1. CASE CheckWild
      BY <1>1, <2>1 DEF CheckWild, parseVars, verdictVars, SymInv, OwnerInv, Phases
    <2>2. CASE CheckEqual
      <3>1. phase' = "idle" /\ result' = "PASS" /\ reason' = reason /\ owned' = {}
        BY <2>2 DEF CheckEqual, SymInv, OwnerInv
      <3> QED
        BY <3>1 DEF SymInv, OwnerInv, Returned, Phases
    <2>3. CASE CheckUnequal
      BY <1>1, <2>3 DEF CheckUnequal, parseVars, SymInv, OwnerInv, Phases
    <2>4. CASE ReportUnequal
      <3>1. phase' = "idle" /\ result' = result /\ reason' = reason /\ owned' = {}
        BY <2>4 DEF ReportUnequal, verdictVars, SymInv, OwnerInv
      <3>2. reason' \in {"NONE", "SYM_SYNTAX", "SYM_INEQUALITY"}
            /\ result' \in {"NONE", "PASS", "FAIL", "ERROR", "PASS_NOMEM"}
        BY <3>1 DEF SymInv, OwnerInv
      <3> QED
        BY <3>1, <3>2 DEF OwnerInv, Returned, Phases
    <2> QED
      BY <2>1, <2>2, <2>3, <2>4
  <1>3. WalkerInv'
    <2>1. ~(phase' = "idle" /\ result' = "NONE")
      BY DEF CheckWild, CheckEqual, CheckUnequal, ReportUnequal, verdictVars, SymInv,
             OwnerInv
    <2>2. phase' \notin {"half", "check", "make"}
      BY DEF CheckWild, CheckEqual, CheckUnequal, ReportUnequal
    <2> QED
      BY <1>1, <2>1, <2>2, WalkerStays DEF parseVars, treeVars, walkVars
  <1> QED
    BY <1>1, <1>2, <1>3, PhaseEnds

LEMMA WalksKeep ==
    ASSUME SymInv, MakeParsed \/ WalkNext \/ WalkInto \/ MakeDestroy \/ FromSymFails
    PROVE  SymInv'
  <1>1. UNCHANGED <<parseVars, userVars>>
    BY DEF MakeParsed, WalkNext, WalkInto, MakeDestroy, FromSymFails
  <1>2. OwnerInv'
    <2>1. CASE MakeParsed
      BY <1>1, <2>1 DEF MakeParsed, parseVars, verdictVars, SymInv, OwnerInv, Phases
    <2>2. CASE WalkNext \/ WalkInto
      BY <1>1, <2>2 DEF WalkNext, WalkInto, parseVars, verdictVars, SymInv, OwnerInv
    <2>3. CASE MakeDestroy
      <3>1. phase' = "idle" /\ result' = "PASS" /\ reason' = reason /\ owned' = {}
        BY <2>3 DEF MakeDestroy, SymInv, OwnerInv
      <3> QED
        BY <3>1 DEF SymInv, OwnerInv, Returned, Phases
    <2>4. CASE FromSymFails
      <3>1. /\ phase' = "idle" /\ result' \in {"ERROR", "PASS_NOMEM"} /\ reason' = reason
            /\ owned' = {"made"} /\ mode' = "done"
        BY <1>1, <2>4 DEF FromSymFails, parseVars, SymInv, OwnerInv
      <3> QED
        BY <3>1 DEF SymInv, OwnerInv, Returned, Phases, Syms
    <2> QED
      BY <2>1, <2>2, <2>3, <2>4
  <1>3. nodes' = nodes /\ nodes \in Seq(Nodes) /\ Linked(nodes) /\ PlaceOk(nodes, walk)
    BY <1>1 DEF parseVars, treeVars, SymInv, ParserTreeInv, TreeOk, WalkerInv
  <1>4. /\ PeekNext(nodes, walk) \in Refs(nodes) \cup {NoRef}
        /\ walk.parent \in Refs(nodes) \cup {NoRef}
    BY <1>3, PeekNextRange DEF PlaceOk, Within
  <1>5. \A p, q \in Refs(nodes) \cup {NoRef} : PlaceOk(nodes, Place(p, q))
    BY DEF PlaceOk, Places, Within, Place, Refs, NoRef
  <1>6. PlaceOk(nodes, walk')
    <2>1. CASE MakeParsed
      BY <2>1, TopPlaceOk DEF MakeParsed
    <2>2. CASE WalkNext
      BY <1>4, <1>5, <2>2 DEF WalkNext
    <2>3. CASE WalkInto
      BY <1>4, <1>5, <2>3 DEF WalkInto
    <2>4. CASE MakeDestroy \/ FromSymFails
      BY <1>3, <2>4 DEF MakeDestroy, FromSymFails, walkVars
    <2> QED
      BY <2>1, <2>2, <2>3, <2>4
  <1>7. phase' \notin {"half", "check", "make"} /\ ~(phase' = "idle" /\ result' = "NONE")
    BY DEF MakeParsed, WalkNext, WalkInto, MakeDestroy, FromSymFails
  <1>8. WalkerInv'
    BY <1>3, <1>6, <1>7 DEF WalkerInv
  <1> QED
    BY <1>1, <1>2, <1>8, PhaseEnds

LEMMA SymStep ==
    ASSUME SymInv, [Next]_vars
    PROVE  SymInv'
  <1>1. CASE UNCHANGED vars
    BY <1>1 DEF vars, parseVars, numVars, treeVars, endVars, userVars, walkVars,
                verdictVars, SymInv, ReaderInv, ParserTreeInv, UserTreeInv, WalkerInv,
                OwnerInv, DigitsOk, Returned
  <1>2. CASE Next
    BY <1>2, StartsKeep, CheckInitKeeps, SecondRefusedKeeps, ParsingKeeps, ParseFailedKeeps, CheckParsedKeeps, BuildsKeep,
       ChecksKeep, WalksKeep, Zenon DEF Next
  <1> QED
    BY <1>1, <1>2

LEMMA SymInvariance == Spec => []SymInv
  <1> QED
    BY SymInit, SymStep, PTL DEF Spec

-----------------------------------------------------------------------------
(* The strings that are lost. *)

StrayInv == stray \in BOOLEAN /\ StringsKept

\* A string is lost only by the step that ends the parser without a message.
LEMMA StepLoses ==
    ASSUME ParseStep, stray = FALSE
    PROVE  StrayInv'
  <1> DEFINE Keeps == StrayInv'
  <1>1. ASSUME UNCHANGED stray
        PROVE  Keeps
    BY <1>1 DEF StrayInv, StringsKept
  <1>2. ASSUME NEW tok, NEW p, Emit(tok, p)
        PROVE  Keeps
    <2>1. CASE UNCHANGED endVars
      BY <1>1, <2>1 DEF endVars
    <2>2. CASE Fail(ParseError, Quiet, p)
      BY <1>1, <2>2 DEF Fail
    <2>3. CASE Stop(ParseError, Quiet, p) /\ stray' = NeedsBlock(EmptyStr, Len(tok.str))
      <3>1. mode' = "failed" /\ msg' = Quiet
        BY <2>3 DEF Stop
      <3>2. stray' \in BOOLEAN
        BY <2>3 DEF NeedsBlock
      <3> QED
        BY <3>1, <3>2 DEF StrayInv, StringsKept
    <2> QED
      BY <1>2, <2>1, <2>2, <2>3 DEF Emit, Refused
  <1> HIDE DEF Keeps
  <1>3. \A e, m, p : Fail(e, m, p) => Keeps
    BY <1>1 DEF Fail
  <1>4. \A m : Read(m) => Keeps
    BY <1>1 DEF Read, endVars
  <1>5. \A m : Syntax(m) => Keeps
    BY <1>3 DEF Syntax
  <1>6. \A s, c, m : Gather(s, c, m) => Keeps
    BY <1>3, <1>4 DEF Gather
  <1>7. \A n : Rune(n) => Keeps
    BY <1>4, <1>6 DEF Rune
  <1>8. \A n, d, m : Digit(n, d, m) => Keeps
    BY <1>4 DEF Digit
  <1>9. Top => Keeps
    BY <1>1, <1>3, <1>4, <1>5, <1>6 DEF Top, AtEnd, ExprBegin, ExprEnd, Blank, Number,
                                        Literal, AtomBegin, endVars
  <1>10. Atom \/ Zero \/ Hex \/ Dec => Keeps
    BY <1>2, <1>4, <1>5, <1>6, <1>8 DEF Atom, Zero, Hex, Dec
  <1>11. Quoted \/ Chr \/ ChrEnd => Keeps
    BY <1>2, <1>3, <1>4, <1>5, <1>6 DEF Quoted, Chr, ChrEnd
  <1>12. Esc \/ EscHex => Keeps
    BY <1>4, <1>5, <1>7 DEF Esc, EscHex
  <1> QED
    BY <1>9, <1>10, <1>11, <1>12 DEF ParseStep, Keeps

LEMMA StrayInvariance == Spec => []StrayInv
  <1>1. Init => StrayInv
    BY DEF Init, ParseInit, StrayInv, StringsKept
  <1>2. ASSUME StrayInv, [Next]_vars
        PROVE  StrayInv'
    <2>1. CASE UNCHANGED parseVars
      BY <1>2, <2>1 DEF parseVars, endVars, StrayInv, StringsKept
    <2>2. ASSUME NEW t, ParseBegin(t)
          PROVE  StrayInv'
      BY <2>2 DEF ParseBegin, StrayInv, StringsKept
    <2>3. CASE Parsing
      <3>1. ParseStep /\ mode # "failed"
        BY <2>3 DEF Parsing, ParseStep, Top, Atom, Zero, Hex, Dec, Quoted, Chr, ChrEnd, Esc,
                    EscHex
      <3>2. stray = FALSE
        BY <1>2, <3>1 DEF StrayInv, StringsKept
      <3> QED
        BY <3>1, <3>2, StepLoses DEF StrayInv
    <2>4. CASE Starts
      BY <2>1, <2>2, <2>4 DEF Starts, CheckAlloc, MakeInit, NoSym
    <2>5. ASSUME NEW t \in CheckTexts, CheckInit(t)
          PROVE  StrayInv'
      BY <2>2, <2>5 DEF CheckInit
    <2>6. CASE Builds
      BY <2>1, <2>6 DEF Builds, BuildExpr, BuildAtom, BuildType, ConversionFails
    <2>7. CASE SecondRefused \/ ParseFailed \/ CheckParsed \/ CheckWild \/ CheckEqual
               \/ CheckUnequal \/ ReportUnequal
      BY <2>1, <2>7 DEF SecondRefused, ParseFailed, CheckParsed, CheckWild, CheckEqual,
                        CheckUnequal, ReportUnequal
    <2>8. CASE MakeParsed \/ WalkNext \/ WalkInto \/ MakeDestroy \/ FromSymFails
      BY <2>1, <2>8 DEF MakeParsed, WalkNext, WalkInto, MakeDestroy, FromSymFails
    <2>9. CASE UNCHANGED vars
      BY <2>1, <2>9 DEF vars
    <2> QED
      BY <1>2, <2>3, <2>4, <2>5, <2>6, <2>7, <2>8, <2>9, Zenon DEF Next
  <1> QED
    BY <1>1, <1>2, PTL DEF Spec

-----------------------------------------------------------------------------
(* The safety properties. *)

\* At every moment the storage, the builders and the walker are well formed:
\* links lead forward to records that exist, no record is reached twice, and
\* no builder or walker refers to a record outside its tree.
THEOREM SymTypeOKThm == Spec => []TypeOK
  <1>1. ASSUME SymInv, StrayInv
        PROVE  TypeOK
    <2>1. LinksForward /\ Len(nodes) <= nodesAlloc /\ Len(actual) <= actualAlloc
      BY <1>1 DEF SymInv, ParserTreeInv, UserTreeInv, TreeOk, LinksForward
    <2>2. stray \in BOOLEAN /\ phase \in Phases /\ owned \subseteq Syms
      BY <1>1 DEF StrayInv, SymInv, OwnerInv, Phases, Syms
    <2>3. /\ mode \in Reading \cup {"idle", "done", "failed"}
          /\ pos \in 0 .. Len(text) + 1
          /\ num \in Nat /\ digits \in 0 .. HexLimit + DecLimit + 4
          /\ within \in {"str", "chr"}
          /\ Len(build_str.data) = build_str.size + 1
      BY <1>1 DEF SymInv, ReaderInv, DigitsOk, StrOk
    <2>4. /\ Len(stk) <= stkAlloc
          /\ \A k \in DOMAIN stk : Within(nodes, stk[k])
          /\ Within(nodes, base)
      BY <1>1, LenProperties DEF SymInv, ParserTreeInv, PlaceOk
    <2>5. \A h \in DOMAIN handles : Within(actual, handles[h])
      BY <1>1, LenProperties DEF SymInv, UserTreeInv
    <2>6. Within(nodes, walk)
      BY <1>1 DEF SymInv, WalkerInv, PlaceOk
    <2>7. /\ reason \in {"NONE", "SYM_SYNTAX", "SYM_INEQUALITY"}
          /\ result \in {"NONE", "PASS", "FAIL", "ERROR", "PASS_NOMEM"}
      BY <1>1 DEF SymInv, OwnerInv
    <2> QED
      BY <2>1, <2>2, <2>3, <2>4, <2>5, <2>6, <2>7 DEF TypeOK
  <1> QED
    BY <1>1, SymInvariance, StrayInvariance, PTL

\* The parser never reads past the one read that found the end of its text:
\* the assertion of mptest__sym_parse_next holds, for every text.
THEOREM NeverReadsPastThm == Spec => []NeverReadsPast
  <1>1. SymInv => NeverReadsPast
    BY DEF SymInv, ReaderInv, NeverReadsPast
  <1> QED
    BY <1>1, SymInvariance, PTL

\* A verdict, or no tree to convert, leaves no sym behind; and no string is lost
\* unless memory runs out in the parser.
THEOREM SymsReleasedThm == Spec => []SymsReleased
  <1>1. SymInv /\ StrayInv => SymsReleased
    BY DEF SymInv, OwnerInv, SymsReleased, Returned, StrayInv
  <1> QED
    BY <1>1, SymInvariance, StrayInvariance, PTL

-----------------------------------------------------------------------------
(* Lists of siblings.  Siblings is a function defined by recursion: it has  *)
(* its equation because links lead forward, so that what the equation says  *)
(* of the last k records never needs the others.                            *)

\* Every non-empty set of natural numbers has a least member.
LEMMA LeastNat ==
    ASSUME NEW T \in SUBSET Nat, T # {}
    PROVE  \E x \in T : \A y \in T : x <= y
  <1> DEFINE R == {ss \in Nat \X Nat : ss[1] < ss[2]}
  <1>1. IsWellFoundedOn(R, Nat)
    BY NatLessThanWellFounded DEF OpToRel
  <1> HIDE DEF R
  <1>2. PICK x \in T : \A y \in T : ~ (<<y, x>> \in R)
    BY <1>1, WFMin, Zenon
  <1>3. ASSUME NEW y \in T, ~ (x <= y)
        PROVE  FALSE
    <2>1. x \in Nat /\ y \in Nat
      OBVIOUS
    <2> DEFINE p == <<y, x>>
    <2>2. p \in Nat \X Nat /\ p[1] = y /\ p[2] = x
      BY <2>1
    <2>3. p[1] < p[2]
      BY <1>3, <2>1, <2>2
    <2>4. p \in R
      BY <2>2, <2>3 DEF R
    <2> QED
      BY <1>2, <2>4
  <1> QED
    BY <1>3

\* The lists of the refs in D, as the equation has them.
Follows(t, D, f) ==
    /\ f \in [D -> Seq(Refs(t))]
    /\ \A r \in D : f[r] = IF r = NoRef THEN <<>> ELSE <<r>> \o f[At(t, r).next]

\* NoRef and the last k refs.
LastRefs(t, k) == {NoRef} \cup (Len(t) - k .. Len(t) - 1)

LEMMA SiblingsStep ==
    ASSUME NEW t \in Seq(Nodes), Linked(t), NEW k \in 0 .. Len(t) - 1,
           NEW f, Follows(t, LastRefs(t, k), f)
    PROVE  \E g : Follows(t, LastRefs(t, k + 1), g)
  <1> DEFINE n == Len(t)
             D == LastRefs(t, k)
             E == LastRefs(t, k + 1)
             new == n - (k + 1)
             S == Seq(Refs(t))
             head == <<new>> \o f[At(t, new).next]
             g == [r \in E |-> IF r = new THEN head ELSE f[r]]
  <1>1. n \in Nat /\ k \in Nat /\ new \in Refs(t) /\ new # NoRef /\ new \notin D
    BY LenProperties DEF Refs, LastRefs, NoRef
  <1>2. E = D \cup {new}
    BY <1>1 DEF LastRefs
  <1>3. \A r \in E : r # NoRef => At(t, r).next \in D
    BY <1>1 DEF Linked, LastRefs, Refs
  <1>4. /\ f \in [D -> S]
        /\ \A r \in D : f[r] = IF r = NoRef THEN <<>> ELSE <<r>> \o f[At(t, r).next]
    BY DEF Follows
  <1>5. head \in S
    <2>1. f[At(t, new).next] \in S /\ <<new>> \in S
      BY <1>1, <1>2, <1>3, <1>4
    <2> QED
      BY <2>1, ConcatProperties
  <1> HIDE DEF D, E, new, head, S
  <1>6. g \in [E -> S]
    BY <1>2, <1>4, <1>5
  <1>7. /\ g[new] = head
        /\ \A r \in D : g[r] = f[r]
    BY <1>1, <1>2
  <1>8. ASSUME NEW r \in E
        PROVE  g[r] = IF r = NoRef THEN <<>> ELSE <<r>> \o g[At(t, r).next]
    <2>1. CASE r = new
      <3>1. g[At(t, new).next] = f[At(t, new).next]
        BY <1>1, <1>3, <1>7, <2>1
      <3> QED
        BY <1>1, <1>7, <2>1, <3>1 DEF head
    <2>2. CASE r \in D
      <3>1. r # NoRef => g[At(t, r).next] = f[At(t, r).next]
        BY <1>3, <1>7
      <3> HIDE DEF g
      <3> QED
        BY <1>4, <1>7, <2>2, <3>1
    <2> QED
      BY <1>2, <2>1, <2>2
  <1> HIDE DEF g
  <1>9. Follows(t, E, g)
    BY <1>6, <1>8, Zenon DEF Follows, S
  <1> QED
    BY <1>9 DEF E

LEMMA SiblingsExist ==
    ASSUME NEW t \in Seq(Nodes), Linked(t)
    PROVE  \E f : Follows(t, Refs(t) \cup {NoRef}, f)
  <1> DEFINE n == Len(t)
             Has(k) == \E f : Follows(t, LastRefs(t, k), f)
             Failing == {k \in 0 .. n : ~Has(k)}
  <1>1. n \in Nat
    BY LenProperties
  <1>2. Has(0)
    <2> DEFINE f == [r \in {NoRef} |-> <<>>]
    <2>1. LastRefs(t, 0) = {NoRef}
      BY <1>1 DEF LastRefs, NoRef
    <2>2. <<>> \in Seq(Refs(t))
      OBVIOUS
    <2>3. f \in [{NoRef} -> Seq(Refs(t))]
      BY <2>2
    <2>4. \A r \in {NoRef} : f[r] = IF r = NoRef THEN <<>> ELSE <<r>> \o f[At(t, r).next]
      OBVIOUS
    <2> HIDE DEF f
    <2>5. Follows(t, {NoRef}, f)
      BY <2>3, <2>4, Zenon DEF Follows
    <2> QED
      BY <2>1, <2>5
  <1>3. \A k \in 0 .. n - 1 : Has(k) => Has(k + 1)
    BY SiblingsStep
  <1> HIDE DEF Has
  <1>4. Failing = {}
    <2> SUFFICES ASSUME Failing # {}
                 PROVE  FALSE
      OBVIOUS
    <2>0. Failing \in SUBSET Nat
      BY <1>1
    <2>1. PICK k \in Failing : \A j \in Failing : k <= j
      <3> HIDE DEF Failing
      <3> QED
        BY <2>0, LeastNat
    <2>2. k # 0 /\ k \in 0 .. n /\ ~Has(k)
      BY <1>2, <2>1
    <2>3. k - 1 \in 0 .. n - 1 /\ k - 1 \notin Failing
      BY <1>1, <2>1, <2>2
    <2>4. Has(k - 1)
      BY <1>1, <2>3
    <2>5. Has((k - 1) + 1) /\ (k - 1) + 1 = k
      BY <1>3, <2>2, <2>3, <2>4
    <2> QED
      BY <2>2, <2>5
  <1>5. n \in 0 .. n
    BY <1>1
  <1>6. Has(n)
    BY <1>4, <1>5
  <1>7. LastRefs(t, n) = Refs(t) \cup {NoRef}
    BY <1>1 DEF LastRefs, Refs
  <1> QED
    BY <1>6, <1>7 DEF Has

\* Along the siblings: the record itself, then those behind it.
LEMMA SiblingsAre ==
    ASSUME NEW t \in Seq(Nodes), Linked(t), NEW r \in Refs(t) \cup {NoRef}
    PROVE  /\ Siblings(t, r) \in Seq(Refs(t))
           /\ Siblings(t, r) = IF r = NoRef THEN <<>> ELSE <<r>> \o Siblings(t, At(t, r).next)
  <1> DEFINE D == Refs(t) \cup {NoRef}
             from == CHOOSE f : f = [q \in D |-> IF q = NoRef THEN <<>>
                                                 ELSE <<q>> \o f[At(t, q).next]]
  <1>1. \A q : Siblings(t, q) = from[q]
    BY DEF Siblings
  <1>2. PICK f : Follows(t, D, f)
    BY SiblingsExist
  <1>3. f = [q \in D |-> IF q = NoRef THEN <<>> ELSE <<q>> \o f[At(t, q).next]]
    <2>1. /\ f = [q \in D |-> f[q]]
          /\ \A q \in D : f[q] = IF q = NoRef THEN <<>> ELSE <<q>> \o f[At(t, q).next]
      BY <1>2 DEF Follows
    <2> HIDE DEF D
    <2> QED
      BY <2>1, Zenon
  <1>4. from = [q \in D |-> IF q = NoRef THEN <<>> ELSE <<q>> \o from[At(t, q).next]]
    BY <1>3, Zenon
  <1> HIDE DEF D, from
  <1>5. \A q \in D : from[q] = IF q = NoRef THEN <<>> ELSE <<q>> \o from[At(t, q).next]
    BY <1>4, Zenon
  <1>6. /\ NoRef \in D /\ NoRef \notin Refs(t) /\ D = Refs(t) \cup {NoRef}
        /\ Refs(t) \subseteq Nat /\ Len(t) \in Nat
        /\ \A q \in Refs(t) : /\ Len(t) - q \in Nat
                              /\ \/ At(t, q).next = NoRef
                                 \/ /\ At(t, q).next \in Refs(t)
                                    /\ Len(t) - At(t, q).next < Len(t) - q
    BY LenProperties DEF Refs, NoRef, Linked, D
  <1>7. \A q \in D : from[q] \in Seq(Refs(t))
    <2> DEFINE Failing == {Len(t) - q : q \in {p \in Refs(t) : from[p] \notin Seq(Refs(t))}}
    <2>1. from[NoRef] \in Seq(Refs(t))
      <3>1. from[NoRef] = <<>>
        BY <1>5, <1>6, Zenon
      <3> QED
        BY <3>1
    <2>2. Failing \in SUBSET Nat
      BY <1>6
    <2>3. ASSUME Failing # {}
          PROVE  FALSE
      <3>1. PICK k \in Failing : \A j \in Failing : k <= j
        <4> HIDE DEF Failing
        <4> QED
          BY <2>2, <2>3, LeastNat
      <3>2. PICK q \in Refs(t) : k = Len(t) - q /\ from[q] \notin Seq(Refs(t))
        BY <3>1
      <3> DEFINE s == At(t, q).next
      <3>3. s = NoRef \/ (s \in Refs(t) /\ Len(t) - s < Len(t) - q)
        BY <1>6
      <3>4. s \in Refs(t) => Len(t) - s \notin Failing
        <4> HIDE DEF Failing
        <4>1. \A j \in Failing : j \in Int /\ k <= j
          BY <2>2, <3>1
        <4> QED
          BY <1>6, <3>2, <3>3, <4>1
      <3>5. from[s] \in Seq(Refs(t))
        BY <2>1, <3>3, <3>4
      <3>6. from[q] = <<q>> \o from[s]
        BY <1>5, <1>6, <3>2
      <3>7. <<q>> \in Seq(Refs(t))
        OBVIOUS
      <3>8. <<q>> \o from[s] \in Seq(Refs(t))
        BY <3>5, <3>7, ConcatProperties
      <3> QED
        BY <3>2, <3>6, <3>8
    <2> QED
      BY <1>6, <2>1, <2>3
  <1>8. r \in D /\ (r # NoRef => At(t, r).next \in D)
    BY <1>6
  <1> QED
    BY <1>1, <1>5, <1>7, <1>8

-----------------------------------------------------------------------------
(* The walker. *)

\* What was returned and what is still to come are the children.
SeenInv ==
    phase = "walk" /\ walk.parent # NoRef =>
       /\ seen \in Seq(Refs(nodes))
       /\ seen \o Siblings(nodes, PeekNext(nodes, walk)) = Kids(nodes, walk.parent)

\* mptest__sym_walk_getnext inside an expression.
LEMMA WalkNextKeepsSeen ==
    ASSUME SymInv, SeenInv, WalkNext
    PROVE  SeenInv'
  <1>1. /\ phase = "walk" /\ phase' = phase /\ nodes' = nodes
        /\ PeekNext(nodes, walk) # NoRef
        /\ walk' = Place(walk.parent, PeekNext(nodes, walk))
        /\ seen' = Append(seen, PeekNext(nodes, walk))
    BY DEF WalkNext, parseVars, treeVars
  <1>2. nodes \in Seq(Nodes) /\ Linked(nodes) /\ PlaceOk(nodes, walk)
    BY DEF SymInv, ParserTreeInv, TreeOk, WalkerInv
  <1>3. walk'.parent = walk.parent /\ walk'.prev = PeekNext(nodes, walk)
    BY <1>1 DEF Place
  <1>4. CASE walk.parent # NoRef
    <2>1. PICK t, s, q : t = nodes /\ s = seen /\ q = PeekNext(nodes, walk)
      OBVIOUS
    <2>2. PICK kids : kids = Kids(nodes, walk.parent)
      OBVIOUS
    <2>3. q \in Refs(t) \cup {NoRef} /\ q # NoRef /\ t \in Seq(Nodes) /\ Linked(t)
      BY <1>1, <1>2, <2>1, PeekNextRange
    <2>4. s \in Seq(Refs(t)) /\ s \o Siblings(t, q) = kids
      BY <1>1, <1>4, <2>1, <2>2 DEF SeenInv
    <2>5. At(t, q).next \in Refs(t) \cup {NoRef}
      BY <2>3, LenProperties DEF Linked, Refs
    <2> DEFINE rest == Siblings(t, At(t, q).next)
    <2>6. rest \in Seq(Refs(t)) /\ Siblings(t, q) = <<q>> \o rest
      BY <2>3, <2>5, SiblingsAre
    <2>7. <<q>> \in Seq(Refs(t))
      BY <2>3
    <2> HIDE DEF rest
    <2>8. (s \o <<q>>) \o rest = kids
      <3>1. (s \o <<q>>) \o rest = s \o (<<q>> \o rest)
        BY <2>4, <2>6, <2>7, ConcatAssociative
      <3> QED
        BY <2>4, <2>6, <3>1, Zenon
    <2>9. Append(s, q) = s \o <<q>> /\ Append(s, q) \in Seq(Refs(t))
      BY <2>3, <2>4, AppendIsConcat, AppendProperties
    <2>10. PeekNext(nodes', walk') = At(t, q).next
      BY <1>1, <1>3, <1>4, <2>1, <2>3 DEF PeekNext
    <2>11. seen' = Append(s, q) /\ kids = Kids(nodes', walk'.parent) /\ nodes' = t
      BY <1>1, <1>3, <2>1, <2>2
    <2> QED
      BY <2>8, <2>9, <2>10, <2>11 DEF SeenInv, rest
  <1> QED
    BY <1>3, <1>4 DEF SeenInv

\* mptest_sym_walk_getexpr: all the children are still to come.
LEMMA WalkIntoKeepsSeen ==
    ASSUME SymInv, WalkInto
    PROVE  SeenInv'
  <1>1. /\ nodes' = nodes /\ PeekNext(nodes, walk) # NoRef /\ seen' = <<>>
        /\ walk' = Place(PeekNext(nodes, walk), NoRef)
    BY DEF WalkInto, PeekIs, parseVars, treeVars
  <1>2. nodes \in Seq(Nodes) /\ Linked(nodes) /\ PlaceOk(nodes, walk)
    BY DEF SymInv, ParserTreeInv, TreeOk, WalkerInv
  <1>3. PICK t, q : t = nodes /\ q = PeekNext(nodes, walk)
    OBVIOUS
  <1>4. q \in Refs(t) /\ t \in Seq(Nodes) /\ Linked(t)
    BY <1>1, <1>2, <1>3, PeekNextRange
  <1>5. At(t, q).first \in Refs(t) \cup {NoRef}
    BY <1>4, LenProperties DEF Linked, Refs
  <1>6. Siblings(t, At(t, q).first) \in Seq(Refs(t))
    BY <1>4, <1>5, SiblingsAre
  <1>7. <<>> \o Siblings(t, At(t, q).first) = Kids(t, q)
    BY <1>6, ConcatEmptySeq DEF Kids
  <1>8. walk'.parent = q /\ PeekNext(nodes', walk') = At(t, q).first /\ nodes' = t
    BY <1>1, <1>3 DEF PeekNext, Place
  <1>9. seen' \in Seq(Refs(t))
    BY <1>1
  <1> QED
    BY <1>1, <1>7, <1>8, <1>9 DEF SeenInv

LEMMA SeenStep ==
    ASSUME SymInv, SeenInv, [Next]_vars
    PROVE  SeenInv'
  <1>1. CASE WalkNext
    BY <1>1, WalkNextKeepsSeen
  <1>2. CASE WalkInto
    BY <1>2, WalkIntoKeepsSeen
  <1>3. CASE MakeParsed
    BY <1>3 DEF MakeParsed, SeenInv, TopPlace, Place
  <1>4. CASE UNCHANGED vars
    BY <1>4 DEF vars, parseVars, treeVars, walkVars, SeenInv
  <1>5. ASSUME phase' # "walk"
        PROVE  SeenInv'
    BY <1>5 DEF SeenInv
  <1>6. CASE result = "NONE" /\ Starts
    BY <1>5, <1>6 DEF Starts, CheckAlloc, MakeInit, NoSym
  <1>7. CASE Parsing \/ ParseFailed \/ CheckParsed
    BY <1>5, <1>7 DEF Parsing, ParseFailed, CheckParsed
  <1>8. CASE Builds
    BY <1>5, <1>8 DEF Builds, BuildExpr, BuildAtom, BuildType, ConversionFails
  <1>9. CASE \/ CheckWild \/ CheckEqual \/ CheckUnequal \/ ReportUnequal
             \/ MakeDestroy \/ FromSymFails
    BY <1>5, <1>9 DEF CheckWild, CheckEqual, CheckUnequal, ReportUnequal, MakeDestroy,
                      FromSymFails
  <1>10. CASE (\E t \in CheckTexts : CheckInit(t)) \/ SecondRefused
    BY <1>5, <1>10 DEF CheckInit, SecondRefused
  <1> QED
    BY <1>1, <1>2, <1>3, <1>4, <1>6, <1>7, <1>8, <1>9, <1>10, Zenon DEF Next

LEMMA PrefixOfConcat ==
    ASSUME NEW S, NEW s \in Seq(S), NEW t \in Seq(S)
    PROVE  IsPrefix(s, s \o t)
  <1> DEFINE u == s \o t
             n == Len(s)
  <1>1. /\ u \in Seq(S) /\ Len(u) = n + Len(t)
        /\ \A i \in 1 .. n : u[i] = s[i]
        /\ n \in Nat /\ Len(t) \in Nat
    BY ConcatProperties, LenProperties
  <1> HIDE DEF u
  <1>2. \A i \in 1 .. n : s[i] \in S /\ u[i] \in S
    BY <1>1
  <1>3. /\ SubSeq(s, 1, n) \in Seq(S) /\ Len(SubSeq(s, 1, n)) = n
        /\ \A i \in 1 .. n : SubSeq(s, 1, n)[i] = s[i]
    BY <1>1, <1>2, SubSeqProperties
  <1>4. /\ SubSeq(u, 1, n) \in Seq(S) /\ Len(SubSeq(u, 1, n)) = n
        /\ \A i \in 1 .. n : SubSeq(u, 1, n)[i] = u[i]
    BY <1>1, <1>2, SubSeqProperties
  <1>5. SubSeq(s, 1, n) = SubSeq(u, 1, n)
    BY <1>1, <1>3, <1>4, SeqEqual
  <1> QED
    BY <1>1, <1>5 DEF IsPrefix, u

\* Inside an expression a walker returns the children in their order, each
\* once, and hasmore is true exactly until the last was returned.
THEOREM WalkVisitsKidsThm == Spec => []WalkVisitsKids
  <1>1. Init => SeenInv
    BY DEF Init, SeenInv
  <1>2. ASSUME SymInv, SeenInv
        PROVE  WalkVisitsKids
    <2> SUFFICES ASSUME phase = "walk", walk.parent # NoRef
                 PROVE  /\ IsPrefix(seen, Kids(nodes, walk.parent))
                        /\ HasMore(nodes, walk) <=> seen # Kids(nodes, walk.parent)
      BY DEF WalkVisitsKids
    <2> DEFINE kids == Kids(nodes, walk.parent)
               q == PeekNext(nodes, walk)
               rest == Siblings(nodes, q)
    <2>1. nodes \in Seq(Nodes) /\ Linked(nodes) /\ PlaceOk(nodes, walk)
      BY <1>2 DEF SymInv, ParserTreeInv, TreeOk, WalkerInv
    <2>2. q \in Refs(nodes) \cup {NoRef}
      BY <2>1, PeekNextRange
    <2>3. seen \in Seq(Refs(nodes)) /\ seen \o rest = kids
      BY <1>2 DEF SeenInv
    <2>4. /\ rest \in Seq(Refs(nodes))
          /\ rest = IF q = NoRef THEN <<>>
                    ELSE <<q>> \o Siblings(nodes, At(nodes, q).next)
      BY <2>1, <2>2, SiblingsAre
    <2>5. rest = <<>> <=> q = NoRef
      <3>1. CASE q = NoRef
        BY <2>4, <3>1
      <3>2. CASE q # NoRef
        <4>1. At(nodes, q).next \in Refs(nodes) \cup {NoRef}
          BY <2>1, <2>2, <3>2, LenProperties DEF Linked, Refs
        <4>2. Siblings(nodes, At(nodes, q).next) \in Seq(Refs(nodes))
          BY <2>1, <4>1, SiblingsAre
        <4>3. <<q>> \in Seq(Refs(nodes)) /\ <<q>> # <<>>
          BY <2>2, <3>2
        <4> QED
          BY <2>4, <3>2, <4>2, <4>3, ConcatEqualIffEmpty
      <3> QED
        BY <3>1, <3>2
    <2>6. HasMore(nodes, walk) <=> q # NoRef
      BY DEF HasMore, PeekNext
    <2> HIDE DEF rest, q
    <2>7. HasMore(nodes, walk) <=> seen # kids
      <3> HIDE DEF kids
      <3>1. kids = seen <=> rest = <<>>
        <4>1. seen \o rest = seen <=> rest = <<>>
          BY <2>3, <2>4, ConcatEqualIffEmpty
        <4> QED
          BY <2>3, <4>1, Zenon
      <3> QED
        BY <2>5, <2>6, <3>1, Zenon
    <2>8. IsPrefix(seen, kids)
      BY <2>3, <2>4, PrefixOfConcat
    <2> QED
      BY <2>7, <2>8
  <1> QED
    BY <1>1, <1>2, SymInvariance, SeenStep, PTL DEF Spec

-----------------------------------------------------------------------------
(* The tree the builders add to. *)

\* A builder that is inside an expression stands behind its last child.
EndOf(t, b) ==
    b.parent # NoRef =>
       IF b.prev = NoRef THEN Kids(t, b.parent) = <<>>
       ELSE Kids(t, b.parent) # <<>> /\ Last(Kids(t, b.parent)) = b.prev

\* No record is the last child of two.
OwnLasts(t) ==
    \A p, q \in Refs(t) :
       p # q /\ Kids(t, p) # <<>> /\ Kids(t, q) # <<>>
       => Last(Kids(t, p)) # Last(Kids(t, q))

\* The program never holds two builders for one expression: each knows the last
\* child, and would not see what another has added.
OneBuilderEach ==
    \A h, g \in 1 .. Len(handles) :
       h # g /\ handles[h].parent = handles[g].parent => handles[h].parent = NoRef

BuildersInv ==
    /\ OwnLasts(actual)
    /\ \A h \in 1 .. Len(handles) : EndOf(actual, handles[h])
    /\ OneBuilderEach

\* Links lead forward: a set of refs that has a record whenever it has the one
\* behind it has them all.
LEMMA FromTheLast ==
    ASSUME NEW t \in Seq(Nodes), Linked(t), NEW T \in SUBSET Refs(t),
           \A r \in Refs(t) : (At(t, r).next = NoRef \/ At(t, r).next \in T) => r \in T
    PROVE  T = Refs(t)
  <1> DEFINE Missing == {Len(t) - q : q \in Refs(t) \ T}
  <1>1. /\ Refs(t) \subseteq Nat /\ Len(t) \in Nat
        /\ \A q \in Refs(t) : /\ Len(t) - q \in Nat
                              /\ \/ At(t, q).next = NoRef
                                 \/ /\ At(t, q).next \in Refs(t)
                                    /\ Len(t) - At(t, q).next < Len(t) - q
    BY LenProperties DEF Refs, NoRef, Linked
  <1>2. Missing \in SUBSET Nat
    BY <1>1
  <1>3. ASSUME Missing # {}
        PROVE  FALSE
    <2>1. PICK k \in Missing : \A j \in Missing : k <= j
      <3> HIDE DEF Missing
      <3> QED
        BY <1>2, <1>3, LeastNat
    <2>2. PICK q \in Refs(t) : k = Len(t) - q /\ q \notin T
      BY <2>1
    <2> DEFINE s == At(t, q).next
    <2>3. s = NoRef \/ (s \in Refs(t) /\ Len(t) - s < Len(t) - q)
      BY <1>1
    <2>4. s \in Refs(t) => Len(t) - s \notin Missing
      <3> HIDE DEF Missing
      <3>1. \A j \in Missing : j \in Int /\ k <= j
        BY <1>2, <2>1
      <3> QED
        BY <1>1, <2>2, <2>3, <3>1
    <2> QED
      BY <2>2, <2>3, <2>4
  <1> QED
    BY <1>3

\* What one equation of Siblings says, without the case.
LEMMA SiblingsFrom ==
    ASSUME NEW t \in Seq(Nodes), Linked(t)
    PROVE  /\ Siblings(t, NoRef) = <<>>
           /\ \A r \in Refs(t) :
                 /\ r # NoRef /\ Siblings(t, r) \in Seq(Refs(t))
                 /\ At(t, r).next \in Refs(t) \cup {NoRef}
                 /\ At(t, r).first \in Refs(t) \cup {NoRef}
                 /\ At(t, r).next = NoRef => Siblings(t, r) = <<r>>
                 /\ Siblings(t, At(t, r).next) \in Seq(Refs(t))
                 /\ Siblings(t, r) = <<r>> \o Siblings(t, At(t, r).next)
  <1>1. Siblings(t, NoRef) = <<>>
    BY SiblingsAre
  <1>2. ASSUME NEW r \in Refs(t)
        PROVE  /\ r # NoRef /\ Siblings(t, r) \in Seq(Refs(t))
               /\ At(t, r).next \in Refs(t) \cup {NoRef}
               /\ At(t, r).first \in Refs(t) \cup {NoRef}
               /\ At(t, r).next = NoRef => Siblings(t, r) = <<r>>
               /\ Siblings(t, At(t, r).next) \in Seq(Refs(t))
               /\ Siblings(t, r) = <<r>> \o Siblings(t, At(t, r).next)
    <2>1. r # NoRef /\ At(t, r).next \in Refs(t) \cup {NoRef}
          /\ At(t, r).first \in Refs(t) \cup {NoRef}
      BY LenProperties DEF Refs, NoRef, Linked
    <2>2. /\ Siblings(t, r) \in Seq(Refs(t)) /\ Siblings(t, At(t, r).next) \in Seq(Refs(t))
          /\ Siblings(t, r) = <<r>> \o Siblings(t, At(t, r).next)
      BY <2>1, SiblingsAre
    <2>3. At(t, r).next = NoRef => Siblings(t, r) = <<r>>
      <3>1. <<r>> \in Seq(Refs(t)) /\ <<r>> \o <<>> = <<r>>
        BY ConcatEmptySeq
      <3> QED
        BY <1>1, <2>2, <3>1
    <2> QED
      BY <2>1, <2>2, <2>3
  <1> QED
    BY <1>1, <1>2

LEMMA LastOfConcat ==
    ASSUME NEW S, NEW s \in Seq(S), NEW t \in Seq(S), t # <<>>
    PROVE  s \o t # <<>> /\ Last(s \o t) = Last(t)
  <1>1. Len(s) \in Nat /\ Len(t) \in Nat /\ Len(t) # 0
    BY LenProperties, EmptySeq
  <1>2. /\ s \o t \in Seq(S) /\ Len(s \o t) = Len(s) + Len(t)
        /\ \A i \in 1 .. Len(s) + Len(t) :
              (s \o t)[i] = IF i <= Len(s) THEN s[i] ELSE t[i - Len(s)]
    BY ConcatProperties
  <1>3. (s \o t)[Len(s) + Len(t)] = t[Len(t)]
    BY <1>1, <1>2
  <1>4. s \o t # <<>>
    BY <1>1, <1>2, EmptySeq
  <1> QED
    BY <1>2, <1>3, <1>4 DEF Last

LEMMA LastOfAppend ==
    ASSUME NEW S, NEW s \in Seq(S), NEW e \in S
    PROVE  Append(s, e) \in Seq(S) /\ Append(s, e) # <<>> /\ Last(Append(s, e)) = e
  <1>1. /\ Append(s, e) \in Seq(S) /\ Len(Append(s, e)) = Len(s) + 1
        /\ Append(s, e)[Len(s) + 1] = e /\ Len(s) \in Nat
    BY AppendProperties, LenProperties
  <1> QED
    BY <1>1, EmptySeq DEF Last

\* The last of a list of siblings has nobody behind it.
LEMMA SiblingsEnd ==
    ASSUME NEW t \in Seq(Nodes), Linked(t), NEW r \in Refs(t)
    PROVE  /\ Siblings(t, r) # <<>> /\ Last(Siblings(t, r)) \in Refs(t)
           /\ At(t, Last(Siblings(t, r))).next = NoRef
  <1> DEFINE Ends(q) == /\ Siblings(t, q) # <<>> /\ Last(Siblings(t, q)) \in Refs(t)
                        /\ At(t, Last(Siblings(t, q))).next = NoRef
             T == {q \in Refs(t) : Ends(q)}
  <1>1. ASSUME NEW q \in Refs(t), At(t, q).next = NoRef \/ At(t, q).next \in T
        PROVE  Ends(q)
    <2>1. CASE At(t, q).next = NoRef
      <3>1. Siblings(t, q) = <<q>>
        BY <2>1, SiblingsFrom
      <3>2. <<q>> # <<>> /\ Last(<<q>>) = q
        BY DEF Last
      <3> QED
        BY <2>1, <3>1, <3>2
    <2>2. CASE At(t, q).next \in T
      <3>1. PICK rest \in Seq(Refs(t)) : rest = Siblings(t, At(t, q).next)
        BY SiblingsFrom
      <3>2. /\ rest # <<>> /\ Last(rest) \in Refs(t) /\ At(t, Last(rest)).next = NoRef
            /\ Siblings(t, q) = <<q>> \o rest
        BY <2>2, <3>1, SiblingsFrom
      <3>3. <<q>> \in Seq(Refs(t))
        OBVIOUS
      <3>4. <<q>> \o rest # <<>> /\ Last(<<q>> \o rest) = Last(rest)
        BY <3>2, <3>3, LastOfConcat
      <3> QED
        BY <3>2, <3>4
    <2> QED
      BY <1>1, <2>1, <2>2
  <1> HIDE DEF Ends
  <1>2. T = Refs(t)
    <2>1. /\ T \in SUBSET Refs(t)
          /\ \A q \in Refs(t) : (At(t, q).next = NoRef \/ At(t, q).next \in T) => q \in T
      BY <1>1
    <2> HIDE DEF T
    <2> QED
      BY <2>1, FromTheLast
  <1>3. Ends(r)
    BY <1>2
  <1> QED
    BY <1>3 DEF Ends

\* Every list that ended at the builder's last child goes on to the new record,
\* and no other list changes.
LEMMA SiblingsGrown ==
    ASSUME NEW t \in Seq(Nodes), Linked(t), NEW u \in Seq(Nodes), Linked(u),
           Len(u) = Len(t) + 1, At(u, Len(t)).next = NoRef,
           NEW prev, prev \in Refs(t) => At(t, prev).next = NoRef,
           \A q \in Refs(t) : At(u, q).next = IF q = prev THEN Len(t) ELSE At(t, q).next,
           NEW r \in Refs(t)
    PROVE  Siblings(u, r) = IF Last(Siblings(t, r)) = prev
                            THEN Append(Siblings(t, r), Len(t)) ELSE Siblings(t, r)
  <1> DEFINE n == Len(t)
             Grown(q) == Siblings(u, q) = IF Last(Siblings(t, q)) = prev
                                          THEN Append(Siblings(t, q), n) ELSE Siblings(t, q)
             T == {q \in Refs(t) : Grown(q)}
  <1>1. n \in Refs(u) /\ Refs(t) \subseteq Refs(u)
    BY LenProperties DEF Refs
  <1>2. Siblings(u, n) = <<n>>
    BY <1>1, SiblingsFrom
  <1>3. ASSUME NEW q \in Refs(t), At(t, q).next = NoRef \/ At(t, q).next \in T
        PROVE  Grown(q)
    <2>0. q \in Refs(u) /\ <<q>> \in Seq(Refs(u)) /\ <<q>> \in Seq(Refs(t))
          /\ Siblings(u, q) = <<q>> \o Siblings(u, At(u, q).next)
      BY <1>1, SiblingsFrom
    <2>1. CASE At(t, q).next = NoRef
      <3>1. Siblings(t, q) = <<q>> /\ Last(<<q>>) = q
        BY <2>1, SiblingsFrom DEF Last
      <3>2. CASE q = prev
        <4>1. Siblings(u, q) = <<q>> \o <<n>>
          BY <1>2, <2>0, <3>2
        <4>2. <<q>> \o <<n>> = Append(<<q>>, n)
          OBVIOUS
        <4> QED
          BY <3>1, <3>2, <4>1, <4>2
      <3>3. CASE q # prev
        <4>1. At(u, q).next = NoRef
          BY <2>1, <3>3
        <4>2. Siblings(u, q) = <<q>>
          BY <2>0, <4>1, SiblingsFrom
        <4> QED
          BY <3>1, <3>3, <4>2
      <3> QED
        BY <3>2, <3>3
    <2>2. CASE At(t, q).next \in T
      <3>1. PICK s \in Refs(t) : s = At(t, q).next /\ Grown(s)
        BY <2>2
      <3>2. s # NoRef /\ q # prev
        BY <3>1, SiblingsFrom
      <3>3. At(u, q).next = s
        BY <3>1, <3>2
      <3>4. PICK rest \in Seq(Refs(t)) : rest = Siblings(t, s)
        BY SiblingsFrom
      <3>5. rest # <<>>
        BY <3>4, SiblingsEnd
      <3>6. Siblings(t, q) = <<q>> \o rest /\ Last(Siblings(t, q)) = Last(rest)
        <4>1. Siblings(t, q) = <<q>> \o rest
          BY <3>1, <3>4, SiblingsFrom
        <4>2. Last(<<q>> \o rest) = Last(rest)
          BY <2>0, <3>5, LastOfConcat
        <4> QED
          BY <4>1, <4>2
      <3>7. Siblings(u, q) = <<q>> \o Siblings(u, s)
        BY <2>0, <3>3
      <3>8. CASE Last(rest) = prev
        <4>1. Siblings(u, s) = Append(rest, n)
          BY <3>1, <3>4, <3>8
        <4>2. <<q>> \o Append(rest, n) = Append(<<q>> \o rest, n)
          <5>1. <<q>> \in Seq(Refs(u)) /\ rest \in Seq(Refs(u)) /\ <<n>> \in Seq(Refs(u))
            BY <1>1, <2>0, SeqMonotonic
          <5>2. Append(rest, n) = rest \o <<n>>
            BY <1>1, <5>1, AppendIsConcat
          <5>3. <<q>> \o rest \in Seq(Refs(u))
            BY <5>1, ConcatProperties
          <5>4. Append(<<q>> \o rest, n) = (<<q>> \o rest) \o <<n>>
            BY <1>1, <5>3, AppendIsConcat
          <5>5. (<<q>> \o rest) \o <<n>> = <<q>> \o (rest \o <<n>>)
            BY <5>1, ConcatAssociative
          <5> QED
            BY <5>2, <5>4, <5>5, Zenon
        <4> QED
          BY <3>6, <3>7, <3>8, <4>1, <4>2, Zenon
      <3>9. CASE Last(rest) # prev
        <4>1. Siblings(u, s) = rest
          BY <3>1, <3>4, <3>9
        <4> QED
          BY <3>6, <3>7, <3>9, <4>1, Zenon
      <3> QED
        BY <3>8, <3>9
    <2> QED
      BY <1>3, <2>1, <2>2
  <1> HIDE DEF Grown
  <1>4. T = Refs(t)
    BY <1>3, FromTheLast
  <1>5. Grown(r)
    BY <1>4
  <1> QED
    BY <1>5 DEF Grown

\* The children of an expression are a list of siblings, or there are none.
LEMMA KidsAre ==
    ASSUME NEW t \in Seq(Nodes), Linked(t), NEW p \in Refs(t)
    PROVE  /\ Kids(t, p) \in Seq(Refs(t))
           /\ At(t, p).first \in Refs(t) \cup {NoRef}
           /\ At(t, p).first = NoRef <=> Kids(t, p) = <<>>
           /\ Kids(t, p) # <<>> => /\ Last(Kids(t, p)) \in Refs(t)
                                   /\ At(t, Last(Kids(t, p))).next = NoRef
  <1>1. At(t, p).first \in Refs(t) \cup {NoRef} /\ Kids(t, p) = Siblings(t, At(t, p).first)
    BY SiblingsFrom DEF Kids
  <1>2. CASE At(t, p).first = NoRef
    <2>1. Kids(t, p) = <<>>
      BY <1>1, <1>2, SiblingsFrom
    <2>2. <<>> \in Seq(Refs(t))
      OBVIOUS
    <2> QED
      BY <1>1, <1>2, <2>1, <2>2
  <1>3. CASE At(t, p).first # NoRef
    <2>1. PICK f \in Refs(t) : f = At(t, p).first
      BY <1>1, <1>3
    <2>2. /\ Siblings(t, f) \in Seq(Refs(t)) /\ Siblings(t, f) # <<>>
          /\ Last(Siblings(t, f)) \in Refs(t) /\ At(t, Last(Siblings(t, f))).next = NoRef
      BY SiblingsFrom, SiblingsEnd
    <2> QED
      BY <1>1, <1>3, <2>1, <2>2
  <1> QED
    BY <1>2, <1>3

\* mptest__sym_new: the children of the builder's expression are one more, the
\* new one at the end, and all others are as they were.
LEMMA KidsGrown ==
    ASSUME NEW t, NEW alloc, TreeOk(t, alloc), OwnLasts(t),
           NEW b, PlaceOk(t, b), EndOf(t, b), NEW tok \in Tokens
    PROVE  LET u == SymNew(t, b, tok)
           IN /\ \A p \in Refs(t) : Kids(u, p) = IF p = b.parent THEN Append(Kids(t, p), Len(t))
                                                 ELSE Kids(t, p)
              /\ Kids(u, Len(t)) = <<>>
  <1> DEFINE n == Len(t)
             u == SymNew(t, b, tok)
             prev == IF b.parent = NoRef THEN NoRef ELSE b.prev
  <1>1. t \in Seq(Nodes) /\ Linked(t) /\ n \in Nat /\ b \in Places /\ Within(t, b)
    BY LenProperties DEF TreeOk, PlaceOk
  <1>2. /\ u \in Seq(Nodes) /\ Len(u) = n + 1
        /\ At(u, n) = Record(tok)
        /\ \A r \in Refs(t) :
              /\ At(u, r).first = IF r = b.parent /\ b.prev = NoRef THEN n
                                  ELSE At(t, r).first
              /\ At(u, r).next = IF b.parent # NoRef /\ r = b.prev THEN n
                                 ELSE At(t, r).next
    BY <1>1, SymNewIs
  <1>3. Linked(u)
    BY SymNewOk DEF TreeOk
  <1>4. /\ n \in Refs(u) /\ n # NoRef /\ n \notin Refs(t) /\ Refs(t) \subseteq Refs(u)
        /\ NoRef \notin Refs(t)
    BY <1>1, <1>2 DEF Refs, NoRef
  <1>5. b.parent \in Refs(t) \cup {NoRef} /\ b.prev \in Refs(t) \cup {NoRef}
    BY <1>1 DEF Within
  <1>6. At(u, n).first = NoRef /\ At(u, n).next = NoRef
    BY <1>2 DEF Record
  <1> HIDE DEF u
  <1>7. Kids(u, n) = <<>>
    BY <1>2, <1>3, <1>4, <1>6, KidsAre
  <1>8. prev \in Refs(t) => /\ prev = b.prev /\ b.parent \in Refs(t)
                            /\ Kids(t, b.parent) # <<>>
                            /\ Last(Kids(t, b.parent)) = prev
    BY <1>4, <1>5 DEF EndOf
  <1>9. prev \in Refs(t) => At(t, prev).next = NoRef
    BY <1>1, <1>8, KidsAre
  <1>10. \A q \in Refs(t) : At(u, q).next = IF q = prev THEN n ELSE At(t, q).next
    BY <1>2, <1>4
  <1>11. \A r \in Refs(t) : Siblings(u, r) = IF Last(Siblings(t, r)) = prev
                                             THEN Append(Siblings(t, r), n)
                                             ELSE Siblings(t, r)
    <2> HIDE DEF prev
    <2> QED
      BY <1>1, <1>2, <1>3, <1>6, <1>9, <1>10, SiblingsGrown
  <1>12. Siblings(u, n) = <<n>>
    BY <1>2, <1>3, <1>4, <1>6, SiblingsFrom
  <1>13. ASSUME NEW p \in Refs(t)
         PROVE  Kids(u, p) = IF p = b.parent THEN Append(Kids(t, p), n) ELSE Kids(t, p)
    <2>1. /\ Kids(u, p) = Siblings(u, At(u, p).first)
          /\ Kids(t, p) = Siblings(t, At(t, p).first)
          /\ At(t, p).first \in Refs(t) \cup {NoRef}
          /\ Siblings(u, NoRef) = <<>>
      BY <1>1, <1>2, <1>3, <1>4, SiblingsFrom DEF Kids
    <2>2. CASE p = b.parent /\ b.prev = NoRef
      <3>1. Kids(t, p) = <<>> /\ At(u, p).first = n
        BY <1>2, <1>4, <2>2 DEF EndOf
      <3>2. Append(<<>>, n) = <<n>>
        OBVIOUS
      <3> QED
        BY <1>12, <2>1, <2>2, <3>1, <3>2
    <2>3. CASE p = b.parent /\ b.prev # NoRef
      <3>1. Kids(t, p) # <<>> /\ Last(Kids(t, p)) = b.prev /\ prev = b.prev
        BY <1>4, <2>3 DEF EndOf
      <3>2. At(t, p).first \in Refs(t) /\ At(u, p).first = At(t, p).first
        BY <1>1, <1>2, <2>1, <2>3, <3>1, KidsAre
      <3> QED
        BY <1>11, <2>1, <2>3, <3>1, <3>2
    <2>4. CASE p # b.parent
      <3>1. At(u, p).first = At(t, p).first
        BY <1>2, <2>4
      <3>2. CASE At(t, p).first = NoRef
        BY <1>1, <2>1, <2>4, <3>1, <3>2, KidsAre
      <3>3. CASE At(t, p).first # NoRef
        <4>1. Kids(t, p) # <<>> /\ Last(Kids(t, p)) \in Refs(t)
          BY <1>1, <3>3, KidsAre
        <4>2. Last(Kids(t, p)) # prev
          BY <1>8, <2>4, <4>1 DEF OwnLasts
        <4> QED
          BY <1>11, <2>1, <2>4, <3>1, <3>3, <4>2
      <3> QED
        BY <3>2, <3>3
    <2> QED
      BY <2>2, <2>3, <2>4
  <1> QED
    BY <1>7, <1>13, Zenon DEF u, n

\* So the new record is the last child of one, and the builders, as they are
\* moved, stand behind the last children.
LEMMA BuildersMoveOn ==
    ASSUME NEW t, NEW alloc, TreeOk(t, alloc), OwnLasts(t),
           NEW b, PlaceOk(t, b), EndOf(t, b), NEW tok \in Tokens
    PROVE  LET u == SymNew(t, b, tok)
           IN /\ OwnLasts(u)
              /\ EndOf(u, Advanced(t, b)) /\ EndOf(u, Inside(t))
              /\ \A c : /\ Within(t, c) /\ EndOf(t, c)
                        /\ c.parent = b.parent => c.parent = NoRef
                        => EndOf(u, c)
  <1> DEFINE n == Len(t)
             u == SymNew(t, b, tok)
  <1>1. /\ \A p \in Refs(t) : Kids(u, p) = IF p = b.parent THEN Append(Kids(t, p), n)
                                           ELSE Kids(t, p)
        /\ Kids(u, n) = <<>>
    BY KidsGrown
  <1>2. t \in Seq(Nodes) /\ Linked(t) /\ n \in Nat /\ b \in Places /\ Within(t, b)
        /\ Len(u) = n + 1
    BY SymNewOk, LenProperties DEF TreeOk, PlaceOk
  <1>3. /\ n # NoRef /\ n \notin Refs(t) /\ NoRef \notin Refs(t)
        /\ \A r \in Refs(u) : r = n \/ r \in Refs(t)
    BY <1>2 DEF Refs, NoRef
  <1> HIDE DEF u
  <1>4. ASSUME NEW p \in Refs(t)
        PROVE  /\ p = b.parent => Kids(u, p) # <<>> /\ Last(Kids(u, p)) = n
               /\ p # b.parent => /\ Kids(u, p) = Kids(t, p)
                                  /\ Kids(u, p) # <<>> => Last(Kids(u, p)) # n
    <2>1. CASE p = b.parent
      <3>1. Kids(t, p) \in Seq(Int) /\ n \in Int
        <4>1. Refs(t) \subseteq Int
          BY <1>2 DEF Refs
        <4> QED
          BY <1>2, <4>1, KidsAre, SeqMonotonic
      <3>2. Append(Kids(t, p), n) # <<>> /\ Last(Append(Kids(t, p), n)) = n
        BY <3>1, LastOfAppend
      <3>3. Kids(u, p) = Append(Kids(t, p), n)
        BY <1>1, <2>1
      <3> QED
        BY <2>1, <3>2, <3>3
    <2>2. CASE p # b.parent
      BY <1>1, <1>2, <1>3, <2>2, KidsAre
    <2> QED
      BY <2>1, <2>2
  <1>5. OwnLasts(u)
    <2> SUFFICES ASSUME NEW p \in Refs(u), NEW q \in Refs(u), p # q,
                        Kids(u, p) # <<>>, Kids(u, q) # <<>>
                 PROVE  Last(Kids(u, p)) # Last(Kids(u, q))
      BY DEF OwnLasts
    <2>1. p \in Refs(t) /\ q \in Refs(t)
      BY <1>1, <1>3
    <2>2. CASE p # b.parent /\ q # b.parent
      BY <1>4, <2>1, <2>2 DEF OwnLasts
    <2>3. CASE p = b.parent \/ q = b.parent
      BY <1>4, <2>1, <2>3
    <2> QED
      BY <2>2, <2>3
  <1>6. Advanced(t, b).parent = b.parent /\ Advanced(t, b).prev = n
        /\ Inside(t).parent = n /\ Inside(t).prev = NoRef
    BY DEF Advanced, Inside, Place
  <1>7. EndOf(u, Advanced(t, b))
    <2>1. b.parent \in Refs(t) \cup {NoRef}
      BY <1>2 DEF Within
    <2> QED
      BY <1>3, <1>4, <1>6, <2>1 DEF EndOf
  <1>8. EndOf(u, Inside(t))
    BY <1>1, <1>6 DEF EndOf
  <1>9. ASSUME NEW c, Within(t, c), EndOf(t, c), c.parent = b.parent => c.parent = NoRef
        PROVE  EndOf(u, c)
    <2>1. c.parent \in Refs(t) \cup {NoRef}
      BY <1>9 DEF Within
    <2> QED
      BY <1>4, <1>9, <2>1 DEF EndOf
  <1> QED
    BY <1>5, <1>7, <1>8, <1>9, Zenon DEF u

\* The children of OrderedTree count from 1.
Raised(s) == [i \in DOMAIN s |-> s[i] + 1]

LEMMA RaisedIsSeq ==
    ASSUME NEW s \in Seq(Int)
    PROVE  Raised(s) \in Seq(Int)
  <1>1. Len(s) \in Nat /\ Raised(s) \in [1 .. Len(s) -> Int]
    BY LenProperties DEF Raised
  <1> HIDE DEF Raised
  <1> QED
    BY <1>1, SeqDef

LEMMA RaisedAppend ==
    ASSUME NEW s \in Seq(Int), NEW n \in Int
    PROVE  Raised(Append(s, n)) = Append(Raised(s), n + 1)
  <1> DEFINE a == Append(s, n)
             r == Raised(s)
  <1>1. /\ a \in Seq(Int) /\ Len(a) = Len(s) + 1 /\ a[Len(s) + 1] = n
        /\ \A i \in 1 .. Len(s) : a[i] = s[i]
        /\ Len(s) \in Nat
    BY AppendProperties, LenProperties
  <1>2. r \in Seq(Int) /\ DOMAIN r = 1 .. Len(s) /\ \A i \in 1 .. Len(s) : r[i] = s[i] + 1
    BY RaisedIsSeq, LenProperties DEF Raised
  <1>3. Len(r) = Len(s)
    BY <1>1, <1>2, LenProperties
  <1>4. /\ Raised(a) \in Seq(Int) /\ DOMAIN Raised(a) = 1 .. Len(s) + 1
        /\ \A i \in 1 .. Len(s) + 1 : Raised(a)[i] = a[i] + 1
    BY <1>1, RaisedIsSeq, LenProperties DEF Raised
  <1> HIDE DEF a, r
  <1>5. Len(Raised(a)) = Len(s) + 1
    BY <1>1, <1>4, LenProperties
  <1>6. /\ Append(r, n + 1) \in Seq(Int) /\ Len(Append(r, n + 1)) = Len(s) + 1
        /\ Append(r, n + 1)[Len(s) + 1] = n + 1
        /\ \A i \in 1 .. Len(s) : Append(r, n + 1)[i] = r[i]
    BY <1>2, <1>3, n + 1 \in Int, AppendProperties
  <1>7. \A i \in 1 .. Len(s) + 1 : Raised(a)[i] = Append(r, n + 1)[i]
    <2> TAKE i \in 1 .. Len(s) + 1
    <2>1. i \in 1 .. Len(s) \/ i = Len(s) + 1
      BY <1>1
    <2> QED
      BY <1>1, <1>2, <1>4, <1>6, <2>1
  <1>8. Raised(a) = Append(r, n + 1)
    BY <1>4, <1>5, <1>6, <1>7, SeqEqual
  <1> QED
    BY <1>8 DEF a, r

\* The tree of OrderedTree, and what its Added makes of it.
AbstractNodes == [tok : Tokens, kids : Seq(Int)]

LEMMA AsTreeIs ==
    ASSUME NEW t \in Seq(Nodes), Linked(t)
    PROVE  /\ AsTree(t) \in Seq(AbstractNodes) /\ Len(AsTree(t)) = Len(t)
           /\ \A r \in Refs(t) :
                 AsTree(t)[r + 1] = [tok |-> At(t, r).tok, kids |-> Raised(Kids(t, r))]
           /\ \A r \in Refs(t) : Kids(t, r) \in Seq(Int)
  <1> DEFINE a == AsTree(t)
             n == Len(t)
  <1>1. n \in Nat /\ DOMAIN t = 1 .. n
    BY LenProperties
  <1>2. ASSUME NEW k \in 1 .. n
        PROVE  /\ t[k].tok \in Tokens /\ Kids(t, k - 1) \in Seq(Int)
               /\ k - 1 \in Refs(t) /\ At(t, k - 1) = t[k]
               /\ [tok |-> t[k].tok, kids |-> Raised(Kids(t, k - 1))] \in AbstractNodes
    <2>1. k - 1 \in Refs(t) /\ k - 1 + 1 = k
      BY <1>1 DEF Refs
    <2>2. t[k] \in Nodes
      BY <1>1
    <2>3. t[k].tok \in Tokens
      BY <2>2 DEF Nodes
    <2>4. Kids(t, k - 1) \in Seq(Refs(t)) /\ Refs(t) \subseteq Int
      BY <1>1, <2>1, KidsAre DEF Refs
    <2>5. Kids(t, k - 1) \in Seq(Int)
      BY <2>4, SeqMonotonic
    <2>6. At(t, k - 1) = t[k]
      BY <2>1 DEF At
    <2>7. Raised(Kids(t, k - 1)) \in Seq(Int)
      BY <2>5, RaisedIsSeq
    <2> QED
      BY <2>1, <2>3, <2>5, <2>6, <2>7 DEF AbstractNodes
  <1>3. a = [k \in 1 .. n |-> [tok |-> t[k].tok, kids |-> Raised(Kids(t, k - 1))]]
    BY <1>1 DEF AsTree, Raised
  <1> HIDE DEF a, n
  <1>4. a \in [1 .. n -> AbstractNodes]
    BY <1>2, <1>3
  <1>5. a \in Seq(AbstractNodes) /\ Len(a) = n
    <2>1. a \in Seq(AbstractNodes) /\ DOMAIN a = 1 .. n
      BY <1>1, <1>4, SeqDef
    <2> QED
      BY <1>1, <2>1, LenProperties
  <1>6. ASSUME NEW r \in Refs(t)
        PROVE  /\ a[r + 1] = [tok |-> At(t, r).tok, kids |-> Raised(Kids(t, r))]
               /\ Kids(t, r) \in Seq(Int)
    <2>1. PICK k \in 1 .. n : k = r + 1 /\ k - 1 = r
      BY <1>1 DEF Refs, n
    <2>2. a[k] = [tok |-> t[k].tok, kids |-> Raised(Kids(t, k - 1))]
      BY <1>3
    <2> QED
      BY <1>2, <2>1, <2>2
  <1> QED
    BY <1>5, <1>6 DEF a, n

\* mptest__sym_new is Added of OrderedTree.
LEMMA AsTreeGrown ==
    ASSUME NEW t, NEW alloc, TreeOk(t, alloc), OwnLasts(t),
           NEW b, PlaceOk(t, b), EndOf(t, b), NEW tok \in Tokens
    PROVE  AsTree(SymNew(t, b, tok)) = Tree!Added(AsTree(t), b.parent + 1, tok)
  <1> DEFINE n == Len(t)
             u == SymNew(t, b, tok)
             a == AsTree(t)
             c == AsTree(u)
             mid == [k \in DOMAIN a |-> IF k = b.parent + 1
                                        THEN [a[k] EXCEPT !.kids = Append(@, Len(a) + 1)]
                                        ELSE a[k]]
             leaf == [tok |-> tok, kids |-> <<>>]
             d == Append(mid, leaf)
  <1>1. /\ t \in Seq(Nodes) /\ Linked(t) /\ n \in Nat /\ b \in Places /\ Within(t, b)
        /\ u \in Seq(Nodes) /\ Linked(u) /\ Len(u) = n + 1
    BY SymNewOk, LenProperties DEF TreeOk, PlaceOk
  <1>2. /\ \A r \in Refs(t) : At(u, r).tok = At(t, r).tok
        /\ At(u, n).tok = tok
    BY <1>1, SymNewIs DEF Record
  <1>3. /\ \A p \in Refs(t) : Kids(u, p) = IF p = b.parent THEN Append(Kids(t, p), n)
                                           ELSE Kids(t, p)
        /\ Kids(u, n) = <<>>
    BY KidsGrown
  <1>4. /\ a \in Seq(AbstractNodes) /\ Len(a) = n
        /\ \A r \in Refs(t) : a[r + 1] = [tok |-> At(t, r).tok, kids |-> Raised(Kids(t, r))]
        /\ \A r \in Refs(t) : Kids(t, r) \in Seq(Int)
    BY <1>1, AsTreeIs
  <1>5. /\ c \in Seq(AbstractNodes) /\ Len(c) = n + 1
        /\ \A r \in Refs(u) : c[r + 1] = [tok |-> At(u, r).tok, kids |-> Raised(Kids(u, r))]
    BY <1>1, AsTreeIs
  <1>6. Tree!Added(a, b.parent + 1, tok) = d
    BY DEF Tree!Added, Tree!Leaf
  <1>7. n \in Refs(u) /\ Refs(t) \subseteq Refs(u) /\ b.parent \in Int
        /\ \A k \in 1 .. n : k - 1 \in Refs(t) /\ (k - 1) + 1 = k
    BY <1>1 DEF Refs, Places
  <1>8. leaf \in AbstractNodes
    <2>1. <<>> \in Seq(Int)
      OBVIOUS
    <2> QED
      BY <2>1 DEF AbstractNodes
  <1> HIDE DEF a, c, u, leaf, n
  <1>9. DOMAIN a = 1 .. n
    BY <1>4, LenProperties
  <1>10. ASSUME NEW k \in 1 .. n
         PROVE  mid[k] = c[k] /\ mid[k] \in AbstractNodes
    <2>1. PICK r \in Refs(t) : r = k - 1 /\ r + 1 = k
      BY <1>7
    <2>2. PICK ks \in Seq(Int) : ks = Kids(t, r)
      BY <1>4
    <2>3. a[k] = [tok |-> At(t, r).tok, kids |-> Raised(ks)] /\ r \in Refs(u)
          /\ c[k] = [tok |-> At(t, r).tok, kids |-> Raised(Kids(u, r))]
      BY <1>2, <1>4, <1>5, <1>7, <2>1, <2>2
    <2>4. c[k] \in AbstractNodes
      BY <1>1, <1>5
    <2>5. CASE k = b.parent + 1
      <3>1. r = b.parent
        BY <1>7, <2>1, <2>5 DEF Refs
      <3>2. Raised(Kids(u, r)) = Append(Raised(ks), n + 1)
        <4>1. Kids(u, r) = Append(ks, n)
          BY <1>3, <2>2, <3>1
        <4>2. Raised(Append(ks, n)) = Append(Raised(ks), n + 1)
          <5>1. n \in Int /\ ks \in Seq(Int)
            BY <1>1, <2>2
          <5> QED
            BY <5>1, RaisedAppend, Zenon
        <4> QED
          BY <4>1, <4>2, Zenon
      <3>3. mid[k] = [a[k] EXCEPT !.kids = Append(@, n + 1)]
        BY <1>4, <1>9, <2>5
      <3>4. mid[k] = [tok |-> At(t, r).tok, kids |-> Append(Raised(ks), n + 1)]
        <4>1. PICK tk, rk, m : tk = At(t, r).tok /\ rk = Raised(ks) /\ m = n + 1
          OBVIOUS
        <4>2. a[k] = [tok |-> tk, kids |-> rk]
          BY <2>3, <4>1
        <4>3. mid[k] = [[tok |-> tk, kids |-> rk] EXCEPT !.kids = Append(rk, m)]
          BY <3>3, <4>1, <4>2
        <4>4. mid[k] = [tok |-> tk, kids |-> Append(rk, m)]
          BY <4>3
        <4> QED
          BY <4>1, <4>4
      <3> QED
        BY <2>3, <2>4, <3>2, <3>4, Zenon
    <2>6. CASE k # b.parent + 1
      <3>1. r # b.parent
        BY <1>7, <2>1, <2>6 DEF Refs
      <3>2. mid[k] = a[k]
        BY <1>9, <2>6
      <3>3. Kids(u, r) = ks
        BY <1>3, <2>2, <3>1
      <3> QED
        BY <2>3, <2>4, <3>2, <3>3, Zenon
    <2> QED
      BY <2>5, <2>6
  <1>11. mid \in Seq(AbstractNodes) /\ Len(mid) = n
    <2>1. DOMAIN mid = 1 .. n
      BY <1>9
    <2>2. mid = [k \in 1 .. n |-> mid[k]]
      BY <1>9
    <2> HIDE DEF mid
    <2>3. mid \in [1 .. n -> AbstractNodes]
      BY <1>10, <2>2
    <2>4. mid \in Seq(AbstractNodes)
      BY <1>1, <2>3, SeqDef
    <2> QED
      BY <1>1, <2>1, <2>4, LenProperties
  <1>12. c[n + 1] = leaf
    <2>1. c[n + 1] = [tok |-> At(u, n).tok, kids |-> Raised(Kids(u, n))]
      BY <1>5, <1>7
    <2>2. Raised(<<>>) = <<>>
      BY DEF Raised
    <2> QED
      BY <1>2, <1>3, <2>1, <2>2 DEF leaf
  <1> HIDE DEF mid
  <1>13. /\ d \in Seq(AbstractNodes) /\ Len(d) = n + 1 /\ d[n + 1] = leaf
         /\ \A k \in 1 .. n : d[k] = mid[k]
    BY <1>8, <1>11, AppendProperties
  <1> HIDE DEF d
  <1>14. \A k \in 1 .. Len(c) : c[k] = d[k]
    <2> TAKE k \in 1 .. Len(c)
    <2>1. k \in 1 .. n \/ k = n + 1
      BY <1>1, <1>5
    <2> QED
      BY <1>10, <1>12, <1>13, <2>1
  <1>15. c = d
    BY <1>5, <1>13, <1>14, SeqEqual
  <1> QED
    BY <1>6, <1>15 DEF a, c, u

-----------------------------------------------------------------------------
(* The refinement of OrderedTree. *)

\* What a builder's call finds.
LEMMA BuilderFacts ==
    ASSUME UserTreeInv, BuildersInv, NEW h \in DOMAIN handles
    PROVE  /\ TreeOk(actual, actualAlloc) /\ OwnLasts(actual)
           /\ handles \in Seq(Places) /\ Len(handles) \in Nat
           /\ h \in 1 .. Len(handles) /\ DOMAIN handles = 1 .. Len(handles)
           /\ PlaceOk(actual, handles[h]) /\ EndOf(actual, handles[h])
           /\ handles[h].parent + 1 \in {Tree!Top} \cup DOMAIN AsTree(actual)
           /\ \A k \in 1 .. Len(handles) :
                 /\ Within(actual, handles[k]) /\ EndOf(actual, handles[k])
                 /\ handles[k].parent \in Refs(actual) \cup {NoRef}
                 /\ k # h /\ handles[k].parent = handles[h].parent
                    => handles[k].parent = NoRef
  <1>1. /\ TreeOk(actual, actualAlloc) /\ OwnLasts(actual)
        /\ handles \in Seq(Places) /\ Len(handles) \in Nat
        /\ h \in 1 .. Len(handles) /\ DOMAIN handles = 1 .. Len(handles)
    BY LenProperties DEF UserTreeInv, BuildersInv
  <1>2. \A k \in 1 .. Len(handles) :
           /\ Within(actual, handles[k]) /\ EndOf(actual, handles[k])
           /\ handles[k].parent \in Refs(actual) \cup {NoRef}
    BY DEF UserTreeInv, BuildersInv, Within
  <1>3. \A k \in 1 .. Len(handles) :
           k # h /\ handles[k].parent = handles[h].parent => handles[k].parent = NoRef
    BY <1>1 DEF BuildersInv, OneBuilderEach
  <1>4. PlaceOk(actual, handles[h])
    BY <1>1, <1>2 DEF PlaceOk
  <1>5. actual \in Seq(Nodes) /\ Linked(actual)
    BY <1>1 DEF TreeOk
  <1>6. /\ AsTree(actual) \in Seq(AbstractNodes) /\ Len(AsTree(actual)) = Len(actual)
        /\ Len(actual) \in Nat
    BY <1>5, AsTreeIs, LenProperties
  <1>7. DOMAIN AsTree(actual) = 1 .. Len(actual)
    BY <1>6, LenProperties
  <1>8. handles[h].parent + 1 \in {Tree!Top} \cup DOMAIN AsTree(actual)
    BY <1>1, <1>2, <1>6, <1>7 DEF Refs, NoRef, Tree!Top
  <1> QED
    BY <1>1, <1>2, <1>3, <1>4, <1>8

LEMMA BuildAtomAdds ==
    ASSUME UserTreeInv, BuildersInv, NEW h \in DOMAIN handles, NEW tok \in UserTokens,
           BuildAtom(h, tok)
    PROVE  /\ BuildersInv'
           /\ Tree!Add(handles[h].parent + 1, tok)
  <1> DEFINE b == handles[h]
  <1>1. /\ actual' = SymNew(actual, b, tok)
        /\ handles' = [handles EXCEPT ![h] = Advanced(actual, b)]
        /\ tok \in Tokens
    BY TokensAreTokens DEF BuildAtom
  <1>2. /\ TreeOk(actual, actualAlloc) /\ OwnLasts(actual)
        /\ handles \in Seq(Places) /\ Len(handles) \in Nat
        /\ h \in 1 .. Len(handles) /\ DOMAIN handles = 1 .. Len(handles)
        /\ PlaceOk(actual, b) /\ EndOf(actual, b)
        /\ \A k \in 1 .. Len(handles) :
              /\ Within(actual, handles[k]) /\ EndOf(actual, handles[k])
              /\ k # h /\ handles[k].parent = b.parent => handles[k].parent = NoRef
    BY BuilderFacts
  <1>3. Tree!Add(b.parent + 1, tok)
    BY <1>1, <1>2, AsTreeGrown DEF Tree!Add
  <1> HIDE DEF b
  <1>4. /\ OwnLasts(actual') /\ EndOf(actual', Advanced(actual, b))
        /\ \A c : /\ Within(actual, c) /\ EndOf(actual, c)
                  /\ c.parent = b.parent => c.parent = NoRef
                  => EndOf(actual', c)
    BY <1>1, <1>2, BuildersMoveOn
  <1>5. /\ Len(handles') = Len(handles)
        /\ \A k \in 1 .. Len(handles) : handles'[k] = IF k = h THEN Advanced(actual, b)
                                                      ELSE handles[k]
    BY <1>1, <1>2, LenProperties
  <1>6. \A k \in 1 .. Len(handles') : EndOf(actual', handles'[k])
    BY <1>2, <1>4, <1>5
  <1>7. \A k \in 1 .. Len(handles) : handles'[k].parent = handles[k].parent
    BY <1>5 DEF b, Advanced, Place
  <1>8. OneBuilderEach'
    BY <1>5, <1>7 DEF BuildersInv, OneBuilderEach
  <1> QED
    BY <1>3, <1>4, <1>6, <1>8 DEF BuildersInv, b

LEMMA BuildExprAdds ==
    ASSUME UserTreeInv, BuildersInv, NEW h \in DOMAIN handles, BuildExpr(h)
    PROVE  /\ BuildersInv'
           /\ Tree!Add(handles[h].parent + 1, ExprToken)
  <1> DEFINE b == handles[h]
             moved == [handles EXCEPT ![h] = Advanced(actual, b)]
             inner == Inside(actual)
  <1>1. /\ actual' = SymNew(actual, b, ExprToken)
        /\ handles' = Append(moved, inner)
        /\ ExprToken \in Tokens
    BY TokensAreTokens DEF BuildExpr
  <1>2. /\ TreeOk(actual, actualAlloc) /\ OwnLasts(actual)
        /\ handles \in Seq(Places) /\ Len(handles) \in Nat
        /\ h \in 1 .. Len(handles) /\ DOMAIN handles = 1 .. Len(handles)
        /\ PlaceOk(actual, b) /\ EndOf(actual, b)
        /\ \A k \in 1 .. Len(handles) :
              /\ Within(actual, handles[k]) /\ EndOf(actual, handles[k])
              /\ handles[k].parent \in Refs(actual) \cup {NoRef}
              /\ k # h /\ handles[k].parent = b.parent => handles[k].parent = NoRef
    BY BuilderFacts
  <1>3. Tree!Add(b.parent + 1, ExprToken)
    BY <1>1, <1>2, AsTreeGrown DEF Tree!Add
  <1> HIDE DEF b
  <1>4. /\ OwnLasts(actual')
        /\ EndOf(actual', Advanced(actual, b)) /\ EndOf(actual', inner)
        /\ \A c : /\ Within(actual, c) /\ EndOf(actual, c)
                  /\ c.parent = b.parent => c.parent = NoRef
                  => EndOf(actual', c)
    BY <1>1, <1>2, BuildersMoveOn
  <1>5. /\ moved \in Seq(Places) /\ Len(moved) = Len(handles)
        /\ \A k \in 1 .. Len(handles) : moved[k] = IF k = h THEN Advanced(actual, b)
                                                   ELSE handles[k]
        /\ inner \in Places
    <2>1. /\ PlaceOk(actual', Advanced(actual, b)) /\ PlaceOk(actual', inner)
          /\ \A c : Within(actual, c) => Within(actual', c)
      BY <1>1, <1>2, SymNewOk
    <2>2. \A k \in 1 .. Len(handles) : Within(actual', handles[k])
      BY <1>2, <2>1
    <2> QED
      BY <1>2, <2>1, <2>2, HandlesMoved DEF PlaceOk
  <1>6. inner.parent = Len(actual) /\ \A k \in 1 .. Len(handles) : moved[k].parent = handles[k].parent
    BY <1>5 DEF b, Advanced, Inside, Place
  <1> HIDE DEF moved, inner
  <1>7. /\ Len(handles') = Len(handles) + 1
        /\ \A k \in 1 .. Len(handles) : handles'[k] = moved[k]
        /\ handles'[Len(handles) + 1] = inner
        /\ \A k \in 1 .. Len(handles') : k \in 1 .. Len(handles) \/ k = Len(handles) + 1
    <2>1. /\ Len(handles') = Len(moved) + 1
          /\ \A k \in 1 .. Len(moved) : handles'[k] = moved[k]
          /\ handles'[Len(moved) + 1] = inner
      BY <1>1, <1>5, AppendProperties
    <2> QED
      BY <1>2, <1>5, <2>1
  <1>8. ASSUME NEW k \in 1 .. Len(handles')
        PROVE  EndOf(actual', handles'[k])
    BY <1>2, <1>4, <1>5, <1>7
  <1>9. OneBuilderEach'
    <2>1. \A k \in 1 .. Len(handles) : handles[k].parent # Len(actual)
      BY <1>2, LenProperties DEF Refs, NoRef, TreeOk
    <2> SUFFICES ASSUME NEW i \in 1 .. Len(handles'), NEW j \in 1 .. Len(handles'),
                        i # j, handles'[i].parent = handles'[j].parent
                 PROVE  handles'[i].parent = NoRef
      BY DEF OneBuilderEach
    <2>2. i \in 1 .. Len(handles) /\ j \in 1 .. Len(handles)
      BY <1>6, <1>7, <2>1
    <2> QED
      BY <1>6, <1>7, <2>2 DEF BuildersInv, OneBuilderEach
  <1> QED
    BY <1>3, <1>4, <1>8, <1>9 DEF BuildersInv, b

LEMMA BuildTypeAdds ==
    ASSUME UserTreeInv, BuildersInv, NEW h \in DOMAIN handles, NEW tok \in UserTokens,
           BuildType(h, tok)
    PROVE  /\ BuildersInv'
           /\ Tree!AddTyped(handles[h].parent + 1, ExprToken, tok)
  <1> DEFINE b == handles[h]
             outer == SymNew(actual, b, ExprToken)
             inner == Inside(actual)
             alloc == GrowOne(Len(actual), actualAlloc)
  <1>1. /\ actual' = SymNew(outer, inner, tok)
        /\ handles' = [handles EXCEPT ![h] = Advanced(outer, inner)]
        /\ ExprToken \in Tokens /\ tok \in Tokens
    BY TokensAreTokens DEF BuildType
  <1>2. /\ TreeOk(actual, actualAlloc) /\ OwnLasts(actual)
        /\ handles \in Seq(Places) /\ Len(handles) \in Nat
        /\ h \in 1 .. Len(handles) /\ DOMAIN handles = 1 .. Len(handles)
        /\ PlaceOk(actual, b) /\ EndOf(actual, b)
        /\ \A k \in 1 .. Len(handles) :
              /\ Within(actual, handles[k]) /\ EndOf(actual, handles[k])
              /\ handles[k].parent \in Refs(actual) \cup {NoRef}
              /\ k # h /\ handles[k].parent = b.parent => handles[k].parent = NoRef
    BY BuilderFacts
  <1>3. AsTree(outer) = Tree!Added(AsTree(actual), b.parent + 1, ExprToken)
    BY <1>1, <1>2, AsTreeGrown
  <1> HIDE DEF b
  <1>4. /\ TreeOk(outer, alloc) /\ PlaceOk(outer, inner)
        /\ \A c : Within(actual, c) => Within(outer, c)
    BY <1>1, <1>2, SymNewOk
  <1>5. /\ OwnLasts(outer) /\ EndOf(outer, inner)
        /\ \A c : /\ Within(actual, c) /\ EndOf(actual, c)
                  /\ c.parent = b.parent => c.parent = NoRef
                  => EndOf(outer, c)
    BY <1>1, <1>2, BuildersMoveOn
  <1>6. inner.parent = Len(actual) /\ inner.parent # NoRef
    BY <1>2, LenProperties DEF Inside, Place, TreeOk, NoRef
  <1> HIDE DEF outer, inner, alloc
  <1>7. AsTree(actual') = Tree!Added(AsTree(outer), Len(actual) + 1, tok)
    BY <1>1, <1>4, <1>5, <1>6, AsTreeGrown
  <1>8. Len(AsTree(actual)) = Len(actual)
    BY <1>2, AsTreeIs DEF TreeOk
  <1>9. Tree!AddTyped(b.parent + 1, ExprToken, tok)
    BY <1>3, <1>7, <1>8, Zenon DEF Tree!AddTyped
  <1>10. /\ OwnLasts(actual') /\ EndOf(actual', Advanced(outer, inner))
         /\ \A c : /\ Within(outer, c) /\ EndOf(outer, c)
                   /\ c.parent = inner.parent => c.parent = NoRef
                   => EndOf(actual', c)
    BY <1>1, <1>4, <1>5, BuildersMoveOn
  <1>11. /\ Len(handles') = Len(handles)
         /\ \A k \in 1 .. Len(handles) : handles'[k] = IF k = h THEN Advanced(outer, inner)
                                                       ELSE handles[k]
    BY <1>1, <1>2, LenProperties
  <1>12. \A k \in 1 .. Len(handles) : handles[k].parent # inner.parent
    BY <1>2, <1>6, LenProperties DEF Refs, NoRef, TreeOk
  <1>13. \A k \in 1 .. Len(handles') : EndOf(actual', handles'[k])
    BY <1>2, <1>4, <1>5, <1>10, <1>11, <1>12
  <1>14. OneBuilderEach'
    <2>1. Advanced(outer, inner).parent = inner.parent
      BY DEF Advanced, Place
    <2> QED
      BY <1>11, <1>12, <2>1 DEF BuildersInv, OneBuilderEach
  <1> QED
    BY <1>9, <1>10, <1>13, <1>14 DEF BuildersInv, b

LEMMA BuildersStay ==
    ASSUME BuildersInv, UNCHANGED userVars
    PROVE  BuildersInv' /\ UNCHANGED AsTree(actual)
  <1>1. actual' = actual /\ handles' = handles
    BY DEF userVars
  <1>2. BuildersInv'
    BY <1>1 DEF BuildersInv, OneBuilderEach
  <1> QED
    BY <1>1, <1>2

\* A tree without records, and no builder or one at the top.
LEMMA BuildersBegin ==
    ASSUME actual' = <<>> \/ (actual' = actual /\ BuildersInv),
           handles' \in {<<>>, <<TopPlace>>}
    PROVE  BuildersInv'
  <1>1. OwnLasts(<<>>)
    <2>1. Refs(<<>>) = {}
      BY EmptySeq DEF Refs
    <2> QED
      BY <2>1 DEF OwnLasts
  <1>2. OwnLasts(actual')
    BY <1>1 DEF BuildersInv
  <1>3. \A k \in 1 .. Len(handles') : handles'[k] = TopPlace
    OBVIOUS
  <1>4. TopPlace.parent = NoRef
    BY DEF TopPlace, Place
  <1>5. \A k \in 1 .. Len(handles') : EndOf(actual', handles'[k])
    BY <1>3, <1>4 DEF EndOf
  <1>6. OneBuilderEach'
    BY <1>3, <1>4 DEF OneBuilderEach
  <1> QED
    BY <1>2, <1>5, <1>6 DEF BuildersInv

LEMMA AddIsStep ==
    ASSUME NEW p \in {Tree!Top} \cup DOMAIN AsTree(actual), NEW tok,
           \/ tok \in UserTokens \cup {ExprToken} /\ Tree!Add(p, tok)
           \/ tok \in UserTokens /\ Tree!AddTyped(p, ExprToken, tok)
    PROVE  Tree!TreeNext
  <1>1. CASE tok \in UserTokens \cup {ExprToken} /\ Tree!Add(p, tok)
    BY <1>1, Zenon DEF Tree!TreeNext
  <1>2. CASE tok \in UserTokens /\ Tree!AddTyped(p, ExprToken, tok)
    <2>1. tok \in UserTokens \cup {ExprToken} /\ ExprToken \in UserTokens \cup {ExprToken}
      BY <1>2
    <2> QED
      BY <1>2, <2>1, Zenon DEF Tree!TreeNext
  <1> QED
    BY <1>1, <1>2

LEMMA BuilderStep ==
    ASSUME SymInv, BuildersInv, [Next]_vars
    PROVE  BuildersInv' /\ [Tree!TreeNext]_(AsTree(actual))
  <1>0. UserTreeInv
    BY DEF SymInv
  <1>1. ASSUME CheckAlloc
        PROVE  BuildersInv' /\ [Tree!TreeNext]_(AsTree(actual))
    <2>1. actual' = <<>> /\ handles' = <<>>
      BY <1>1 DEF CheckAlloc
    <2>2. AsTree(<<>>) = <<>>
      BY DEF AsTree
    <2>3. Tree!Forget
      BY <2>1, <2>2 DEF Tree!Forget
    <2> QED
      BY <2>1, <2>3, BuildersBegin DEF Tree!TreeNext
  <1>2. CASE CheckParsed
    <2>1. actual' = actual /\ handles' = <<TopPlace>>
      BY <1>2 DEF CheckParsed
    <2> QED
      BY <2>1, BuildersBegin
  <1>3. ASSUME NEW h \in DOMAIN handles, BuildExpr(h)
        PROVE  BuildersInv' /\ [Tree!TreeNext]_(AsTree(actual))
    <2>1. BuildersInv' /\ Tree!Add(handles[h].parent + 1, ExprToken)
          /\ handles[h].parent + 1 \in {Tree!Top} \cup DOMAIN AsTree(actual)
      BY <1>0, <1>3, BuildExprAdds, BuilderFacts
    <2>2. PICK p, tok : p = handles[h].parent + 1 /\ tok = ExprToken
      OBVIOUS
    <2>3. p \in {Tree!Top} \cup DOMAIN AsTree(actual) /\ tok \in UserTokens \cup {ExprToken}
          /\ Tree!Add(p, tok)
      BY <2>1, <2>2
    <2> QED
      BY <2>1, <2>3, AddIsStep
  <1>4. ASSUME NEW h \in DOMAIN handles, NEW tok \in UserTokens, BuildAtom(h, tok)
        PROVE  BuildersInv' /\ [Tree!TreeNext]_(AsTree(actual))
    <2>1. BuildersInv' /\ Tree!Add(handles[h].parent + 1, tok)
          /\ handles[h].parent + 1 \in {Tree!Top} \cup DOMAIN AsTree(actual)
      BY <1>0, <1>4, BuildAtomAdds, BuilderFacts
    <2>2. PICK p : p = handles[h].parent + 1
      OBVIOUS
    <2>3. p \in {Tree!Top} \cup DOMAIN AsTree(actual) /\ Tree!Add(p, tok)
          /\ tok \in UserTokens \cup {ExprToken}
      BY <2>1, <2>2
    <2> QED
      BY <2>1, <2>3, AddIsStep
  <1>5. ASSUME NEW h \in DOMAIN handles, NEW tok \in UserTokens, BuildType(h, tok)
        PROVE  BuildersInv' /\ [Tree!TreeNext]_(AsTree(actual))
    <2>1. BuildersInv' /\ Tree!AddTyped(handles[h].parent + 1, ExprToken, tok)
          /\ handles[h].parent + 1 \in {Tree!Top} \cup DOMAIN AsTree(actual)
      BY <1>0, <1>5, BuildTypeAdds, BuilderFacts
    <2>2. PICK p : p = handles[h].parent + 1
      OBVIOUS
    <2>3. p \in {Tree!Top} \cup DOMAIN AsTree(actual) /\ Tree!AddTyped(p, ExprToken, tok)
      BY <2>1, <2>2
    <2> QED
      BY <2>1, <2>3, AddIsStep
  <1>6. ASSUME UNCHANGED userVars
        PROVE  BuildersInv' /\ [Tree!TreeNext]_(AsTree(actual))
    BY <1>6, BuildersStay
  <1>7. CASE UNCHANGED vars
    BY <1>6, <1>7 DEF vars
  <1>8. CASE Starts
    BY <1>1, <1>6, <1>8 DEF Starts, MakeInit, NoSym
  <1>9. CASE Builds
    BY <1>3, <1>4, <1>5, <1>6, <1>9 DEF Builds, ConversionFails
  <1>10. CASE \/ Parsing \/ ParseFailed \/ CheckWild \/ CheckEqual \/ CheckUnequal
              \/ ReportUnequal
    BY <1>6, <1>10 DEF Parsing, ParseFailed, CheckWild, CheckEqual, CheckUnequal,
                       ReportUnequal
  <1>11. CASE MakeParsed \/ WalkNext \/ WalkInto \/ MakeDestroy \/ FromSymFails
    BY <1>6, <1>11 DEF MakeParsed, WalkNext, WalkInto, MakeDestroy, FromSymFails
  <1>12. CASE (\E t \in CheckTexts : CheckInit(t)) \/ SecondRefused
    BY <1>6, <1>12 DEF CheckInit, SecondRefused
  <1> QED
    BY <1>2, <1>7, <1>8, <1>9, <1>10, <1>11, <1>12, Zenon DEF Next

\* The builders together add to one ordered tree: each call makes its node the
\* last child of the expression its builder is for, whichever builders were
\* used in between, and nothing built before is moved or changed.
THEOREM BuildersImplementTreeThm == Spec => BuildersImplementTree
  <1>1. Init => BuildersInv /\ Tree!TreeInit
    <2> SUFFICES ASSUME Init
                 PROVE  BuildersInv /\ Tree!TreeInit
      OBVIOUS
    <2>1. actual = <<>> /\ handles = <<>>
      BY DEF Init
    <2>2. Refs(<<>>) = {} /\ AsTree(<<>>) = <<>>
      BY EmptySeq DEF Refs, AsTree
    <2>3. OwnLasts(actual)
      BY <2>1, <2>2 DEF OwnLasts
    <2>4. (\A k \in 1 .. Len(handles) : EndOf(actual, handles[k])) /\ OneBuilderEach
      BY <2>1 DEF OneBuilderEach
    <2> QED
      BY <2>1, <2>2, <2>3, <2>4 DEF BuildersInv, Tree!TreeInit
  <1>2. SymInv /\ BuildersInv /\ [Next]_vars
        => BuildersInv' /\ [Tree!TreeNext]_(AsTree(actual))
    BY BuilderStep
  <1> QED
    BY <1>1, <1>2, SymInvariance, PTL DEF Spec, BuildersImplementTree, Tree!TreeSpec

-----------------------------------------------------------------------------
(* Only expressions have children. *)

AtomsBare(t) == \A r \in Refs(t) : At(t, r).tok # ExprToken => At(t, r).first = NoRef
InExpr(t, b) == b.parent # NoRef => At(t, b.parent).tok = ExprToken

ParserShape ==
    /\ AtomsBare(nodes) /\ InExpr(nodes, base)
    /\ \A k \in 1 .. Len(stk) : InExpr(nodes, stk[k])
UserShape ==
    /\ AtomsBare(actual)
    /\ \A h \in 1 .. Len(handles) : InExpr(actual, handles[h])

\* mptest__sym_new links to the new record from an expression.
LEMMA ShapeGrown ==
    ASSUME NEW t, NEW alloc, TreeOk(t, alloc), AtomsBare(t),
           NEW b, PlaceOk(t, b), InExpr(t, b), NEW tok \in Tokens
    PROVE  LET u == SymNew(t, b, tok)
           IN /\ AtomsBare(u)
              /\ \A c : Within(t, c) /\ InExpr(t, c) => InExpr(u, c)
              /\ InExpr(u, Advanced(t, b))
              /\ tok = ExprToken => InExpr(u, Inside(t))
  <1> DEFINE n == Len(t)
             u == SymNew(t, b, tok)
  <1>1. t \in Seq(Nodes) /\ n \in Nat /\ b \in Places /\ Within(t, b)
    BY LenProperties DEF TreeOk, PlaceOk
  <1>2. /\ Len(u) = n + 1 /\ At(u, n) = Record(tok)
        /\ \A r \in Refs(t) :
              /\ At(u, r).tok = At(t, r).tok
              /\ At(u, r).first = IF r = b.parent /\ b.prev = NoRef THEN n
                                  ELSE At(t, r).first
    BY <1>1, SymNewIs
  <1>3. At(u, n).tok = tok /\ At(u, n).first = NoRef
    BY <1>2 DEF Record
  <1> HIDE DEF u
  <1>4. \A r \in Refs(u) : r = n \/ r \in Refs(t)
    BY <1>1, <1>2 DEF Refs
  <1>5. NoRef \notin Refs(t)
    BY <1>1 DEF Refs, NoRef
  <1> HIDE DEF n
  <1>6. AtomsBare(u)
    <2> SUFFICES ASSUME NEW r \in Refs(u), At(u, r).tok # ExprToken
                 PROVE  At(u, r).first = NoRef
      BY DEF AtomsBare
    <2>1. CASE r \in Refs(t)
      <3>1. At(t, r).first = NoRef
        BY <1>2, <2>1 DEF AtomsBare
      <3>2. r # b.parent
        BY <1>2, <1>5, <2>1 DEF InExpr
      <3> QED
        BY <1>2, <2>1, <3>1, <3>2
    <2> QED
      BY <1>3, <1>4, <2>1
  <1>7. \A c : Within(t, c) /\ InExpr(t, c) => InExpr(u, c)
    BY <1>2 DEF Within, InExpr
  <1>8. InExpr(u, b)
    BY <1>1, <1>7
  <1>9. Advanced(t, b).parent = b.parent /\ Inside(t).parent = n
    BY DEF Advanced, Inside, Place, n
  <1> QED
    BY <1>3, <1>6, <1>7, <1>8, <1>9, Zenon DEF InExpr, u

\* What the steps of the parser do to the tree and the stack.
LEMMA ParseTreeSteps ==
    ASSUME ParserInv, ParseStep
    PROVE  \/ UNCHANGED treeVars
           \/ \E tok \in Tokens : AddNode(tok) /\ stk' = Moved
           \/ AddNode(ExprToken) /\ stk' = Append(Moved, Inside(nodes))
           \/ stk # <<>> /\ stk' = Front(stk) /\ UNCHANGED <<base, nodes>>
  <1> DEFINE Goal == \/ UNCHANGED treeVars
                     \/ \E tok \in Tokens : AddNode(tok) /\ stk' = Moved
                     \/ AddNode(ExprToken) /\ stk' = Append(Moved, Inside(nodes))
                     \/ stk # <<>> /\ stk' = Front(stk) /\ UNCHANGED <<base, nodes>>
  <1>1. ASSUME NEW e, NEW m, NEW p, Fail(e, m, p)
        PROVE  UNCHANGED treeVars
    BY <1>1 DEF Fail, Stop
  <1>2. ASSUME NEW m, Syntax(m)
        PROVE  UNCHANGED treeVars
    BY <1>2 DEF Syntax, Fail, Stop
  <1>3. ASSUME NEW m, Read(m)
        PROVE  UNCHANGED treeVars
    BY <1>3 DEF Read
  <1>4. ASSUME NEW s, NEW cs, NEW m, Gather(s, cs, m)
        PROVE  UNCHANGED treeVars
    BY <1>4 DEF Gather, Fail, Stop, Read
  <1>5. ASSUME NEW tok \in Tokens, NEW p, Emit(tok, p)
        PROVE  Goal
    BY <1>1, <1>5 DEF Emit, Refused, Stop
  <1>6. /\ mode \in Reading => Body(build_str) \in Seq(Int) /\ num \in Int
        /\ \A n \in Int : NumToken(n) \in Tokens
        /\ \A s \in Seq(Int) : StrToken(s) \in Tokens
    BY ReaderFacts, TokensAreTokens
  <1>7. CASE Top
    <2>1. CASE ExprBegin
      BY <2>1 DEF ExprBegin, Fail, Stop
    <2>2. CASE ExprEnd
      BY <2>2 DEF ExprEnd, Syntax, Fail, Stop
    <2>3. CASE AtEnd \/ Blank \/ Number \/ Literal
      BY <2>3 DEF AtEnd, Blank, Number, Literal, Syntax, Fail, Stop, Read
    <2>4. CASE AtomBegin
      BY <2>4 DEF AtomBegin, Gather, Fail, Stop, Read
    <2> QED
      BY <1>7, <2>1, <2>2, <2>3, <2>4, Zenon DEF Top
  <1>8. CASE Atom
    <2>1. mode \in Reading
      BY <1>8 DEF Atom, Reading
    <2>2. CASE Emit(StrToken(Body(build_str)), pos)
      <3>1. PICK tok \in Tokens : tok = StrToken(Body(build_str))
        BY <1>6, <2>1
      <3> QED
        BY <2>2, <3>1 DEF Emit, Refused, Fail, Stop
    <2>3. CASE Gather(build_str, <<Ch>>, "atom")
      BY <2>3 DEF Gather, Fail, Stop, Read
    <2> QED
      BY <1>8, <2>2, <2>3, Zenon DEF Atom
  <1>9. ASSUME mode \in Reading, NEW n \in Int, NEW p, Emit(NumToken(n), p)
        PROVE  Goal
    <2>1. PICK tok \in Tokens : tok = NumToken(n)
      BY <1>6
    <2> QED
      BY <1>9, <2>1 DEF Emit, Refused, Fail, Stop
  <1>10. CASE Zero
    <2>1. mode \in Reading
      BY <1>10 DEF Zero, Reading
    <2>2. CASE Emit(NumToken(0), pos)
      <3>1. PICK p : p = pos
        OBVIOUS
      <3> QED
        BY <1>9, <2>1, <2>2, <3>1
    <2> QED
      BY <1>10, <2>2 DEF Zero, Syntax, Fail, Stop, Read
  <1>11. CASE Hex \/ Dec \/ ChrEnd
    <2>1. mode \in Reading
      BY <1>11 DEF Hex, Dec, ChrEnd, Reading
    <2>2. CASE Emit(NumToken(num), pos) \/ Emit(NumToken(num), pos + 1)
      <3>1. PICK tok \in Tokens : tok = NumToken(num)
        BY <1>6, <2>1
      <3> QED
        BY <2>2, <3>1 DEF Emit, Refused, Fail, Stop
    <2>3. CASE \/ \E radix, dig, m : Digit(radix, dig, m)
               \/ \E m : Syntax(m)
      BY <2>3 DEF Digit, Read, Syntax, Fail, Stop
    <2> QED
      BY <1>11, <2>2, <2>3, Zenon DEF Hex, Dec, ChrEnd
  <1>12. CASE Quoted
    <2>1. mode \in Reading
      BY <1>12 DEF Quoted, Reading
    <2>2. CASE Emit(StrToken(Body(build_str)), pos + 1)
      <3>1. PICK tok \in Tokens : tok = StrToken(Body(build_str))
        BY <1>6, <2>1
      <3> QED
        BY <2>2, <3>1 DEF Emit, Refused, Fail, Stop
    <2>3. CASE Gather(build_str, <<Ch>>, "str") \/ Syntax("unfinished string literal")
               \/ Read("esc")
      BY <2>3 DEF Gather, Syntax, Fail, Stop, Read
    <2> QED
      BY <1>12, <2>2, <2>3, Zenon DEF Quoted
  <1>13. CASE Chr
    BY <1>13 DEF Chr, Syntax, Fail, Stop, Read
  <1>14. ASSUME NEW r, Rune(r)
         PROVE  UNCHANGED treeVars
    BY <1>14 DEF Rune, Gather, Fail, Stop, Read
  <1>15. CASE Esc
    <2>1. CASE \E r : Rune(r)
      BY <1>14, <2>1
    <2>2. CASE (\E m : Syntax(m)) \/ Read("escHex")
      BY <2>2 DEF Syntax, Fail, Stop, Read
    <2> QED
      BY <1>15, <2>1, <2>2, Zenon DEF Esc
  <1>16. CASE EscHex
    <2>1. CASE \E r : Rune(r)
      BY <1>14, <2>1
    <2>2. CASE (\E m : Syntax(m)) \/ Read("escHex")
      BY <2>2 DEF Syntax, Fail, Stop, Read
    <2> QED
      BY <1>16, <2>1, <2>2, Zenon DEF EscHex
  <1> QED
    BY <1>7, <1>8, <1>10, <1>11, <1>12, <1>13, <1>15, <1>16, Zenon DEF ParseStep

-----------------------------------------------------------------------------
(* Joining words: FlattenSeq, and induction on numbers.                     *)

\* A set that has 0 and the successor of each of its numbers has them all.
LEMMA AllNumbers ==
    ASSUME NEW T \in SUBSET Nat, 0 \in T, \A k \in Nat : k \in T => k + 1 \in T
    PROVE  T = Nat
  <1> DEFINE Missing == Nat \ T
  <1>1. ASSUME Missing # {}
        PROVE  FALSE
    <2>1. PICK k \in Missing : \A j \in Missing : k <= j
      <3>1. Missing \in SUBSET Nat
        OBVIOUS
      <3> HIDE DEF Missing
      <3> QED
        BY <1>1, <3>1, LeastNat
    <2>2. k # 0 /\ k - 1 \in Nat /\ k - 1 \notin Missing /\ (k - 1) + 1 = k
      BY <2>1
    <2> QED
      BY <2>1, <2>2
  <1> QED
    BY <1>1

\* An element in front of a sequence.
LEMMA ConsIs ==
    ASSUME NEW S, NEW x \in S, NEW q \in Seq(S)
    PROVE  /\ <<x>> \o q \in Seq(S) /\ Len(<<x>> \o q) = Len(q) + 1
           /\ (<<x>> \o q)[1] = x
           /\ \A i \in 1 .. Len(q) : (<<x>> \o q)[i + 1] = q[i]
  <1>1. /\ <<x>> \in Seq(S) /\ Len(<<x>>) = 1 /\ <<x>>[1] = x /\ Len(q) \in Nat
    BY LenProperties
  <1> DEFINE e == <<x>>
  <1> HIDE DEF e
  <1>2. /\ e \o q \in Seq(S) /\ Len(e \o q) = Len(e) + Len(q)
        /\ \A i \in 1 .. Len(e) + Len(q) :
              (e \o q)[i] = IF i <= Len(e) THEN e[i] ELSE q[i - Len(e)]
    BY <1>1, ConcatProperties DEF e
  <1>3. Len(e) = 1 /\ e[1] = x
    BY <1>1 DEF e
  <1>4. (e \o q)[1] = x
    <2>1. 1 \in 1 .. Len(e) + Len(q) /\ 1 <= Len(e)
      BY <1>1, <1>3
    <2> QED
      BY <1>2, <1>3, <2>1
  <1>5. ASSUME NEW i \in 1 .. Len(q)
        PROVE  (e \o q)[i + 1] = q[i]
    <2>1. i + 1 \in 1 .. Len(e) + Len(q) /\ ~(i + 1 <= Len(e)) /\ (i + 1) - Len(e) = i
      BY <1>1, <1>3
    <2>2. (e \o q)[i + 1] = q[(i + 1) - Len(e)]
      BY <1>2, <2>1
    <2> QED
      BY <2>1, <2>2
  <1>6. Len(e \o q) = Len(q) + 1
    BY <1>1, <1>2, <1>3
  <1> QED
    BY <1>2, <1>4, <1>5, <1>6 DEF e

\* A sequence is read from its front.
LEMMA ConsSame ==
    ASSUME NEW S, NEW x \in S, NEW y \in S, NEW p \in Seq(S), NEW q \in Seq(S),
           <<x>> \o p = <<y>> \o q
    PROVE  x = y /\ p = q
  <1>1. PICK a, b : a = <<x>> \o p /\ b = <<y>> \o q
    OBVIOUS
  <1>2. /\ Len(a) = Len(p) + 1 /\ a[1] = x /\ \A i \in 1 .. Len(p) : a[i + 1] = p[i]
        /\ Len(b) = Len(q) + 1 /\ b[1] = y /\ \A i \in 1 .. Len(q) : b[i + 1] = q[i]
    BY <1>1, ConsIs
  <1>3. a = b
    BY <1>1
  <1>4. Len(p) \in Nat /\ Len(q) \in Nat
    BY LenProperties
  <1>5. Len(p) = Len(q)
    BY <1>2, <1>3, <1>4
  <1>6. \A i \in 1 .. Len(p) : p[i] = q[i]
    BY <1>2, <1>3, <1>5
  <1>7. p = q
    BY <1>5, <1>6, SeqEqual
  <1> QED
    BY <1>2, <1>3, <1>7

-----------------------------------------------------------------------------
\* f holds what FlattenSeq has joined of ss so far.
Joins(ss, S, f) ==
    /\ f \in [1 .. Len(ss) -> Seq(S)]
    /\ \A i \in 1 .. Len(ss) : f[i] = IF i = 1 THEN ss[i] ELSE f[i - 1] \o ss[i]

\* Such joins exist, for as many words as there are.
LEMMA JoinsExist ==
    ASSUME NEW S, NEW ss \in Seq(Seq(S))
    PROVE  \E f : Joins(ss, S, f)
  <1> DEFINE n == Len(ss)
             Upto(m, f) == /\ f \in [1 .. m -> Seq(S)]
                           /\ \A i \in 1 .. m :
                                 f[i] = IF i = 1 THEN ss[i] ELSE f[i - 1] \o ss[i]
             Built(m) == m <= n => \E f : Upto(m, f)
             T == {m \in Nat : Built(m)}
  <1>0. n \in Nat /\ \A i \in 1 .. n : ss[i] \in Seq(S)
    BY ElementOfSeq, LenProperties
  <1>1. Upto(0, [i \in 1 .. 0 |-> <<>>])
    <2>1. 1 .. 0 = {}
      OBVIOUS
    <2> QED
      BY <2>1
  <1>2. ASSUME NEW k \in Nat, k + 1 <= n, NEW f, Upto(k, f)
        PROVE  \E g : Upto(k + 1, g)
    <2> DEFINE last == IF k = 0 THEN ss[1] ELSE f[k] \o ss[k + 1]
               g == [i \in 1 .. k + 1 |-> IF i = k + 1 THEN last ELSE f[i]]
    <2>1. ss[k + 1] \in Seq(S) /\ (k # 0 => f[k] \in Seq(S))
      BY <1>0, <1>2
    <2>2. last \in Seq(S)
      BY <2>1, ConcatProperties
    <2>3. \A i \in 1 .. k : /\ f[i] \in Seq(S)
                            /\ f[i] = IF i = 1 THEN ss[i] ELSE f[i - 1] \o ss[i]
      BY <1>2
    <2> HIDE DEF last, Upto
    <2>4. g \in [1 .. k + 1 -> Seq(S)]
      <3> DEFINE Q == Seq(S)
      <3>1. last \in Q /\ \A i \in 1 .. k : f[i] \in Q
        BY <2>2, <2>3
      <3>2. \A i \in 1 .. k + 1 : i = k + 1 \/ i \in 1 .. k
        OBVIOUS
      <3> HIDE DEF Q
      <3>3. g \in [1 .. k + 1 -> Q]
        BY <3>1, <3>2
      <3> QED
        BY <3>3 DEF Q
    <2>5. g[k + 1] = last /\ \A i \in 1 .. k : g[i] = f[i]
      OBVIOUS
    <2> HIDE DEF g
    <2>6. ASSUME NEW i \in 1 .. k + 1
          PROVE  g[i] = IF i = 1 THEN ss[i] ELSE g[i - 1] \o ss[i]
      <3>1. CASE i = k + 1
        <4>1. k # 0 => i # 1 /\ i - 1 = k /\ k \in 1 .. k
          BY <3>1
        <4> QED
          BY <2>5, <3>1, <4>1 DEF last
      <3>2. CASE i # k + 1
        <4>1. i \in 1 .. k /\ (i # 1 => i - 1 \in 1 .. k)
          BY <3>2
        <4> QED
          BY <2>3, <2>5, <4>1
      <3> QED
        BY <3>1, <3>2
    <2>7. Upto(k + 1, g)
      BY <2>4, <2>6, Zenon DEF Upto
    <2> QED
      BY <2>7
  <1>3. Joins(ss, S, CHOOSE f : Upto(n, f))
    <2>1. 0 \in T
      <3> HIDE DEF Upto
      <3> QED
        BY <1>1
    <2>2. \A k \in Nat : k \in T => k + 1 \in T
      <3> HIDE DEF Upto
      <3> QED
        BY <1>0, <1>2
    <2>3. T = Nat
      <3> HIDE DEF Built
      <3>1. T \in SUBSET Nat
        OBVIOUS
      <3> HIDE DEF T
      <3> QED
        BY <2>1, <2>2, <3>1, AllNumbers
    <2>4. Built(n) /\ n <= n
      <3> HIDE DEF Built
      <3> QED
        BY <1>0, <2>3
    <2>5. \E f : Upto(n, f)
      BY <2>4
    <2>6. Upto(n, CHOOSE f : Upto(n, f))
      <3> HIDE DEF Upto
      <3> QED
        BY <2>5, Zenon
    <2> QED
      BY <2>6 DEF Joins
  <1> QED
    BY <1>3

\* FlattenSeq has the equation of its recursive definition.
LEMMA FlattenIs ==
    ASSUME NEW S, NEW ss \in Seq(Seq(S)), ss # <<>>
    PROVE  \E f : Joins(ss, S, f) /\ FlattenSeq(ss) = f[Len(ss)]
  <1> DEFINE n == Len(ss)
             flatten == CHOOSE f : f = [i \in 1 .. n |-> IF i = 1 THEN ss[i]
                                                         ELSE f[i - 1] \o ss[i]]
  <1>1. FlattenSeq(ss) = flatten[n]
    <2>1. n # 0
      BY EmptySeq
    <2> QED
      BY <2>1 DEF FlattenSeq
  <1>2. PICK f : Joins(ss, S, f)
    BY JoinsExist
  <1>3. f = [i \in 1 .. n |-> IF i = 1 THEN ss[i] ELSE f[i - 1] \o ss[i]]
    <2>1. /\ f = [i \in 1 .. n |-> f[i]]
          /\ \A i \in 1 .. n : f[i] = IF i = 1 THEN ss[i] ELSE f[i - 1] \o ss[i]
      BY <1>2 DEF Joins
    <2> QED
      BY <2>1, Zenon
  <1>4. flatten = [i \in 1 .. n |-> IF i = 1 THEN ss[i] ELSE flatten[i - 1] \o ss[i]]
    BY <1>3, Zenon
  <1> HIDE DEF flatten
  <1>5. \A i \in 1 .. n : flatten[i] = IF i = 1 THEN ss[i] ELSE flatten[i - 1] \o ss[i]
    BY <1>4, Zenon
  <1> DEFINE T == {m \in Nat : m + 1 \in 1 .. n => flatten[m + 1] = f[m + 1]}
  <1>6. n \in Nat /\ n # 0
    BY EmptySeq, LenProperties
  <1>7. \A i \in 1 .. n : f[i] = IF i = 1 THEN ss[i] ELSE f[i - 1] \o ss[i]
    BY <1>2 DEF Joins
  <1>8. 0 \in T
    BY <1>5, <1>6, <1>7
  <1>9. ASSUME NEW k \in Nat, k \in T
        PROVE  k + 1 \in T
    <2>1. ASSUME (k + 1) + 1 \in 1 .. n
          PROVE  flatten[(k + 1) + 1] = f[(k + 1) + 1]
      <3>1. PICK i : i = (k + 1) + 1
        OBVIOUS
      <3>2. i \in 1 .. n /\ i # 1 /\ i - 1 = k + 1 /\ k + 1 \in 1 .. n
        BY <1>6, <2>1, <3>1
      <3>3. flatten[k + 1] = f[k + 1]
        BY <1>9, <3>2
      <3>4. flatten[i] = flatten[i - 1] \o ss[i] /\ f[i] = f[i - 1] \o ss[i]
        BY <1>5, <1>7, <3>2
      <3> QED
        BY <3>1, <3>2, <3>3, <3>4
    <2> QED
      BY <2>1
  <1>10. flatten[n] = f[n]
    <2>1. T \in SUBSET Nat
      OBVIOUS
    <2>2. T = Nat
      <3> HIDE DEF T
      <3> QED
        BY <1>8, <1>9, <2>1, AllNumbers
    <2>3. n - 1 \in Nat /\ (n - 1) + 1 = n /\ n \in 1 .. n
      BY <1>6
    <2>4. n - 1 \in T
      BY <2>2, <2>3
    <2> QED
      BY <2>3, <2>4
  <1> QED
    BY <1>1, <1>2, <1>10

\* FlattenSeq of a sequence with one more in front.
LEMMA FlattenCons ==
    ASSUME NEW S, NEW e \in Seq(S), NEW ss \in Seq(Seq(S))
    PROVE  FlattenSeq(ss) \in Seq(S) /\ FlattenSeq(<<e>> \o ss) = e \o FlattenSeq(ss)
  <1> DEFINE us == <<e>> \o ss
             n == Len(ss)
  <1>0. /\ us \in Seq(Seq(S)) /\ us # <<>> /\ Len(us) = n + 1 /\ us[1] = e
        /\ \A i \in 1 .. n : us[i + 1] = ss[i]
        /\ n \in Nat
    <2>1. /\ us \in Seq(Seq(S)) /\ Len(us) = n + 1 /\ us[1] = e
          /\ \A i \in 1 .. n : us[i + 1] = ss[i]
          /\ n \in Nat
      BY ConsIs, LenProperties
    <2> HIDE DEF us
    <2> QED
      BY <2>1, EmptySeq
  <1> HIDE DEF us
  <1>n. n \in Nat
    BY <1>0
  <1>1. PICK g : Joins(us, S, g) /\ FlattenSeq(us) = g[Len(us)]
    BY <1>0, FlattenIs
  <1>2. \A i \in 1 .. n + 1 : /\ g[i] \in Seq(S)
                              /\ g[i] = IF i = 1 THEN us[i] ELSE g[i - 1] \o us[i]
    BY <1>0, <1>1 DEF Joins
  <1>3. g[1] = e
    BY <1>0, <1>2
  <1>4. CASE ss = <<>>
    <2>1. n = 0 /\ FlattenSeq(us) = e
      BY <1>0, <1>1, <1>3, <1>4, EmptySeq
    <2>2. FlattenSeq(ss) = <<>>
      BY <1>4, <2>1 DEF FlattenSeq
    <2>3. <<>> \in Seq(S) /\ e \o <<>> = e
      BY ConcatEmptySeq
    <2> QED
      BY <2>1, <2>2, <2>3 DEF us
  <1>5. CASE ss # <<>>
    <2>1. PICK f : Joins(ss, S, f) /\ FlattenSeq(ss) = f[n]
      BY <1>5, FlattenIs
    <2>2. \A i \in 1 .. n : /\ f[i] \in Seq(S) /\ ss[i] \in Seq(S)
                            /\ f[i] = IF i = 1 THEN ss[i] ELSE f[i - 1] \o ss[i]
      BY <1>0, <2>1, ElementOfSeq DEF Joins
    <2>3. n # 0
      BY <1>5, EmptySeq
    <2> DEFINE T == {m \in Nat : m + 1 \in 1 .. n => g[m + 2] = e \o f[m + 1]}
    <2>4. 0 \in T
      <3>1. PICK i : i = 2
        OBVIOUS
      <3>2. /\ i \in 1 .. n + 1 /\ i # 1 /\ i - 1 = 1 /\ 1 \in 1 .. n
            /\ i = 1 + 1 /\ i = 0 + 2 /\ 0 + 1 = 1
        BY <1>n, <2>3, <3>1
      <3>3. g[i] = g[1] \o us[i]
        BY <1>2, <3>2
      <3>4. us[i] = ss[1] /\ f[1] = ss[1]
        BY <1>0, <2>2, <3>2
      <3>5. g[0 + 2] = e \o f[0 + 1]
        BY <1>3, <3>2, <3>3, <3>4
      <3> QED
        BY <3>5
    <2>5. ASSUME NEW k \in Nat, k \in T
          PROVE  k + 1 \in T
      <3>1. ASSUME (k + 1) + 1 \in 1 .. n
            PROVE  g[(k + 1) + 2] = e \o f[(k + 1) + 1]
        <4>1. PICK i, j : i = k + 2 /\ j = k + 3
          OBVIOUS
        <4>2. /\ i \in 1 .. n /\ i # 1 /\ i - 1 = k + 1 /\ k + 1 \in 1 .. n
              /\ j \in 1 .. n + 1 /\ j # 1 /\ j - 1 = i /\ j = i + 1
          BY <1>n, <3>1, <4>1
        <4>3. g[i] = e \o f[k + 1]
          BY <2>5, <4>1, <4>2
        <4>4. g[j] = g[i] \o ss[i]
          BY <1>0, <1>2, <4>2
        <4>5. f[i] = f[k + 1] \o ss[i] /\ f[k + 1] \in Seq(S) /\ ss[i] \in Seq(S)
          BY <2>2, <4>2
        <4>6. (e \o f[k + 1]) \o ss[i] = e \o (f[k + 1] \o ss[i])
          <5>1. PICK p, r : p = f[k + 1] /\ r = ss[i]
            OBVIOUS
          <5>2. p \in Seq(S) /\ r \in Seq(S)
            BY <4>5, <5>1
          <5>3. (e \o p) \o r = e \o (p \o r)
            BY <5>2, ConcatAssociative
          <5> QED
            BY <5>1, <5>3
        <4>7. g[j] = e \o f[i]
          BY <4>3, <4>4, <4>5, <4>6
        <4>8. (k + 1) + 2 = j /\ (k + 1) + 1 = i
          BY <4>1
        <4> QED
          BY <4>7, <4>8
      <3> QED
        BY <3>1
    <2>6. n - 1 \in T
      <3>1. T \in SUBSET Nat
        OBVIOUS
      <3>2. T = Nat
        <4> HIDE DEF T
        <4> QED
          BY <2>4, <2>5, <3>1, AllNumbers
      <3> HIDE DEF T
      <3>3. n - 1 \in Nat
        BY <1>n, <2>3
      <3> QED
        BY <3>2, <3>3
    <2>7. (n - 1) + 1 = n /\ n \in 1 .. n /\ (n - 1) + 2 = n + 1
      BY <1>0, <2>3
    <2>8. g[n + 1] = e \o f[n]
      BY <2>6, <2>7
    <2>9. f[n] \in Seq(S)
      BY <2>2, <2>7
    <2> QED
      BY <1>0, <1>1, <2>1, <2>8, <2>9 DEF us
  <1> QED
    BY <1>4, <1>5

-----------------------------------------------------------------------------
(* What a record says: its dump, as a sequence of symbols.  Dump is defined  *)
(* by recursion on records, and has its equation because links lead forward. *)

\* What a dump is made of.
Symbols == Tokens \cup {Open, Close}

\* Brackets are no tokens, and differ from each other.
LEMMA SymbolsDiffer ==
    /\ Open \in Symbols /\ Close \in Symbols /\ Open # Close
    /\ \A tok \in Tokens : tok \in Symbols /\ tok # Open /\ tok # Close
  <1>1. Open.type = "OPEN" /\ Close.type = "CLOSE"
    BY DEF Open, Close, Token
  <1>2. \A tok \in Tokens : tok.type \in SymTypes
    BY DEF Tokens
  <1>3. "OPEN" \notin SymTypes /\ "CLOSE" \notin SymTypes
    BY DEF SymTypes
  <1> QED
    BY <1>1, <1>2, <1>3 DEF Symbols

\* What holds of a record whenever it holds of all behind it holds of all.
LEMMA FromBehind ==
    ASSUME NEW t \in Seq(Nodes), NEW T \in SUBSET Refs(t),
           \A r \in Refs(t) : (\A q \in Refs(t) : q > r => q \in T) => r \in T
    PROVE  T = Refs(t)
  <1> DEFINE Missing == {Len(t) - q : q \in Refs(t) \ T}
  <1>1. /\ Refs(t) \subseteq Nat /\ Len(t) \in Nat
        /\ \A q \in Refs(t) : Len(t) - q \in Nat
    BY LenProperties DEF Refs
  <1>2. Missing \in SUBSET Nat
    BY <1>1
  <1>3. ASSUME Missing # {}
        PROVE  FALSE
    <2>1. PICK k \in Missing : \A j \in Missing : k <= j
      <3> HIDE DEF Missing
      <3> QED
        BY <1>2, <1>3, LeastNat
    <2>2. PICK q \in Refs(t) : k = Len(t) - q /\ q \notin T
      BY <2>1
    <2>3. ASSUME NEW p \in Refs(t), p > q
          PROVE  p \in T
      <3>1. Len(t) - p < k /\ Len(t) - p \in Nat /\ k \in Nat
        BY <1>1, <2>2, <2>3
      <3>2. Len(t) - p \notin Missing
        <4> HIDE DEF Missing
        <4> QED
          BY <2>1, <3>1
      <3> QED
        BY <3>2
    <2> QED
      BY <2>2, <2>3
  <1>4. ASSUME NEW q \in Refs(t)
        PROVE  q \in T
    <2>1. q \notin T => Len(t) - q \in Missing
      OBVIOUS
    <2> QED
      BY <1>3, <2>1
  <1> QED
    BY <1>4

\* The records a list of siblings visits are not before its first.
LEMMA SiblingsBehind ==
    ASSUME NEW t \in Seq(Nodes), Linked(t), NEW r \in Refs(t)
    PROVE  \A k \in 1 .. Len(Siblings(t, r)) : Siblings(t, r)[k] >= r
  <1> DEFINE Behind(q) == \A k \in 1 .. Len(Siblings(t, q)) : Siblings(t, q)[k] >= q
             T == {q \in Refs(t) : Behind(q)}
  <1>0. /\ Refs(t) \subseteq Int /\ NoRef \notin Refs(t)
        /\ \A q \in Refs(t) : At(t, q).next # NoRef => At(t, q).next > q
    <2>1. Len(t) \in Nat
      BY LenProperties
    <2>2. \A q \in Refs(t) : At(t, q).next \in {NoRef} \cup q + 1 .. Len(t) - 1
      BY DEF Linked
    <2> QED
      BY <2>1, <2>2 DEF Refs, NoRef
  <1>1. ASSUME NEW q \in Refs(t), At(t, q).next = NoRef \/ At(t, q).next \in T
        PROVE  Behind(q)
    <2>1. CASE At(t, q).next = NoRef
      <3>1. Siblings(t, q) = <<q>> /\ q \in Int
        BY <1>0, <2>1, SiblingsFrom
      <3> QED
        BY <3>1
    <2>2. CASE At(t, q).next \in T
      <3>1. PICK next \in Refs(t), rest \in Seq(Refs(t)) :
               /\ next = At(t, q).next /\ rest = Siblings(t, next)
               /\ Siblings(t, q) = <<q>> \o rest
        BY <2>2, SiblingsFrom
      <3>2. q \in Int /\ next \in Int /\ next > q /\ Refs(t) \subseteq Int
        BY <1>0, <3>1
      <3>3. \A k \in 1 .. Len(rest) : rest[k] >= next /\ rest[k] \in Int
        BY <2>2, <3>1, <3>2, ElementOfSeq
      <3>4. PICK all : all = <<q>> \o rest
        OBVIOUS
      <3>5. /\ Len(all) = Len(rest) + 1 /\ all[1] = q /\ Len(rest) \in Nat
            /\ \A k \in 1 .. Len(rest) : all[k + 1] = rest[k]
        BY <3>4, ConsIs, LenProperties
      <3>6. ASSUME NEW k \in 1 .. Len(all)
            PROVE  all[k] >= q
        <4>1. CASE k = 1
          BY <3>2, <3>5, <4>1
        <4>2. CASE k # 1
          <5>1. PICK j \in 1 .. Len(rest) : k = j + 1
            BY <3>5, <4>2
          <5> QED
            BY <3>2, <3>3, <3>5, <5>1
        <4> QED
          BY <4>1, <4>2
      <3> QED
        BY <3>1, <3>4, <3>6
    <2> QED
      BY <1>1, <2>1, <2>2
  <1> HIDE DEF Behind
  <1>2. T = Refs(t)
    <2>1. /\ T \in SUBSET Refs(t)
          /\ \A q \in Refs(t) : (At(t, q).next = NoRef \/ At(t, q).next \in T) => q \in T
      BY <1>1
    <2> HIDE DEF T
    <2> QED
      BY <2>1, FromTheLast
  <1>3. Behind(r)
    BY <1>2
  <1> QED
    BY <1>3 DEF Behind

\* Children are behind their expression.
LEMMA KidsBehind ==
    ASSUME NEW t \in Seq(Nodes), Linked(t), NEW r \in Refs(t)
    PROVE  /\ Kids(t, r) \in Seq(Refs(t))
           /\ DOMAIN Kids(t, r) = 1 .. Len(Kids(t, r)) /\ Len(Kids(t, r)) \in Nat
           /\ \A k \in DOMAIN Kids(t, r) : Kids(t, r)[k] \in Refs(t) /\ Kids(t, r)[k] > r
  <1>1. /\ Kids(t, r) \in Seq(Refs(t)) /\ Kids(t, r) = Siblings(t, At(t, r).first)
        /\ At(t, r).first \in Refs(t) \cup {NoRef}
        /\ At(t, r).first = NoRef <=> Kids(t, r) = <<>>
    BY KidsAre DEF Kids
  <1>2. /\ DOMAIN Kids(t, r) = 1 .. Len(Kids(t, r)) /\ Len(Kids(t, r)) \in Nat
        /\ \A k \in DOMAIN Kids(t, r) : Kids(t, r)[k] \in Refs(t)
    BY <1>1, ElementOfSeq, LenProperties
  <1>3. ASSUME NEW k \in DOMAIN Kids(t, r)
        PROVE  Kids(t, r)[k] > r
    <2>1. Kids(t, r) # <<>>
      BY <1>2, EmptySeq
    <2>2. PICK f \in Refs(t) : f = At(t, r).first
      BY <1>1, <2>1
    <2>3. f > r /\ f \in Int /\ r \in Int /\ Refs(t) \subseteq Int
      BY <2>2, LenProperties DEF Linked, Refs, NoRef
    <2>4. Siblings(t, f)[k] >= f
      BY <1>1, <1>2, <2>2, SiblingsBehind
    <2>5. Kids(t, r)[k] >= f /\ Kids(t, r)[k] \in Int
      BY <1>1, <1>2, <2>2, <2>3, <2>4
    <2> QED
      BY <2>3, <2>5
  <1> QED
    BY <1>1, <1>2, <1>3

\* The dumps of the children of r, and of r, if f has those of the children.
KidWords(t, f, r) == [k \in DOMAIN Kids(t, r) |-> f[Kids(t, r)[k]]]
\* The dump of a record whose children have the dumps f gives them.
Word(t, f, r) == IF At(t, r).tok # ExprToken THEN <<At(t, r).tok>>
                 ELSE <<Open>> \o FlattenSeq(KidWords(t, f, r)) \o <<Close>>

\* f gives the records of D their dumps.
Dumps(t, D, f) == /\ f \in [D -> Seq(Symbols)]
                  /\ \A r \in D : f[r] = Word(t, f, r)

\* A sequence of one element.
LEMMA OneIsSeq ==
    ASSUME NEW S, NEW x \in S
    PROVE  <<x>> \in Seq(S)
  OBVIOUS

\* A word is a sequence of symbols if those of the records behind it are.
LEMMA WordIsSeq ==
    ASSUME NEW t \in Seq(Nodes), Linked(t), NEW r \in Refs(t), NEW f,
           \A q \in Refs(t) : q > r => f[q] \in Seq(Symbols)
    PROVE  /\ KidWords(t, f, r) \in Seq(Seq(Symbols))
           /\ Word(t, f, r) \in Seq(Symbols)
  <1>1. /\ DOMAIN Kids(t, r) = 1 .. Len(Kids(t, r)) /\ Len(Kids(t, r)) \in Nat
        /\ \A k \in DOMAIN Kids(t, r) : Kids(t, r)[k] \in Refs(t) /\ Kids(t, r)[k] > r
    BY KidsBehind
  <1>2. PICK n \in Nat : n = Len(Kids(t, r))
    BY <1>1
  <1>3. KidWords(t, f, r) \in [1 .. n -> Seq(Symbols)]
    <2>1. KidWords(t, f, r) = [k \in 1 .. n |-> f[Kids(t, r)[k]]]
      BY <1>1, <1>2 DEF KidWords
    <2>2. \A k \in 1 .. n : f[Kids(t, r)[k]] \in Seq(Symbols)
      BY <1>1, <1>2
    <2> QED
      BY <2>1, <2>2
  <1>4. KidWords(t, f, r) \in Seq(Seq(Symbols))
    BY <1>3, SeqDef
  <1>5. FlattenSeq(KidWords(t, f, r)) \in Seq(Symbols)
    <2>1. <<>> \in Seq(Symbols)
      OBVIOUS
    <2> QED
      BY <1>4, <2>1, FlattenCons
  <1>6. At(t, r).tok \in Symbols /\ Open \in Symbols /\ Close \in Symbols
    <2>1. r + 1 \in 1 .. Len(t)
      BY LenProperties DEF Refs
    <2>2. t[r + 1] \in Nodes
      BY <2>1, ElementOfSeq
    <2> QED
      BY <2>2, SymbolsDiffer DEF At, Nodes
  <1>7. <<Open>> \o FlattenSeq(KidWords(t, f, r)) \o <<Close>> \in Seq(Symbols)
    <2>1. PICK mid \in Seq(Symbols) : mid = FlattenSeq(KidWords(t, f, r))
      BY <1>5
    <2>2. PICK open \in Seq(Symbols) : open = <<Open>>
      BY <1>6, OneIsSeq, Zenon
    <2>3. PICK close \in Seq(Symbols) : close = <<Close>>
      BY <1>6, OneIsSeq, Zenon
    <2>4. open \o mid \in Seq(Symbols)
      BY ConcatProperties
    <2>5. (open \o mid) \o close \in Seq(Symbols)
      BY <2>4, ConcatProperties
    <2> QED
      BY <2>1, <2>2, <2>3, <2>5
  <1>8. <<At(t, r).tok>> \in Seq(Symbols)
    BY <1>6
  <1> QED
    BY <1>4, <1>7, <1>8 DEF Word

\* A word depends on what is behind the record alone.
LEMMA WordSame ==
    ASSUME NEW t \in Seq(Nodes), Linked(t), NEW r \in Refs(t), NEW f, NEW g,
           \A q \in Refs(t) : q > r => f[q] = g[q]
    PROVE  Word(t, f, r) = Word(t, g, r)
  <1>1. \A k \in DOMAIN Kids(t, r) : Kids(t, r)[k] \in Refs(t) /\ Kids(t, r)[k] > r
    BY KidsBehind
  <1>2. \A k \in DOMAIN Kids(t, r) : f[Kids(t, r)[k]] = g[Kids(t, r)[k]]
    BY <1>1
  <1>3. KidWords(t, f, r) = KidWords(t, g, r)
    BY <1>2 DEF KidWords
  <1> QED
    BY <1>3 DEF Word

\* The dumps of the last k records determine that of the one before them.
LEMMA DumpsStep ==
    ASSUME NEW t \in Seq(Nodes), Linked(t), NEW k \in Nat, k + 1 <= Len(t),
           NEW f, Dumps(t, Len(t) - k .. Len(t) - 1, f)
    PROVE  \E g : Dumps(t, Len(t) - (k + 1) .. Len(t) - 1, g)
  <1> DEFINE n == Len(t)
             D == n - k .. n - 1
             E == n - (k + 1) .. n - 1
             new == n - (k + 1)
             word == Word(t, f, new)
             g == [r \in E |-> IF r = new THEN word ELSE f[r]]
  <1>1. n \in Nat
    BY LenProperties
  <1>2. /\ new \in Refs(t) /\ new \notin D /\ E = D \cup {new} /\ D \subseteq Refs(t)
        /\ \A r \in E, q \in Refs(t) : q > r => q \in D
    BY <1>1 DEF Refs
  <1>3. f \in [D -> Seq(Symbols)] /\ \A r \in D : f[r] = Word(t, f, r)
    BY DEF Dumps
  <1> HIDE DEF n, D, E, new
  <1>4. word \in Seq(Symbols)
    <2>1. \A q \in Refs(t) : q > new => f[q] \in Seq(Symbols)
      BY <1>2, <1>3
    <2> QED
      BY <1>2, <2>1, WordIsSeq
  <1>5. word = Word(t, f, new)
    OBVIOUS
  <1> HIDE DEF word
  <1>6. g \in [E -> Seq(Symbols)]
    BY <1>2, <1>3, <1>4
  <1>7. g[new] = word /\ \A r \in D : g[r] = f[r]
    BY <1>2
  <1> HIDE DEF g
  <1>8. ASSUME NEW r \in E
        PROVE  g[r] = Word(t, g, r)
    <2>1. r \in Refs(t) /\ \A q \in Refs(t) : q > r => f[q] = g[q]
      BY <1>2, <1>7
    <2>2. Word(t, f, r) = Word(t, g, r)
      BY <2>1, WordSame
    <2>3. g[r] = Word(t, f, r)
      BY <1>2, <1>3, <1>5, <1>7
    <2> QED
      BY <2>2, <2>3
  <1>9. Dumps(t, E, g)
    BY <1>6, <1>8, Zenon DEF Dumps
  <1> QED
    BY <1>9 DEF E, n

\* Every record has a dump.
LEMMA DumpsExist ==
    ASSUME NEW t \in Seq(Nodes), Linked(t)
    PROVE  \E f : Dumps(t, Refs(t), f)
  <1> DEFINE n == Len(t)
             Has(k) == \E f : Dumps(t, n - k .. n - 1, f)
             T == {k \in Nat : k <= n => Has(k)}
  <1>1. n \in Nat
    BY LenProperties
  <1>2. 0 \in T
    <2> DEFINE f == [r \in {} |-> <<>>]
    <2>1. n - 0 .. n - 1 = {}
      BY <1>1
    <2>2. f \in [{} -> Seq(Symbols)] /\ \A r \in {} : f[r] = Word(t, f, r)
      OBVIOUS
    <2> HIDE DEF f
    <2>3. Dumps(t, {}, f)
      BY <2>2, Zenon DEF Dumps
    <2>4. Has(0)
      BY <2>1, <2>3
    <2> HIDE DEF Has
    <2> QED
      BY <2>4
  <1>3. ASSUME NEW k \in Nat, k \in T
        PROVE  k + 1 \in T
    <2>1. CASE k + 1 <= n
      <3>1. Has(k)
        <4>1. k <= n
          BY <1>1, <2>1
        <4> HIDE DEF Has
        <4> QED
          BY <1>3, <4>1
      <3>2. Has(k + 1)
        BY <2>1, <3>1, DumpsStep
      <3> HIDE DEF Has
      <3> QED
        BY <3>2
    <2>2. CASE ~(k + 1 <= n)
      <3> HIDE DEF Has
      <3> QED
        BY <2>2
    <2> QED
      BY <2>1, <2>2
  <1>4. Has(n)
    <2> HIDE DEF Has
    <2>1. T \in SUBSET Nat
      OBVIOUS
    <2>2. T = Nat
      <3> HIDE DEF T
      <3> QED
        BY <1>2, <1>3, <2>1, AllNumbers
    <2>3. n \in T /\ n <= n
      BY <1>1, <2>2
    <2> QED
      BY <2>3
  <1>5. n - n .. n - 1 = Refs(t)
    BY <1>1 DEF Refs
  <1> QED
    BY <1>4, <1>5

\* Dump is what its equation says.
LEMMA DumpIs ==
    ASSUME NEW t \in Seq(Nodes), Linked(t)
    PROVE  \E f : Dumps(t, Refs(t), f) /\ \A r \in Refs(t) : Dump(t, r) = f[r]
  <1> DEFINE dump == CHOOSE f : f = [r \in Refs(t) |->
                        IF At(t, r).tok # ExprToken THEN <<At(t, r).tok>>
                        ELSE <<Open>> \o FlattenSeq([k \in DOMAIN Kids(t, r) |->
                                                        f[Kids(t, r)[k]]]) \o <<Close>>]
             Holds(f) == f = [r \in Refs(t) |-> Word(t, f, r)]
  <1>1. \A r : Dump(t, r) = dump[r]
    BY DEF Dump
  <1>2. dump = CHOOSE f : Holds(f)
    BY Zenon DEF Word, KidWords
  <1>3. PICK f : Dumps(t, Refs(t), f)
    BY DumpsExist
  <1>4. Holds(f)
    <2>1. f = [r \in Refs(t) |-> f[r]] /\ \A r \in Refs(t) : f[r] = Word(t, f, r)
      BY <1>3 DEF Dumps
    <2> QED
      BY <2>1, Zenon
  <1>5. Holds(dump)
    <2> HIDE DEF Holds, dump
    <2> QED
      BY <1>2, <1>4, Zenon
  <1> HIDE DEF dump
  <1>6. \A r \in Refs(t) : dump[r] = Word(t, dump, r)
    BY <1>5, Zenon
  <1>7. \A r \in Refs(t) : f[r] = Word(t, f, r)
    BY <1>3 DEF Dumps
  <1> DEFINE T == {r \in Refs(t) : dump[r] = f[r]}
  <1>8. ASSUME NEW r \in Refs(t), \A q \in Refs(t) : q > r => q \in T
        PROVE  r \in T
    <2>1. \A q \in Refs(t) : q > r => dump[q] = f[q]
      BY <1>8
    <2>2. Word(t, dump, r) = Word(t, f, r)
      BY <2>1, WordSame
    <2> QED
      BY <1>6, <1>7, <2>2
  <1>9. T = Refs(t)
    <2>1. T \in SUBSET Refs(t)
      OBVIOUS
    <2> HIDE DEF T
    <2> QED
      BY <1>8, <2>1, FromBehind
  <1>10. \A r \in Refs(t) : Dump(t, r) = f[r]
    BY <1>1, <1>9
  <1> QED
    BY <1>3, <1>10

\* The dumps of the siblings from r on, one behind the other.
ListDump(t, r) == FlattenSeq([k \in DOMAIN Siblings(t, r) |-> Dump(t, Siblings(t, r)[k])])

\* What a dump and a list of dumps begin with and go on with.
LEMMA DumpsAre ==
    ASSUME NEW t \in Seq(Nodes), Linked(t)
    PROVE  /\ ListDump(t, NoRef) = <<>>
           /\ \A r \in Refs(t) \cup {NoRef} : ListDump(t, r) \in Seq(Symbols)
           /\ \A r \in Refs(t) :
                 /\ Dump(t, r) \in Seq(Symbols)
                 /\ At(t, r).tok # ExprToken => Dump(t, r) = <<At(t, r).tok>>
                 /\ At(t, r).tok = ExprToken =>
                       Dump(t, r) = <<Open>> \o (ListDump(t, At(t, r).first) \o <<Close>>)
                 /\ ListDump(t, r) = Dump(t, r) \o ListDump(t, At(t, r).next)
  <1>1. PICK f : Dumps(t, Refs(t), f) /\ \A r \in Refs(t) : Dump(t, r) = f[r]
    BY DumpIs
  <1>2. /\ f \in [Refs(t) -> Seq(Symbols)]
        /\ \A r \in Refs(t) : f[r] = Word(t, f, r)
    BY <1>1 DEF Dumps
  <1>3. ASSUME NEW q \in Seq(Refs(t))
        PROVE  LET words == [k \in DOMAIN q |-> Dump(t, q[k])]
               IN /\ words \in Seq(Seq(Symbols)) /\ Len(words) = Len(q)
                  /\ \A k \in 1 .. Len(q) : words[k] = f[q[k]]
                  /\ words = [k \in DOMAIN q |-> f[q[k]]]
    <2> DEFINE words == [k \in DOMAIN q |-> Dump(t, q[k])]
    <2>1. /\ Len(q) \in Nat /\ DOMAIN q = 1 .. Len(q)
          /\ \A k \in 1 .. Len(q) : q[k] \in Refs(t)
      BY LenProperties, ElementOfSeq
    <2>2. \A k \in 1 .. Len(q) : Dump(t, q[k]) = f[q[k]] /\ f[q[k]] \in Seq(Symbols)
      BY <1>1, <1>2, <2>1
    <2>3. words \in [1 .. Len(q) -> Seq(Symbols)] /\ words = [k \in DOMAIN q |-> f[q[k]]]
      BY <2>1, <2>2
    <2>4. \A k \in 1 .. Len(q) : words[k] = f[q[k]]
      BY <2>1, <2>2
    <2> HIDE DEF words
    <2>5. words \in Seq(Seq(Symbols)) /\ DOMAIN words = 1 .. Len(q)
      BY <2>1, <2>3, SeqDef
    <2>6. Len(words) = Len(q)
      BY <2>1, <2>5, LenProperties
    <2>7. /\ words \in Seq(Seq(Symbols)) /\ Len(words) = Len(q)
          /\ \A k \in 1 .. Len(q) : words[k] = f[q[k]]
          /\ words = [k \in DOMAIN q |-> f[q[k]]]
      BY <2>3, <2>4, <2>5, <2>6
    <2> QED
      BY <2>7 DEF words
  <1>4. <<>> \in Seq(Symbols)
    OBVIOUS
  <1>5. \A r \in Refs(t) \cup {NoRef} : ListDump(t, r) \in Seq(Symbols)
    <2> SUFFICES ASSUME NEW r \in Refs(t) \cup {NoRef}
                 PROVE  ListDump(t, r) \in Seq(Symbols)
      OBVIOUS
    <2>1. PICK q \in Seq(Refs(t)) : q = Siblings(t, r)
      BY SiblingsAre
    <2>2. PICK words \in Seq(Seq(Symbols)) : words = [k \in DOMAIN q |-> Dump(t, q[k])]
      BY <1>3
    <2>3. FlattenSeq(words) \in Seq(Symbols)
      BY <1>4, FlattenCons
    <2> QED
      BY <2>1, <2>2, <2>3 DEF ListDump
  <1>6. ListDump(t, NoRef) = <<>>
    <2>1. Siblings(t, NoRef) = <<>>
      BY SiblingsFrom
    <2>2. PICK words \in Seq(Seq(Symbols)) :
             words = [k \in DOMAIN <<>> |-> Dump(t, <<>>[k])] /\ Len(words) = Len(<<>>)
      <3>0. <<>> \in Seq(Refs(t))
        OBVIOUS
      <3>1. PICK q \in Seq(Refs(t)) : q = <<>>
        BY <3>0, Zenon
      <3>2. PICK words \in Seq(Seq(Symbols)) :
               words = [k \in DOMAIN q |-> Dump(t, q[k])] /\ Len(words) = Len(q)
        BY <1>3
      <3> QED
        BY <3>1, <3>2
    <2>3. words = <<>> /\ Len(words) = 0
      BY <2>2, EmptySeq
    <2>4. FlattenSeq(words) = <<>>
      BY <2>3 DEF FlattenSeq
    <2> QED
      BY <2>1, <2>2, <2>4 DEF ListDump
  <1>7. ASSUME NEW r \in Refs(t)
        PROVE  /\ Dump(t, r) \in Seq(Symbols)
               /\ At(t, r).tok # ExprToken => Dump(t, r) = <<At(t, r).tok>>
               /\ At(t, r).tok = ExprToken =>
                     Dump(t, r) = <<Open>> \o (ListDump(t, At(t, r).first) \o <<Close>>)
    <2>1. Dump(t, r) = Word(t, f, r) /\ Dump(t, r) \in Seq(Symbols)
      BY <1>1, <1>2
    <2>2. PICK q \in Seq(Refs(t)) : q = Siblings(t, At(t, r).first) /\ q = Kids(t, r)
      BY KidsAre DEF Kids
    <2>3. KidWords(t, f, r) = [k \in DOMAIN q |-> Dump(t, q[k])]
      BY <1>3, <2>2 DEF KidWords
    <2>4. FlattenSeq(KidWords(t, f, r)) = ListDump(t, At(t, r).first)
      BY <2>2, <2>3 DEF ListDump
    <2>5. At(t, r).first \in Refs(t) \cup {NoRef}
      BY SiblingsFrom
    <2>6. PICK mid \in Seq(Symbols) : mid = ListDump(t, At(t, r).first)
      BY <1>5, <2>5
    <2>7. PICK open \in Seq(Symbols) : open = <<Open>>
      BY SymbolsDiffer, OneIsSeq, Zenon
    <2>8. PICK close \in Seq(Symbols) : close = <<Close>>
      BY SymbolsDiffer, OneIsSeq, Zenon
    <2>9. (open \o mid) \o close = open \o (mid \o close)
      BY ConcatAssociative
    <2> QED
      BY <2>1, <2>4, <2>6, <2>7, <2>8, <2>9 DEF Word
  <1>8. ASSUME NEW r \in Refs(t)
        PROVE  ListDump(t, r) = Dump(t, r) \o ListDump(t, At(t, r).next)
    <2>1. PICK rest \in Seq(Refs(t)) : /\ rest = Siblings(t, At(t, r).next)
                                       /\ Siblings(t, r) = <<r>> \o rest
      BY SiblingsFrom
    <2>2. PICK all \in Seq(Refs(t)) : all = <<r>> \o rest
      BY ConsIs
    <2>3. /\ Len(all) = Len(rest) + 1 /\ all[1] = r /\ Len(rest) \in Nat
          /\ \A i \in 1 .. Len(rest) : all[i + 1] = rest[i]
      BY <2>2, ConsIs, LenProperties
    <2>4. PICK words \in Seq(Seq(Symbols)) :
             /\ words = [k \in DOMAIN rest |-> Dump(t, rest[k])]
             /\ Len(words) = Len(rest) /\ \A k \in 1 .. Len(rest) : words[k] = f[rest[k]]
      BY <1>3
    <2>5. PICK others \in Seq(Seq(Symbols)) :
             /\ others = [k \in DOMAIN all |-> Dump(t, all[k])]
             /\ Len(others) = Len(all) /\ \A k \in 1 .. Len(all) : others[k] = f[all[k]]
      BY <1>3
    <2>6. PICK e \in Seq(Symbols) : e = Dump(t, r) /\ e = f[r]
      BY <1>1, <1>2
    <2>7. PICK longer \in Seq(Seq(Symbols)) : longer = <<e>> \o words
      BY ConsIs
    <2>8. /\ Len(longer) = Len(words) + 1 /\ longer[1] = e
          /\ \A i \in 1 .. Len(words) : longer[i + 1] = words[i]
      BY <2>7, ConsIs
    <2>9. ASSUME NEW i \in 1 .. Len(others)
          PROVE  others[i] = longer[i]
      <3>1. CASE i = 1
        BY <2>3, <2>5, <2>6, <2>8, <3>1
      <3>2. CASE i # 1
        <4>1. PICK j \in 1 .. Len(rest) : i = j + 1
          <5>1. i - 1 \in 1 .. Len(rest) /\ i = (i - 1) + 1
            BY <2>3, <2>5, <3>2
          <5> QED
            BY <5>1
        <4>2. others[i] = f[all[i]] /\ all[i] = rest[j]
          BY <2>3, <2>5, <4>1
        <4>3. longer[i] = words[j] /\ words[j] = f[rest[j]]
          BY <2>4, <2>8, <4>1
        <4> QED
          BY <4>2, <4>3
      <3> QED
        BY <3>1, <3>2
    <2>10. others = longer
      <3>1. Len(others) = Len(longer)
        BY <2>3, <2>4, <2>5, <2>8
      <3> QED
        BY <2>9, <3>1, SeqEqual
    <2>11. FlattenSeq(longer) = e \o FlattenSeq(words)
      BY <2>7, FlattenCons
    <2> QED
      BY <2>1, <2>2, <2>4, <2>5, <2>6, <2>10, <2>11 DEF ListDump
  <1> QED
    BY <1>5, <1>6, <1>7, <1>8

-----------------------------------------------------------------------------
(* A dump can be read: from the symbols of a list of records it can be seen  *)
(* where the list ends and where each of its records does.                   *)

\* Concatenation is associative, said of three and of four sequences.
Grouped(p, q, r) == (p \o q) \o r = p \o (q \o r)
LEMMA ConcatGroups ==
    ASSUME NEW S, NEW p \in Seq(S), NEW q \in Seq(S), NEW r \in Seq(S)
    PROVE  Grouped(p, q, r)
  BY ConcatAssociative DEF Grouped

Regrouped(o, f, c, n) == (o \o (f \o c)) \o n = o \o (f \o (c \o n))
LEMMA ConcatRegroups ==
    ASSUME NEW S, NEW o \in Seq(S), NEW f \in Seq(S), NEW c \in Seq(S), NEW n \in Seq(S)
    PROVE  Regrouped(o, f, c, n)
  <1>1. PICK fc \in Seq(S) : fc = f \o c
    BY ConcatProperties
  <1>2. Grouped(o, fc, n) /\ Grouped(f, c, n)
    BY ConcatGroups, Zenon
  <1> QED
    BY <1>1, <1>2 DEF Grouped, Regrouped

\* A list of dumps, with more behind it, begins with its first record.
LEMMA ListDumpReads ==
    ASSUME NEW t \in Seq(Nodes), Linked(t), NEW r \in Refs(t), NEW z \in Seq(Symbols)
    PROVE  /\ At(t, r).tok # ExprToken =>
                 ListDump(t, r) \o z = <<At(t, r).tok>> \o (ListDump(t, At(t, r).next) \o z)
           /\ At(t, r).tok = ExprToken =>
                 ListDump(t, r) \o z =
                    <<Open>> \o (ListDump(t, At(t, r).first) \o
                                    (<<Close>> \o (ListDump(t, At(t, r).next) \o z)))
  <1>1. /\ At(t, r).first \in Refs(t) \cup {NoRef} /\ At(t, r).next \in Refs(t) \cup {NoRef}
    BY SiblingsFrom
  <1>2. PICK f \in Seq(Symbols) : f = ListDump(t, At(t, r).first)
    BY <1>1, DumpsAre
  <1>3. PICK n \in Seq(Symbols) : n = ListDump(t, At(t, r).next)
    BY <1>1, DumpsAre
  <1>4. PICK e \in Seq(Symbols) : e = Dump(t, r) /\ ListDump(t, r) = e \o n
    BY <1>3, DumpsAre
  <1>5. (e \o n) \o z = e \o (n \o z) /\ n \o z \in Seq(Symbols)
    BY ConcatAssociative, ConcatProperties
  <1>6. CASE At(t, r).tok # ExprToken
    <2>1. e = <<At(t, r).tok>>
      BY <1>4, <1>6, DumpsAre
    <2> QED
      BY <1>3, <1>4, <1>5, <1>6, <2>1
  <1>7. CASE At(t, r).tok = ExprToken
    <2>1. PICK open \in Seq(Symbols) : open = <<Open>>
      BY SymbolsDiffer, OneIsSeq, Zenon
    <2>2. PICK close \in Seq(Symbols) : close = <<Close>>
      BY SymbolsDiffer, OneIsSeq, Zenon
    <2>3. e = open \o (f \o close)
      BY <1>2, <1>4, <1>7, <2>1, <2>2, DumpsAre
    <2>4. PICK nz \in Seq(Symbols) : nz = n \o z
      BY <1>5
    <2>5. (open \o (f \o close)) \o nz = open \o (f \o (close \o nz))
      <3>1. Regrouped(open, f, close, nz)
        BY ConcatRegroups, Zenon
      <3> QED
        BY <3>1 DEF Regrouped
    <2>6. ListDump(t, r) \o z = open \o (f \o (close \o (n \o z)))
      BY <1>4, <1>5, <2>3, <2>4, <2>5
    <2> QED
      BY <1>2, <1>3, <1>7, <2>1, <2>2, <2>6
  <1> QED
    BY <1>6, <1>7

\* Where a list of dumps ends can be seen from its symbols.
EndsAlike(p, q) ==
    \A x, y \in Seq(Symbols) : p \o (<<Close>> \o x) = q \o (<<Close>> \o y) => p = q /\ x = y

\* A record holds a token.
LEMMA TokenIs ==
    ASSUME NEW t \in Seq(Nodes), NEW r \in Refs(t)
    PROVE  At(t, r).tok \in Tokens
  <1>1. r + 1 \in 1 .. Len(t)
    BY LenProperties DEF Refs
  <1>2. t[r + 1] \in Nodes
    BY <1>1, ElementOfSeq
  <1> QED
    BY <1>2 DEF At, Nodes

\* An empty list and one that is not.
LEMMA NoListReads ==
    ASSUME NEW t \in Seq(Nodes), Linked(t), NEW r \in Refs(t),
           NEW x \in Seq(Symbols), NEW y \in Seq(Symbols)
    PROVE  ListDump(t, r) \o (<<Close>> \o x) # <<Close>> \o y
  <1>1. PICK z \in Seq(Symbols) : z = <<Close>> \o x
    BY SymbolsDiffer, ConsIs
  <1>2. PICK h \in Symbols, q \in Seq(Symbols) : h # Close /\ ListDump(t, r) \o z = <<h>> \o q
    <2>1. At(t, r).first \in Refs(t) \cup {NoRef} /\ At(t, r).next \in Refs(t) \cup {NoRef}
      BY SiblingsFrom
    <2>2. PICK f \in Seq(Symbols) : f = ListDump(t, At(t, r).first)
      BY <2>1, DumpsAre
    <2>3. PICK n \in Seq(Symbols) : n = ListDump(t, At(t, r).next)
      BY <2>1, DumpsAre
    <2>4. PICK nz \in Seq(Symbols) : nz = n \o z
      BY ConcatProperties
    <2>5. PICK cnz \in Seq(Symbols) : cnz = <<Close>> \o nz
      BY SymbolsDiffer, ConsIs
    <2>6. f \o cnz \in Seq(Symbols)
      BY ConcatProperties
    <2>7. CASE At(t, r).tok # ExprToken
      <3>1. PICK tok \in Symbols : tok = At(t, r).tok /\ tok # Close
        BY TokenIs, SymbolsDiffer
      <3>2. ListDump(t, r) \o z = <<tok>> \o nz
        BY <2>3, <2>4, <2>7, <3>1, ListDumpReads
      <3> QED
        BY <3>1, <3>2
    <2>8. CASE At(t, r).tok = ExprToken
      <3>1. ListDump(t, r) \o z = <<Open>> \o (f \o cnz)
        BY <2>2, <2>3, <2>4, <2>5, <2>8, ListDumpReads
      <3> QED
        BY <2>6, <3>1, SymbolsDiffer
    <2> QED
      BY <2>7, <2>8
  <1>3. Close \in Symbols
    BY SymbolsDiffer
  <1>4. <<h>> \o q # <<Close>> \o y
    BY <1>2, <1>3, ConsSame
  <1> QED
    BY <1>1, <1>2, <1>4

\* What begins a sequence, and what follows, can be read off it.
LEMMA ConsOnce ==
    ASSUME NEW x \in Symbols, NEW y \in Symbols, NEW p \in Seq(Symbols), NEW q \in Seq(Symbols),
           Cons(x, p) = Cons(y, q)
    PROVE  x = y /\ p = q
  BY ConsSame DEF Cons

\* Two empty lists end alike.
LEMMA EmptyEnds == EndsAlike(<<>>, <<>>)
  <1>1. ASSUME NEW x \in Seq(Symbols), NEW y \in Seq(Symbols),
               <<>> \o (<<Close>> \o x) = <<>> \o (<<Close>> \o y)
        PROVE  <<>> = <<>> /\ x = y
    <2>1. Close \in Symbols
      BY SymbolsDiffer
    <2>2. <<Close>> \o x \in Seq(Symbols) /\ <<Close>> \o y \in Seq(Symbols)
      BY <2>1, ConsIs
    <2>3. <<Close>> \o x = <<Close>> \o y
      BY <1>1, <2>2, ConcatEmptySeq
    <2> QED
      BY <2>1, <2>3, ConsSame
  <1> QED
    BY <1>1, Zenon DEF EndsAlike

\* So do, vacuously, an empty list and one that is not.
LEMMA NoListEnds ==
    ASSUME NEW t \in Seq(Nodes), Linked(t), NEW r \in Refs(t)
    PROVE  EndsAlike(ListDump(t, r), <<>>) /\ EndsAlike(<<>>, ListDump(t, r))
  <1>1. \A x \in Seq(Symbols) : /\ <<Close>> \o x \in Seq(Symbols)
                                /\ <<>> \o (<<Close>> \o x) = <<Close>> \o x
    BY SymbolsDiffer, ConsIs, ConcatEmptySeq
  <1>2. ASSUME NEW x \in Seq(Symbols), NEW y \in Seq(Symbols)
        PROVE  /\ ListDump(t, r) \o (<<Close>> \o x) # <<>> \o (<<Close>> \o y)
               /\ <<>> \o (<<Close>> \o x) # ListDump(t, r) \o (<<Close>> \o y)
    <2>1. /\ ListDump(t, r) \o (<<Close>> \o x) # <<Close>> \o y
          /\ <<Close>> \o x # ListDump(t, r) \o (<<Close>> \o y)
      BY NoListReads
    <2> QED
      BY <1>1, <2>1
  <1> QED
    BY <1>2, Zenon DEF EndsAlike

\* Two lists that read the same begin with like records.
SameRecords(s, a, t, b) ==
    /\ At(s, a).tok = At(t, b).tok
    /\ At(s, a).tok = ExprToken => ListDump(s, At(s, a).first) = ListDump(t, At(t, b).first)
    /\ ListDump(s, At(s, a).next) = ListDump(t, At(t, b).next)
\* The lists from a and from b read the same up to a closing bracket, and
\* what is behind a and b ends alike.
ReadAlike(s, a, t, b, x, y) ==
    /\ s \in Seq(Nodes) /\ Linked(s) /\ a \in Refs(s) /\ x \in Seq(Symbols)
    /\ t \in Seq(Nodes) /\ Linked(t) /\ b \in Refs(t) /\ y \in Seq(Symbols)
    /\ EndsAlike(ListDump(s, At(s, a).first), ListDump(t, At(t, b).first))
    /\ EndsAlike(ListDump(s, At(s, a).next), ListDump(t, At(t, b).next))
    /\ ListDump(s, a) \o (<<Close>> \o x) = ListDump(t, b) \o (<<Close>> \o y)
\* They begin with like records, then, and what follows them is the same.
LEMMA RecordsRead ==
    ASSUME NEW s, NEW a, NEW t, NEW b, NEW x, NEW y, ReadAlike(s, a, t, b, x, y)
    PROVE  SameRecords(s, a, t, b) /\ x = y
  <1> USE DEF ReadAlike
  <1>1. PICK c \in Seq(Symbols) : c = <<Close>> \o x
    BY SymbolsDiffer, ConsIs
  <1>2. PICK d \in Seq(Symbols) : d = <<Close>> \o y
    BY SymbolsDiffer, ConsIs
  <1>3. PICK f \in Seq(Symbols) : f = ListDump(s, At(s, a).first)
    BY SiblingsFrom, DumpsAre
  <1>4. PICK g \in Seq(Symbols) : g = ListDump(t, At(t, b).first)
    BY SiblingsFrom, DumpsAre
  <1>5. PICK m \in Seq(Symbols) : m = ListDump(s, At(s, a).next)
    BY SiblingsFrom, DumpsAre
  <1>6. PICK n \in Seq(Symbols) : n = ListDump(t, At(t, b).next)
    BY SiblingsFrom, DumpsAre
  <1>7. PICK mc \in Seq(Symbols) : mc = m \o c
    BY ConcatProperties
  <1>8. PICK nd \in Seq(Symbols) : nd = n \o d
    BY ConcatProperties
  <1>9. /\ At(s, a).tok # ExprToken => ListDump(s, a) \o c = <<At(s, a).tok>> \o mc
        /\ At(s, a).tok = ExprToken => ListDump(s, a) \o c = <<Open>> \o (f \o (<<Close>> \o mc))
    <2>1. /\ At(s, a).tok # ExprToken =>
                ListDump(s, a) \o c = <<At(s, a).tok>> \o (ListDump(s, At(s, a).next) \o c)
          /\ At(s, a).tok = ExprToken =>
                ListDump(s, a) \o c =
                   <<Open>> \o (ListDump(s, At(s, a).first) \o
                                   (<<Close>> \o (ListDump(s, At(s, a).next) \o c)))
      BY ListDumpReads
    <2> QED
      BY <1>3, <1>5, <1>7, <2>1
  <1>10. /\ At(t, b).tok # ExprToken => ListDump(t, b) \o d = <<At(t, b).tok>> \o nd
         /\ At(t, b).tok = ExprToken => ListDump(t, b) \o d = <<Open>> \o (g \o (<<Close>> \o nd))
    <2>1. /\ At(t, b).tok # ExprToken =>
                ListDump(t, b) \o d = <<At(t, b).tok>> \o (ListDump(t, At(t, b).next) \o d)
          /\ At(t, b).tok = ExprToken =>
                ListDump(t, b) \o d =
                   <<Open>> \o (ListDump(t, At(t, b).first) \o
                                   (<<Close>> \o (ListDump(t, At(t, b).next) \o d)))
      BY ListDumpReads
    <2> QED
      BY <1>4, <1>6, <1>8, <2>1
  <1>11. ListDump(s, a) \o c = ListDump(t, b) \o d
    BY <1>1, <1>2
  <1>12. PICK j \in Tokens, k \in Tokens : j = At(s, a).tok /\ k = At(t, b).tok
    BY TokenIs
  <1>13. j \in Symbols /\ k \in Symbols /\ Open \in Symbols /\ j # Open /\ k # Open
         /\ Close \in Symbols
    BY SymbolsDiffer
  <1>14. PICK left \in Seq(Symbols) : left = f \o (<<Close>> \o mc)
    BY <1>13, ConsIs, ConcatProperties
  <1>15. PICK right \in Seq(Symbols) : right = g \o (<<Close>> \o nd)
    BY <1>13, ConsIs, ConcatProperties
  <1>16. m \o (<<Close>> \o x) = n \o (<<Close>> \o y) => m = n /\ x = y
    BY <1>5, <1>6, Zenon DEF EndsAlike
  <1>17. f \o (<<Close>> \o mc) = g \o (<<Close>> \o nd) => f = g /\ mc = nd
    BY <1>3, <1>4, Zenon DEF EndsAlike
  <1>18. mc = nd => m = n /\ x = y
    BY <1>1, <1>2, <1>7, <1>8, <1>16
  <1>19. CASE j # ExprToken /\ k # ExprToken
    <2>1. Cons(j, mc) = Cons(k, nd)
      BY <1>9, <1>10, <1>11, <1>12, <1>19 DEF Cons
    <2>2. j = k /\ mc = nd
      BY <1>13, <2>1, ConsOnce
    <2> QED
      BY <1>5, <1>6, <1>12, <1>18, <1>19, <2>2 DEF SameRecords
  <1>20. CASE j = ExprToken /\ k = ExprToken
    <2>1. Cons(Open, left) = Cons(Open, right)
      BY <1>9, <1>10, <1>11, <1>12, <1>14, <1>15, <1>20 DEF Cons
    <2>2. left = right
      BY <1>13, <2>1, ConsOnce
    <2>3. f = g /\ mc = nd
      BY <1>14, <1>15, <1>17, <2>2
    <2> QED
      BY <1>3, <1>4, <1>5, <1>6, <1>12, <1>18, <1>20, <2>3 DEF SameRecords
  <1>21. CASE j # ExprToken /\ k = ExprToken
    <2>1. Cons(j, mc) = Cons(Open, right)
      BY <1>9, <1>10, <1>11, <1>12, <1>15, <1>21 DEF Cons
    <2> QED
      BY <1>13, <2>1, ConsOnce
  <1>22. CASE j = ExprToken /\ k # ExprToken
    <2>1. Cons(Open, left) = Cons(k, nd)
      BY <1>9, <1>10, <1>11, <1>12, <1>14, <1>22 DEF Cons
    <2> QED
      BY <1>13, <2>1, ConsOnce
  <1> QED
    BY <1>19, <1>20, <1>21, <1>22

\* Like records with like lists behind them have the same dumps.
LEMMA RecordsAlike ==
    ASSUME NEW s \in Seq(Nodes), NEW a \in Refs(s), NEW t \in Seq(Nodes), NEW b \in Refs(t),
           Linked(s), Linked(t)
    PROVE  SameRecords(s, a, t, b) => ListDump(s, a) = ListDump(t, b)
  <1>1. /\ At(s, a).tok # ExprToken => Dump(s, a) = <<At(s, a).tok>>
        /\ At(s, a).tok = ExprToken =>
              Dump(s, a) = <<Open>> \o (ListDump(s, At(s, a).first) \o <<Close>>)
        /\ ListDump(s, a) = Dump(s, a) \o ListDump(s, At(s, a).next)
    BY DumpsAre
  <1>2. /\ At(t, b).tok # ExprToken => Dump(t, b) = <<At(t, b).tok>>
        /\ At(t, b).tok = ExprToken =>
              Dump(t, b) = <<Open>> \o (ListDump(t, At(t, b).first) \o <<Close>>)
        /\ ListDump(t, b) = Dump(t, b) \o ListDump(t, At(t, b).next)
    BY DumpsAre
  <1> QED
    BY <1>1, <1>2 DEF SameRecords

\* Any two lists end alike: by induction from the last record of the first.
LEMMA ListsEndAlike ==
    ASSUME NEW s \in Seq(Nodes), Linked(s), NEW t \in Seq(Nodes), Linked(t)
    PROVE  \A a \in Refs(s) \cup {NoRef}, b \in Refs(t) \cup {NoRef} :
              EndsAlike(ListDump(s, a), ListDump(t, b))
  <1> DEFINE Ends(a) == \A b \in Refs(t) \cup {NoRef} :
                           EndsAlike(ListDump(s, a), ListDump(t, b))
             T == {a \in Refs(s) : Ends(a)}
  <1>1. Ends(NoRef)
    <2>1. EndsAlike(<<>>, <<>>)
      BY EmptyEnds
    <2>2. \A b \in Refs(t) : EndsAlike(<<>>, ListDump(t, b))
      BY NoListEnds
    <2>3. ListDump(s, NoRef) = <<>> /\ ListDump(t, NoRef) = <<>>
      BY DumpsAre
    <2> QED
      BY <2>1, <2>2, <2>3
  <1>2. ASSUME NEW a \in Refs(s), \A q \in Refs(s) : q > a => q \in T
        PROVE  a \in T
    <2>1. \A q \in {At(s, a).first, At(s, a).next} : Ends(q)
      <3>1. \A q \in {At(s, a).first, At(s, a).next} : q = NoRef \/ (q \in Refs(s) /\ q > a)
        <4>1. Len(s) \in Nat
          BY LenProperties
        <4>2. /\ At(s, a).next \in {NoRef} \cup a + 1 .. Len(s) - 1
              /\ At(s, a).first \in {NoRef} \cup a + 1 .. Len(s) - 1
          BY DEF Linked
        <4> QED
          BY <4>1, <4>2 DEF Refs
      <3> HIDE DEF Ends
      <3> QED
        BY <1>1, <1>2, <3>1
    <2>2. ASSUME NEW b \in Refs(t)
          PROVE  EndsAlike(ListDump(s, a), ListDump(t, b))
      <3>1. /\ EndsAlike(ListDump(s, At(s, a).first), ListDump(t, At(t, b).first))
            /\ EndsAlike(ListDump(s, At(s, a).next), ListDump(t, At(t, b).next))
        BY <2>1, SiblingsFrom
      <3>2. ASSUME NEW x \in Seq(Symbols), NEW y \in Seq(Symbols),
                   ListDump(s, a) \o (<<Close>> \o x) = ListDump(t, b) \o (<<Close>> \o y)
            PROVE  ListDump(s, a) = ListDump(t, b) /\ x = y
        <4>1. SameRecords(s, a, t, b) /\ x = y
          <5>1. ReadAlike(s, a, t, b, x, y)
            BY <3>1, <3>2 DEF ReadAlike
          <5> QED
            BY <5>1, RecordsRead
        <4> QED
          BY <4>1, RecordsAlike
      <3> QED
        BY <3>2, Zenon DEF EndsAlike
    <2>3. EndsAlike(ListDump(s, a), ListDump(t, NoRef))
      <3>1. EndsAlike(ListDump(s, a), <<>>)
        BY NoListEnds
      <3>2. ListDump(t, NoRef) = <<>>
        BY DumpsAre
      <3> QED
        BY <3>1, <3>2
    <2> QED
      BY <2>2, <2>3
  <1> HIDE DEF Ends
  <1>3. T = Refs(s)
    <2>1. T \in SUBSET Refs(s)
      OBVIOUS
    <2> HIDE DEF T
    <2> QED
      BY <1>2, <2>1, FromBehind
  <1>4. \A a \in Refs(s) \cup {NoRef} : Ends(a)
    BY <1>1, <1>3
  <1> QED
    BY <1>4 DEF Ends

-----------------------------------------------------------------------------
(* mptest__sym_equals: its equation has one solution, the lists that read    *)
(* the same.                                                                 *)

\* What the equation of mptest__sym_equals says of the records a and b.
RefsOrNone(t) == Refs(t) \cup {NoRef}
AlikeAt(s, t, f, a, b) ==
    IF NoRef \in {a, b} THEN a = b
    ELSE /\ At(s, a).tok = At(t, b).tok
         /\ f[<<At(s, a).first, At(t, b).first>>]
         /\ f[<<At(s, a).next, At(t, b).next>>]

\* Pairs of records, and their halves.
LEMMA PairIs ==
    ASSUME NEW s, NEW t, NEW a \in RefsOrNone(s), NEW b \in RefsOrNone(t)
    PROVE  <<a, b>> \in Pairs(s, t) /\ <<a, b>>[1] = a /\ <<a, b>>[2] = b
  BY DEF Pairs, RefsOrNone

LEMMA PairOf ==
    ASSUME NEW s, NEW t, NEW p \in Pairs(s, t)
    PROVE  p[1] \in RefsOrNone(s) /\ p[2] \in RefsOrNone(t) /\ p = <<p[1], p[2]>>
  BY DEF Pairs, RefsOrNone

\* The lists of the two trees that read the same.
SameLists(s, t) == [p \in Pairs(s, t) |-> ListDump(s, p[1]) = ListDump(t, p[2])]

\* What SameLists says of a pair.
SameListsTell(s, t, a, b) == SameLists(s, t)[<<a, b>>] <=> (ListDump(s, a) = ListDump(t, b))
LEMMA SameListsAt ==
    ASSUME NEW s, NEW t, NEW a \in RefsOrNone(s), NEW b \in RefsOrNone(t)
    PROVE  SameListsTell(s, t, a, b)
  <1>1. PICK p : p = <<a, b>>
    OBVIOUS
  <1>2. p \in Pairs(s, t) /\ p[1] = a /\ p[2] = b
    BY <1>1, PairIs
  <1>3. SameLists(s, t)[p] = (ListDump(s, p[1]) = ListDump(t, p[2]))
    BY <1>2, Zenon DEF SameLists
  <1>4. SameLists(s, t)[<<a, b>>] = (ListDump(s, a) = ListDump(t, b))
    BY <1>1, <1>2, <1>3, Zenon
  <1> QED
    BY <1>4, Zenon DEF SameListsTell

\* The links of a record.
LEMMA LinksOf ==
    ASSUME NEW t \in Seq(Nodes), Linked(t), NEW r \in Refs(t)
    PROVE  /\ At(t, r).first \in RefsOrNone(t) /\ At(t, r).next \in RefsOrNone(t)
           /\ At(t, r).first # NoRef => At(t, r).first > r
           /\ At(t, r).next # NoRef => At(t, r).next > r
  <1>1. /\ At(t, r).first \in {NoRef} \cup r + 1 .. Len(t) - 1
        /\ At(t, r).next \in {NoRef} \cup r + 1 .. Len(t) - 1
    BY DEF Linked
  <1>2. r \in Int /\ 0 <= r /\ Len(t) \in Nat
    BY LenProperties DEF Refs
  <1> QED
    BY <1>1, <1>2 DEF RefsOrNone, Refs, NoRef

\* An empty list of dumps and one that is not.
LEMMA NoListDiffers ==
    ASSUME NEW t \in Seq(Nodes), Linked(t), NEW r \in Refs(t)
    PROVE  ListDump(t, r) # <<>>
  <1>1. <<>> \in Seq(Symbols)
    OBVIOUS
  <1>2. ListDump(t, r) \o (<<Close>> \o <<>>) # <<Close>> \o <<>>
    BY <1>1, NoListReads
  <1>3. <<>> \o (<<Close>> \o <<>>) = <<Close>> \o <<>>
    BY SymbolsDiffer, ConsIs, ConcatEmptySeq
  <1> QED
    BY <1>2, <1>3

\* Two lists are the same if and only if they begin with like records.
LEMMA SameListsAlike ==
    ASSUME NEW s \in Seq(Nodes), Linked(s), NEW t \in Seq(Nodes), Linked(t),
           NEW a \in Refs(s), NEW b \in Refs(t)
    PROVE  ListDump(s, a) = ListDump(t, b) <=> SameRecords(s, a, t, b)
  <1>1. ASSUME ListDump(s, a) = ListDump(t, b)
        PROVE  SameRecords(s, a, t, b)
    <2>1. <<>> \in Seq(Symbols)
      OBVIOUS
    <2>2. /\ At(s, a).first \in RefsOrNone(s) /\ At(s, a).next \in RefsOrNone(s)
          /\ At(t, b).first \in RefsOrNone(t) /\ At(t, b).next \in RefsOrNone(t)
      BY LinksOf
    <2>3. /\ EndsAlike(ListDump(s, At(s, a).first), ListDump(t, At(t, b).first))
          /\ EndsAlike(ListDump(s, At(s, a).next), ListDump(t, At(t, b).next))
      BY <2>2, ListsEndAlike DEF RefsOrNone
    <2>4. ReadAlike(s, a, t, b, <<>>, <<>>)
      BY <1>1, <2>1, <2>3 DEF ReadAlike
    <2> QED
      BY <2>4, RecordsRead
  <1> QED
    BY <1>1, RecordsAlike

\* SameLists solves the equation of mptest__sym_equals.
LEMMA SameListsSolve ==
    ASSUME NEW s \in Seq(Nodes), Linked(s), AtomsBare(s),
           NEW t \in Seq(Nodes), Linked(t), AtomsBare(t),
           NEW a \in RefsOrNone(s), NEW b \in RefsOrNone(t)
    PROVE  SameLists(s, t)[<<a, b>>] <=> AlikeAt(s, t, SameLists(s, t), a, b)
  <1>1. SameListsTell(s, t, a, b)
    BY SameListsAt
  <1>2. CASE NoRef \in {a, b}
    <2>1. AlikeAt(s, t, SameLists(s, t), a, b) <=> a = b
      BY <1>2 DEF AlikeAt
    <2>2. ListDump(s, NoRef) = <<>> /\ ListDump(t, NoRef) = <<>>
      BY DumpsAre
    <2>3. a # NoRef => ListDump(s, a) # <<>>
      BY NoListDiffers DEF RefsOrNone
    <2>4. b # NoRef => ListDump(t, b) # <<>>
      BY NoListDiffers DEF RefsOrNone
    <2>5. ListDump(s, a) = ListDump(t, b) <=> a = b
      BY <1>2, <2>2, <2>3, <2>4
    <2> QED
      BY <1>1, <2>1, <2>5, Zenon DEF SameListsTell
  <1>3. CASE a \in Refs(s) /\ b \in Refs(t) /\ NoRef \notin {a, b}
    <2>1. /\ At(s, a).first \in RefsOrNone(s) /\ At(s, a).next \in RefsOrNone(s)
          /\ At(t, b).first \in RefsOrNone(t) /\ At(t, b).next \in RefsOrNone(t)
      BY <1>3, LinksOf
    <2>2. SameListsTell(s, t, At(s, a).first, At(t, b).first)
      BY <2>1, SameListsAt
    <2>3. SameListsTell(s, t, At(s, a).next, At(t, b).next)
      BY <2>1, SameListsAt
    <2>4. At(s, a).tok = At(t, b).tok /\ At(s, a).tok # ExprToken =>
             ListDump(s, At(s, a).first) = ListDump(t, At(t, b).first)
      <3>1. ASSUME At(s, a).tok = At(t, b).tok, At(s, a).tok # ExprToken
            PROVE  At(s, a).first = NoRef /\ At(t, b).first = NoRef
        BY <1>3, <3>1 DEF AtomsBare
      <3>2. ListDump(s, NoRef) = <<>> /\ ListDump(t, NoRef) = <<>>
        BY DumpsAre
      <3> QED
        BY <3>1, <3>2
    <2>5. ListDump(s, a) = ListDump(t, b) <=> SameRecords(s, a, t, b)
      BY <1>3, SameListsAlike
    <2>6. SameRecords(s, a, t, b) <=>
             /\ At(s, a).tok = At(t, b).tok
             /\ ListDump(s, At(s, a).first) = ListDump(t, At(t, b).first)
             /\ ListDump(s, At(s, a).next) = ListDump(t, At(t, b).next)
      BY <2>4 DEF SameRecords
    <2>7. AlikeAt(s, t, SameLists(s, t), a, b) <=>
             /\ At(s, a).tok = At(t, b).tok
             /\ SameLists(s, t)[<<At(s, a).first, At(t, b).first>>]
             /\ SameLists(s, t)[<<At(s, a).next, At(t, b).next>>]
      BY <1>3, Zenon DEF AlikeAt
    <2> QED
      BY <1>1, <2>2, <2>3, <2>5, <2>6, <2>7, Zenon DEF SameListsTell
  <1> QED
    BY <1>2, <1>3 DEF RefsOrNone

\* Equivalent truth values are equal.
LEMMA BothTrue ==
    ASSUME NEW x \in BOOLEAN, NEW y \in BOOLEAN, x <=> y
    PROVE  x = y
  OBVIOUS

\* An equation solved at every pair is solved as an equation of functions.
Solves(s, t, f) == f = [p \in Pairs(s, t) |-> AlikeAt(s, t, f, p[1], p[2])]

\* What the equation says of a pair.
LEMMA SolvesAt ==
    ASSUME NEW s, NEW t, NEW f, Solves(s, t, f),
           NEW a \in RefsOrNone(s), NEW b \in RefsOrNone(t)
    PROVE  f[<<a, b>>] = AlikeAt(s, t, f, a, b)
  <1>1. PICK p : p = <<a, b>>
    OBVIOUS
  <1>2. p \in Pairs(s, t) /\ p[1] = a /\ p[2] = b
    BY <1>1, PairIs
  <1>3. f[p] = AlikeAt(s, t, f, p[1], p[2])
    BY <1>2, Zenon DEF Solves
  <1> QED
    BY <1>1, <1>2, <1>3, Zenon

\* The equation has a solution.
LEMMA SolvesExist ==
    ASSUME NEW s \in Seq(Nodes), Linked(s), AtomsBare(s),
           NEW t \in Seq(Nodes), Linked(t), AtomsBare(t)
    PROVE  Solves(s, t, SameLists(s, t))
  <1>1. ASSUME NEW p \in Pairs(s, t)
        PROVE  SameLists(s, t)[p] = AlikeAt(s, t, SameLists(s, t), p[1], p[2])
    <2>1. p[1] \in RefsOrNone(s) /\ p[2] \in RefsOrNone(t) /\ p = <<p[1], p[2]>>
      BY PairOf
    <2>2. SameLists(s, t)[p] <=> AlikeAt(s, t, SameLists(s, t), p[1], p[2])
      BY <2>1, SameListsSolve, Zenon
    <2>3. SameLists(s, t)[p] \in BOOLEAN
      BY DEF SameLists
    <2>4. AlikeAt(s, t, SameLists(s, t), p[1], p[2]) \in BOOLEAN
      BY <2>2, <2>3 DEF AlikeAt
    <2> QED
      BY <2>2, <2>3, <2>4, BothTrue
  <1>2. SameLists(s, t) = [p \in Pairs(s, t) |-> SameLists(s, t)[p]]
    BY DEF SameLists
  <1> QED
    BY <1>1, <1>2, Zenon DEF Solves

\* Two solutions agree: the equation leads from a record to those behind it.
LEMMA SolvesOnce ==
    ASSUME NEW s \in Seq(Nodes), Linked(s), NEW t \in Seq(Nodes), Linked(t),
           NEW f, Solves(s, t, f), NEW g, Solves(s, t, g),
           NEW a \in RefsOrNone(s), NEW b \in RefsOrNone(t)
    PROVE  f[<<a, b>>] = g[<<a, b>>]
  <1> DEFINE Agree(r) == \A q \in RefsOrNone(t) : f[<<r, q>>] = g[<<r, q>>]
             T == {r \in Refs(s) : Agree(r)}
  <1>1. ASSUME NEW r \in RefsOrNone(s), NEW q \in RefsOrNone(t)
        PROVE  /\ f[<<r, q>>] = AlikeAt(s, t, f, r, q)
               /\ g[<<r, q>>] = AlikeAt(s, t, g, r, q)
    BY <1>1, SolvesAt
  <1>2. ASSUME NEW r \in RefsOrNone(s), NEW q \in RefsOrNone(t), NoRef \in {r, q}
        PROVE  f[<<r, q>>] = g[<<r, q>>]
    <2>1. AlikeAt(s, t, f, r, q) = AlikeAt(s, t, g, r, q)
      BY <1>2, Zenon DEF AlikeAt
    <2> QED
      BY <1>1, <2>1
  <1>3. Agree(NoRef)
    BY <1>2 DEF RefsOrNone
  <1>4. ASSUME NEW r \in Refs(s), \A q \in Refs(s) : q > r => q \in T
        PROVE  r \in T
    <2>1. /\ At(s, r).first \in RefsOrNone(s) /\ At(s, r).next \in RefsOrNone(s)
          /\ At(s, r).first # NoRef => At(s, r).first > r
          /\ At(s, r).next # NoRef => At(s, r).next > r
      BY LinksOf
    <2>2. Agree(At(s, r).first) /\ Agree(At(s, r).next)
      <3> HIDE DEF Agree
      <3> QED
        BY <1>3, <1>4, <2>1 DEF RefsOrNone
    <2>3. ASSUME NEW q \in RefsOrNone(t)
          PROVE  f[<<r, q>>] = g[<<r, q>>]
      <3>1. CASE NoRef \in {r, q}
        BY <1>2, <3>1 DEF RefsOrNone
      <3>2. CASE NoRef \notin {r, q}
        <4>1. q \in Refs(t) /\ r \in RefsOrNone(s)
          BY <3>2 DEF RefsOrNone
        <4>2. At(t, q).first \in RefsOrNone(t) /\ At(t, q).next \in RefsOrNone(t)
          BY <4>1, LinksOf
        <4>3. /\ f[<<At(s, r).first, At(t, q).first>>] = g[<<At(s, r).first, At(t, q).first>>]
              /\ f[<<At(s, r).next, At(t, q).next>>] = g[<<At(s, r).next, At(t, q).next>>]
          BY <2>2, <4>2, Zenon
        <4>4. AlikeAt(s, t, f, r, q) = AlikeAt(s, t, g, r, q)
          BY <3>2, <4>3, Zenon DEF AlikeAt
        <4> QED
          BY <1>1, <4>1, <4>4
      <3> QED
        BY <3>1, <3>2
    <2> QED
      BY <2>3
  <1>5. T = Refs(s)
    <2>1. T \in SUBSET Refs(s)
      OBVIOUS
    <2> HIDE DEF T
    <2> QED
      BY <1>4, <2>1, FromBehind
  <1>6. Agree(a)
    BY <1>3, <1>5 DEF RefsOrNone
  <1> QED
    BY <1>6

\* mptest__sym_equals compares what two records say: they are equal if and
\* only if their dumps are.
LEMMA SymEqualsIs ==
    ASSUME NEW s \in Seq(Nodes), Linked(s), AtomsBare(s), NEW i \in Refs(s),
           NEW t \in Seq(Nodes), Linked(t), AtomsBare(t), NEW j \in Refs(t)
    PROVE  SymEquals(s, t, i, j) <=> Dump(s, i) = Dump(t, j)
  <1> DEFINE solution == CHOOSE f : Solves(s, t, f)
  <1>1. NoRef \notin {i, j}
    BY LenProperties DEF Refs, NoRef
  <1>2. SymEquals(s, t, i, j) <=>
           /\ At(s, i).tok = At(t, j).tok
           /\ solution[<<At(s, i).first, At(t, j).first>>]
    BY <1>1, Zenon DEF SymEquals, Solves, AlikeAt
  <1>3. Solves(s, t, SameLists(s, t))
    BY SolvesExist
  <1>4. Solves(s, t, solution)
    BY <1>3, Zenon
  <1>5. At(s, i).first \in RefsOrNone(s) /\ At(t, j).first \in RefsOrNone(t)
    BY LinksOf
  <1> DEFINE p == ListDump(s, At(s, i).first)
             q == ListDump(t, At(t, j).first)
  <1>6. solution[<<At(s, i).first, At(t, j).first>>]
           = SameLists(s, t)[<<At(s, i).first, At(t, j).first>>]
    <2> HIDE DEF solution
    <2> QED
      BY <1>3, <1>4, <1>5, SolvesOnce
  <1>7. SameListsTell(s, t, At(s, i).first, At(t, j).first)
    BY <1>5, SameListsAt
  <1>8. SymEquals(s, t, i, j) <=> At(s, i).tok = At(t, j).tok /\ p = q
    <2> HIDE DEF solution
    <2> QED
      BY <1>2, <1>6, <1>7, Zenon DEF SameListsTell
  <1>9. /\ p \in Seq(Symbols) /\ q \in Seq(Symbols)
        /\ Dump(s, i) \in Seq(Symbols) /\ Dump(t, j) \in Seq(Symbols)
        /\ At(s, i).tok # ExprToken => Dump(s, i) = <<At(s, i).tok>>
        /\ At(s, i).tok = ExprToken => Dump(s, i) = <<Open>> \o (p \o <<Close>>)
        /\ At(t, j).tok # ExprToken => Dump(t, j) = <<At(t, j).tok>>
        /\ At(t, j).tok = ExprToken => Dump(t, j) = <<Open>> \o (q \o <<Close>>)
    BY <1>5, DumpsAre DEF RefsOrNone
  <1>10. /\ Open \in Symbols /\ Close \in Symbols
         /\ At(s, i).tok \in Tokens /\ At(t, j).tok \in Tokens
         /\ At(s, i).tok # Open /\ At(t, j).tok # Open
         /\ At(s, i).tok \in Symbols /\ At(t, j).tok \in Symbols
    BY TokenIs, SymbolsDiffer
  <1> HIDE DEF p, q, solution
  <1>11. CASE At(s, i).tok = ExprToken /\ At(t, j).tok = ExprToken
    <2>1. ASSUME Dump(s, i) = Dump(t, j)
          PROVE  p = q
      <3>1. EndsAlike(p, q)
        BY <1>5, ListsEndAlike DEF RefsOrNone, p, q
      <3>2. p \o <<Close>> \in Seq(Symbols) /\ q \o <<Close>> \in Seq(Symbols)
        BY <1>9, <1>10, OneIsSeq, ConcatProperties
      <3>3. Cons(Open, p \o <<Close>>) = Cons(Open, q \o <<Close>>)
        BY <1>9, <1>11, <2>1 DEF Cons
      <3>4. p \o <<Close>> = q \o <<Close>>
        BY <1>10, <3>2, <3>3, ConsOnce
      <3>5. <<>> \in Seq(Symbols) /\ <<Close>> \o <<>> = <<Close>>
        BY <1>10, OneIsSeq, ConcatEmptySeq
      <3> QED
        BY <3>1, <3>4, <3>5, Zenon DEF EndsAlike
    <2> QED
      BY <1>8, <1>9, <1>11, <2>1
  <1>12. CASE At(s, i).tok # ExprToken /\ At(t, j).tok # ExprToken
    <2>1. At(s, i).first = NoRef /\ At(t, j).first = NoRef
      BY <1>12 DEF AtomsBare
    <2>2. p = <<>> /\ q = <<>>
      BY <2>1, DumpsAre DEF p, q
    <2>3. <<At(s, i).tok>> = <<At(t, j).tok>> <=> At(s, i).tok = At(t, j).tok
      OBVIOUS
    <2> QED
      BY <1>8, <1>9, <1>12, <2>2, <2>3
  <1>13. CASE (At(s, i).tok = ExprToken) # (At(t, j).tok = ExprToken)
    <2>1. At(s, i).tok # At(t, j).tok
      BY <1>13
    <2>2. p \o <<Close>> \in Seq(Symbols) /\ q \o <<Close>> \in Seq(Symbols)
      BY <1>9, <1>10, OneIsSeq, ConcatProperties
    <2>3. (<<Open>> \o (p \o <<Close>>))[1] = Open /\ (<<Open>> \o (q \o <<Close>>))[1] = Open
      BY <1>10, <2>2, ConsIs
    <2>4. <<At(s, i).tok>>[1] = At(s, i).tok /\ <<At(t, j).tok>>[1] = At(t, j).tok
      OBVIOUS
    <2>5. Dump(s, i) # Dump(t, j)
      BY <1>9, <1>10, <1>13, <2>3, <2>4
    <2> QED
      BY <1>8, <2>1, <2>5
  <1> QED
    BY <1>11, <1>12, <1>13

-----------------------------------------------------------------------------
(* The verdict of ASSERT_SYMEQ. *)

\* A record added by the parser leaves its places inside expressions.
LEMMA AddNodeShape ==
    ASSUME ParserTreeInv, ParserShape, NEW tok \in Tokens, AddNode(tok)
    PROVE  /\ AtomsBare(nodes') /\ InExpr(nodes', base')
           /\ \A k \in 1 .. Len(Moved) : InExpr(nodes', Moved[k])
           /\ tok = ExprToken => InExpr(nodes', Inside(nodes))
  <1>1. /\ nodes' = SymNew(nodes, Builder, tok)
        /\ base' = IF stk = <<>> THEN Advanced(nodes, base) ELSE base
    BY DEF AddNode
  <1>2. /\ TreeOk(nodes, nodesAlloc) /\ PlaceOk(nodes, base) /\ stk \in Seq(Places)
        /\ Len(stk) \in Nat /\ \A k \in 1 .. Len(stk) : Within(nodes, stk[k])
    BY LenProperties DEF ParserTreeInv
  <1>3. /\ PlaceOk(nodes, Builder)
        /\ stk # <<>> => /\ Len(stk) \in Nat \ {0}
                         /\ Front(stk) \in Seq(Places) /\ Len(Front(stk)) = Len(stk) - 1
                         /\ \A k \in 1 .. Len(stk) - 1 : Front(stk)[k] = stk[k]
    BY BuilderOk
  <1>4. /\ AtomsBare(nodes) /\ InExpr(nodes, base)
        /\ \A k \in 1 .. Len(stk) : InExpr(nodes, stk[k])
    BY DEF ParserShape
  <1>5. InExpr(nodes, Builder)
    BY <1>3, <1>4 DEF Builder, Last
  <1>6. /\ AtomsBare(nodes')
        /\ \A c : Within(nodes, c) /\ InExpr(nodes, c) => InExpr(nodes', c)
        /\ InExpr(nodes', Advanced(nodes, Builder))
        /\ tok = ExprToken => InExpr(nodes', Inside(nodes))
    BY <1>1, <1>2, <1>3, <1>4, <1>5, ShapeGrown
  <1>7. CASE stk = <<>>
    <2>1. base' = Advanced(nodes, Builder) /\ Len(Moved) = 0
      BY <1>1, <1>7, EmptySeq DEF Builder, Moved
    <2> QED
      BY <1>6, <2>1
  <1>8. CASE stk # <<>>
    <2> DEFINE f == Front(stk)
               adv == Advanced(nodes, Builder)
    <2>1. base' = base /\ Moved = Append(f, adv)
      BY <1>1, <1>8 DEF Moved, Builder
    <2>2. InExpr(nodes', base')
      BY <1>2, <1>4, <1>6, <2>1 DEF PlaceOk
    <2>3. /\ f \in Seq(Places) /\ Len(f) \in Nat
          /\ \A k \in 1 .. Len(f) : InExpr(nodes', f[k])
      BY <1>2, <1>3, <1>4, <1>6, <1>8
    <2>4. adv \in Places
      BY <1>2, <1>3, <1>8 DEF PlaceOk, Places, Advanced, Place
    <2> HIDE DEF f, adv
    <2>5. /\ Len(Moved) = Len(f) + 1 /\ Moved[Len(f) + 1] = adv
          /\ \A k \in 1 .. Len(f) : Moved[k] = f[k]
      BY <2>1, <2>3, <2>4, AppendProperties
    <2>6. InExpr(nodes', adv)
      BY <1>6 DEF adv
    <2>7. ASSUME NEW k \in 1 .. Len(Moved)
          PROVE  InExpr(nodes', Moved[k])
      <3>1. k \in 1 .. Len(f) \/ k = Len(f) + 1
        BY <2>3, <2>5
      <3> QED
        BY <2>3, <2>5, <2>6, <3>1
    <2> QED
      BY <1>6, <2>2, <2>7
  <1> QED
    BY <1>7, <1>8

\* Every step of the parser keeps its places inside expressions.
LEMMA ParserShapeStep ==
    ASSUME ParserInv, ParserShape, ParseStep
    PROVE  ParserShape'
  <1>1. ParserTreeInv
    BY DEF ParserInv
  <1>2. CASE UNCHANGED treeVars
    BY <1>2 DEF treeVars, ParserShape
  <1>3. ASSUME NEW tok \in Tokens, AddNode(tok), stk' = Moved
        PROVE  ParserShape'
    BY <1>1, <1>3, AddNodeShape DEF ParserShape
  <1>4. ASSUME AddNode(ExprToken), stk' = Append(Moved, Inside(nodes))
        PROVE  ParserShape'
    <2>1. /\ AtomsBare(nodes') /\ InExpr(nodes', base')
          /\ \A k \in 1 .. Len(Moved) : InExpr(nodes', Moved[k])
          /\ InExpr(nodes', Inside(nodes))
      BY <1>1, <1>4, AddNodeShape, TokensAreTokens
    <2>2. Moved \in Seq(Places) /\ Len(Moved) \in Nat /\ Inside(nodes) \in Places
      BY <1>1, <1>4, AddNodeKeeps, TokensAreTokens, LenProperties DEF PlaceOk
    <2>3. /\ Len(stk') = Len(Moved) + 1 /\ stk'[Len(Moved) + 1] = Inside(nodes)
          /\ \A k \in 1 .. Len(Moved) : stk'[k] = Moved[k]
      BY <1>4, <2>2, AppendProperties
    <2>4. ASSUME NEW k \in 1 .. Len(stk')
          PROVE  InExpr(nodes', stk'[k])
      <3>1. k \in 1 .. Len(Moved) \/ k = Len(Moved) + 1
        BY <2>2, <2>3
      <3> QED
        BY <2>1, <2>3, <3>1
    <2> QED
      BY <2>1, <2>4 DEF ParserShape
  <1>5. ASSUME stk # <<>>, stk' = Front(stk), UNCHANGED <<base, nodes>>
        PROVE  ParserShape'
    <2>1. Len(stk') = Len(stk) - 1 /\ Len(stk) \in Nat
          /\ \A k \in 1 .. Len(stk) - 1 : stk'[k] = stk[k]
      BY <1>1, <1>5, BuilderOk
    <2>2. \A k \in 1 .. Len(stk') : InExpr(nodes', stk'[k])
      BY <1>5, <2>1 DEF ParserShape
    <2> QED
      BY <1>5, <2>2 DEF ParserShape
  <1> QED
    BY <1>2, <1>3, <1>4, <1>5, ParseTreeSteps

\* A tree without records, and places at the top level.
LEMMA NothingShaped ==
    /\ AtomsBare(<<>>) /\ \A t : InExpr(t, TopPlace)
    /\ \A h \in {<<>>, <<TopPlace>>} : \A t : \A k \in 1 .. Len(h) : InExpr(t, h[k])
  <1>1. Refs(<<>>) = {}
    BY EmptySeq DEF Refs
  <1>2. \A t : InExpr(t, TopPlace)
    BY DEF InExpr, TopPlace, Place
  <1>3. ASSUME NEW h \in {<<>>, <<TopPlace>>}, NEW t, NEW k \in 1 .. Len(h)
        PROVE  h[k] = TopPlace
    BY <1>3, EmptySeq
  <1> QED
    BY <1>1, <1>2, <1>3 DEF AtomsBare

\* The builders of the program stay inside expressions.
LEMMA BuildAtomShape ==
    ASSUME UserTreeInv, UserShape, NEW h \in DOMAIN handles, NEW tok \in UserTokens,
           BuildAtom(h, tok)
    PROVE  UserShape'
  <1>1. /\ actual' = SymNew(actual, handles[h], tok)
        /\ handles' = [handles EXCEPT ![h] = Advanced(actual, handles[h])]
    BY DEF BuildAtom
  <1>2. /\ TreeOk(actual, actualAlloc) /\ handles \in Seq(Places)
        /\ h \in 1 .. Len(handles) /\ PlaceOk(actual, handles[h]) /\ tok \in Tokens
        /\ \A k \in 1 .. Len(handles) : Within(actual, handles[k])
    BY TokensAreTokens, LenProperties DEF UserTreeInv, PlaceOk
  <1>3. AtomsBare(actual) /\ \A k \in 1 .. Len(handles) : InExpr(actual, handles[k])
    BY DEF UserShape
  <1>4. /\ AtomsBare(actual')
        /\ \A c : Within(actual, c) /\ InExpr(actual, c) => InExpr(actual', c)
        /\ InExpr(actual', Advanced(actual, handles[h]))
    BY <1>1, <1>2, <1>3, ShapeGrown
  <1>5. PlaceOk(actual', Advanced(actual, handles[h]))
        /\ \A k \in 1 .. Len(handles) : Within(actual', handles[k])
    BY <1>1, <1>2, SymNewOk
  <1>6. /\ Len(handles') = Len(handles)
        /\ \A k \in 1 .. Len(handles) :
              handles'[k] = IF k = h THEN Advanced(actual, handles[h]) ELSE handles[k]
    BY <1>1, <1>2, <1>5, HandlesMoved
  <1>7. \A k \in 1 .. Len(handles') : InExpr(actual', handles'[k])
    BY <1>2, <1>3, <1>4, <1>6
  <1> QED
    BY <1>4, <1>7 DEF UserShape

\* mptest_sym_build_expr: the new builder is for an expression.
LEMMA BuildExprShape ==
    ASSUME UserTreeInv, UserShape, NEW h \in DOMAIN handles, BuildExpr(h)
    PROVE  UserShape'
  <1> DEFINE moved == [handles EXCEPT ![h] = Advanced(actual, handles[h])]
             inner == Inside(actual)
  <1>1. /\ actual' = SymNew(actual, handles[h], ExprToken)
        /\ handles' = Append(moved, inner)
    BY DEF BuildExpr
  <1>2. /\ TreeOk(actual, actualAlloc) /\ handles \in Seq(Places)
        /\ h \in 1 .. Len(handles) /\ PlaceOk(actual, handles[h]) /\ ExprToken \in Tokens
        /\ \A k \in 1 .. Len(handles) : Within(actual, handles[k])
    BY TokensAreTokens, LenProperties DEF UserTreeInv, PlaceOk
  <1>3. AtomsBare(actual) /\ \A k \in 1 .. Len(handles) : InExpr(actual, handles[k])
    BY DEF UserShape
  <1>4. /\ AtomsBare(actual')
        /\ \A c : Within(actual, c) /\ InExpr(actual, c) => InExpr(actual', c)
        /\ InExpr(actual', Advanced(actual, handles[h])) /\ InExpr(actual', inner)
    BY <1>1, <1>2, <1>3, ShapeGrown
  <1>5. /\ PlaceOk(actual', Advanced(actual, handles[h])) /\ PlaceOk(actual', inner)
        /\ \A k \in 1 .. Len(handles) : Within(actual', handles[k])
    BY <1>1, <1>2, SymNewOk
  <1>6. /\ moved \in Seq(Places) /\ Len(moved) = Len(handles)
        /\ \A k \in 1 .. Len(handles) :
              moved[k] = IF k = h THEN Advanced(actual, handles[h]) ELSE handles[k]
    BY <1>1, <1>2, <1>5, HandlesMoved
  <1>7. inner \in Places /\ Len(handles) \in Nat
    BY <1>2, <1>5, LenProperties DEF PlaceOk
  <1> HIDE DEF moved, inner
  <1>8. /\ Len(handles') = Len(handles) + 1 /\ handles'[Len(handles) + 1] = inner
        /\ \A k \in 1 .. Len(handles) : handles'[k] = moved[k]
    BY <1>1, <1>6, <1>7, AppendProperties
  <1>9. ASSUME NEW k \in 1 .. Len(handles')
        PROVE  InExpr(actual', handles'[k])
    <2>1. k \in 1 .. Len(handles) \/ k = Len(handles) + 1
      BY <1>7, <1>8
    <2> QED
      BY <1>2, <1>3, <1>4, <1>6, <1>8, <2>1
  <1> QED
    BY <1>4, <1>9 DEF UserShape

\* mptest_sym_build_type: the builder goes inside the new expression.
LEMMA BuildTypeShape ==
    ASSUME UserTreeInv, UserShape, NEW h \in DOMAIN handles, NEW tok \in UserTokens,
           BuildType(h, tok)
    PROVE  UserShape'
  <1> DEFINE outer == SymNew(actual, handles[h], ExprToken)
             inner == Inside(actual)
             alloc == GrowOne(Len(actual), actualAlloc)
  <1>1. /\ actual' = SymNew(outer, inner, tok)
        /\ handles' = [handles EXCEPT ![h] = Advanced(outer, inner)]
    BY DEF BuildType
  <1>2. /\ TreeOk(actual, actualAlloc) /\ handles \in Seq(Places)
        /\ h \in 1 .. Len(handles) /\ PlaceOk(actual, handles[h])
        /\ ExprToken \in Tokens /\ tok \in Tokens
        /\ \A k \in 1 .. Len(handles) : Within(actual, handles[k])
    BY TokensAreTokens, LenProperties DEF UserTreeInv, PlaceOk
  <1>3. AtomsBare(actual) /\ \A k \in 1 .. Len(handles) : InExpr(actual, handles[k])
    BY DEF UserShape
  <1>4. /\ AtomsBare(outer) /\ InExpr(outer, inner)
        /\ \A c : Within(actual, c) /\ InExpr(actual, c) => InExpr(outer, c)
    BY <1>2, <1>3, ShapeGrown
  <1>5. /\ TreeOk(outer, alloc) /\ PlaceOk(outer, inner)
        /\ \A c : Within(actual, c) => Within(outer, c)
    BY <1>2, SymNewOk
  <1> HIDE DEF outer, inner, alloc
  <1>6. /\ AtomsBare(actual') /\ InExpr(actual', Advanced(outer, inner))
        /\ \A c : Within(outer, c) /\ InExpr(outer, c) => InExpr(actual', c)
    BY <1>1, <1>2, <1>4, <1>5, ShapeGrown
  <1>7. /\ PlaceOk(actual', Advanced(outer, inner))
        /\ \A c : Within(outer, c) => Within(actual', c)
    BY <1>1, <1>2, <1>5, SymNewOk
  <1>8. /\ \A k \in 1 .. Len(handles) : Within(actual', handles[k])
        /\ \A k \in 1 .. Len(handles) : InExpr(actual', handles[k])
    BY <1>2, <1>3, <1>4, <1>5, <1>6, <1>7
  <1>9. /\ Len(handles') = Len(handles)
        /\ \A k \in 1 .. Len(handles) :
              handles'[k] = IF k = h THEN Advanced(outer, inner) ELSE handles[k]
    BY <1>1, <1>2, <1>7, <1>8, HandlesMoved
  <1>10. \A k \in 1 .. Len(handles') : InExpr(actual', handles'[k])
    BY <1>2, <1>6, <1>8, <1>9
  <1> QED
    BY <1>6, <1>10 DEF UserShape

\* The program holds builders only from the end of the parser on, so that a
\* verdict is about the trees that were compared.
VerdictInv ==
    /\ ParserShape /\ UserShape
    /\ phase \in {"half", "check", "make", "walk"} \/ (phase = "idle" /\ result = "NONE")
       => handles = <<>>
    /\ CheckVerdict

\* There is no verdict, yet or any more.
LEMMA NoVerdict ==
    ASSUME handles' = <<>> \/ result' \notin {"PASS", "FAIL"}
    PROVE  CheckVerdict'
  BY DEF CheckVerdict

\* Steps that leave a tree alone leave its shape.
LEMMA ShapeStays ==
    ASSUME ParserShape, UserShape
    PROVE  /\ UNCHANGED parseVars => ParserShape'
           /\ UNCHANGED userVars => UserShape'
  BY DEF parseVars, treeVars, userVars, ParserShape, UserShape

\* The macros begin without builders.
LEMMA VerdictStarts ==
    ASSUME SymInv, VerdictInv, result = "NONE", Starts
    PROVE  VerdictInv'
  <1>1. ASSUME NEW t, ParseBegin(t)
        PROVE  ParserShape'
    BY <1>1, NothingShaped DEF ParseBegin, ParserShape
  <1>2. ASSUME CheckAlloc
        PROVE  VerdictInv'
    <2>1. UNCHANGED parseVars /\ actual' = <<>> /\ handles' = <<>>
      BY <1>2 DEF CheckAlloc
    <2>2. UserShape'
      BY <2>1, NothingShaped DEF UserShape
    <2> QED
      BY <2>1, <2>2, NoVerdict, ShapeStays DEF VerdictInv
  <1>3. ASSUME NEW t \in MakeTexts, MakeInit(t)
        PROVE  VerdictInv'
    <2>1. ParseBegin(t) /\ UNCHANGED userVars /\ phase = "idle"
      BY <1>3 DEF MakeInit
    <2>2. handles' = <<>>
      BY <2>1 DEF VerdictInv, userVars
    <2> QED
      BY <1>1, <2>1, <2>2, NoVerdict, ShapeStays DEF VerdictInv
  <1>4. ASSUME NoSym
        PROVE  VerdictInv'
    <2>1. UNCHANGED <<parseVars, phase, userVars>> /\ result' = "ERROR" /\ phase = "idle"
      BY <1>4 DEF NoSym
    <2> QED
      BY <2>1, NoVerdict, ShapeStays DEF VerdictInv
  <1> QED
    BY <1>2, <1>3, <1>4 DEF Starts

LEMMA VerdictHalf ==
    ASSUME SymInv, VerdictInv, (\E t \in CheckTexts : CheckInit(t)) \/ SecondRefused
    PROVE  VerdictInv'
  <1>1. ASSUME NEW t \in CheckTexts, CheckInit(t)
        PROVE  VerdictInv'
    <2>1. ParseBegin(t) /\ UNCHANGED userVars /\ phase = "half"
      BY <1>1 DEF CheckInit
    <2>2. handles' = <<>>
      BY <2>1 DEF VerdictInv, userVars
    <2>3. ParserShape'
      BY <2>1, NothingShaped DEF ParseBegin, ParserShape
    <2> QED
      BY <2>1, <2>2, <2>3, NoVerdict, ShapeStays DEF VerdictInv
  <1>2. CASE SecondRefused
    <2>1. UNCHANGED <<parseVars, userVars>> /\ phase' = "idle" /\ result' = "ERROR"
      BY <1>2 DEF SecondRefused
    <2> QED
      BY <2>1, NoVerdict, ShapeStays DEF VerdictInv
  <1> QED
    BY <1>1, <1>2

\* While the parser runs there are no builders and no verdict.
LEMMA VerdictParser ==
    ASSUME SymInv, VerdictInv, Parsing \/ ParseFailed \/ CheckParsed \/ MakeParsed
    PROVE  VerdictInv'
  <1>1. CASE Parsing
    <2>1. ParserShape'
      BY <1>1, ParserShapeStep DEF Parsing, SymInv, ParserInv, VerdictInv
    <2>2. UNCHANGED <<phase, userVars, result>> /\ phase \in {"check", "make"}
      BY <1>1 DEF Parsing, verdictVars
    <2>3. handles' = <<>>
      BY <2>2 DEF VerdictInv, userVars
    <2> QED
      BY <2>1, <2>2, <2>3, NoVerdict, ShapeStays DEF VerdictInv
  <1>2. CASE ParseFailed
    <2>1. UNCHANGED <<parseVars, userVars>> /\ phase' = "idle" /\ result' = "ERROR"
      BY <1>2 DEF ParseFailed
    <2> QED
      BY <2>1, NoVerdict, ShapeStays DEF VerdictInv
  <1>3. CASE CheckParsed
    <2>1. /\ UNCHANGED <<parseVars, actual, result>> /\ phase = "check"
          /\ phase' = "build" /\ handles' = <<TopPlace>>
      BY <1>3 DEF CheckParsed, verdictVars
    <2>2. result' = "NONE"
      BY <2>1 DEF SymInv, OwnerInv
    <2>3. UserShape'
      BY <2>1, NothingShaped DEF UserShape, VerdictInv
    <2> QED
      BY <2>1, <2>2, <2>3, NoVerdict, ShapeStays DEF VerdictInv
  <1>4. CASE MakeParsed
    <2>1. UNCHANGED <<parseVars, userVars>> /\ phase = "make" /\ phase' = "walk"
      BY <1>4 DEF MakeParsed
    <2>2. handles' = <<>>
      BY <2>1 DEF VerdictInv, userVars
    <2> QED
      BY <2>1, <2>2, NoVerdict, ShapeStays DEF VerdictInv
  <1> QED
    BY <1>1, <1>2, <1>3, <1>4

\* While the program builds there is no verdict.
LEMMA VerdictBuilds ==
    ASSUME SymInv, VerdictInv, Builds
    PROVE  VerdictInv'
  <1>0. UserTreeInv /\ UserShape /\ ParserShape
    BY DEF SymInv, VerdictInv
  <1>1. ASSUME UserShape', phase = "build", UNCHANGED <<parseVars, phase, verdictVars>>
        PROVE  VerdictInv'
    <2>1. result' = "NONE" /\ phase' = "build"
      BY <1>1 DEF verdictVars, SymInv, OwnerInv
    <2> QED
      BY <1>0, <1>1, <2>1, NoVerdict, ShapeStays DEF VerdictInv
  <1>2. ASSUME NEW h \in DOMAIN handles, BuildExpr(h)
        PROVE  VerdictInv'
    BY <1>0, <1>1, <1>2, BuildExprShape DEF BuildExpr
  <1>3. ASSUME NEW h \in DOMAIN handles, NEW tok \in UserTokens, BuildAtom(h, tok)
        PROVE  VerdictInv'
    BY <1>0, <1>1, <1>3, BuildAtomShape DEF BuildAtom
  <1>4. ASSUME NEW h \in DOMAIN handles, NEW tok \in UserTokens, BuildType(h, tok)
        PROVE  VerdictInv'
    BY <1>0, <1>1, <1>4, BuildTypeShape DEF BuildType
  <1>5. CASE ConversionFails
    <2>1. UNCHANGED <<parseVars, userVars>> /\ phase' = "idle" /\ result' = "ERROR"
      BY <1>5 DEF ConversionFails
    <2> QED
      BY <1>0, <2>1, NoVerdict, ShapeStays DEF VerdictInv
  <1> QED
    BY <1>2, <1>3, <1>4, <1>5 DEF Builds

\* The two first records compare as their dumps do.
LEMMA FirstRecords ==
    ASSUME SymInv, VerdictInv, ~Wild
    PROVE  SymEquals(actual, nodes, 0, 0) <=> Dump(actual, 0) = Dump(nodes, 0)
  <1>1. /\ actual \in Seq(Nodes) /\ Linked(actual) /\ AtomsBare(actual)
        /\ nodes \in Seq(Nodes) /\ Linked(nodes) /\ AtomsBare(nodes)
    BY DEF SymInv, UserTreeInv, ParserTreeInv, TreeOk, VerdictInv, UserShape, ParserShape
  <1>2. Len(actual) \in Nat \ {0} /\ Len(nodes) \in Nat \ {0}
    BY <1>1, EmptySeq, LenProperties DEF Wild
  <1>3. 0 \in Refs(actual) /\ 0 \in Refs(nodes)
    BY <1>2 DEF Refs
  <1> QED
    BY <1>1, <1>3, SymEqualsIs

\* mptest__sym_check decides by the dumps of the first records.
LEMMA VerdictChecks ==
    ASSUME SymInv, VerdictInv, CheckWild \/ CheckEqual \/ CheckUnequal \/ ReportUnequal
    PROVE  VerdictInv'
  <1>1. /\ UNCHANGED <<parseVars, userVars>>
        /\ phase' \in {"crashed", "unequal"} \/ (phase' = "idle" /\ result' # "NONE")
    BY DEF CheckWild, CheckEqual, CheckUnequal, ReportUnequal, verdictVars, SymInv, OwnerInv
  <1>2. UNCHANGED <<actual, nodes, handles>>
    BY <1>1 DEF parseVars, treeVars, userVars
  <1>3. Dump(actual', 0) = Dump(actual, 0) /\ Dump(nodes', 0) = Dump(nodes, 0)
    BY <1>2
  <1>4. CheckVerdict'
    <2>1. CASE CheckWild \/ ReportUnequal
      BY <1>2, <2>1 DEF CheckWild, ReportUnequal, verdictVars, VerdictInv, CheckVerdict
    <2>2. CASE CheckEqual
      <3>1. Dump(actual, 0) = Dump(nodes, 0) /\ result' = "PASS"
        BY <2>2, FirstRecords DEF CheckEqual
      <3> QED
        BY <1>3, <3>1 DEF CheckVerdict
    <2>3. CASE CheckUnequal
      <3>1. Dump(actual, 0) # Dump(nodes, 0) /\ result' = "FAIL"
        BY <2>3, FirstRecords DEF CheckUnequal
      <3> QED
        BY <1>3, <3>1 DEF CheckVerdict
    <2> QED
      BY <2>1, <2>2, <2>3
  <1> QED
    BY <1>1, <1>4, ShapeStays DEF VerdictInv

\* SYM has no builders, and its verdict is not about a comparison.
LEMMA VerdictWalks ==
    ASSUME SymInv, VerdictInv, WalkNext \/ WalkInto \/ MakeDestroy \/ FromSymFails
    PROVE  VerdictInv'
  <1>1. UNCHANGED <<parseVars, userVars>> /\ phase = "walk"
    BY DEF WalkNext, WalkInto, MakeDestroy, FromSymFails
  <1>2. handles' = <<>>
    BY <1>1 DEF VerdictInv, userVars
  <1> QED
    BY <1>1, <1>2, NoVerdict, ShapeStays DEF VerdictInv

\* ASSERT_SYMEQ passes only if the first record of the tree the program built
\* and that of the expected tree say the same, and fails only if they do not.
THEOREM CheckVerdictThm == Spec => []CheckVerdict
  <1>1. Init => VerdictInv
    <2>1. ASSUME Init
          PROVE  /\ nodes = <<>> /\ base = TopPlace /\ stk = <<>>
                 /\ actual = <<>> /\ handles = <<>>
      BY <2>1 DEF Init, ParseInit
    <2> QED
      BY <2>1, NothingShaped DEF VerdictInv, ParserShape, UserShape, CheckVerdict
  <1>2. SymInv /\ VerdictInv /\ [Next]_vars => VerdictInv'
    <2> SUFFICES ASSUME SymInv, VerdictInv, [Next]_vars
                 PROVE  VerdictInv'
      OBVIOUS
    <2>1. CASE UNCHANGED vars
      BY <2>1, ShapeStays DEF vars, parseVars, treeVars, userVars, verdictVars, VerdictInv,
                              CheckVerdict
    <2>2. CASE Next
      BY <2>2, VerdictStarts, VerdictHalf, VerdictParser, VerdictBuilds, VerdictChecks,
         VerdictWalks, Zenon DEF Next
    <2> QED
      BY <2>1, <2>2
  <1>3. VerdictInv => CheckVerdict
    BY DEF VerdictInv
  <1> QED
    BY <1>1, <1>2, <1>3, SymInvariance, PTL DEF Spec

-----------------------------------------------------------------------------
(* Escapes.  The stages of reading a text that holds one \u escape are an   *)
(* invariant; the rest is arithmetic: what parse_gen_utf8 writes is decoded *)
(* to the number it was given.                                              *)

\* A byte and the signed character it is kept as.
LEMMA SignedByte ==
    ASSUME NEW b \in 0 .. 255
    PROVE  Signed(b) \in -128 .. 127 /\ Signed(b) % 256 = b
  BY DEF Signed

\* The three six-bit digits of a code point that fits sixteen bits.
Digits64(r, h, k, m) ==
    /\ h \in Nat /\ k \in Nat /\ m \in Nat /\ h <= 15 /\ k <= 63 /\ m <= 63
    /\ r = 4096 * h + 64 * k + m
    /\ r \div 4096 = h /\ r \div 64 = 64 * h + k /\ r \div 1 = r
    /\ (r \div 64) % 64 = k /\ r % 64 = m

LEMMA Div64 ==
    ASSUME NEW r \in Nat, r <= 65535
    PROVE  \E h, k, m : Digits64(r, h, k, m)
  <1>1. PICK q \in Nat, m \in Nat : m <= 63 /\ r \div 64 = q /\ r % 64 = m /\ r = 64 * q + m
    OBVIOUS
  <1>2. PICK h \in Nat, k \in Nat : k <= 63 /\ q \div 64 = h /\ q % 64 = k /\ q = 64 * h + k
    OBVIOUS
  <1>3. r = 4096 * h + 64 * k + m /\ h <= 15
    BY <1>1, <1>2
  <1>4. r \div 4096 = h
    <2> DEFINE o == 64 * k + m
    <2>1. o \in Nat /\ o <= 4095 /\ r = 4096 * h + o
      BY <1>1, <1>2, <1>3
    <2> HIDE DEF o
    <2> QED
      BY <1>2, <2>1
  <1>6. r \div 1 = r
    OBVIOUS
  <1>7. Digits64(r, h, k, m)
    BY <1>1, <1>2, <1>3, <1>4, <1>6 DEF Digits64
  <1> QED
    BY <1>7

\* The bytes of signed characters.
Bytes(s) == [i \in DOMAIN s |-> s[i] % 256]

\* A sequence of bytes is got back from its signed characters.
LEMMA SignedBytes ==
    ASSUME NEW b \in Seq(0 .. 255), NEW s, s = [i \in DOMAIN b |-> Signed(b[i])]
    PROVE  Bytes(s) = b
  <1>1. DOMAIN s = DOMAIN b /\ DOMAIN b = 1 .. Len(b)
    BY LenProperties
  <1>2. \A i \in DOMAIN b : b[i] \in 0 .. 255
    BY LenProperties, ElementOfSeq
  <1>3. \A i \in DOMAIN b : s[i] = Signed(b[i])
    OBVIOUS
  <1>4. \A i \in DOMAIN b : s[i] % 256 = b[i]
    BY <1>2, <1>3, SignedByte
  <1>5. b = [i \in DOMAIN b |-> b[i]]
    BY <1>1
  <1> QED
    BY <1>1, <1>4, <1>5 DEF Bytes

\* The decoder, of sequences of bytes of each length.
LEMMA DecodeOf ==
    ASSUME NEW s
    PROVE  LET b == Bytes(s)
           IN /\ Len(b) = 1 /\ b[1] < 128 => Decode(s) = b[1]
              /\ Len(b) = 2 /\ b[1] \in 194 .. 223 /\ b[2] \in 128 .. 191
                 => Decode(s) = (b[1] - 192) * 64 + (b[2] - 128)
              /\ /\ Len(b) = 3 /\ b[1] \in 224 .. 239
                 /\ b[2] \in 128 .. 191 /\ b[3] \in 128 .. 191
                 /\ b[1] = 224 => b[2] >= 160
                 => Decode(s) = (b[1] - 224) * 4096 + (b[2] - 128) * 64 + (b[3] - 128)
  <1> DEFINE b == Bytes(s)
             follows(i) == b[i] \in 128 .. 191
             lead2 == b[1] \in 194 .. 223
             lead3 == b[1] \in 224 .. 239
             tail(i) == IF follows(i) THEN b[i] - 128 ELSE NotUtf8
  <1>1. Decode(s) = IF Len(b) = 1 /\ b[1] < 128 THEN b[1]
                    ELSE IF Len(b) = 2 /\ lead2 /\ tail(2) # NotUtf8
                      THEN (b[1] - 192) * 64 + tail(2)
                    ELSE IF /\ Len(b) = 3 /\ lead3
                            /\ tail(2) # NotUtf8 /\ tail(3) # NotUtf8
                            /\ (b[1] = 224 => tail(2) >= 32)
                      THEN (b[1] - 224) * 4096 + tail(2) * 64 + tail(3)
                    ELSE NotUtf8
    BY Zenon DEF Decode, Bytes
  <1>2. \A i : follows(i) => /\ tail(i) = b[i] - 128 /\ tail(i) # NotUtf8
                             /\ b[i] >= 160 => tail(i) >= 32
    BY DEF NotUtf8
  <1> SUFFICES /\ Len(b) = 1 /\ b[1] < 128 => Decode(s) = b[1]
               /\ Len(b) = 2 /\ lead2 /\ follows(2)
                  => Decode(s) = (b[1] - 192) * 64 + (b[2] - 128)
               /\ /\ Len(b) = 3 /\ lead3 /\ follows(2) /\ follows(3)
                  /\ b[1] = 224 => b[2] >= 160
                  => Decode(s) = (b[1] - 224) * 4096 + (b[2] - 128) * 64 + (b[3] - 128)
    OBVIOUS
  <1> HIDE DEF b, follows, lead2, lead3, tail
  <1> QED
    BY <1>1, <1>2

\* mptest__sym_parse_gen_utf8 writes UTF-8, for all characters \u can name.
LEMMA Utf8Decodes ==
    ASSUME NEW r \in Nat, r <= 65535
    PROVE  Decode(Utf8(r)) = r
  <1> DEFINE low(n) == ((r \div n) % 64) + 128
             one == <<r>>
             two == <<r \div 64 + 192, low(1)>>
             three == <<r \div 4096 + 224, low(64), low(1)>>
             four == <<r \div 262144 + 240, low(4096), low(64), low(1)>>
             bytes == IF r <= 127 THEN one
                      ELSE IF r <= 2047 THEN two
                      ELSE IF r <= 65535 THEN three ELSE four
  <1>1. Utf8(r) = [i \in DOMAIN bytes |-> Signed(bytes[i])]
    BY DEF Utf8
  <1>2. PICK h, k, m : Digits64(r, h, k, m)
    BY Div64
  <1>3. low(1) = m + 128 /\ low(64) = k + 128
    BY <1>2 DEF Digits64
  <1>4. two = <<64 * h + k + 192, m + 128>> /\ three = <<h + 224, k + 128, m + 128>>
    <2> HIDE DEF low
    <2> QED
      BY <1>2, <1>3 DEF Digits64
  <1>5. /\ h \in Nat /\ k \in Nat /\ m \in Nat /\ h <= 15 /\ k <= 63 /\ m <= 63
        /\ r = 4096 * h + 64 * k + m
    BY <1>2 DEF Digits64
  <1> HIDE DEF low, one, two, three, four
  <1>6. CASE r <= 127
    <2>1. bytes = one
      BY <1>6
    <2> HIDE DEF bytes
    <2>2. one \in Seq(0 .. 255) /\ Len(one) = 1 /\ one[1] = r
      BY <1>6 DEF one
    <2>3. Bytes(Utf8(r)) = one
      BY <1>1, <2>1, <2>2, SignedBytes
    <2>4. Decode(Utf8(r)) = one[1]
      BY <1>6, <2>2, <2>3, DecodeOf
    <2> QED
      BY <2>2, <2>4
  <1>7. CASE r > 127 /\ r <= 2047
    <2>1. bytes = two /\ h = 0 /\ 2 <= k /\ k <= 31
      BY <1>5, <1>7
    <2> HIDE DEF bytes
    <2>2. two \in Seq(0 .. 255)
      BY <1>4, <1>5, <2>1
    <2>3. Bytes(Utf8(r)) = two
      BY <1>1, <2>1, <2>2, SignedBytes
    <2>4. /\ Len(two) = 2 /\ two[1] = k + 192 /\ two[2] = m + 128
      BY <1>4, <1>5, <2>1
    <2>5. Decode(Utf8(r)) = (two[1] - 192) * 64 + (two[2] - 128)
      BY <1>5, <2>1, <2>3, <2>4, DecodeOf
    <2> QED
      BY <1>5, <2>1, <2>4, <2>5
  <1>8. CASE r > 2047
    <2>1. bytes = three /\ (h = 0 => k >= 32)
      BY <1>5, <1>8
    <2> HIDE DEF bytes
    <2>2. three \in Seq(0 .. 255)
      BY <1>4, <1>5
    <2>3. Bytes(Utf8(r)) = three
      BY <1>1, <2>1, <2>2, SignedBytes
    <2>4. /\ Len(three) = 3 /\ three[1] = h + 224 /\ three[2] = k + 128
          /\ three[3] = m + 128
      BY <1>4
    <2>5. Decode(Utf8(r)) = (three[1] - 224) * 4096 + (three[2] - 128) * 64
                             + (three[3] - 128)
      BY <1>5, <2>1, <2>3, <2>4, DecodeOf
    <2> QED
      BY <1>5, <2>4, <2>5
  <1> QED
    BY <1>6, <1>7, <1>8

\* The characters of a text, as the parser reads them.
LEMMA ChOfText ==
    ASSUME ReaderInv, pos < Len(text)
    PROVE  /\ Ch = Signed(text[pos + 1]) /\ text[pos + 1] \in Nat
           /\ text[pos + 1] <= 255
  <1>1. text \in Seq(0 .. 255) /\ pos \in Nat /\ Len(text) \in Nat
    BY LenProperties DEF ReaderInv
  <1>2. pos + 1 \in 1 .. Len(text)
    BY <1>1
  <1>3. text[pos + 1] \in 0 .. 255
    BY <1>1, <1>2, ElementOfSeq
  <1>4. text[pos + 1] \in Nat /\ text[pos + 1] <= 255
    <2>1. \A b \in 0 .. 255 : b \in Nat /\ b <= 255
      OBVIOUS
    <2> QED
      BY <1>3, <2>1, Zenon
  <1>5. ~(pos >= Len(text))
    BY <1>1
  <1> QED
    BY <1>4, <1>5 DEF Ch

\* A character that is a digit is the byte it was read from.
LEMMA HexDigSigned ==
    ASSUME NEW b \in Nat, b <= 255, HexDig(Signed(b)) # NotHex
    PROVE  HexDig(Signed(b)) = HexDig(b) /\ HexDig(b) \in Nat /\ HexDig(b) <= 15
  <1>1. CASE b <= 127
    <2>1. Signed(b) = b
      BY <1>1 DEF Signed
    <2>2. HexDig(b) # NotHex
      BY <2>1
    <2> QED
      BY <2>1, <2>2 DEF HexDig, IsDigit, NotHex
  <1>2. CASE b > 127
    <2>1. Signed(b) = b - 256 /\ b - 256 < 0
      BY <1>2 DEF Signed
    <2>2. HexDig(b - 256) = NotHex
      BY <2>1 DEF HexDig, IsDigit
    <2> QED
      BY <2>1, <2>2
  <1> QED
    BY <1>1, <1>2

\* The number the digits of a \u escape have named after the first k of them.
Named(t, k) ==
    LET d(i) == HexDig(t[i + 3])
    IN IF k = 0 THEN 0
       ELSE IF k = 1 THEN d(1)
       ELSE IF k = 2 THEN d(1) * 16 + d(2)
       ELSE IF k = 3 THEN (d(1) * 16 + d(2)) * 16 + d(3)
       ELSE ((d(1) * 16 + d(2)) * 16 + d(3)) * 16 + d(4)
IsNibble(n) == n \in Nat /\ n <= 15
AllHex(t, k) == \A i \in 1 .. 4 : i <= k => IsNibble(HexDig(t[i + 3]))

\* Four digits name a character of sixteen bits: the one ValueOf says.
LEMMA NamedIsValue ==
    ASSUME NEW t \in Seq(0 .. 255), Len(t) = 8, AllHex(t, 4)
    PROVE  /\ Named(t, 4) \in Nat /\ Named(t, 4) <= 65535
           /\ ValueOf(SubSeq(t, 4, 7), 16) = Named(t, 4)
  <1> DEFINE w == SubSeq(t, 4, 7)
             d(i) == HexDig(t[i + 3])
             Holds(f) == f = [k \in 0 .. Len(w) |->
                                 IF k = 0 THEN 0 ELSE 16 * f[k - 1] + HexDig(w[k])]
             upto == CHOOSE f : Holds(f)
  <1>1. Len(w) = 4 /\ \A i \in 1 .. 4 : w[i] = t[i + 3]
    BY SubSeqProperties
  <1>2. ValueOf(w, 16) = upto[Len(w)]
    BY DEF ValueOf
  <1>3. /\ IsNibble(d(1)) /\ IsNibble(d(2)) /\ IsNibble(d(3)) /\ IsNibble(d(4))
    BY DEF AllHex
  <1>4. HexDig(w[1]) = d(1) /\ HexDig(w[2]) = d(2) /\ HexDig(w[3]) = d(3) /\ HexDig(w[4]) = d(4)
    BY <1>1
  <1> HIDE DEF w
  <1> DEFINE f == [k \in 0 .. 4 |-> Named(t, k)]
  <1>5. Named(t, 0) = 0 /\ \A k \in 1 .. 4 : Named(t, k) = 16 * Named(t, k - 1) + d(k)
    BY <1>3 DEF Named, IsNibble
  <1>6. Holds(f)
    <2>1. \A k \in 0 .. 4 : f[k] = IF k = 0 THEN 0 ELSE 16 * f[k - 1] + HexDig(w[k])
      <3> SUFFICES ASSUME NEW k \in 0 .. 4
                   PROVE  f[k] = IF k = 0 THEN 0 ELSE 16 * f[k - 1] + HexDig(w[k])
        OBVIOUS
      <3> HIDE DEF d
      <3>1. CASE k = 0
        BY <1>5, <3>1
      <3>2. CASE k \in 1 .. 4
        <4>1. f[k] = Named(t, k) /\ f[k - 1] = Named(t, k - 1)
          BY <3>2
        <4>2. HexDig(w[k]) = d(k)
          BY <1>4, <3>2
        <4> QED
          BY <1>5, <3>2, <4>1, <4>2
      <3> QED
        BY <3>1, <3>2
    <2>2. f = [k \in 0 .. 4 |-> f[k]]
      OBVIOUS
    <2> HIDE DEF f
    <2> QED
      BY <1>1, <2>1, <2>2
  <1>7. Holds(upto)
    <2> HIDE DEF Holds, f
    <2> QED
      BY <1>6, Zenon
  <1> HIDE DEF upto
  <1>8. \A k \in 0 .. 4 : upto[k] = IF k = 0 THEN 0 ELSE 16 * upto[k - 1] + HexDig(w[k])
    BY <1>1, <1>7, Zenon
  <1> HIDE DEF d
  <1>9. upto[0] = 0 /\ \A k \in 1 .. 4 : upto[k] = 16 * upto[k - 1] + d(k)
    BY <1>4, <1>8
  <1>10. Named(t, 1) = 16 * Named(t, 0) + d(1) /\ Named(t, 2) = 16 * Named(t, 1) + d(2)
         /\ Named(t, 3) = 16 * Named(t, 2) + d(3) /\ Named(t, 4) = 16 * Named(t, 3) + d(4)
    BY <1>5
  <1>11. upto[4] = Named(t, 4)
    <2>1. upto[1] = 16 * upto[0] + d(1) /\ upto[2] = 16 * upto[1] + d(2)
          /\ upto[3] = 16 * upto[2] + d(3) /\ upto[4] = 16 * upto[3] + d(4)
      BY <1>9
    <2> QED
      BY <1>5, <1>9, <1>10, <2>1
  <1>12. Named(t, 4) \in Nat /\ Named(t, 4) <= 65535
    <2>2. PICK a, b, c, e : a = d(1) /\ b = d(2) /\ c = d(3) /\ e = d(4)
      OBVIOUS
    <2>3. /\ a \in Nat /\ a <= 15 /\ b \in Nat /\ b <= 15
          /\ c \in Nat /\ c <= 15 /\ e \in Nat /\ e <= 15
      BY <1>3, <2>2 DEF IsNibble
    <2>4. Named(t, 0) = 0
      BY <1>5
    <2>5. Named(t, 1) = a /\ Named(t, 2) = 16 * a + b
      BY <1>10, <2>2, <2>3, <2>4
    <2>6. Named(t, 4) = 16 * (16 * (16 * a + b) + c) + e
      BY <1>10, <2>2, <2>3, <2>5
    <2> QED
      BY <2>3, <2>6
  <1> QED
    BY <1>1, <1>2, <1>11, <1>12 DEF w

\* What is appended to an empty string is all that the string then holds.
LEMMA CatNEmpty ==
    ASSUME NEW s, StrOk(s), s.size = 0, NEW t \in Seq(Int)
    PROVE  Body(CatN(s, t)) = t
  <1> DEFINE n == Len(t)
             g == Grow(s, s.size + n)
             c == CatN(s, t)
             cells == Body(s) \o [i \in 1 .. (s.size + n) - s.size |-> Junk] \o <<Nul>>
  <1>1. n \in Nat /\ s.size = 0
    BY LenProperties
  <1>2. StrOk(c)
    BY CatNOk
  <1>3. g = IF NeedsBlock(s, s.size + n)
            THEN [s EXCEPT !.short = FALSE, !.size = s.size + n,
                           !.alloc = NewAlloc(s.size + n), !.data = cells]
            ELSE [s EXCEPT !.size = s.size + n, !.data = cells]
    BY DEF Grow
  <1> HIDE DEF cells
  <1>4. g.size = n
    <2>1. PICK a : a = NewAlloc(s.size + n)
      OBVIOUS
    <2>2. s.size + n = n /\ s \in StrValue
      BY <1>1 DEF StrOk
    <2>3. g = IF NeedsBlock(s, n)
              THEN [s EXCEPT !.short = FALSE, !.size = n, !.alloc = a, !.data = cells]
              ELSE [s EXCEPT !.size = n, !.data = cells]
      BY <1>3, <2>1, <2>2
    <2> HIDE DEF g
    <2> QED
      BY <2>2, <2>3 DEF StrValue
  <1>5. c = [g EXCEPT !.data = [i \in DOMAIN g.data |->
                   IF i \in s.size + 1 .. s.size + n THEN t[i - s.size] ELSE g.data[i]]]
    BY DEF CatN, Fill
  <1>6. DOMAIN g = {"short", "size", "alloc", "block", "data"}
    BY <1>3 DEF StrOk, StrValue
  <1> HIDE DEF g, c
  <1>7. c.size = n /\ c.data = [i \in DOMAIN g.data |->
                   IF i \in s.size + 1 .. s.size + n THEN t[i - s.size] ELSE g.data[i]]
    BY <1>4, <1>5, <1>6
  <1>8. /\ c.data \in Seq(Int) /\ Len(c.data) = n + 1
        /\ Body(c) \in Seq(Int) /\ Len(Body(c)) = n
    BY <1>2, <1>7, BodyIsSeq DEF StrOk, StrValue
  <1>9. ASSUME NEW i \in 1 .. n
        PROVE  Body(c)[i] = t[i]
    <2>1. Body(c)[i] = c.data[i]
      BY <1>1, <1>7, <1>8, <1>9, SubSeqProperties DEF Body
    <2>2. i \in DOMAIN c.data
      BY <1>1, <1>8, LenProperties
    <2>3. c.data[i] = t[i - 0]
      BY <1>1, <1>7, <2>2
    <2> QED
      BY <2>1, <2>3
  <1>10. Body(c) = t
    BY <1>1, <1>8, <1>9, SeqEqual
  <1> QED
    BY <1>10 DEF c

\* A text that begins with a \u escape in a string, and is long enough for no
\* more than that one.
IsEscape(t) == /\ Len(t) = 8
               /\ SubSeq(t, 1, 3) = <<Letter.quote, Letter.backslash, Letter.u>>

NoTree == stk = <<>> /\ nodes = <<>>
Unwritten == within = "str" /\ build_str.size = 0

\* Where the parser is in such a text: at the quote, the backslash, the u or a
\* digit of the escape; behind the escape; behind a second character, which
\* can only be read into a string that never ends; or behind the string.
AtQuote == mode = "top" /\ pos = 0 /\ NoTree
AtBackslash == mode = "str" /\ pos = 1 /\ NoTree /\ build_str.size = 0
AtU == mode = "esc" /\ pos = 2 /\ NoTree /\ Unwritten
AtDigit == /\ mode = "escHex" /\ pos \in 3 .. 6 /\ NoTree /\ Unwritten
           /\ digits = 7 - pos /\ num = Named(text, pos - 3) /\ AllHex(text, pos - 3)
Escaped == /\ mode = "str" /\ pos = 7 /\ NoTree
           /\ AllHex(text, 4) /\ Body(build_str) = Utf8(Named(text, 4))
Unended == mode \in {"str", "esc"} /\ pos = 8
InTree == AllHex(text, 4) /\ nodes[1].tok.str = Utf8(Named(text, 4))
Ended == mode = "top" /\ pos = 8 /\ stk = <<>> /\ InTree

EscapeInv ==
    IsEscape(text) =>
       \/ AtQuote \/ AtBackslash \/ AtU \/ AtDigit \/ Escaped \/ Unended \/ Ended
       \/ mode = "done" /\ InTree
       \/ mode = "failed"

\* The characters such a text begins with.
LEMMA EscapeBegins ==
    ASSUME NEW t, IsEscape(t), t \in Seq(0 .. 255)
    PROVE  t[1] = Letter.quote /\ t[2] = Letter.backslash /\ t[3] = Letter.u
  <1> DEFINE s == SubSeq(t, 1, 3)
  <1>1. Len(t) = 8 /\ s = <<Letter.quote, Letter.backslash, Letter.u>>
    BY DEF IsEscape
  <1>2. \A i \in 1 .. 3 : s[i] = t[i]
    BY <1>1, SubSeqProperties
  <1> HIDE DEF s
  <1>3. s[1] = t[1] /\ s[2] = t[2] /\ s[3] = t[3]
    BY <1>2
  <1> QED
    BY <1>1, <1>3

\* One character is read at a time.
LEMMA QuoteRead ==
    ASSUME ParserInv, IsEscape(text), AtQuote, ParseStep
    PROVE  AtBackslash'
  <1>1. pos < Len(text) /\ text[pos + 1] = Letter.quote
    BY EscapeBegins DEF ParserInv, ReaderInv, AtQuote, IsEscape
  <1>2. Ch = 34
    BY <1>1, ChOfText DEF ParserInv, Signed, Letter
  <1>3. Top
    BY DEF AtQuote, ParseStep, Atom, Zero, Hex, Dec, Quoted, Chr, ChrEnd, Esc, EscHex
  <1>4. Literal
    BY <1>2, <1>3 DEF Top, AtEnd, ExprBegin, ExprEnd, Blank, Number, AtomBegin, Letter, Eof,
                      IsBlank, IsDigit
  <1>5. Read("str") /\ build_str' = Fresh
    BY <1>2, <1>4 DEF Literal, Letter
  <1>6. build_str'.size = 0
    BY <1>5 DEF Fresh, Cleared, ParserInv, ReaderInv, StrOk, StrValue
  <1> QED
    BY <1>5, <1>6 DEF Read, treeVars, AtQuote, AtBackslash, NoTree

LEMMA BackslashRead ==
    ASSUME ParserInv, IsEscape(text), AtBackslash, ParseStep
    PROVE  AtU'
  <1>1. pos < Len(text) /\ text[pos + 1] = Letter.backslash
    BY EscapeBegins DEF ParserInv, ReaderInv, AtBackslash, IsEscape
  <1>2. Ch = 92
    BY <1>1, ChOfText DEF ParserInv, Signed, Letter
  <1>3. Quoted
    BY DEF AtBackslash, ParseStep, Top, Atom, Zero, Hex, Dec, Chr, ChrEnd, Esc, EscHex
  <1>4. Read("esc") /\ within' = "str" /\ UNCHANGED <<num, digits, build_str>>
    BY <1>2, <1>3 DEF Quoted, Letter, Eof
  <1> QED
    BY <1>4 DEF Read, treeVars, AtBackslash, AtU, NoTree, Unwritten

LEMMA URead ==
    ASSUME ParserInv, IsEscape(text), AtU, ParseStep
    PROVE  AtDigit'
  <1>1. pos < Len(text) /\ text[pos + 1] = Letter.u
    BY EscapeBegins DEF ParserInv, ReaderInv, AtU, IsEscape
  <1>2. Ch = 117
    BY <1>1, ChOfText DEF ParserInv, Signed, Letter
  <1>3. Esc
    BY DEF AtU, ParseStep, Top, Atom, Zero, Hex, Dec, Quoted, Chr, ChrEnd, EscHex
  <1>4. Read("escHex") /\ num' = 0 /\ digits' = 4 /\ UNCHANGED <<within, build_str>>
    <2>1. Ch # Eof /\ Ch \in {Letter.x, Letter.u} /\ Ch # Letter.x
          /\ Ch \notin DOMAIN Escapes
      BY <1>2 DEF Letter, Eof, Escapes
    <2> QED
      BY <1>3, <2>1 DEF Esc
  <1>5. mode' = "escHex" /\ pos' = 3 /\ UNCHANGED <<text, stk, nodes>>
    BY <1>4 DEF Read, treeVars, AtU
  <1>6. Named(text, 0) = 0 /\ AllHex(text, 0)
    BY DEF Named, AllHex
  <1>7. num' = Named(text', pos' - 3) /\ AllHex(text', pos' - 3)
    BY <1>4, <1>5, <1>6
  <1>8. NoTree' /\ Unwritten'
    BY <1>4, <1>5 DEF AtU, NoTree, Unwritten
  <1> QED
    BY <1>4, <1>5, <1>7, <1>8 DEF AtDigit

\* A digit is a digit whatever the sign of the character.
LEMMA DigitAt ==
    ASSUME ParserInv, IsEscape(text), AtDigit, HexDig(Ch) # NotHex
    PROVE  /\ HexDig(Ch) = HexDig(text[pos + 1])
           /\ AllHex(text, pos - 2)
           /\ Named(text, pos - 2) = num * 16 + HexDig(Ch)
  <1>1. pos \in 3 .. 6 /\ pos < Len(text)
    BY DEF AtDigit, IsEscape
  <1>2. Ch = Signed(text[pos + 1]) /\ text[pos + 1] \in Nat /\ text[pos + 1] <= 255
    BY <1>1, ChOfText DEF ParserInv
  <1>3. PICK b \in Nat : b = text[pos + 1] /\ b <= 255
    BY <1>2
  <1>4. HexDig(Ch) = HexDig(b) /\ IsNibble(HexDig(b))
    BY <1>2, <1>3, HexDigSigned DEF IsNibble
  <1>5. AllHex(text, pos - 2)
    <2> SUFFICES ASSUME NEW i \in 1 .. 4, i <= pos - 2
                 PROVE  IsNibble(HexDig(text[i + 3]))
      BY DEF AllHex
    <2>1. CASE i <= pos - 3
      BY <1>1, <2>1 DEF AtDigit, AllHex
    <2>2. CASE i = pos - 2
      <3>1. i + 3 = pos + 1
        BY <1>1, <2>2
      <3> QED
        BY <1>3, <1>4, <3>1
    <2> QED
      BY <1>1, <2>1, <2>2
  <1>6. Named(text, pos - 2) = Named(text, pos - 3) * 16 + HexDig(text[pos + 1])
    <2>1. \A i \in 1 .. 4 : i <= pos - 2 => HexDig(text[i + 3]) \in Nat
      BY <1>5 DEF AllHex, IsNibble
    <2>2. CASE pos = 3
      BY <2>1, <2>2 DEF Named
    <2>3. CASE pos = 4
      BY <2>3 DEF Named
    <2>4. CASE pos = 5
      BY <2>4 DEF Named
    <2>5. CASE pos = 6
      BY <2>5 DEF Named
    <2> QED
      BY <1>1, <2>2, <2>3, <2>4, <2>5
  <1> QED
    BY <1>3, <1>4, <1>5, <1>6 DEF AtDigit

\* The digits add up to the number, and the last one completes the escape.
LEMMA DigitRead ==
    ASSUME ParserInv, IsEscape(text), AtDigit, ParseStep
    PROVE  AtDigit' \/ Escaped' \/ mode' = "failed"
  <1>1. EscHex
    BY DEF AtDigit, ParseStep, Top, Atom, Zero, Hex, Dec, Quoted, Chr, ChrEnd, Esc
  <1>2. pos \in 3 .. 6 /\ digits = 7 - pos /\ NoTree /\ Unwritten
    BY DEF AtDigit
  <1>3. CASE HexDig(Ch) = NotHex
    BY <1>1, <1>3 DEF EscHex, Syntax, Fail, Stop
  <1>4. CASE HexDig(Ch) # NotHex /\ digits > 1
    <2>1. /\ Read("escHex") /\ num' = num * 16 + HexDig(Ch) /\ digits' = digits - 1
          /\ UNCHANGED <<within, build_str>>
      <3>1. digits # 1
        BY <1>2, <1>4
      <3> QED
        BY <1>1, <1>4, <3>1, Zenon DEF EscHex
    <2>2. AllHex(text, pos - 2) /\ Named(text, pos - 2) = num * 16 + HexDig(Ch)
      BY <1>4, DigitAt
    <2>3. mode' = "escHex" /\ pos' = pos + 1 /\ UNCHANGED <<text, stk, nodes>>
      BY <2>1 DEF Read, treeVars
    <2>4. pos' \in 3 .. 6 /\ pos' - 3 = pos - 2 /\ digits' = 7 - pos'
      BY <1>2, <1>4, <2>1, <2>3
    <2>5. num' = Named(text', pos' - 3) /\ AllHex(text', pos' - 3)
      BY <2>1, <2>2, <2>3, <2>4
    <2>6. NoTree' /\ Unwritten'
      BY <1>2, <2>1, <2>3 DEF NoTree, Unwritten
    <2> QED
      BY <2>3, <2>4, <2>5, <2>6 DEF AtDigit
  <1>5. CASE HexDig(Ch) # NotHex /\ ~(digits > 1)
    <2>1. digits = 1 /\ pos = 6
      BY <1>2, <1>5
    <2>2. Rune(num * 16 + HexDig(Ch))
      BY <1>1, <1>5, <2>1 DEF EscHex
    <2>3. AllHex(text, 4) /\ Named(text, 4) = num * 16 + HexDig(Ch)
      BY <1>5, <2>1, DigitAt
    <2>4. Rune(Named(text, 4)) /\ within = "str" /\ build_str.size = 0
      BY <1>2, <2>2, <2>3 DEF Unwritten
    <2>5. Gather(build_str, Utf8(Named(text, 4)), "str")
      BY <2>4 DEF Rune
    <2>6. CASE Read("str") /\ build_str' = CatN(build_str, Utf8(Named(text, 4)))
      <3>1. text \in Seq(0 .. 255) /\ StrOk(build_str)
        BY DEF ParserInv, ReaderInv
      <3>2. Named(text, 4) \in Nat
        BY <2>3, <3>1, NamedIsValue DEF IsEscape
      <3>3. Utf8(Named(text, 4)) \in Seq(Int)
        BY <3>2, Utf8IsSeq
      <3>4. Body(build_str') = Utf8(Named(text, 4))
        BY <2>4, <2>6, <3>1, <3>3, CatNEmpty
      <3>5. mode' = "str" /\ pos' = 7 /\ UNCHANGED <<text, stk, nodes>>
        BY <2>1, <2>6 DEF Read, treeVars
      <3> QED
        BY <1>2, <2>3, <3>4, <3>5 DEF Escaped, NoTree
    <2>7. CASE Fail(ParseError, Quiet, pos + 1)
      BY <2>7 DEF Fail, Stop
    <2> QED
      BY <2>5, <2>6, <2>7 DEF Gather
  <1> QED
    BY <1>3, <1>4, <1>5

\* The string ends right behind the escape, or cannot end any more.
LEMMA EscapedRead ==
    ASSUME ParserInv, IsEscape(text), Escaped, ParseStep
    PROVE  Ended' \/ Unended' \/ mode' = "failed"
  <1>1. Quoted
    BY DEF Escaped, ParseStep, Top, Atom, Zero, Hex, Dec, Chr, ChrEnd, Esc, EscHex
  <1>2. pos = 7 /\ stk = <<>> /\ nodes = <<>>
    BY DEF Escaped, NoTree
  <1>3. ASSUME NEW m \in {"str", "esc"}, Read(m)
        PROVE  Unended'
    BY <1>2, <1>3 DEF Read, Unended
  <1>4. CASE Emit(StrToken(Body(build_str)), pos + 1)
    <2> DEFINE tok == StrToken(Body(build_str))
    <2>1. CASE AddNode(tok) /\ stk' = Moved /\ mode' = "top" /\ pos' = pos + 1
               /\ UNCHANGED text
      <3>1. tok \in Tokens /\ tok.str = Utf8(Named(text, 4))
        <4>1. Body(build_str) \in Seq(Int)
          BY BodyIsSeq DEF ParserInv, ReaderInv
        <4>2. Body(build_str) = Utf8(Named(text, 4))
          BY DEF Escaped
        <4> HIDE DEF Body, Utf8
        <4> QED
          BY <4>1, <4>2 DEF StrToken, Token, Tokens, SymTypes
      <3> HIDE DEF tok
      <3>2. nodes' = SymNew(<<>>, base, tok) /\ stk' = <<>>
        BY <1>2, <2>1 DEF AddNode, Builder, Moved
      <3>3. base \in Places /\ Within(<<>>, base)
        BY <1>2 DEF ParserInv, ParserTreeInv, PlaceOk
      <3>4. At(nodes', 0) = Record(tok)
        <4>1. <<>> \in Seq(Nodes) /\ Len(<<>>) = 0
          OBVIOUS
        <4> QED
          BY <3>1, <3>2, <3>3, <4>1, SymNewIs
      <3>5. nodes'[1].tok = tok
        BY <3>4 DEF At, Record
      <3>6. InTree'
        BY <2>1, <3>1, <3>5 DEF InTree, Escaped
      <3> QED
        BY <1>2, <2>1, <3>2, <3>6 DEF Ended
    <2>2. CASE Stop(ParseError, Quiet, pos + 1)
      BY <2>2 DEF Fail, Stop
    <2> QED
      BY <1>4, <2>1, <2>2 DEF Emit, Refused, Fail
  <1>5. CASE Gather(build_str, <<Ch>>, "str")
    BY <1>3, <1>5 DEF Gather, Fail, Stop
  <1>6. CASE Syntax("unfinished string literal")
    BY <1>6 DEF Syntax, Fail, Stop
  <1> QED
    BY <1>1, <1>3, <1>4, <1>5, <1>6 DEF Quoted

\* At the end of the text a string fails, and a finished one does not.
LEMMA LastRead ==
    ASSUME ParserInv, IsEscape(text), Unended \/ Ended, ParseStep
    PROVE  (mode' = "done" /\ InTree') \/ mode' = "failed"
  <1>1. pos = 8 /\ Len(text) = 8 /\ mode \in {"top", "str", "esc"}
    BY DEF Unended, Ended, IsEscape
  <1>2. Ch = Eof
    BY <1>1 DEF Ch
  <1>3. Top \/ Quoted \/ Esc
    BY <1>1 DEF ParseStep, Atom, Zero, Hex, Dec, Chr, ChrEnd, EscHex
  <1>4. CASE Quoted
    <2>1. Ch = Eof /\ Ch # Letter.backslash /\ Ch # Letter.quote
      BY <1>2 DEF Eof, Letter
    <2>2. Syntax("unfinished string literal")
      BY <1>4, <2>1, Zenon DEF Quoted
    <2> QED
      BY <2>2 DEF Syntax, Fail, Stop
  <1>5. CASE Esc
    <2>1. Ch \notin DOMAIN Escapes /\ Ch \notin {Letter.x, Letter.u}
      BY <1>2 DEF Eof, Escapes, Letter
    <2>2. Syntax("unfinished escape sequence")
      BY <1>2, <1>5, <2>1, Zenon DEF Esc
    <2> QED
      BY <2>2 DEF Syntax, Fail, Stop
  <1>6. CASE Top
    <2>1. Ended
      BY <1>6 DEF Top, Unended
    <2>2. AtEnd
      BY <1>2, <1>6 DEF Top, ExprBegin, ExprEnd, Blank, Number, Literal, AtomBegin, Eof,
                        Letter, IsBlank, IsDigit, Delimits
    <2>3. Read("done")
      BY <2>1, <2>2 DEF AtEnd, Ended
    <2> QED
      BY <2>1, <2>3 DEF Read, treeVars, Ended, InTree
  <1> QED
    BY <1>3, <1>4, <1>5, <1>6

\* Every step of the parser is in a loop, and leaves the text alone.
LEMMA StepReads ==
    ASSUME ParseStep
    PROVE  mode \in Reading /\ text' = text
  <1>1. mode \in Reading
    BY DEF ParseStep, Top, Atom, Zero, Hex, Dec, Quoted, Chr, ChrEnd, Esc, EscHex, Reading
  <1>2. text' = text
    <2>1. \A e, m, p : (Fail(e, m, p) => text' = text) /\ (Stop(e, m, p) => text' = text)
      BY DEF Fail, Stop
    <2>2. \A m : Read(m) => text' = text
      BY DEF Read
    <2>3. \A m : Syntax(m) => text' = text
      BY <2>1 DEF Syntax
    <2>4. \A t, p : Emit(t, p) => text' = text
      BY <2>1 DEF Emit, Refused
    <2>5. \A s, c, m : Gather(s, c, m) => text' = text
      BY <2>1, <2>2 DEF Gather
    <2>6. \A r : Rune(r) => text' = text
      BY <2>2, <2>5 DEF Rune
    <2>7. \A r, d, m : Digit(r, d, m) => text' = text
      BY <2>2 DEF Digit
    <2>8. Top => text' = text
      BY <2>1, <2>2, <2>3, <2>5 DEF Top, AtEnd, ExprBegin, ExprEnd, Blank, Number, Literal,
                                    AtomBegin
    <2>9. Atom \/ Zero \/ Hex \/ Dec => text' = text
      BY <2>2, <2>3, <2>4, <2>5, <2>7 DEF Atom, Zero, Hex, Dec
    <2>10. Quoted \/ Chr \/ ChrEnd => text' = text
      BY <2>1, <2>2, <2>3, <2>4, <2>5 DEF Quoted, Chr, ChrEnd
    <2>11. Esc \/ EscHex => text' = text
      BY <2>2, <2>3, <2>6 DEF Esc, EscHex
    <2> QED
      BY <2>8, <2>9, <2>10, <2>11 DEF ParseStep
  <1> QED
    BY <1>1, <1>2

\* Every step of the parser takes such a text one stage further.
LEMMA EscapeStep ==
    ASSUME ParserInv, EscapeInv, ParseStep
    PROVE  EscapeInv'
  <1>1. mode \in Reading /\ text' = text
    BY StepReads
  <1> SUFFICES ASSUME IsEscape(text)
               PROVE  EscapeInv'
    BY <1>1 DEF EscapeInv
  <1>2. mode \notin {"done", "failed"}
    BY <1>1 DEF Reading
  <1>3. AtQuote \/ AtBackslash \/ AtU \/ AtDigit \/ Escaped \/ Unended \/ Ended
    BY <1>2 DEF EscapeInv
  <1>4. \/ AtBackslash' \/ AtU' \/ AtDigit' \/ Escaped' \/ Unended' \/ Ended'
        \/ mode' = "done" /\ InTree'
        \/ mode' = "failed"
    BY <1>3, QuoteRead, BackslashRead, URead, DigitRead, EscapedRead, LastRead, Zenon
  <1> QED
    BY <1>4 DEF EscapeInv

\* A \u escape in a string stands for the UTF-8 form of the number its four
\* digits name, for every text that holds nothing but such a string.
THEOREM EscapeIsUtf8Thm == Spec => []EscapeIsUtf8
  <1>1. Init => EscapeInv
    BY DEF Init, ParseInit, EscapeInv, IsEscape
  <1>2. SymInv /\ EscapeInv /\ [Next]_vars => EscapeInv'
    <2> SUFFICES ASSUME SymInv, EscapeInv, [Next]_vars
                 PROVE  EscapeInv'
      OBVIOUS
    <2>1. CASE UNCHANGED parseVars
      <3>1. UNCHANGED <<text, pos, mode, num, digits, within, build_str, stk, nodes>>
        BY <2>1 DEF parseVars, numVars, treeVars
      <3> QED
        BY <3>1 DEF EscapeInv, AtQuote, AtBackslash, AtU, AtDigit, Escaped, Unended, Ended,
                    InTree, NoTree, Unwritten
    <2>2. ASSUME NEW t, ParseBegin(t)
          PROVE  EscapeInv'
      BY <2>2 DEF ParseBegin, EscapeInv, AtQuote, NoTree
    <2>3. CASE Parsing
      BY <2>3, EscapeStep DEF Parsing, SymInv, ParserInv
    <2>4. CASE Starts
      BY <2>1, <2>2, <2>4 DEF Starts, CheckAlloc, MakeInit, NoSym
    <2>5. CASE Builds
      BY <2>1, <2>5 DEF Builds, BuildExpr, BuildAtom, BuildType, ConversionFails
    <2>6. CASE ParseFailed \/ CheckParsed \/ CheckWild \/ CheckEqual \/ CheckUnequal
               \/ ReportUnequal
      BY <2>1, <2>6 DEF ParseFailed, CheckParsed, CheckWild, CheckEqual, CheckUnequal,
                        ReportUnequal
    <2>7. CASE MakeParsed \/ WalkNext \/ WalkInto \/ MakeDestroy \/ FromSymFails
      BY <2>1, <2>7 DEF MakeParsed, WalkNext, WalkInto, MakeDestroy, FromSymFails
    <2>8. CASE UNCHANGED vars
      BY <2>1, <2>8 DEF vars
    <2>9. CASE (\E t \in CheckTexts : CheckInit(t)) \/ SecondRefused
      BY <2>1, <2>2, <2>9 DEF CheckInit, SecondRefused
    <2> QED
      BY <2>3, <2>4, <2>5, <2>6, <2>7, <2>8, <2>9, Zenon DEF Next
  <1>3. SymInv /\ EscapeInv => EscapeIsUtf8
    <2> SUFFICES ASSUME SymInv, EscapeInv, mode = "done", IsEscape(text)
                 PROVE  Decode(nodes[1].tok.str) = ValueOf(SubSeq(text, 4, 7), 16)
      BY DEF EscapeIsUtf8, IsEscape
    <2>1. InTree
      BY DEF EscapeInv, AtQuote, AtBackslash, AtU, AtDigit, Escaped, Unended, Ended
    <2>2. text \in Seq(0 .. 255)
      BY DEF SymInv, ReaderInv
    <2>3. /\ Named(text, 4) \in Nat /\ Named(text, 4) <= 65535
          /\ ValueOf(SubSeq(text, 4, 7), 16) = Named(text, 4)
      BY <2>1, <2>2, NamedIsValue DEF InTree, IsEscape
    <2>4. Decode(Utf8(Named(text, 4))) = Named(text, 4)
      BY <2>3, Utf8Decodes
    <2> QED
      BY <2>1, <2>3, <2>4 DEF InTree
  <1> QED
    BY <1>1, <1>2, <1>3, SymInvariance, PTL DEF Spec
=============================================================================
