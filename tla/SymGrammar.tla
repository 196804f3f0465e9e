----------------------------- MODULE SymGrammar -----------------------------
(***************************************************************************)
(* The language of S-expressions, as a reference for the parser: a text is *)
(* cut into brackets, strings, character literals and words, and a word is *)
(* a number or a name by its form.  Nothing here is the code's: there is   *)
(* no position that moves, no mode and no stack.                           *)
(***************************************************************************)
EXTENDS SymParse

Bad == Token("BAD", <<>>, 0)

\* The part of the bytes b that is read: all before the first 0xFF.
Legible(b) ==
    LET ends == {i \in DOMAIN b : b[i] = 255}
        cut == IF ends = {} THEN b ELSE SubSeq(b, 1, Min(ends) - 1)
    IN [i \in DOMAIN cut |-> Signed(cut[i])]

\* The least element of S above i, or top.
After(S, i, top) == LET later == {j \in S : j > i}
                    IN IF later = {} THEN top ELSE Min(later)

ValueOf(w, radix) ==
    LET upto[k \in 0 .. Len(w)] ==
            IF k = 0 THEN 0 ELSE radix * upto[k - 1] + HexDig(w[k])
    IN upto[Len(w)]

AllIn(w, Test(_)) == \A k \in DOMAIN w : Test(w[k])
IsHex(c) == HexDig(c) # NotHex

WordToken(w) ==
    LET rest == SubSeq(w, 3, Len(w))
    IN IF ~IsDigit(w[1]) THEN StrToken(w)
       ELSE IF w = <<Letter.zero>> THEN NumToken(0)
       ELSE IF w[1] = Letter.zero
         THEN IF /\ w[2] = Letter.x /\ AllIn(rest, IsHex)
                 /\ Len(rest) \in 1 .. HexLimit - 1
              THEN NumToken(ValueOf(rest, 16)) ELSE Bad
       ELSE IF AllIn(w, IsDigit) /\ Len(w) < DecLimit
         THEN NumToken(ValueOf(w, 10)) ELSE Bad

\* What stands at i in the text c, as tokens, and where what follows begins.
\* Escapes are left to EscapeIsUtf8.
Piece(c, i) ==
    LET n == Len(c)
        shut == After({j \in 1 .. n : c[j] = Letter.quote}, i, n + 1)
        stop == After({j \in 1 .. n : IsBlank(c[j]) \/ IsPunc(c[j])}, i, n + 1)
        Taking(tokens, next) == [tokens |-> tokens, next |-> next]
    IN IF IsBlank(c[i]) THEN Taking(<<>>, i + 1)
       ELSE IF c[i] = Letter.lparen THEN Taking(<<Open>>, i + 1)
       ELSE IF c[i] = Letter.rparen THEN Taking(<<Close>>, i + 1)
       ELSE IF c[i] = Letter.quote
         THEN IF shut > n THEN Taking(<<Bad>>, n + 1)
              ELSE Taking(<<StrToken(SubSeq(c, i + 1, shut - 1))>>, shut + 1)
       ELSE IF c[i] = Letter.tick
         THEN IF i + 2 <= n /\ c[i + 2] = Letter.tick /\ c[i + 1] >= 0
              THEN Taking(<<NumToken(c[i + 1])>>, i + 3) ELSE Taking(<<Bad>>, n + 1)
       ELSE Taking(<<WordToken(SubSeq(c, i, stop - 1))>>, stop)

\* The tokens of the text c from each place on.
TokensFrom(c) ==
    LET from[i \in 1 .. Len(c) + 1] ==
            IF i > Len(c) THEN <<>>
            ELSE Piece(c, i).tokens \o from[Piece(c, i).next]
    IN from
Tokenize(c) == TokensFrom(c)[1]

\* Brackets close what is open, and nothing stays open.
Depth(tokens, k) == Cardinality({i \in 1 .. k : tokens[i] = Open})
                    - Cardinality({i \in 1 .. k : tokens[i] = Close})
Balanced(tokens) ==
    /\ \A k \in DOMAIN tokens : Depth(tokens, k) >= 0
    /\ Depth(tokens, Len(tokens)) = 0

InLanguage(tokens) == Balanced(tokens) /\ \A k \in DOMAIN tokens : tokens[k] # Bad

\* The dumps of the records that are nobody's children, in the order they were
\* added.
Children(t) == {At(t, r).first : r \in Refs(t)} \cup {At(t, r).next : r \in Refs(t)}
DumpAll(t) ==
    LET upto[k \in 0 .. Len(t)] ==
            IF k = 0 THEN <<>>
            ELSE IF k - 1 \in Children(t) THEN upto[k - 1]
            ELSE upto[k - 1] \o Dump(t, k - 1)
    IN upto[Len(t)]

\* The code points of the bytes s by the definition of UTF-8: as many
\* continuation bytes as the first announces, the shortest form, or NotUtf8.
NotUtf8 == -1
Decode(s) ==
    LET b == [i \in DOMAIN s |-> s[i] % 256]
        Tail6(i) == IF b[i] \in 128 .. 191 THEN b[i] - 128 ELSE NotUtf8
    IN IF Len(b) = 1 /\ b[1] < 128 THEN b[1]
       ELSE IF Len(b) = 2 /\ b[1] \in 194 .. 223 /\ Tail6(2) # NotUtf8
         THEN (b[1] - 192) * 64 + Tail6(2)
       ELSE IF /\ Len(b) = 3 /\ b[1] \in 224 .. 239
               /\ Tail6(2) # NotUtf8 /\ Tail6(3) # NotUtf8
               /\ (b[1] = 224 => Tail6(2) >= 32)
         THEN (b[1] - 224) * 4096 + Tail6(2) * 64 + Tail6(3)
       ELSE NotUtf8
=============================================================================
