-------------------------------- MODULE Str --------------------------------
(***************************************************************************)
(* Strings (bits/container/str of _cpack/impl.c).  A string is short, its  *)
(* characters in place of the capacity and the pointer, or long, with a    *)
(* block of its own.  The operations are operators on one string, for      *)
(* StrUser and for SymParse.                                               *)
(*                                                                         *)
(* data holds the cells up to the terminator.  What lies behind it is      *)
(* never relied on and may be anything, so growing uncovers Junk.  The low *)
(* bit of _size_short is the field short, _data is the field block.        *)
(***************************************************************************)
EXTENDS Integers, Sequences, FiniteSets, CStrings

CONSTANTS ShortMax,    \* MN__STR_SHORT_SIZE_MAX, 15 in the code
          Chunk        \* the unit of MN__STR_ROUND_ALLOC, 32 in the code

ASSUME StrAssumption == ShortMax \in Nat /\ Chunk \in Nat \ {0}

Junk == 128            \* a cell nobody has written
NoBlock == 0

\* ((alloc + 1) + 32) & ~32: clears one bit of the sum.
RoundAlloc(n) == LET up == n + 1 + Chunk
                 IN IF (up \div Chunk) % 2 = 1 THEN up - Chunk ELSE up

\* The capacity asked for when a string must hold n characters.
NewAlloc(n) == RoundAlloc(n + n \div 2)

EmptyStr == [short |-> TRUE, size |-> 0, alloc |-> 0, block |-> NoBlock,
             data |-> <<Nul>>]

\* Mutant: the place of the terminator is room, too.
RoomInclusive(s) == IF s.short THEN ShortMax + 1 ELSE s.alloc + 1

Room(s) == IF s.short THEN ShortMax ELSE s.alloc
NeedsBlock(s, n) == n > Room(s)
Body(s) == SubSeq(s.data, 1, s.size)

\* mn__str_grow when it does not fail.  The cells it adds are not written.
Grow(s, n) ==
    LET cells == Body(s) \o [i \in 1 .. n - s.size |-> Junk] \o <<Nul>>
    IN IF NeedsBlock(s, n)
       THEN [s EXCEPT !.short = FALSE, !.size = n, !.alloc = NewAlloc(n),
                      !.data = cells]
       ELSE [s EXCEPT !.size = n, !.data = cells]

\* The cells after the first k take the characters of t.
Fill(s, k, t) ==
    [s EXCEPT !.data = [i \in DOMAIN s.data |->
         IF i \in k + 1 .. k + Len(t) THEN t[i - k] ELSE s.data[i]]]

\* mn__str_push, mn__str_cat, mn__str_cat_n and mn__str_cat_s.
CatN(s, t) == Fill(Grow(s, s.size + Len(t)), s.size, t)

\* Mutant: from the front up, so the cell at k is copied over all that follow.
StrInsertForward(s, k, c) ==
    LET g == Grow(s, s.size + 1)
    IN [g EXCEPT !.data = [i \in DOMAIN g.data |->
           IF i \in k + 2 .. s.size + 1 THEN s.data[k + 1]
           ELSE IF i = k + 1 THEN c ELSE g.data[i]]]

\* mn__str_insert: from the end down, each cell takes its left neighbour.
StrInsert(s, k, c) ==
    LET g == Grow(s, s.size + 1)
    IN [g EXCEPT !.data = [i \in DOMAIN g.data |->
           IF i \in k + 2 .. s.size + 1 THEN s.data[i - 1]
           ELSE IF i = k + 1 THEN c ELSE g.data[i]]]

\* mn__str_clear keeps the block.
Cleared(s) == [s EXCEPT !.size = 0, !.data = <<Nul>>]

\* Views (bits/container/str_view) borrow characters: those of a string, of a
\* NUL-terminated text, the first n of a text, or none.
View(s) == [size |-> s.size, data |-> s.data]
ViewS(t) == [size |-> Len(CStr(t)), data |-> t]
ViewN(t, n) == [size |-> n, data |-> t]
NullView == [size |-> 0, data |-> <<>>]

\* Mutant: the sizes are compared after the characters of the first.
CmpPrefix(s, t) ==
    LET diff == {i \in 1 .. s.size : i > t.size \/ s.data[i] # t.data[i]}
        first == CHOOSE i \in diff : \A j \in diff : i <= j
    IN IF diff = {} THEN 0
       ELSE IF first > t.size THEN 1
       ELSE IF s.data[first] < t.data[first] THEN -1 ELSE 1

\* mn__str_cmp and mn__str_view_cmp: by size, then by the first difference.
Cmp(s, t) ==
    LET diff == {i \in 1 .. s.size : s.data[i] # t.data[i]}
        first == CHOOSE i \in diff : \A j \in diff : i <= j
    IN IF s.size # t.size THEN IF s.size < t.size THEN -1 ELSE 1
       ELSE IF diff = {} THEN 0
       ELSE IF s.data[first] < t.data[first] THEN -1 ELSE 1
=============================================================================
