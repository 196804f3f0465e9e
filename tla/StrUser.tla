------------------------------ MODULE StrUser ------------------------------
(***************************************************************************)
(* A program that uses strings: any operation on any live string, in any   *)
(* order, and libc refuses memory whenever it likes.                       *)
(***************************************************************************)
EXTENDS Str, Workload

VARIABLES str,         \* str[n], for the strings between init and destroy
          heap         \* the blocks libc has given out

strVars == <<str, heap>>

Held == DOMAIN str
FreshBlock == CHOOSE b \in 1 .. Cardinality(heap) + 1 : b \notin heap
Become(n, s) == str' = [m \in Held \cup {n} |-> IF m = n THEN s ELSE str[m]]

\* String n, now s, is to become new: at once if it has room; else with a new
\* block or its own resized; and if libc refuses that it stays as it is.
Resize(n, s, new) ==
    \/ /\ ~NeedsBlock(s, new.size)
       /\ Become(n, new)
       /\ UNCHANGED heap
    \/ /\ NeedsBlock(s, new.size)
       /\ LET b == IF s.short THEN FreshBlock ELSE s.block
          IN Become(n, [new EXCEPT !.block = b]) /\ heap' = heap \cup {b}
    \/ /\ NeedsBlock(s, new.size)
       /\ Become(n, s)
       /\ UNCHANGED heap

\* mn__str_init_n and mn__str_init_s.  When growing fails the string is left
\* initialised.
InitN(n, t) == /\ n \notin Held
               /\ Resize(n, EmptyStr, CatN(EmptyStr, t))

\* mn__str_init_copy: the size of the copy is that of the other string before
\* its characters are copied.
InitCopy(n, m) ==
    /\ n \notin Held /\ m \in Held
    /\ Resize(n, EmptyStr,
              Fill(Grow(EmptyStr, str[m].size), 0, Body(str[m])))

\* Mutant: the old string keeps its block.
InitMoveKept(n, m) ==
    /\ n \notin Held /\ m \in Held
    /\ str' = [o \in Held \cup {n} |-> IF o = n THEN str[m]
                                       ELSE IF o = m THEN Cleared(str[m])
                                       ELSE str[o]]
    /\ UNCHANGED heap

\* mn__str_init_move: the struct is copied and the old string made empty.
InitMove(n, m) ==
    /\ n \notin Held /\ m \in Held
    /\ str' = [o \in Held \cup {n} |-> IF o = n THEN str[m]
                                       ELSE IF o = m THEN EmptyStr ELSE str[o]]
    /\ UNCHANGED heap

AppendTo(n, t) == /\ n \in Held
                  /\ str[n].size + Len(t) <= MaxSize
                  /\ Resize(n, str[n], CatN(str[n], t))

Push(n, c) == AppendTo(n, <<c>>)                         \* mn__str_push
CatLiteral(n, t) == AppendTo(n, t)                       \* mn__str_cat_n
CatString(n, t) == AppendTo(n, CStr(t))                  \* mn__str_cat_s
CatOther(n, m) == m \in Held /\ AppendTo(n, Body(str[m]))  \* mn__str_cat, m = n too

InsertChar(n, k, c) == /\ n \in Held
                       /\ k \in 0 .. str[n].size
                       /\ str[n].size < MaxSize
                       /\ Resize(n, str[n], StrInsert(str[n], k, c))

Clear(n) == n \in Held /\ Become(n, Cleared(str[n])) /\ UNCHANGED heap

DestroyStr(n) == /\ n \in Held
                 /\ str' = [m \in Held \ {n} |-> str[m]]
                 /\ heap' = IF str[n].short THEN heap ELSE heap \ {str[n].block}

StrInit == str = <<>> /\ heap = {}

StrNext ==
    \E n \in Names :
        \/ \E t \in Literals : \/ InitN(n, t) \/ InitN(n, CStr(t))
                               \/ CatLiteral(n, t) \/ CatString(n, t)
        \/ \E c \in Units : Push(n, c) \/ \E k \in 0 .. MaxSize : InsertChar(n, k, c)
        \/ \E m \in Held : InitCopy(n, m) \/ InitMove(n, m) \/ CatOther(n, m)
        \/ Clear(n)
        \/ DestroyStr(n)

StrSpec == StrInit /\ [][StrNext]_strVars

-----------------------------------------------------------------------------
(* Properties. *)

\* Type correctness of the strings and the heap.
StrTypeOK ==
    /\ Held \subseteq Names
    /\ heap \subseteq Nat \ {NoBlock}
    /\ \A n \in Held : /\ str[n].short \in BOOLEAN
                       /\ str[n].size \in 0 .. MaxSize
                       /\ str[n].alloc \in Nat
                       /\ str[n].block \in Nat
                       /\ Len(str[n].data) = str[n].size + 1

\* MN__STR_CHECK, which release builds leave out, holds between operations: a
\* short string fits, a long one has capacity, its characters end with a NUL.
StrCheck ==
    \A n \in Held :
        LET s == str[n] IN
        /\ s.short => s.size <= ShortMax
        /\ ~s.short => s.size <= s.alloc /\ s.alloc > 0
        /\ s.data[s.size + 1] = Nul

\* Every block libc has given out is owned by exactly one string, through
\* copies, moves and refused growth: nothing leaks, nothing is freed twice.
StrOneOwner ==
    LET long == {n \in Held : ~str[n].short}
    IN /\ heap = {str[n].block : n \in long}
       /\ \A n, m \in long : str[n].block = str[m].block => n = m

\* Comparison orders texts by their characters alone, zero only for equal ones,
\* antisymmetric and transitive, whatever the capacities and however the text
\* is held: in a string, in a view of one, or in a view of a literal.
CmpIsOrder ==
    LET literals == {ViewN(t, Len(t)) : t \in Literals} \cup {ViewS(t) : t \in Literals}
        texts == {str[n] : n \in Held} \cup {View(str[n]) : n \in Held}
    IN \A s \in texts :
        /\ \A t \in texts \cup literals :
              /\ (Cmp(s, t) = 0) <=> (Body(s) = Body(t))
              /\ Cmp(s, t) = -Cmp(t, s)
              /\ \A u \in literals : Cmp(s, t) < 0 /\ Cmp(t, u) < 0 => Cmp(s, u) < 0
        /\ Cmp(s, NullView) = (IF s.size = 0 THEN 0 ELSE 1)

\* The strings implement Lists: their characters are those the operations say,
\* and a refused operation changes none of them.
Chars == INSTANCE Lists WITH list <- [n \in Held |-> Body(str[n])]
StrImplementsLists == Chars!ListsSpec
=============================================================================
