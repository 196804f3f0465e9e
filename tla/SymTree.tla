------------------------------ MODULE SymTree ------------------------------
(***************************************************************************)
(* The tree behind an S-expression (mptest_sym.c).  A tree is its storage, *)
(* the sequence of its records; a record is referred to by its index in    *)
(* the C array, from 0, and knows its first child and its next sibling.    *)
(* The module gives the operations as operators on the storage.            *)
(***************************************************************************)
EXTENDS Integers, Sequences, SequencesExt

NoRef == -1                     \* MPTEST__SYM_NONE
SymTypes == {"EXPR", "STR", "NUM"}

Token(type, str, num) == [type |-> type, str |-> str, num |-> num]
ExprToken == Token("EXPR", <<>>, 0)
StrToken(s) == Token("STR", s, 0)
NumToken(n) == Token("NUM", <<>>, n)

\* mptest__sym_tree_init, and the data that goes with the type.
Record(tok) == [tok |-> tok, first |-> NoRef, next |-> NoRef]

Refs(t) == 0 .. Len(t) - 1
At(t, ref) == t[ref + 1]        \* mptest__sym_get

\* A builder, or a walker: a place between two children of parent.
Place(parent, prev) == [parent |-> parent, prev |-> prev]
TopPlace == Place(NoRef, NoRef)

\* Mutant: the index is taken after the push.
SymNewAfter(t, b, tok) ==
    LET grown == Append(t, Record(tok))
        ref == Len(grown)
    IN IF b.parent = NoRef THEN grown
       ELSE IF b.prev = NoRef THEN [grown EXCEPT ![b.parent + 1].first = ref]
       ELSE [grown EXCEPT ![b.prev + 1].next = ref]

\* mptest__sym_new: the record is pushed and linked behind the builder's last
\* child.  At the top level nothing is linked.
SymNew(t, b, tok) ==
    LET ref == Len(t)
        grown == Append(t, Record(tok))
    IN IF b.parent = NoRef THEN grown
       ELSE IF b.prev = NoRef THEN [grown EXCEPT ![b.parent + 1].first = ref]
       ELSE [grown EXCEPT ![b.prev + 1].next = ref]

\* The builder, and the builder of the children of the expression it adds.
Advanced(t, b) == Place(b.parent, Len(t))
Inside(t) == Place(Len(t), NoRef)

\* A record of each tree, or none.
Pairs(s, t) == (Refs(s) \cup {NoRef}) \X (Refs(t) \cup {NoRef})

\* Mutant: the lists are compared until one of them ends.
SymEqualsPrefix(s, t, i, j) ==
    LET alike[p \in Pairs(s, t)] ==
            IF NoRef \in {p[1], p[2]} THEN TRUE
            ELSE /\ At(s, p[1]).tok = At(t, p[2]).tok
                 /\ alike[<<At(s, p[1]).first, At(t, p[2]).first>>]
                 /\ alike[<<At(s, p[1]).next, At(t, p[2]).next>>]
    IN IF NoRef \in {i, j} THEN i = j
       ELSE /\ At(s, i).tok = At(t, j).tok
            /\ alike[<<At(s, i).first, At(t, j).first>>]

\* mptest__sym_equals: the same type and value, and for expressions children
\* equal in pairs until both lists end at once.
SymEquals(s, t, i, j) ==
    LET alike[p \in Pairs(s, t)] ==
            IF NoRef \in {p[1], p[2]} THEN p[1] = p[2]
            ELSE /\ At(s, p[1]).tok = At(t, p[2]).tok
                 /\ alike[<<At(s, p[1]).first, At(t, p[2]).first>>]
                 /\ alike[<<At(s, p[1]).next, At(t, p[2]).next>>]
    IN IF NoRef \in {i, j} THEN i = j
       ELSE /\ At(s, i).tok = At(t, j).tok
            /\ alike[<<At(s, i).first, At(t, j).first>>]

\* mptest__sym_walk_peeknext: the next record of a walker, NoRef for
\* SYM_NO_MORE and SYM_EMPTY.  At the top level that is always the first.
PeekNext(t, w) ==
    IF w.parent = NoRef THEN IF t = <<>> THEN NoRef ELSE 0
    ELSE IF w.prev = NoRef THEN At(t, w.parent).first ELSE At(t, w.prev).next

\* mptest_sym_walk_peekstr, _peeknum and _peekexpr.
PeekIs(t, w, type) == PeekNext(t, w) # NoRef /\ At(t, PeekNext(t, w)).tok.type = type

\* Mutant: inside an expression the walker asks the parent again.
HasMoreParent(t, w) ==
    IF w.parent = NoRef THEN Len(t) # 0 ELSE At(t, w.parent).first # NoRef

\* mptest_sym_walk_hasmore decides the same question on its own.
HasMore(t, w) ==
    IF w.parent = NoRef THEN Len(t) # 0
    ELSE IF w.prev = NoRef THEN At(t, w.parent).first # NoRef
    ELSE At(t, w.prev).next # NoRef

\* The refs from ref on along the siblings: the list a loop over them visits.
Siblings(t, ref) ==
    LET from[r \in Refs(t) \cup {NoRef}] ==
            IF r = NoRef THEN <<>> ELSE <<r>> \o from[At(t, r).next]
    IN from[ref]
Kids(t, ref) == Siblings(t, At(t, ref).first)

\* mptest__sym_dump_r, its blanks, colours and line breaks left out: the
\* tokens of the tree at ref.
Open == Token("OPEN", <<>>, 0)
Close == Token("CLOSE", <<>>, 0)
Dump(t, ref) ==
    LET dump[r \in Refs(t)] ==
            IF At(t, r).tok # ExprToken THEN <<At(t, r).tok>>
            ELSE <<Open>> \o FlattenSeq([k \in DOMAIN Kids(t, r) |->
                                            dump[Kids(t, r)[k]]]) \o <<Close>>
    IN dump[ref]
=============================================================================
