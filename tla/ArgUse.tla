------------------------------- MODULE ArgUse -------------------------------
(***************************************************************************)
(* What a user means, as a reference for ArgParse: a list of uses, each an *)
(* option with its values and the way they are written, or a positional.   *)
(* Written tells the elements of argv that spell the uses; Meant the calls *)
(* they stand for.  The validity table of _cpack/api.h says which ways an  *)
(* option has; a name that may have a value only behind "=" stands alone   *)
(* too, which the table leaves blank and mptest's own switches rely on.    *)
(***************************************************************************)
EXTENDS ArgTable

\* The ways to write an option: its letter or its name; alone, with "=" and a
\* value, with the value behind the letter, or before elements that are values.
\* A letter written alone may be joined to the letter after it (-OP).
Use(row, form, way, values, joined) ==
    [row |-> row, form |-> form, way |-> way, values |-> values, joined |-> joined]

OneValue == {1, Nargs0Or1, Nargs0OrMore, Nargs1OrMore}
MayStandAlone == {0, Nargs0Or1, Nargs0Or1Eq, Nargs0OrMore}
Ways(nargs, form) ==
    (IF nargs \in MayStandAlone THEN {"alone"} ELSE {})
    \cup (IF nargs \in OneValue \cup {Nargs0Or1Eq} THEN {"equals"} ELSE {})
    \cup (IF nargs \in OneValue /\ form = "short" THEN {"rest"} ELSE {})
    \cup (IF nargs \in OneValue \/ nargs > 1 THEN {"next"} ELSE {})

\* What the table promises and is not kept: values in elements of their own,
\* for an option that may have any number of them; and -OP for a letter that
\* may have a value, since -OP is spelled like -Os and is read as that.
Unkept(nargs, u) ==
    \/ u.way = "next" /\ nargs \in {Nargs0OrMore, Nargs1OrMore}
    \/ u.joined /\ nargs \in {Nargs0Or1, Nargs0OrMore}

Forms(row) == (IF row.short = NoLetter THEN {} ELSE {"short"})
              \cup (IF row.long = NoName THEN {} ELSE {"long"})

\* The values an option takes when it is written in the way given.
ValuesOf(row, way, values) ==
    IF way = "alone" THEN {<<>>}
    ELSE IF way = "next" /\ row.nargs > 1 THEN [1 .. row.nargs -> values]
    ELSE {<<v>> : v \in values}

UsesOf(t, r, values) ==
    LET row == t[r]
    IN IF row.type = "POSITIONAL"
       THEN {Use(r, "plain", "plain", <<v>>, FALSE) : v \in values}
       ELSE UNION {UNION {
            {Use(r, form, way, vs, joined) :
                vs \in ValuesOf(row, way, values),
                joined \in IF form = "short" /\ way = "alone" THEN BOOLEAN ELSE {FALSE}}
            : way \in Ways(row.nargs, form)} : form \in Forms(row)}

\* The element that names the option of u, with what is written into it.
Named(t, u) ==
    LET row == t[u.row]
        name == IF u.form = "short" THEN <<row.short>> ELSE row.long
    IN Element(IF u.form = "short" THEN 1 ELSE 2,
               IF u.way = "equals" THEN name \o <<"=">> \o u.values[1].syms
               ELSE IF u.way = "rest" THEN name \o u.values[1].syms
               ELSE name)

Elements(t, u) ==
    (IF u.form = "plain" THEN <<>> ELSE <<Named(t, u)>>)
    \o (IF u.way \in {"plain", "next"} THEN u.values ELSE <<>>)

\* The elements of u before those of the uses after it: a joined letter moves
\* into the next element.
Before(t, u, after) ==
    IF u.joined
    THEN <<Element(1, <<t[u.row].short>> \o Head(after).syms)>> \o Tail(after)
    ELSE Elements(t, u) \o after

Written(t, us) ==
    LET from[k \in 1 .. Len(us) + 1] ==
            IF k > Len(us) THEN <<>> ELSE Before(t, us[k], from[k + 1])
    IN from[1]

\* A joined letter needs a short option behind it; one that may have a value and
\* is written without needs something that is none; and a value is not mistaken.
Sensible(t, us) ==
    \A k \in DOMAIN us :
        /\ us[k].joined => k < Len(us) /\ us[k + 1].form = "short"
        /\ us[k].way = "alone" /\ t[us[k].row].nargs \in {Nargs0Or1, Nargs0OrMore}
             => k = Len(us) \/ us[k + 1].form # "plain"
        /\ us[k].way \in {"equals", "rest"} => us[k].values[1].dash = 0
        /\ us[k].way = "rest" =>
             us[k].values[1].syms # <<>> /\ Head(us[k].values[1].syms) # "="

CallsOf(u) ==
    IF u.values = <<>> THEN <<[row |-> u.row, sub |-> 0, text |-> NoText]>>
    ELSE [v \in DOMAIN u.values |-> [row |-> u.row, sub |-> v - 1, text |-> u.values[v]]]

Meant(us) == FlattenSeq([k \in DOMAIN us |-> CallsOf(us[k])])

-----------------------------------------------------------------------------
(* Where a meaning is well defined. *)

\* A table whose arguments can be told apart: the parser takes the first row
\* that fits, so a second one with the same letter or name could not be meant;
\* nor could a second positional, since it stays at the first; and "=" is where
\* a name ends.
Apart(t) ==
    /\ \A r \in DOMAIN t : t[r].short # "=" /\ "=" \notin ToSet(t[r].long)
    /\ \A r, q \in DOMAIN t : r # q =>
          /\ t[r].type = "OPTIONAL" \/ t[q].type = "OPTIONAL"
          /\ t[r].short = t[q].short => t[r].short = NoLetter
          /\ t[r].long = t[q].long => t[r].long = NoName

\* Uses of the arguments of t, with values that are no options and that a bool
\* understands.
Proper(t, us) ==
    /\ Sensible(t, us)
    /\ us \in Seq(ToSet(us))
    /\ \A u \in ToSet(us) :
          /\ u.row \in DOMAIN t /\ u \in UsesOf(t, u.row, ToSet(u.values))
          /\ \A v \in ToSet(u.values) :
                /\ v = Element(v.dash, v.syms) /\ v.syms \in Seq(ToSet(v.syms))
                /\ IsPositional(v)
                /\ t[u.row].handler = "bool" => v \in Bools
=============================================================================
