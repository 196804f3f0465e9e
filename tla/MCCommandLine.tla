--------------------------- MODULE MCCommandLine ---------------------------
(* Instances of CommandLine for TLC. *)
EXTENDS CommandLine

\* Every kind of argument: x none, y a bool, o at most one, w two, m
\* any number, p at least one; --o, and --of exactly one; and a positional.
MCOtherTable == <<
    Option("x", NoName, 0, "custom", "ARG"),
    Option("y", <<"y">>, Nargs0Or1Eq, "custom", "ARG"),
    Option("o", <<"o">>, Nargs0Or1, "custom", "ARG"),
    Option(NoLetter, <<"o", "f">>, 1, "str", "FILE"),
    Option("w", <<"w">>, 2, "custom", "ARG"),
    Option("m", <<"m">>, Nargs0OrMore, "custom", "ARG"),
    Option("p", NoName, Nargs1OrMore, "custom", "ARG"),
    Positional("name")>>

a == Text(<<"a">>)
Dash == Element(1, <<>>)
Zero == Text(<<"0">>)

\* What is meant: up to two uses, and up to three of those without a value.
ValuesIn(t) == IF t = MptestTable THEN {a, Zero} ELSE {a, Dash}
AllUses(t) == {u \in UNION {UsesOf(t, r, ValuesIn(t)) : r \in DOMAIN t} :
                 t[u.row].handler = "bool" /\ u.values # <<>> => u.values[1] = Zero}
FewUses(t) == {u \in AllUses(t) : u.form = "short" /\ u.way \in {"alone", "rest"}}
MCGiven(t) ==
    {us \in UNION {[1 .. n -> AllUses(t)] : n \in 0 .. 2} \cup [1 .. 3 -> FewUses(t)] :
        Sensible(t, us)}

\* Anything: options with and without values, joined, unknown, in any order.
Loose(t) ==
    IF t = MptestTable
    THEN {Element(1, <<"t">>), Element(1, <<"s">>), Element(1, <<"h">>),
          Element(1, <<"t", "=", "a">>), Element(2, <<"test", "=">>), a,
          Element(2, <<"leak", "check", "=", "a">>), Element(2, <<"leak", "check", "pass">>),
          Element(2, <<"leak", "check">>), Element(2, <<"leak">>),
          Element(2, <<"version">>), Element(2, <<>>), Element(1, <<"q">>)}
    ELSE {Element(1, <<"x", "=">>), Element(1, <<"x", "o">>), Element(1, <<"x", "q">>),
          Element(1, <<"w">>), Element(1, <<"w", "a">>), Element(2, <<"w", "=", "a">>),
          Element(1, <<"m">>), Element(1, <<"p">>), Element(2, <<"o", "f">>), a, Dash,
          Element(2, <<"o", "=">>), Element(2, <<"y">>)}
MCStray(t) == [1 .. 2 -> Loose(t)]

FewGiven(t) == {us \in [1 .. 1 -> AllUses(t)] : t = MCOtherTable /\ Sensible(t, us)}
NoStray(t) == {}

MCTests == {<<"a">>, <<"b", "a">>, <<"b">>}
MCSuites == {<<"a">>, <<"0">>}
=============================================================================
