------------------------------- MODULE MCSym -------------------------------
EXTENDS Sym

\* ( ) blank 0 x 7 a " ' and the byte that is read as the end.
Alphabet == {40, 41, 32, 48, 120, 55, 97, 34, 39, 255}
ShortTexts == UNION {[1 .. n -> Alphabet] : n \in 0 .. 4}

\* Escapes: "\u0041" "\u007f" "\u0080" "\u00e9" "\u07ff" "\u0800" "\u20ac"
\* "\uffff" "\x41" "\n\"" '\t' and ones that break off.
Uni(a, b, c, d) == <<34, 92, 117, a, b, c, d, 34>>
EscapeTexts ==
    {Uni(48, 48, 52, 49), Uni(48, 48, 55, 102), Uni(48, 48, 56, 48),
     Uni(48, 48, 101, 57), Uni(48, 55, 102, 102), Uni(48, 56, 48, 48),
     Uni(50, 48, 97, 99), Uni(102, 102, 102, 102),
     <<34, 92, 120, 52, 49, 34>>, <<34, 92, 110, 92, 34, 34>>,
     <<39, 92, 116, 39>>, <<39, 92, 117, 50, 48, 97, 99, 39>>,
     <<34, 92>>, <<34, 92, 117, 50, 48>>, <<34, 92, 120, 52, 103, 34>>,
     <<34, 92, 113, 34>>, <<39, 92, 39>>, <<39, 200, 39>>}

\* (a (7) ()) ((a)7) ((a a)(7 (a)) a) (((7)a)0x7a a) and two trees in a row.
LongTexts ==
    {<<40, 97, 32, 40, 55, 41, 32, 40, 41, 41>>,
     <<40, 40, 97, 41, 55, 41>>,
     <<40, 40, 97, 32, 97, 41, 40, 55, 32, 40, 97, 41, 41, 32, 97, 41>>,
     <<40, 40, 40, 55, 41, 97, 41, 48, 120, 55, 97, 32, 97, 41>>,
     <<40, 97, 41, 40, 97, 32, 55, 41>>, <<48, 120, 55, 97, 55>>, <<55, 55, 55>>,
     <<97, 97, 97, 97, 97>>, <<34, 97, 97, 97, 97, 97, 34, 97>>}

MCMakeTexts == ShortTexts \cup EscapeTexts \cup LongTexts

\* a, 7, (), (a), (a 7), ((a) a), nothing, () a, (aaa), and two that do not parse.
MCCheckTexts ==
    {<<97>>, <<55>>, <<40, 41>>, <<40, 97, 41>>, <<40, 97, 32, 55, 41>>,
     <<40, 40, 97, 41, 97, 41>>, <<>>, <<40, 41, 97>>,
     <<40, 97, 97, 97, 41>>, <<40>>, <<48, 97>>}
MCUserTokens == {StrToken(<<97>>), NumToken(7)}

FewTexts == {<<97, 97, 97, 97, 97>>, <<40>>}
=============================================================================
