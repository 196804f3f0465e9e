------------------------------ MODULE CStrings ------------------------------
(***************************************************************************)
(* C strings, as sequences of characters (bits/util of _cpack/impl.c).     *)
(***************************************************************************)
EXTENDS Integers, Sequences

Nul == 0               \* the terminator; characters are codes in -128 .. 127

\* mn__str_slen: a C string ends at its first NUL.
CStr(t) == LET nuls == {i \in DOMAIN t : t[i] = Nul}
               end == CHOOSE i \in nuls : \A j \in nuls : i <= j
           IN IF nuls = {} THEN t ELSE SubSeq(t, 1, end - 1)

\* mn__strstr_n: is sub somewhere in s?  The loop stops at the end of s, so
\* nothing is found in an empty s, not even an empty sub.
StrStr(s, sub) ==
    \E i \in 1 .. Len(s) : /\ i + Len(sub) - 1 <= Len(s)
                           /\ SubSeq(s, i, i + Len(sub) - 1) = sub
=============================================================================
