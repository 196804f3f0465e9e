----------------------------- MODULE Containers -----------------------------
(***************************************************************************)
(* The two containers under test.  They share no state and never call each *)
(* other, so a program works here with one kind or with the other: their   *)
(* interleavings would show nothing more.                                  *)
(***************************************************************************)
EXTENDS StrUser, VecUser

VARIABLE kind     \* the kind of container the program uses

Init == /\ kind \in {"str", "vec"}
        /\ StrInit
        /\ VecInit

Next == /\ UNCHANGED kind
        /\ \/ kind = "str" /\ StrNext /\ UNCHANGED vecVars
           \/ kind = "vec" /\ VecNext /\ UNCHANGED strVars

Spec == Init /\ [][Next]_<<kind, strVars, vecVars>>

\* Type correctness of both containers and their heaps, and between any two
\* operations what MN__STR_CHECK and MN__VEC_CHECK assert inside them.
TypeOK == StrTypeOK /\ StrCheck /\ VecTypeOK /\ VecCheck

\* Every block libc has given out is owned by exactly one string or vector,
\* through copies, moves, growth and refused growth: nothing leaks and nothing
\* is freed twice.
OneOwner == StrOneOwner /\ VecOneOwner
=============================================================================
