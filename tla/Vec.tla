-------------------------------- MODULE Vec --------------------------------
(***************************************************************************)
(* The capacity of a vector (bits/container/vec of _cpack/internal.h), for *)
(* the program of VecUser and for the vectors inside SymParse.  A capacity *)
(* of zero means that _data is NULL.                                       *)
(***************************************************************************)
EXTENDS Integers

\* MN__VEC_GROW_ONE: the capacity once `size` elements have become one more.
GrowOne(size, alloc) ==
    IF size + 1 <= alloc THEN alloc ELSE IF alloc = 0 THEN 1 ELSE 2 * alloc

\* MN__VEC_SETSIZE: exactly what is asked for, and never less than before.
SetSize(alloc, n) == IF alloc < n THEN n ELSE alloc
=============================================================================
