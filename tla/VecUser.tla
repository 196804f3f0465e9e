------------------------------ MODULE VecUser ------------------------------
(***************************************************************************)
(* Vectors (bits/container/vec of _cpack/internal.h) and a program that    *)
(* uses them: any operation on any live vector, in any order, while libc   *)
(* may refuse memory.  A vector is its elements, its capacity alloc and    *)
(* its block; _size is the number of elements, and _data is NULL exactly   *)
(* when block is NoBlock.                                                  *)
(*                                                                         *)
(* The cat operation is left out: its body names a type, re_size, that     *)
(* the repository does not have, so no program can use it.                 *)
(***************************************************************************)
EXTENDS Vec, Workload, SequencesExt

VARIABLES vec,         \* vec[n], for the vectors between init and destroy
          blocks       \* the blocks libc has given out

vecVars == <<vec, blocks>>

NullData == 0
EmptyVec == [alloc |-> 0, block |-> NullData, elems |-> <<>>]

VecHeld == DOMAIN vec
FreshData == CHOOSE b \in 1 .. Cardinality(blocks) + 1 : b \notin blocks
VecBecome(n, v) == vec' = [m \in VecHeld \cup {n} |-> IF m = n THEN v ELSE vec[m]]

\* Vector n takes the capacity cap and then the elements e, or, when libc
\* refuses the block, keeps what it has.
Realloc(n, cap, e) ==
    LET v == vec[n] IN
    \/ /\ cap = v.alloc
       /\ VecBecome(n, [v EXCEPT !.elems = e])
       /\ UNCHANGED blocks
    \/ /\ cap # v.alloc
       /\ LET b == IF v.block = NullData THEN FreshData ELSE v.block
          IN /\ VecBecome(n, [alloc |-> cap, block |-> b, elems |-> e])
             /\ blocks' = blocks \cup {b}
    \/ /\ cap # v.alloc
       /\ UNCHANGED vecVars

VecInitialise(n) ==                              \* init
    n \notin VecHeld /\ VecBecome(n, EmptyVec) /\ UNCHANGED blocks

VecPush(n, e) ==                                 \* push
    /\ n \in VecHeld /\ Len(vec[n].elems) < MaxSize
    /\ Realloc(n, GrowOne(Len(vec[n].elems), vec[n].alloc),
               Append(vec[n].elems, e))

\* Mutant: the elements are not shifted.
VecInsertOver(n, k, e) ==
    /\ n \in VecHeld /\ k \in 0 .. Len(vec[n].elems)
    /\ Len(vec[n].elems) < MaxSize
    /\ Realloc(n, GrowOne(Len(vec[n].elems), vec[n].alloc),
               [Append(vec[n].elems, e) EXCEPT ![k + 1] = e])

VecInsert(n, k, e) ==                            \* insert
    /\ n \in VecHeld /\ k \in 0 .. Len(vec[n].elems)
    /\ Len(vec[n].elems) < MaxSize
    /\ Realloc(n, GrowOne(Len(vec[n].elems), vec[n].alloc),
               InsertAt(vec[n].elems, k + 1, e))

VecPop(n) ==                                     \* pop
    /\ n \in VecHeld /\ vec[n].elems # <<>>
    /\ VecBecome(n, [vec[n] EXCEPT !.elems = Front(@)])
    /\ UNCHANGED blocks

VecSet(n, k, e) ==                               \* set, and writes through getref
    /\ n \in VecHeld /\ k \in 0 .. Len(vec[n].elems) - 1
    /\ VecBecome(n, [vec[n] EXCEPT !.elems[k + 1] = e])
    /\ UNCHANGED blocks

VecClear(n) ==                                   \* clear
    /\ n \in VecHeld
    /\ VecBecome(n, [vec[n] EXCEPT !.elems = <<>>])
    /\ UNCHANGED blocks

VecReserve(n, cap) ==                            \* reserve
    /\ n \in VecHeld
    /\ Realloc(n, SetSize(vec[n].alloc, cap), vec[n].elems)

VecMove(n, m) ==                                 \* move
    /\ n \notin VecHeld /\ m \in VecHeld
    /\ vec' = [o \in VecHeld \cup {n} |-> IF o = n THEN vec[m]
                                          ELSE IF o = m THEN EmptyVec ELSE vec[o]]
    /\ UNCHANGED blocks

VecDestroy(n) ==                                 \* destroy
    /\ n \in VecHeld
    /\ vec' = [m \in VecHeld \ {n} |-> vec[m]]
    /\ blocks' = blocks \ {vec[n].block}

VecInit == vec = <<>> /\ blocks = {}

VecNext ==
    \E n \in Names :
        \/ \E e \in Units : \/ VecPush(n, e)
                            \/ \E k \in 0 .. MaxSize : VecInsert(n, k, e) \/ VecSet(n, k, e)
        \/ \E m \in VecHeld : VecMove(n, m)
        \/ \E cap \in 0 .. MaxSize : VecReserve(n, cap)
        \/ VecInitialise(n) \/ VecPop(n) \/ VecClear(n) \/ VecDestroy(n)

VecSpec == VecInit /\ [][VecNext]_vecVars

-----------------------------------------------------------------------------
(* Properties. *)

\* Type correctness of the vectors and their blocks.
VecTypeOK ==
    /\ VecHeld \subseteq Names
    /\ blocks \subseteq Nat \ {NullData}
    /\ \A n \in VecHeld : /\ vec[n].alloc \in Nat
                          /\ vec[n].block \in Nat
                          /\ vec[n].elems \in Seq(Int)

\* MN__VEC_CHECK, which release builds leave out, holds between operations: no
\* vector holds more than its block has room for, nor holds without a block.
VecCheck ==
    \A n \in VecHeld : /\ Len(vec[n].elems) <= vec[n].alloc
                       /\ vec[n].alloc = 0 <=> vec[n].block = NullData

\* Every block is owned by exactly one vector, through moves, growth and
\* refused growth: nothing leaks and nothing is freed twice.
VecOneOwner ==
    LET owners == {n \in VecHeld : vec[n].block # NullData}
    IN /\ blocks = {vec[n].block : n \in owners}
       /\ \A n, m \in owners : vec[n].block = vec[m].block => n = m

\* The vectors implement Lists: a push that libc refuses changes nothing, and
\* no capacity, reserved or grown, shows in the elements.
Elems == INSTANCE Lists WITH list <- [n \in VecHeld |-> vec[n].elems]
VecImplementsLists == Elems!ListsSpec
=============================================================================
