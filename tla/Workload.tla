------------------------------ MODULE Workload ------------------------------
(***************************************************************************)
(* What the programs that use the containers work with.                    *)
(***************************************************************************)
EXTENDS Integers, Sequences

CONSTANTS Names,       \* the containers of the program
          Literals,    \* the lists of characters or elements it writes itself
          MaxSize      \* bound: no container grows past this

ASSUME WorkloadAssumption == /\ MaxSize \in Nat
                             /\ Literals \subseteq Seq(Int)
                             /\ \A t \in Literals : Len(t) <= MaxSize

Units == {t[1] : t \in {u \in Literals : Len(u) = 1}}
=============================================================================
