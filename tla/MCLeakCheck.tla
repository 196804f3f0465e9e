---------------------------- MODULE MCLeakCheck ----------------------------
(* Instances of LeakCheck and LeakReport for TLC. *)
EXTENDS LeakReport, TLC

CONSTANTS a1, a2, a3

\* Two addresses are enough for a block to move, to be reused by another
\* block, and for two blocks to be outstanding.
TwoAddrs == {a1, a2}
ThreeAddrs == {a1, a2, a3}

\* Every libc call may fail but the one that records a moved block.
NoMemBeforeMove == AllocSites \ {"realloc_block"}

AddrSymmetry == Permutations(Addr)
=============================================================================
