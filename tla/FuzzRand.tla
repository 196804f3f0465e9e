------------------------------ MODULE FuzzRand ------------------------------
(***************************************************************************)
(* The generator of fuzz tests (mptest__fuzz_rand).  mptest_rand is        *)
(* unsigned long, so the product wraps at 2^32 or at 2^64, as the build    *)
(* has it; the generator works modulo 2^31.  TLC's integers have 32 bits:  *)
(* nothing of this module is evaluated, its properties are proved.         *)
(***************************************************************************)
EXTENDS Integers, TLAPS

A == 1103515245
C == 12345
M == 2147483648                                 \* 2^31
Widths == {4294967296, 18446744073709551616}    \* 2^32, 2^64

\* rand_state after mptest__fuzz_init: 0xDEADBEEF.
Seed == 3735928559

\* The next rand_state, which is also the number drawn; & 0xFFFFFFFF keeps the
\* low 32 bits.
FuzzRand(s, width) == (((A * s + C) % width) % M) % 4294967296

\* RAND_PARAM, the one way a test draws a number.
RandParam(s, width, mod) == FuzzRand(s, width) % mod
-----------------------------------------------------------------------------
(* Properties, for every state of the generator *)

\* Every build draws the same numbers from the same state, so the seed that
\* mptest__fuzz_report_test prints means the same to all.
THEOREM SameOnEveryBuild ==
    ASSUME NEW s \in Nat, NEW w \in Widths
    PROVE  FuzzRand(s, w) = (A * s + C) % M
  BY SMTT(30) DEF FuzzRand, Widths, A, C, M

LEMMA ModRange ==
    ASSUME NEW x \in Nat, NEW m \in Nat \ {0}
    PROVE  x % m \in 0 .. m - 1
  BY SMTT(30)

\* The state that is left behind is less than 2^31.
LEMMA StateInRange ==
    ASSUME NEW s \in Nat, NEW w \in Widths
    PROVE  FuzzRand(s, w) \in 0 .. M - 1
  <1>1. A * s + C \in Nat /\ M \in Nat \ {0}
    BY SMTT(30) DEF A, C, M
  <1>2. PICK n \in Nat : n = A * s + C
    BY <1>1
  <1>3. n % M \in 0 .. M - 1
    BY <1>1, ModRange, Zenon
  <1> QED
    BY <1>2, <1>3, SameOnEveryBuild, Zenon

\* Odd and even numbers alternate: RAND_PARAM(2) only ever makes the two
\* choices in turn, and no number of iterations tries one of them twice running.
THEOREM LowBitAlternates ==
    ASSUME NEW s \in Nat, NEW w1 \in Widths, NEW w2 \in Widths
    PROVE  RandParam(FuzzRand(s, w1), w2, 2) # RandParam(s, w1, 2)
  <1>1. \A n \in Nat : ((A * n + C) % M) % 2 # n % 2
    BY SMTT(30) DEF A, C, M
  <1>2. FuzzRand(s, w1) \in Nat
    <2>1. 2 \in Nat \ {0} /\ M \in Nat
      BY SMTT(30) DEF M
    <2>2. FuzzRand(s, w1) \in 0 .. M - 1
      BY <2>1, StateInRange, Zenon
    <2> QED
      BY <2>1, <2>2, SMTT(30)
  <1> QED
    BY <1>1, <1>2, SameOnEveryBuild, SMTT(30) DEF RandParam
=============================================================================
