------------------------------- MODULE Fault -------------------------------
(***************************************************************************)
(* Fault injection (mptest_state.c).  Every call the code under test makes *)
(* to an injectable operation passes through mptest__fault, which counts   *)
(* the call and says whether it is to fail.  The module holds the counters *)
(* and the operations on them; LeakCheck and Runner extend it.             *)
(*                                                                         *)
(* fault_failed is left out: it is written and never read.                 *)
(***************************************************************************)
EXTENDS Integers

VARIABLES fault_checking,       \* the fault mode
          fault_calls,          \* calls counted since the last reset
          fault_fail_call_idx   \* the call that must fail, NoIdx for none

faultVars == <<fault_checking, fault_calls, fault_fail_call_idx>>

FaultModes == {"OFF", "SET", "ONE"}
NoIdx == -1

FaultTypeOK == /\ fault_checking \in FaultModes
               /\ fault_calls \in Nat
               /\ fault_fail_call_idx \in Nat \cup {NoIdx}

FaultInit == /\ fault_checking = "OFF"
             /\ fault_calls = 0
             /\ fault_fail_call_idx = NoIdx

\* The condition under which mptest__fault returns 1.
FaultHit == /\ fault_checking \in {"ONE", "SET"}
            /\ fault_calls = fault_fail_call_idx

\* mptest__fault returns 1.  In mode ONE the counter moves past the index, so
\* the following calls succeed; in mode SET it stays, so they all fail too.
FaultInjected ==
    /\ FaultHit
    /\ fault_calls' = IF fault_checking = "ONE" THEN fault_calls + 1
                                                ELSE fault_calls
    /\ UNCHANGED <<fault_checking, fault_fail_call_idx>>

\* Mutant: calls are counted only when faults may be injected.
FaultPassedUncounted ==
    /\ ~FaultHit
    /\ fault_calls' = IF fault_checking = "OFF" THEN fault_calls
                                                ELSE fault_calls + 1
    /\ UNCHANGED <<fault_checking, fault_fail_call_idx>>

\* mptest__fault returns 0.
FaultPassed ==
    /\ ~FaultHit
    /\ fault_calls' = fault_calls + 1
    /\ UNCHANGED <<fault_checking, fault_fail_call_idx>>

\* mptest__fault_set.
FaultSet(mode) ==
    /\ fault_checking' = mode
    /\ UNCHANGED <<fault_calls, fault_fail_call_idx>>

\* Mutant: the index counts the calls from one.
FaultArmFromOne(mode, idx) ==
    /\ fault_checking' = mode
    /\ fault_calls' = 0
    /\ fault_fail_call_idx' = idx - 1

\* mptest__fault_reset, in the mode `mode` and before the run that injects
\* the fault at call idx (NoIdx in the first, fault-free run of a test).
FaultArm(mode, idx) ==
    /\ fault_checking' = mode
    /\ fault_calls' = 0
    /\ fault_fail_call_idx' = idx
=============================================================================
