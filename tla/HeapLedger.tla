----------------------------- MODULE HeapLedger -----------------------------
(***************************************************************************)
(* What the leak checker promises, with no record of how it keeps it: a    *)
(* test starts with nothing outstanding, a block handed out was not        *)
(* already handed out, a block leaves the ledger only by being freed or    *)
(* moved, and a test that ends is accused of leaking exactly when the      *)
(* audit is on and something is outstanding.                               *)
(***************************************************************************)
CONSTANT Addr

VARIABLES status,       \* what the program is doing
          audit,        \* leak checking is on
          outstanding,  \* the blocks the ledger says are in use
          leaked        \* the verdict on the last test that ended

ledger == <<status, audit, outstanding, leaked>>

Init == /\ status = "idle"
        /\ audit \in BOOLEAN
        /\ outstanding = {}
        /\ leaked = FALSE

\* A test begins: whatever the one before it left is released.
Begin == /\ status = "idle"
         /\ status' = "running"
         /\ outstanding' = {}
         /\ leaked' = FALSE
         /\ UNCHANGED audit

End == /\ status = "running"
       /\ status' = "idle"
       /\ leaked' = (audit /\ outstanding # {})
       /\ UNCHANGED <<audit, outstanding>>

Active == status \in {"idle", "running"} /\ UNCHANGED <<status, leaked>>

Alloc == /\ Active
         /\ \E a \in Addr \ outstanding : outstanding' = outstanding \cup {a}
         /\ UNCHANGED audit

Free == /\ Active
        /\ \E a \in outstanding : outstanding' = outstanding \ {a}
        /\ UNCHANGED audit

Move == /\ Active
        /\ \E a \in outstanding : \E b \in Addr \ (outstanding \ {a}) :
              outstanding' = (outstanding \ {a}) \cup {b}
        /\ UNCHANGED audit

Toggle == /\ Active
          /\ audit' \in BOOLEAN
          /\ UNCHANGED outstanding

\* The program ends.
Finish == /\ status = "idle"
          /\ status' = "done"
          /\ outstanding' = {}
          /\ UNCHANGED <<audit, leaked>>

\* The program crashes, perhaps after an error of its own replaced the
\* verdict on the test before.
Abort == /\ status' = "aborted"
         /\ leaked' \in {leaked, FALSE}
         /\ UNCHANGED <<audit, outstanding>>

Next == Begin \/ End \/ Alloc \/ Free \/ Move \/ Toggle \/ Finish \/ Abort

Spec == Init /\ [][Next]_ledger
=============================================================================
