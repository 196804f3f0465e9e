------------------------------- MODULE Tally -------------------------------
(***************************************************************************)
(* What the test runner promises of its counters, whatever loop a test is  *)
(* run in: a test is run until a run does not pass or the loop is over, no *)
(* run follows one that did not pass, and the test is counted once, under  *)
(* the result of its last run and in the total.  A skipped test is not     *)
(* counted, nor is one whose body gave a value that names no result.       *)
(***************************************************************************)
EXTENDS Naturals

VARIABLES status,  \* what the runner is doing
          last,    \* the result of the last run
          count,   \* the number of tests counted under each result
         all      \* the number of tests counted

tally == <<status, last, count, all>>

RunResults == {"PASS", "FAIL", "ERROR"}
Values == RunResults \cup {"SKIPPED", "OTHER"}

Init == /\ status = "idle"
        /\ last = "PASS"
        /\ count = [r \in RunResults |-> 0]
        /\ all = 0

Begin == /\ status = "idle"
         /\ status' = "running"
         /\ UNCHANGED <<last, count, all>>

Skip == /\ status = "idle"
        /\ status' = "ran"
        /\ last' = "SKIPPED"
        /\ UNCHANGED <<count, all>>

EndRun == /\ status = "running"
          /\ status' = "ran"
          /\ last' \in Values
          /\ UNCHANGED <<count, all>>

RunAgain == /\ status = "ran"
            /\ last = "PASS"
            /\ status' = "running"
            /\ UNCHANGED <<last, count, all>>

Close == /\ status = "ran"
         /\ status' = "idle"
         /\ count' = [r \in RunResults |->
                         IF r = last THEN count[r] + 1 ELSE count[r]]
         /\ all' = IF last \in RunResults THEN all + 1 ELSE all
         /\ UNCHANGED last

\* The program ends, or its behaviour becomes undefined.
Stop == /\ status' = "stopped"
        /\ UNCHANGED <<last, count, all>>

Next == Begin \/ Skip \/ EndRun \/ RunAgain \/ Close \/ Stop

Spec == Init /\ [][Next]_tally
=============================================================================
