------------------------------- MODULE Runner -------------------------------
(***************************************************************************)
(* The test runner (mptest_state.c) with the two loops that run a test     *)
(* many times, over its fault points and over fuzz iterations              *)
(* (mptest_fuzz.c), and the two places a longjmp can land                  *)
(* (mptest_longjmp.c).  All of it shares one global state of which only a  *)
(* part is reset between runs and between tests.                           *)
(*                                                                         *)
(* A test body is a bounded sequence of uses of the API macros, chosen     *)
(* anew in each run.  The leak checker is here only its answer at the end  *)
(* of a run (LeakCheck models it); names are only whether they match the   *)
(* filters of the command line.  Positions, messages and the counter of    *)
(* assertions are left out: no control depends on them.                    *)
(***************************************************************************)
EXTENDS Fault, Sequences

CONSTANTS FuzzIterations,  \* MPTEST__FUZZ_DEFAULT_ITERATIONS
          Uses,            \* what the bodies may do besides, see AllUses
          MaxTests,        \* bound: tests started
          MaxSuites,       \* bound: suites run
          MaxNesting,      \* bound: suites open at once
          MaxSteps         \* bound: macros used in one run of a body

\* LEAK: end with memory outstanding under audit.  BARE_ERROR: return ERROR
\* without a reason, as ASSERT_SYMEQ and SYM do when a conversion fails.
\* LEAVE_CATCH: leave the statement of an ASSERT_ASSERT.  PROPAGATE: return
\* what an expression gave, which may be any int but that of PASS.
AllUses == {"LEAK", "BARE_ERROR", "LEAVE_CATCH", "PROPAGATE"}

ASSUME FuzzAssumption == FuzzIterations \in Nat \ {0}
ASSUME UsesAssumption == Uses \subseteq AllUses
ASSUME BoundAssumption ==
    /\ MaxTests \in Nat
    /\ MaxSuites \in Nat
    /\ MaxNesting \in Nat
    /\ MaxSteps \in Nat

VARIABLES phase,           \* where control is, see Phases
          res,             \* the result of the last run
          passes, fails, errors, total,
          suite_passes, suite_fails,
          suite_failed,
          current_suite,   \* whether it names a suite
          indent_lvl,
          fail_reason,
          fail_data,       \* what the union holds, see FailData
          checking,
          context_live,    \* the frame saved in assert_context still runs
          in_catch,        \* control is in the statement of an ASSERT_ASSERT
          loop,            \* the loop that runs the test
          iteration,       \* its variable i, NoIdx in the fault-free run
          iterations,      \* its bound
          fault_prev,
          fuzz_active, fuzz_iterations, fuzz_failed,
          started,         \* history: tests started
          left,            \* macros the body may still use in this run
          test_mode,       \* history: the fault mode the test started in
          fuzzed,          \* history: the test was started by FUZZ_TEST
          toggled,         \* history: the body changed the fault mode
          log,             \* history: the answers of mptest_fault in this run
          points,          \* history: fault calls of the fault-free run
          made,            \* history: fault_fail_call_idx of each run made
          bad              \* history: for each open suite, a test failed in it

countVars == <<passes, fails, errors, total>>
suiteVars == <<suite_passes, suite_fails, suite_failed, current_suite,
               indent_lvl, bad>>
failVars == <<fail_reason, fail_data>>
jumpVars == <<checking, context_live, in_catch>>
loopVars == <<loop, iteration, iterations, fault_prev>>
fuzzVars == <<fuzz_active, fuzz_iterations, fuzz_failed>>
testVars == <<started, test_mode, fuzzed, toggled>>
runVars == <<left, log, points, made>>
vars == <<phase, res, countVars, suiteVars, failVars, jumpVars, loopVars,
          fuzzVars, testVars, runVars, faultVars>>

\* returned: do_run_test has returned to its loop.  lost: longjmp to a frame
\* that is gone.  corrupt: a report read data that is not what it takes it for.
Phases == {"main", "body", "returned", "over", "lost", "corrupt"}

\* mptest__result is an int: OTHER is any that names no result.
Results == {"PASS", "FAIL", "ERROR", "SKIPPED", "OTHER"}
FailReasons == {"NONE", "ASSERT_FAILURE", "UNCAUGHT_PROGRAM_ASSERT", "NOMEM",
                "SYM_INEQUALITY", "SYM_SYNTAX"}

\* destroyed: the pointers of two syms given back to the heap.  memory: the
\* pointer a hook was called with.
FailData == {"none", "string", "syms", "destroyed", "syntax", "memory"}

FlagTypes ==
    /\ suite_failed \in BOOLEAN /\ current_suite \in BOOLEAN
    /\ fuzz_active \in BOOLEAN /\ fuzz_failed \in BOOLEAN
    /\ context_live \in BOOLEAN /\ in_catch \in BOOLEAN
    /\ fuzzed \in BOOLEAN /\ toggled \in BOOLEAN

TypeOK ==
    /\ phase \in Phases
    /\ res \in Results
    /\ passes \in Nat /\ fails \in Nat /\ errors \in Nat /\ total \in Nat
    /\ suite_passes \in Nat /\ suite_fails \in Nat /\ indent_lvl \in Nat
    /\ iterations \in Nat /\ started \in Nat /\ left \in Nat /\ points \in Nat
    /\ fuzz_iterations \in Nat \ {0}
    /\ iteration \in Nat \cup {NoIdx}
    /\ fail_reason \in FailReasons
    /\ fail_data \in FailData
    /\ checking \in {"NONE", "UNCAUGHT_PROGRAM_ASSERT"}
    /\ loop \in {"none", "fault", "fuzz"}
    /\ fault_prev \in FaultModes /\ test_mode \in FaultModes
    /\ log \in Seq(BOOLEAN)
    /\ made \in Seq(Nat \cup {NoIdx})
    /\ bad \in Seq(BOOLEAN)
    /\ FlagTypes
    /\ FaultTypeOK
-----------------------------------------------------------------------------
(* Starting a test *)

\* do_run_test up to the call of the body, after the runs in `before`.
BeginRun(before) == /\ phase' = "body"
                    /\ left' = MaxSteps
                    /\ log' = <<>>
                    /\ made' = Append(before, fault_fail_call_idx')
                    /\ UNCHANGED <<res, countVars, suiteVars, failVars,
                                   jumpVars, fuzz_failed, points>>

\* RUN_TEST, and FUZZ_TEST, which calls fuzz_next_test first.
Launch == /\ phase = "main"
          /\ started < MaxTests
          /\ started' = started + 1
          /\ test_mode' = fault_checking
          /\ toggled' = FALSE
          /\ fuzzed' \in BOOLEAN
          /\ fuzz_active' = IF fuzzed' THEN TRUE ELSE fuzz_active
          /\ fuzz_iterations' = IF fuzzed' THEN FuzzIterations
                                           ELSE fuzz_iterations

\* The name of the test matches no filter.
SkipTest ==
    /\ Launch
    /\ phase' = "returned"
    /\ res' = "SKIPPED"
    /\ UNCHANGED <<countVars, suiteVars, failVars, jumpVars, loopVars,
                   fuzz_failed, runVars, faultVars>>

FuzzRunTest ==
    /\ fault_checking = "OFF"
    /\ Launch
    /\ loop' = "fuzz"
    /\ iteration' = 0
    /\ iterations' = IF fuzz_active' THEN fuzz_iterations' ELSE 1
    /\ UNCHANGED <<fault_prev, faultVars>>
    /\ BeginRun(<<>>)

FaultRunTest ==
    /\ fault_checking # "OFF"
    /\ Launch
    /\ loop' = "fault"
    /\ fault_prev' = fault_checking
    /\ iteration' = NoIdx
    /\ iterations' = 0
    /\ FaultArm("OFF", NoIdx)
    /\ BeginRun(<<>>)
-----------------------------------------------------------------------------
(* The end of a run *)

FaultFree == loop = "fault" /\ iteration = NoIdx

\* Mutant: fault checking is not reinstated.
ModeAfterRunOff == fault_checking

ModeAfterRun == IF FaultFree THEN fault_prev ELSE fault_checking

\* do_run_test from the end of the body, which gave `result`; the loop then
\* reinstates the mode after the fault-free run, or saves the fuzz failure.
EndRun(result) ==
    /\ phase' = "returned"
    /\ \E leaked \in IF "LEAK" \in Uses THEN BOOLEAN ELSE {FALSE} :
          res' = IF leaked THEN "FAIL" ELSE result
    /\ context_live' = FALSE
    /\ in_catch' = FALSE
    /\ left' = 0
    /\ fault_checking' = ModeAfterRun
    /\ iterations' = IF FaultFree THEN fault_calls ELSE iterations
    /\ points' = IF FaultFree THEN Len(log) ELSE points
    /\ fuzz_failed' = IF loop = "fuzz" /\ res' # "PASS" THEN TRUE ELSE fuzz_failed
    /\ UNCHANGED <<countVars, suiteVars, loop, iteration, fault_prev,
                   fuzz_active, fuzz_iterations, testVars, log, made,
                   fault_calls, fault_fail_call_idx>>

\* Undefined behaviour: nothing is said of what follows.
Undefined(what) ==
    /\ phase' = what
    /\ UNCHANGED <<res, countVars, suiteVars, failVars, jumpVars, loopVars,
                   fuzzVars, testVars, runVars, faultVars>>

-----------------------------------------------------------------------------
(* The test body *)

InBody == phase = "body"

\* One more macro, after which the body goes on.
Step == /\ InBody
        /\ left > 0
        /\ left' = left - 1
        /\ UNCHANGED <<phase, res, countVars, suiteVars, loopVars, fuzzVars,
                       started, test_mode, fuzzed, points, made>>

\* The body ends, outside the statement of an ASSERT_ASSERT if it is tame.
Leave(result) == /\ InBody
                 /\ in_catch => "LEAVE_CATCH" \in Uses
                 /\ EndRun(result)
                 /\ UNCHANGED checking

\* mptest_fault, from the hooks or from the code under test.
BodyFault == /\ Step
             /\ \/ FaultInjected /\ log' = Append(log, TRUE)
                \/ FaultPassed /\ log' = Append(log, FALSE)
             /\ UNCHANGED <<failVars, jumpVars, toggled>>

\* MPTEST_ENABLE_FAULT_CHECKING and MPTEST_DISABLE_FAULT_CHECKING.
BodyFaultSet == /\ Step
                /\ \E mode \in {"OFF", "ONE"} : FaultSet(mode)
                /\ toggled' = TRUE
                /\ UNCHANGED <<failVars, jumpVars, log>>

\* PASS.
Pass == Leave("PASS") /\ UNCHANGED failVars

\* PROPAGATE: no reason is set for the value handed on, whatever it is.
Propagate == /\ "PROPAGATE" \in Uses
             /\ \E result \in Results \ {"PASS"} : Leave(result)
             /\ UNCHANGED failVars

\* An ASSERT that does not hold, or FAIL.
AssertFail == /\ Leave("FAIL")
              /\ fail_reason' = "ASSERT_FAILURE"
              /\ fail_data' = "string"

\* A conversion of ASSERT_SYMEQ or SYM fails.  The syms of ASSERT_SYMEQ stay
\* where check_init put them.
BareError == /\ "BARE_ERROR" \in Uses
             /\ Leave("ERROR")
             /\ fail_data' \in {fail_data, "syms"}
             /\ UNCHANGED fail_reason

\* The expression of ASSERT_SYMEQ or SYM does not parse.
SymSyntax == /\ Leave("ERROR")
             /\ fail_reason' = "SYM_SYNTAX"
             /\ fail_data' = "syntax"

\* ASSERT_SYMEQ: the syms are equal, and destroyed.
SymEqual == /\ Step
            /\ fail_data' = "destroyed"
            /\ UNCHANGED <<fail_reason, jumpVars, toggled, log, faultVars>>

\* ASSERT_SYMEQ: the syms differ, and are left to the report.
SymUnequal == /\ Leave("FAIL")
              /\ fail_reason' = "SYM_INEQUALITY"
              /\ fail_data' = "syms"

\* longjmp_exec to test_context, out of the body.
JumpOut(reason) == /\ Leave("ERROR")
                   /\ fail_reason' = reason

\* A hook of the leak checker finds an error.
HookError == /\ \E reason \in {"NONE", "NOMEM"} : JumpOut(reason)
             /\ fail_data' = "memory"
-----------------------------------------------------------------------------
(* ASSERT_ASSERT, and the assertions of the program under test *)

CatchBegin == /\ ~in_catch
              /\ Step
              /\ checking' = "UNCAUGHT_PROGRAM_ASSERT"
              /\ context_live' = TRUE
              /\ in_catch' = TRUE
              /\ UNCHANGED <<failVars, toggled, log, faultVars>>

\* No assertion failed in the statement: the test fails.
CatchEndUnfired == /\ InBody
                   /\ in_catch
                   /\ checking' = "NONE"
                   /\ EndRun("FAIL")
                   /\ fail_reason' = "ASSERT_FAILURE"
                   /\ fail_data' = "string"

AfterCatch == "NONE"

\* longjmp_exec to assert_context, then catch_assert_end.
ProgramAssertCaught == /\ checking = "UNCAUGHT_PROGRAM_ASSERT"
                       /\ context_live
                       /\ Step
                       /\ fail_data' = "string"
                       /\ checking' = AfterCatch
                       /\ in_catch' = FALSE
                       /\ UNCHANGED <<fail_reason, context_live, toggled, log,
                                      faultVars>>

\* The function that saved assert_context has returned.
ProgramAssertLost == /\ InBody
                     /\ checking = "UNCAUGHT_PROGRAM_ASSERT"
                     /\ ~context_live
                     /\ Undefined("lost")

ProgramAssertUncaught == /\ checking = "NONE"
                         /\ JumpOut("UNCAUGHT_PROGRAM_ASSERT")
                         /\ fail_data' = "string"

Body == \/ BodyFault \/ BodyFaultSet
        \/ Pass \/ Propagate \/ AssertFail \/ BareError
        \/ SymSyntax \/ SymEqual \/ SymUnequal \/ HookError
        \/ CatchBegin \/ CatchEndUnfired
        \/ ProgramAssertCaught \/ ProgramAssertLost \/ ProgramAssertUncaught
-----------------------------------------------------------------------------
(* After a run *)

\* Mutants: a run that did not pass is followed by another; the loop stops
\* one run short.
ContinuesRegardless == loop # "none" /\ iteration + 1 < iterations
ContinuesShort == res = "PASS" /\ iteration + 2 < iterations

\* The condition of both loops.
Continues == res = "PASS" /\ iteration + 1 < iterations

\* Mutant: i++ is forgotten, and the last run is made again.
RunAgainSame == /\ phase = "returned"
                /\ Continues
                /\ IF loop = "fault" THEN FaultArm(fault_checking, iteration)
                                     ELSE UNCHANGED faultVars
                /\ BeginRun(SubSeq(made, 1, Len(made) - 1))
                /\ UNCHANGED <<loopVars, fuzz_active, fuzz_iterations, testVars>>

RunAgain == /\ phase = "returned"
            /\ Continues
            /\ iteration' = iteration + 1
            /\ IF loop = "fault" THEN FaultArm(fault_checking, iteration + 1)
                                 ELSE UNCHANGED faultVars
            /\ BeginRun(made)
            /\ UNCHANGED <<loop, iterations, fault_prev, fuzz_active,
                           fuzz_iterations, testVars>>

\* What the report of the result takes fail_data for is what it holds.
ReportDefined ==
    /\ res = "FAIL" => /\ fail_reason = "ASSERT_FAILURE" => fail_data = "string"
                       /\ fail_reason = "SYM_INEQUALITY" => fail_data = "syms"
    /\ res = "ERROR" => /\ fail_reason = "SYM_SYNTAX" => fail_data = "syntax"
                        /\ fail_reason = "UNCAUGHT_PROGRAM_ASSERT"
                              => fail_data = "string"

One(result) == IF res = result THEN 1 ELSE 0

\* A value that names no result is counted nowhere.
Counted == One("PASS") + One("FAIL") + One("ERROR")

\* Mutant: only failures fail the suite.
FailsSuiteOnly == {"FAIL"}

FailsSuite == {"FAIL", "ERROR"}

\* Mutants: the flag of the failure, or the iterations, are not reset.
FuzzReportFlagKept == fuzz_failed' = fuzz_failed /\ fuzz_iterations' = 1
FuzzReportItersKept == fuzz_failed' = FALSE /\ UNCHANGED fuzz_iterations

FuzzReport == fuzz_failed' = FALSE /\ fuzz_iterations' = 1

\* The end of the loop, and after_test; the loop's variables and the history
\* of the test go out of scope.
AfterTest ==
    /\ phase = "returned"
    /\ ~Continues
    /\ ReportDefined
    /\ phase' = "main"
    /\ passes' = passes + One("PASS")
    /\ fails' = fails + One("FAIL")
    /\ errors' = errors + One("ERROR")
    /\ total' = total + Counted
    /\ suite_failed' = IF current_suite /\ res \in FailsSuite THEN TRUE
                                                            ELSE suite_failed
    /\ bad' = IF bad = <<>> \/ res \notin {"FAIL", "ERROR"} THEN bad
              ELSE [bad EXCEPT ![Len(bad)] = TRUE]
    /\ fail_data' = IF res = "FAIL" /\ fail_reason = "SYM_INEQUALITY"
                    THEN "destroyed" ELSE fail_data
    /\ fuzz_active' = IF loop = "fuzz" THEN FALSE ELSE fuzz_active
    /\ FuzzReport
    /\ loop' = "none" /\ iteration' = 0 /\ iterations' = 0
    /\ fault_prev' = "OFF" /\ test_mode' = "OFF"
    /\ fuzzed' = FALSE /\ toggled' = FALSE
    /\ log' = <<>> /\ points' = 0 /\ made' = <<>>
    /\ UNCHANGED <<res, suite_passes, suite_fails, current_suite, indent_lvl,
                   fail_reason, jumpVars, started, left, faultVars>>

ReportCorrupt == /\ phase = "returned"
                 /\ ~Continues
                 /\ ~ReportDefined
                 /\ Undefined("corrupt")
-----------------------------------------------------------------------------
(* Between tests *)

Between == /\ phase = "main"
           /\ UNCHANGED <<res, countVars, failVars, jumpVars, loopVars,
                          fuzzVars, testVars, runVars>>

MainFaultSet == /\ Between
                /\ \E mode \in {"OFF", "ONE"} : FaultSet(mode)
                /\ UNCHANGED <<phase, suiteVars>>

\* run_suite with a name that matches: before_suite, then its function.
SuiteBegin == /\ Between
              /\ indent_lvl < MaxNesting
              /\ suite_passes + suite_fails + indent_lvl < MaxSuites
              /\ current_suite' = TRUE
              /\ suite_failed' = FALSE
              /\ indent_lvl' = indent_lvl + 1
              /\ bad' = Append(bad, FALSE)
              /\ UNCHANGED <<phase, suite_passes, suite_fails, faultVars>>

\* after_suite.
SuiteEnd == /\ Between
            /\ indent_lvl > 0
            /\ suite_passes' = IF suite_failed THEN suite_passes
                                               ELSE suite_passes + 1
            /\ suite_fails' = IF suite_failed THEN suite_fails + 1
                                              ELSE suite_fails
            /\ current_suite' = FALSE
            /\ suite_failed' = FALSE
            /\ indent_lvl' = indent_lvl - 1
            /\ bad' = SubSeq(bad, 1, Len(bad) - 1)
            /\ UNCHANGED <<phase, faultVars>>

\* run_suite with a name that matches no filter: its function is not called.
SuiteFiltered == /\ Between
                 /\ indent_lvl < MaxNesting
                 /\ suite_passes + suite_fails + indent_lvl < MaxSuites
                 /\ suite_passes' = suite_passes + 1
                 /\ current_suite' = FALSE
                 /\ suite_failed' = FALSE
                 /\ UNCHANGED <<phase, suite_fails, indent_lvl, bad, faultVars>>

MainEnd == /\ Between
           /\ indent_lvl = 0
           /\ phase' = "over"
           /\ UNCHANGED <<suiteVars, faultVars>>

\* --fault-check sets the mode to SET before any test.
Init == /\ phase = "main"
        /\ res = "PASS"
        /\ passes = 0 /\ fails = 0 /\ errors = 0 /\ total = 0
        /\ suite_passes = 0 /\ suite_fails = 0
        /\ suite_failed = FALSE /\ current_suite = FALSE
        /\ indent_lvl = 0
        /\ fail_reason = "NONE" /\ fail_data = "none"
        /\ checking = "NONE" /\ context_live = FALSE /\ in_catch = FALSE
        /\ loop = "none" /\ iteration = 0 /\ iterations = 0
        /\ fault_prev = "OFF"
        /\ fuzz_active = FALSE /\ fuzz_iterations = 1 /\ fuzz_failed = FALSE
        /\ started = 0 /\ left = 0 /\ points = 0
        /\ test_mode = "OFF"
        /\ fuzzed = FALSE /\ toggled = FALSE
        /\ log = <<>> /\ made = <<>> /\ bad = <<>>
        /\ fault_checking \in {"OFF", "SET"}
        /\ fault_calls = 0
        /\ fault_fail_call_idx = NoIdx

Next == \/ SkipTest \/ FuzzRunTest \/ FaultRunTest
        \/ Body \/ RunAgain \/ AfterTest \/ ReportCorrupt
        \/ MainFaultSet \/ SuiteBegin \/ SuiteEnd \/ SuiteFiltered \/ MainEnd

Spec == Init /\ [][Next]_vars

\* One thread, whose bodies end: it takes its next step.
FairSpec == Spec /\ WF_vars(Next)
-----------------------------------------------------------------------------
(* Properties of every program *)

TestOver == phase = "returned" /\ phase' = "main"

\* The counters keep the promises of Tally.
Counters == INSTANCE Tally WITH
    status <- IF phase = "main" THEN "idle"
              ELSE IF phase = "body" THEN "running"
              ELSE IF phase = "returned" THEN "ran" ELSE "stopped",
    last <- res,
    count <- [r \in {"PASS", "FAIL", "ERROR"} |->
                 IF r = "PASS" THEN passes
                 ELSE IF r = "FAIL" THEN fails ELSE errors],
    all <- total

ImplementsTally == Counters!Spec

\* In a run that injects faults, whatever ended the run before it, exactly
\* the calls the mode says fail: the one with the index in mode ONE, all from
\* it on in mode SET, none in the fault-free run.
FaultShape ==
    phase = "body" /\ loop = "fault" /\ ~toggled =>
        \A c \in DOMAIN log :
            log[c] <=> /\ iteration # NoIdx
                       /\ IF test_mode = "ONE" THEN c - 1 = iteration
                                               ELSE c - 1 >= iteration

\* A test that passes under fault checking was run once without faults, and
\* then once with the fault at each call of that run, in order.
FaultRunsMade ==
    [][TestOver /\ res = "PASS" /\ test_mode # "OFF"
         => made = [k \in 1 .. points + 1 |-> k - 2]]_vars

\* A test that passes was fuzzed if FUZZ_TEST started it and run once if
\* RUN_TEST did, whatever tests were skipped or fault-checked before it.
FuzzRunsMade ==
    [][TestOver /\ res = "PASS" /\ test_mode = "OFF"
         => Len(made) = IF fuzzed THEN FuzzIterations ELSE 1]_vars

\* A report names a fuzz iteration just when the test did not pass in one,
\* whatever other value it gave.
FuzzReportOwn ==
    phase = "returned" => (fuzz_failed <=> loop = "fuzz" /\ res # "PASS")

\* A suite is counted as failed just when a test run directly in it ended in
\* FAIL or ERROR: any other value, like a skipped test, fails no suite.
SuiteVerdict ==
    [][indent_lvl' < indent_lvl => /\ suite_fails' > suite_fails <=> bad[Len(bad)]
                                   /\ suite_passes' > suite_passes <=> ~bad[Len(bad)]]_vars

\* However often it is repeated, a test whose runs end is itself over.
TestEnds == (phase = "body") ~> (phase \notin {"body", "returned"})
-----------------------------------------------------------------------------
(* Properties of tests that use the macros tamely: neither holds of others   *)

\* mptest_longjmp.c:17-20: an assertion that nobody is checking for fails the
\* test, so control never goes back into a test that is over.
AccidentalAssertCaught == phase # "lost"

\* mptest_internal.h:210-218: what after_test reads fail_data as, going by
\* fail_reason, is what it holds: never syms that were destroyed.
ReportReadsOwnData == phase # "corrupt"
=============================================================================
