---------------------------- MODULE RunnerProofs ----------------------------
(***************************************************************************)
(* Proofs about Runner, for every bound and every choice of Uses unless a  *)
(* theorem says otherwise.                                                 *)
(***************************************************************************)
EXTENDS Runner, SequenceTheorems, TLAPS

\* The definitions that name groups of variables.
USE DEF countVars, suiteVars, failVars, jumpVars, loopVars, fuzzVars, testVars,
        runVars, faultVars
-----------------------------------------------------------------------------
(* Non-local exits *)

\* While an ASSERT_ASSERT is armed control is in its statement, and the frame
\* that waits for the jump still runs.
Armed == checking # "NONE" => in_catch /\ context_live

JumpInv == /\ checking \in {"NONE", "UNCAUGHT_PROGRAM_ASSERT"}
           /\ phase # "lost"
           /\ Armed

\* An assertion of the program never jumps into a test that is over, if no
\* test is left from inside the statement of an ASSERT_ASSERT.
THEOREM AccidentalAssertCaughtThm ==
    ASSUME "LEAVE_CATCH" \notin Uses
    PROVE  Spec => []AccidentalAssertCaught
  <1>1. Init => JumpInv
    BY DEF Init, JumpInv, Armed
  <1>2. JumpInv /\ [Next]_vars => JumpInv'
    <2> SUFFICES ASSUME JumpInv, [Next]_vars PROVE JumpInv'
      OBVIOUS
    <2> USE DEF JumpInv, Armed
    <2>1. CASE SkipTest \/ FuzzRunTest \/ FaultRunTest
      BY <2>1 DEF SkipTest, FuzzRunTest, FaultRunTest, Launch, BeginRun
    <2>2. CASE BodyFault \/ BodyFaultSet \/ SymEqual
      BY <2>2 DEF BodyFault, BodyFaultSet, SymEqual, Step, InBody
    <2>3. ASSUME NEW r, Leave(r) PROVE JumpInv'
      BY <2>3 DEF Leave, EndRun, InBody
    <2>4. CASE \/ Pass \/ Propagate \/ AssertFail \/ BareError
               \/ SymSyntax \/ SymUnequal
      BY <2>3, <2>4 DEF Pass, Propagate, AssertFail, BareError, SymSyntax,
         SymUnequal
    <2>5. CASE HookError \/ ProgramAssertUncaught
      BY <2>3, <2>5 DEF HookError, ProgramAssertUncaught, JumpOut
    <2>6. CASE CatchBegin \/ ProgramAssertCaught \/ ProgramAssertLost
      BY <2>6 DEF CatchBegin, ProgramAssertCaught, ProgramAssertLost, AfterCatch,
                  Step, InBody
    <2>7. CASE CatchEndUnfired
      BY <2>7 DEF CatchEndUnfired, EndRun
    <2>8. CASE RunAgain \/ AfterTest \/ ReportCorrupt
      BY <2>8 DEF RunAgain, BeginRun, AfterTest, ReportCorrupt, Undefined
    <2>9. CASE MainFaultSet \/ SuiteBegin \/ SuiteEnd \/ SuiteFiltered \/ MainEnd
      BY <2>9 DEF MainFaultSet, SuiteBegin, SuiteEnd, SuiteFiltered, MainEnd, Between
    <2>10. CASE UNCHANGED vars
      BY <2>10 DEF vars
    <2> QED
      BY <2>1, <2>2, <2>4, <2>5, <2>6, <2>7, <2>8, <2>9, <2>10 DEF Next, Body
  <1>3. JumpInv => AccidentalAssertCaught
    BY DEF JumpInv, AccidentalAssertCaught
  <1> QED
    BY <1>1, <1>2, <1>3, PTL DEF Spec
-----------------------------------------------------------------------------
(* Types *)

\* The flags are a step of their own: Zenon proves it, SMT does the others.
LEMMA FlagsKept == FlagTypes /\ [Next]_vars => FlagTypes'
  <1> SUFFICES ASSUME FlagTypes, [Next]_vars PROVE FlagTypes'
    OBVIOUS
  <1> USE DEF FlagTypes
  <1>1. CASE SkipTest \/ FuzzRunTest \/ FaultRunTest \/ RunAgain
    BY <1>1, ZenonT(60) DEF SkipTest, FuzzRunTest, FaultRunTest, RunAgain, Launch, BeginRun
  <1>2. CASE \/ BodyFault \/ BodyFaultSet \/ SymEqual
             \/ CatchBegin \/ ProgramAssertCaught
    BY <1>2, ZenonT(60) DEF BodyFault, BodyFaultSet, SymEqual, CatchBegin,
       ProgramAssertCaught, Step
  <1>3. CASE Pass \/ Propagate \/ AssertFail \/ BareError \/ SymSyntax \/ SymUnequal
    BY <1>3, ZenonT(60) DEF Pass, Propagate, AssertFail, BareError, SymSyntax, SymUnequal, Leave, EndRun
  <1>4. CASE HookError \/ ProgramAssertUncaught \/ CatchEndUnfired
    BY <1>4, ZenonT(60) DEF HookError, ProgramAssertUncaught, CatchEndUnfired,
       JumpOut, Leave, EndRun
  <1>5. CASE ProgramAssertLost \/ ReportCorrupt \/ AfterTest
    BY <1>5, ZenonT(60) DEF ProgramAssertLost, ReportCorrupt, Undefined, AfterTest,
       FuzzReport
  <1>6. CASE MainFaultSet \/ SuiteBegin \/ SuiteEnd \/ SuiteFiltered \/ MainEnd
    BY <1>6, ZenonT(60) DEF MainFaultSet, SuiteBegin, SuiteEnd, SuiteFiltered,
       MainEnd, Between
  <1>7. CASE UNCHANGED vars
    BY <1>7, ZenonT(60) DEF vars
  <1> QED
    BY <1>1, <1>2, <1>3, <1>4, <1>5, <1>6, <1>7 DEF Next, Body

LEMMA ArmTypes ==
    ASSUME NEW mode \in FaultModes, NEW idx \in Nat \cup {NoIdx}, FaultArm(mode, idx)
    PROVE  FaultTypeOK'
  BY DEF FaultArm, FaultTypeOK

LEMMA BeginRunTypes ==
    ASSUME NEW before \in Seq(Nat \cup {NoIdx}), BeginRun(before), FaultTypeOK'
    PROVE  /\ phase' \in Phases
           /\ left' \in Nat
           /\ log' \in Seq(BOOLEAN)
           /\ made' \in Seq(Nat \cup {NoIdx})
  BY BoundAssumption, EmptySeq, AppendProperties
     DEF BeginRun, Phases, FaultTypeOK

LEMMA LaunchTypes ==
    ASSUME TypeOK, Launch
    PROVE  /\ started' \in Nat
           /\ fuzz_iterations' \in Nat \ {0}
           /\ test_mode' \in FaultModes
  BY FuzzAssumption DEF TypeOK, FaultTypeOK, Launch

LEMMA EndRunTypes ==
    ASSUME TypeOK, FlagTypes',
           NEW result \in Results, EndRun(result),
           fail_reason' \in FailReasons, fail_data' \in FailData,
           checking' \in {"NONE", "UNCAUGHT_PROGRAM_ASSERT"}
    PROVE  TypeOK'
  <1>1. res' \in Results
    BY DEF EndRun, Results
  <1>2. FaultTypeOK' /\ iterations' \in Nat
    BY DEF TypeOK, FaultTypeOK, EndRun, ModeAfterRun
  <1>3. points' \in Nat
    BY LenProperties DEF TypeOK, EndRun
  <1> QED
    BY <1>1, <1>2, <1>3 DEF TypeOK, EndRun, Phases

LEMMA StepTypes ==
    ASSUME TypeOK, FlagTypes', Step,
           fail_reason' \in FailReasons, fail_data' \in FailData,
           checking' \in {"NONE", "UNCAUGHT_PROGRAM_ASSERT"},
           log' \in Seq(BOOLEAN), FaultTypeOK'
    PROVE  TypeOK'
  BY DEF TypeOK, Step

LEMMA FaultStepTypes ==
    ASSUME FaultTypeOK, \/ FaultInjected \/ FaultPassed \/ UNCHANGED faultVars
                        \/ \E mode \in {"OFF", "ONE"} : FaultSet(mode)
    PROVE  FaultTypeOK'
  BY DEF FaultTypeOK, FaultInjected, FaultPassed, FaultSet, FaultModes

\* Type correctness, from any bounds.
THEOREM TypeCorrect == Spec => []TypeOK
  <1>1. Init => TypeOK
    <2>1. Init => FlagTypes
      BY Zenon DEF Init, FlagTypes
    <2> QED
      BY <2>1, EmptySeq DEF Init, TypeOK, FaultTypeOK, FaultModes, Phases,
         Results, FailReasons, FailData
  <1>2. TypeOK /\ [Next]_vars => TypeOK'
    <2> SUFFICES ASSUME TypeOK, [Next]_vars PROVE TypeOK'
      OBVIOUS
    <2>0. FlagTypes'
      BY FlagsKept DEF TypeOK
    <2> USE <2>0 DEF TypeOK
    <2>1. CASE SkipTest
      BY <2>1, LaunchTypes DEF SkipTest, Phases, Results, FaultTypeOK
    <2>2. CASE FuzzRunTest
      BY <2>2, LaunchTypes, BeginRunTypes, EmptySeq, FaultStepTypes
         DEF FuzzRunTest, BeginRun
    <2>3. CASE FaultRunTest
      BY <2>3, LaunchTypes, BeginRunTypes, ArmTypes, EmptySeq
         DEF FaultRunTest, BeginRun, FaultTypeOK, FaultModes
    <2>4. CASE BodyFault
      <3>1. log' \in Seq(BOOLEAN)
        <4>1. log \in Seq(BOOLEAN)
          OBVIOUS
        <4>2. Append(log, TRUE) \in Seq(BOOLEAN) /\ Append(log, FALSE) \in Seq(BOOLEAN)
          BY <4>1, AppendProperties
        <4> QED
          BY <2>4, <4>2 DEF BodyFault
      <3> QED
        BY <2>4, <3>1, StepTypes, FaultStepTypes DEF BodyFault
    <2>5. CASE BodyFaultSet \/ SymEqual \/ CatchBegin \/ ProgramAssertCaught
      BY <2>5, StepTypes, FaultStepTypes DEF BodyFaultSet, SymEqual, CatchBegin,
         ProgramAssertCaught, AfterCatch, FailData
    <2>6. CASE \/ Pass \/ Propagate \/ AssertFail \/ BareError
               \/ SymSyntax \/ SymUnequal
               \/ HookError \/ ProgramAssertUncaught \/ CatchEndUnfired
      BY <2>6, EndRunTypes
         DEF Pass, Propagate, AssertFail, BareError, SymSyntax, SymUnequal,
             HookError, ProgramAssertUncaught, CatchEndUnfired, JumpOut,
             Leave, Results, FailReasons, FailData
    <2>7. CASE ProgramAssertLost \/ ReportCorrupt
      BY <2>7, FaultStepTypes DEF ProgramAssertLost, ReportCorrupt, Undefined, Phases
    <2>8. CASE RunAgain
      <3>1. iteration' \in Nat
        BY <2>8 DEF RunAgain, NoIdx
      <3>2. FaultTypeOK'
        BY <2>8, <3>1, ArmTypes, FaultStepTypes DEF RunAgain, FaultTypeOK
      <3> QED
        BY <2>8, <3>1, <3>2, BeginRunTypes DEF RunAgain, BeginRun
    <2>9. CASE AfterTest
      <3>1. bad # <<>> => [bad EXCEPT ![Len(bad)] = TRUE] \in Seq(BOOLEAN)
        BY EmptySeq, ExceptSeq
      <3>2. bad' \in Seq(BOOLEAN)
        BY <2>9, <3>1 DEF AfterTest
      <3>3. passes' \in Nat /\ fails' \in Nat /\ errors' \in Nat /\ total' \in Nat
        BY <2>9 DEF AfterTest, One, Counted
      <3> QED
        BY <2>9, <3>2, <3>3, EmptySeq, FaultStepTypes
           DEF AfterTest, FuzzReport, Phases, FailData, FaultModes
    <2>10. CASE SuiteBegin
      BY <2>10, AppendProperties, FaultStepTypes DEF SuiteBegin, Between
    <2>11. CASE SuiteEnd
      <3>1. SubSeq(bad, 1, Len(bad) - 1) \in Seq(BOOLEAN)
        BY SubSeqProperties, LenProperties, ElementOfSeq
      <3> QED
        BY <2>11, <3>1, FaultStepTypes DEF SuiteEnd, Between
    <2>12. CASE MainFaultSet \/ SuiteFiltered \/ MainEnd
      <3>1. FaultTypeOK'
        BY <2>12, FaultStepTypes DEF MainFaultSet, SuiteFiltered, MainEnd
      <3>2. CASE MainFaultSet
        BY <3>1, <3>2 DEF MainFaultSet, Between
      <3>3. CASE SuiteFiltered
        BY <3>1, <3>3 DEF SuiteFiltered, Between
      <3>4. CASE MainEnd
        BY <3>1, <3>4 DEF MainEnd, Between, Phases
      <3> QED
        BY <2>12, <3>2, <3>3, <3>4
    <2>13. CASE UNCHANGED vars
      BY <2>13, FaultStepTypes DEF vars
    <2> QED
      BY <2>1, <2>2, <2>3, <2>4, <2>5, <2>6, <2>7, <2>8, <2>9, <2>10, <2>11,
         <2>12, <2>13 DEF Next, Body
  <1> QED
    BY <1>1, <1>2, PTL DEF Spec
-----------------------------------------------------------------------------
(* The counters *)

\* Runner implements Tally: a test is counted once, under the result of its
\* last run and in the total, or nowhere if what its body gave names no result;
\* and only a run that passed is followed by another.
THEOREM ImplementsTallyThm == Spec => ImplementsTally
  <1> USE DEF Counters!tally, Counters!RunResults, Counters!Values
  <1>1. Init => Counters!Init
    BY DEF Init, Counters!Init
  <1>2. TypeOK /\ [Next]_vars => [Counters!Next]_(Counters!tally)
    <2> SUFFICES ASSUME TypeOK, [Next]_vars
                 PROVE  Counters!Next \/ UNCHANGED Counters!tally
      OBVIOUS
    <2> USE DEF Counters!Next
    <2>1. CASE SkipTest
      BY <2>1 DEF SkipTest, Launch, Counters!Skip
    <2>2. CASE FuzzRunTest \/ FaultRunTest
      BY <2>2 DEF FuzzRunTest, FaultRunTest, Launch, BeginRun, Counters!Begin
    <2>3. CASE \/ BodyFault \/ BodyFaultSet \/ SymEqual
               \/ CatchBegin \/ ProgramAssertCaught
      BY <2>3 DEF BodyFault, BodyFaultSet, SymEqual, CatchBegin,
         ProgramAssertCaught, Step, InBody
    <2>4. ASSUME NEW r \in Results, InBody, EndRun(r)
          PROVE  Counters!EndRun
      BY <2>4 DEF Results, EndRun, InBody, Counters!EndRun
    <2>5. CASE \/ Pass \/ Propagate \/ AssertFail \/ BareError
               \/ SymSyntax \/ SymUnequal
               \/ HookError \/ ProgramAssertUncaught \/ CatchEndUnfired
      BY <2>4, <2>5
         DEF Pass, Propagate, AssertFail, BareError, SymSyntax, SymUnequal,
             HookError, ProgramAssertUncaught, CatchEndUnfired, JumpOut, Leave,
             Results
    <2>6. CASE ProgramAssertLost \/ ReportCorrupt \/ MainEnd
      BY <2>6 DEF ProgramAssertLost, ReportCorrupt, Undefined, MainEnd, Between,
         Counters!Stop
    <2>7. CASE RunAgain
      BY <2>7 DEF RunAgain, Continues, BeginRun, Counters!RunAgain
    <2>8. CASE AfterTest
      BY <2>8 DEF AfterTest, One, Counted, TypeOK, Results, Counters!Close
    <2>9. CASE MainFaultSet \/ SuiteBegin \/ SuiteEnd \/ SuiteFiltered
      BY <2>9 DEF MainFaultSet, SuiteBegin, SuiteEnd, SuiteFiltered, Between
    <2>10. CASE UNCHANGED vars
      BY <2>10 DEF vars
    <2> QED
      BY <2>1, <2>2, <2>3, <2>5, <2>6, <2>7, <2>8, <2>9, <2>10 DEF Next, Body
  <1> QED
    BY <1>1, <1>2, TypeCorrect, PTL DEF Spec, ImplementsTally, Counters!Spec
-----------------------------------------------------------------------------
(* The two loops *)

Running == phase \in {"body", "returned"}

\* Which loop runs a test, and what is left between tests.
KindInv == /\ phase = "body" => loop # "none"
           /\ phase = "main" => fuzz_iterations = 1 /\ loop = "none"
           /\ phase = "returned" /\ loop = "none" => res = "SKIPPED"
           /\ Running /\ loop = "fault" => test_mode # "OFF"
           /\ Running /\ loop = "fuzz" => test_mode = "OFF"

\* The fuzz loop has made as many runs as its variable says.
FuzzInv == Running /\ loop = "fuzz" =>
              /\ Len(made) = iteration + 1
              /\ iteration < iterations
              /\ iterations = IF fuzzed THEN FuzzIterations ELSE 1

\* The fault loop has made the runs its variable says, its bound is the
\* number of fault calls of the fault-free run, and while that run is made
\* the counter of calls agrees with the calls: no fault is injected in it,
\* whatever mode the body sets, because no call has the index NoIdx.
FaultInv == Running /\ loop = "fault" =>
              /\ Len(made) = iteration + 2
              /\ \A k \in 1 .. Len(made) : made[k] = k - 2
              /\ fault_fail_call_idx = iteration
              /\ IF phase = "body" /\ iteration = NoIdx
                 THEN fault_calls = Len(log)
                 ELSE iterations = points /\ iteration < iterations

LoopInv == KindInv /\ FuzzInv /\ FaultInv

LEMMA LoopInvInit == Init => LoopInv
  BY DEF Init, LoopInv, KindInv, FuzzInv, FaultInv, Running

\* A body step keeps the loop invariant if the counter follows the log.
LEMMA LoopInvStep ==
    ASSUME LoopInv, Step, UNCHANGED fault_fail_call_idx,
           FaultFree => fault_calls' - fault_calls = Len(log') - Len(log),
           fault_calls \in Nat, fault_calls' \in Nat,
           Len(log) \in Nat, Len(log') \in Nat
    PROVE  LoopInv'
  BY DEF LoopInv, KindInv, FuzzInv, FaultInv, Running, Step, FaultFree, InBody

LEMMA LoopInvEndRun ==
    ASSUME TypeOK, LoopInv, InBody, NEW r, EndRun(r)
    PROVE  LoopInv'
  <1>1. KindInv' /\ FuzzInv'
    BY DEF LoopInv, KindInv, FuzzInv, Running, InBody, EndRun, FaultFree
  <1>2. FaultInv'
    BY LenProperties DEF LoopInv, FaultInv, Running, InBody, EndRun, FaultFree,
       NoIdx, TypeOK
  <1> QED
    BY <1>1, <1>2 DEF LoopInv

LEMMA AppendIndex ==
    ASSUME NEW S, NEW s \in Seq(S), NEW e \in S
    PROVE  /\ Len(Append(s, e)) = Len(s) + 1
           /\ \A k \in 1 .. Len(s) : Append(s, e)[k] = s[k]
           /\ Append(s, e)[Len(s) + 1] = e
           /\ Len(s) \in Nat
  BY AppendProperties, LenProperties

LEMMA LoopInvLaunch ==
    ASSUME TypeOK, LoopInv, FuzzRunTest \/ FaultRunTest
    PROVE  LoopInv'
  <1>1. made' = <<fault_fail_call_idx'>>
    BY DEF FuzzRunTest, FaultRunTest, BeginRun
  <1>2. Len(made') = 1 /\ made'[1] = fault_fail_call_idx'
    BY <1>1
  <1>3. CASE FuzzRunTest
    BY <1>2, <1>3, FuzzAssumption DEF FuzzRunTest, Launch, BeginRun, LoopInv,
       KindInv, FuzzInv, FaultInv, Running
  <1>4. CASE FaultRunTest
    BY <1>2, <1>4 DEF FaultRunTest, FaultArm, Launch, BeginRun, LoopInv,
       KindInv, FuzzInv, FaultInv, Running, NoIdx
  <1> QED
    BY <1>3, <1>4

LEMMA LoopInvRunAgain ==
    ASSUME TypeOK, LoopInv, RunAgain
    PROVE  LoopInv'
  <1>1. made' = Append(made, fault_fail_call_idx') /\ made \in Seq(Nat \cup {NoIdx})
    BY DEF RunAgain, BeginRun, TypeOK
  <1>2. fault_fail_call_idx' \in Nat \cup {NoIdx}
    BY DEF RunAgain, FaultArm, TypeOK, FaultTypeOK, NoIdx
  <1>3. /\ Len(made') = Len(made) + 1
        /\ \A k \in 1 .. Len(made) : made'[k] = made[k]
        /\ made'[Len(made) + 1] = fault_fail_call_idx'
        /\ Len(made) \in Nat
    BY <1>1, <1>2, AppendIndex
  <1>4. KindInv'
    BY DEF RunAgain, Continues, BeginRun, LoopInv, KindInv, Running
  <1>5. FuzzInv'
    BY <1>3 DEF RunAgain, Continues, BeginRun, LoopInv, FuzzInv, Running, TypeOK, NoIdx
  <1>6. FaultInv'
    BY <1>3 DEF RunAgain, Continues, BeginRun, FaultArm, LoopInv, FaultInv,
       Running, TypeOK, NoIdx
  <1> QED
    BY <1>4, <1>5, <1>6 DEF LoopInv

LEMMA LoopInvNext == TypeOK /\ LoopInv /\ [Next]_vars => LoopInv'
  <1> SUFFICES ASSUME TypeOK, LoopInv, [Next]_vars PROVE LoopInv'
    OBVIOUS
  <1>1. CASE SkipTest
    BY <1>1 DEF SkipTest, Launch, LoopInv, KindInv, FuzzInv, FaultInv, Running
  <1>2. CASE FuzzRunTest \/ FaultRunTest \/ RunAgain
    BY <1>2, LoopInvLaunch, LoopInvRunAgain
  <1>3. CASE BodyFault
    <2>1. ~FaultFree \/ ~FaultHit
      BY <1>3 DEF BodyFault, Step, InBody, FaultFree, FaultHit, LoopInv,
         FaultInv, Running, TypeOK, FaultTypeOK, NoIdx
    <2>2. /\ Len(Append(log, TRUE)) = Len(log) + 1
          /\ Len(Append(log, FALSE)) = Len(log) + 1
      BY AppendProperties DEF TypeOK
    <2>3. Len(log') = Len(log) + 1
      BY <1>3, <2>2 DEF BodyFault
    <2>4. FaultInjected \/ FaultPassed
      BY <1>3 DEF BodyFault
    <2>5. FaultTypeOK'
      BY <2>4, FaultStepTypes DEF TypeOK
    <2>6. UNCHANGED fault_fail_call_idx
      BY <2>4 DEF FaultInjected, FaultPassed
    <2>7. FaultFree => fault_calls' = fault_calls + 1
      BY <2>1, <2>4 DEF FaultInjected, FaultPassed
    <2>8. fault_calls \in Nat /\ fault_calls' \in Nat /\ Len(log) \in Nat
      BY <2>5, LenProperties DEF TypeOK, FaultTypeOK
    <2>9. Len(log') \in Nat
      BY <2>3, <2>8
    <2>10. FaultFree => fault_calls' - fault_calls = Len(log') - Len(log)
      BY <2>3, <2>7, <2>8
    <2>11. Step
      BY <1>3 DEF BodyFault
    <2> QED
      BY <2>6, <2>8, <2>9, <2>10, <2>11, LoopInvStep
  <1>4. CASE BodyFaultSet \/ SymEqual \/ CatchBegin \/ ProgramAssertCaught
    <2>1. Step /\ UNCHANGED <<fault_calls, fault_fail_call_idx, log>>
      BY <1>4 DEF BodyFaultSet, FaultSet, SymEqual, CatchBegin, ProgramAssertCaught
    <2> QED
      BY <2>1, LoopInvStep, LenProperties DEF TypeOK, FaultTypeOK
  <1>5. CASE \/ Pass \/ Propagate \/ AssertFail \/ BareError
             \/ SymSyntax \/ SymUnequal
             \/ HookError \/ ProgramAssertUncaught \/ CatchEndUnfired
    BY <1>5, LoopInvEndRun DEF Pass, Propagate, AssertFail, BareError, SymSyntax, SymUnequal,
       HookError, ProgramAssertUncaught, CatchEndUnfired, JumpOut, Leave
  <1>6. CASE ProgramAssertLost \/ ReportCorrupt
    BY <1>6 DEF ProgramAssertLost, ReportCorrupt, Undefined, LoopInv, KindInv,
       FuzzInv, FaultInv, Running
  <1>7. CASE AfterTest
    BY <1>7 DEF AfterTest, FuzzReport, LoopInv, KindInv, FuzzInv, FaultInv, Running
  <1>8. CASE MainFaultSet \/ SuiteBegin \/ SuiteEnd \/ SuiteFiltered \/ MainEnd
    BY <1>8 DEF MainFaultSet, SuiteBegin, SuiteEnd, SuiteFiltered, MainEnd,
       Between, LoopInv, KindInv, FuzzInv, FaultInv, Running
  <1>9. CASE UNCHANGED vars
    BY <1>9 DEF vars, LoopInv, KindInv, FuzzInv, FaultInv, Running
  <1> QED
    BY <1>1, <1>2, <1>3, <1>4, <1>5, <1>6, <1>7, <1>8, <1>9 DEF Next, Body

LEMMA LoopInvariance == Spec => [](TypeOK /\ LoopInv)
  <1>1. Spec => []TypeOK
    BY TypeCorrect
  <1> QED
    BY <1>1, LoopInvInit, LoopInvNext, PTL DEF Spec

\* Only AfterTest ends a test.
LEMMA TestOverIsAfterTest == [Next]_vars /\ TestOver => AfterTest
  <1> SUFFICES ASSUME [Next]_vars, TestOver PROVE AfterTest
    OBVIOUS
  <1> USE DEF TestOver
  <1>1. ~(SkipTest \/ FuzzRunTest \/ FaultRunTest \/ RunAgain \/ ReportCorrupt)
    BY DEF SkipTest, FuzzRunTest, FaultRunTest, Launch, RunAgain, BeginRun,
       ReportCorrupt, Undefined
  <1>2. ~Body
    BY DEF Body, BodyFault, BodyFaultSet, Pass, Propagate, AssertFail, BareError, SymSyntax,
       SymEqual, SymUnequal, HookError, CatchBegin, CatchEndUnfired,
       ProgramAssertCaught, ProgramAssertLost, ProgramAssertUncaught, JumpOut, Leave, Step, InBody
  <1>3. ~(MainFaultSet \/ SuiteBegin \/ SuiteEnd \/ SuiteFiltered \/ MainEnd)
    BY DEF MainFaultSet, SuiteBegin, SuiteEnd, SuiteFiltered, MainEnd, Between
  <1>4. ~UNCHANGED vars
    BY DEF vars
  <1> QED
    BY <1>1, <1>2, <1>3, <1>4 DEF Next

\* A test that passes under fault checking has been run once with no fault,
\* and once with the fault at every call of that run, whatever their number.
THEOREM FaultRunsMadeThm == Spec => FaultRunsMade
  <1> DEFINE Claim == TestOver /\ res = "PASS" /\ test_mode # "OFF"
                        => made = [k \in 1 .. points + 1 |-> k - 2]
  <1>1. TypeOK /\ LoopInv /\ [Next]_vars => Claim
    <2> SUFFICES ASSUME TypeOK, LoopInv, [Next]_vars,
                        TestOver, res = "PASS", test_mode # "OFF"
                 PROVE  made = [k \in 1 .. points + 1 |-> k - 2]
      OBVIOUS
    <2>1. AfterTest
      BY TestOverIsAfterTest
    <2>2. loop = "fault" /\ Running /\ phase = "returned"
      BY <2>1 DEF AfterTest, LoopInv, KindInv, Running, TypeOK
    <2>3. /\ Len(made) = points + 1
          /\ \A k \in 1 .. Len(made) : made[k] = k - 2
      BY <2>1, <2>2 DEF AfterTest, Continues, LoopInv, FaultInv, TypeOK, NoIdx
    <2>4. made = [k \in 1 .. Len(made) |-> made[k]]
      BY LenProperties DEF TypeOK
    <2> QED
      BY <2>3, <2>4
  <1>2. FaultRunsMade <=> [][Claim]_vars
    BY DEF FaultRunsMade
  <1> HIDE DEF Claim
  <1> QED
    BY <1>1, <1>2, LoopInvariance, PTL DEF Spec

\* A test that passes with no fault checking was run as often as the macro
\* that started it says.
THEOREM FuzzRunsMadeThm == Spec => FuzzRunsMade
  <1> DEFINE Claim == TestOver /\ res = "PASS" /\ test_mode = "OFF"
                        => Len(made) = IF fuzzed THEN FuzzIterations ELSE 1
  <1>1. TypeOK /\ LoopInv /\ [Next]_vars => Claim
    <2> SUFFICES ASSUME TypeOK, LoopInv, [Next]_vars,
                        TestOver, res = "PASS", test_mode = "OFF"
                 PROVE  Len(made) = IF fuzzed THEN FuzzIterations ELSE 1
      OBVIOUS
    <2>1. AfterTest
      BY TestOverIsAfterTest
    <2>2. loop = "fuzz" /\ Running
      BY <2>1 DEF AfterTest, LoopInv, KindInv, Running, TypeOK
    <2> QED
      BY <2>1, <2>2 DEF AfterTest, Continues, LoopInv, FuzzInv, TypeOK, NoIdx
  <1>2. FuzzRunsMade <=> [][Claim]_vars
    BY DEF FuzzRunsMade
  <1> HIDE DEF Claim
  <1> QED
    BY <1>1, <1>2, LoopInvariance, PTL DEF Spec
-----------------------------------------------------------------------------
(* What the fuzz report says *)

\* Nothing is left over from an earlier test when a run begins.
ReportFlagInv == /\ phase \in {"main", "body"} => fuzz_failed = FALSE
                 /\ FuzzReportOwn

\* The end of a run raises the flag just when the fuzz loop has failed.
LEMMA EndRunRaises ==
    ASSUME LoopInv, ReportFlagInv, InBody,
           NEW r \in Results, EndRun(r)
    PROVE  ReportFlagInv'
  <1>1. res' \in Results /\ phase' = "returned" /\ loop' = loop
    BY DEF EndRun, Results
  <1>2. fuzz_failed = FALSE
    BY DEF ReportFlagInv, InBody
  <1>3. fuzz_failed' = IF loop = "fuzz" /\ res' # "PASS" THEN TRUE ELSE fuzz_failed
    BY DEF EndRun
  <1> QED
    BY <1>1, <1>2, <1>3 DEF ReportFlagInv, FuzzReportOwn

\* A report names a fuzz iteration just when the last run of the test was one of
\* the fuzz loop and did not pass, whatever else it gave.
THEOREM FuzzReportOwnThm == Spec => []FuzzReportOwn
  <1>1. Init => ReportFlagInv
    BY DEF Init, ReportFlagInv, FuzzReportOwn
  <1>2. TypeOK /\ LoopInv /\ ReportFlagInv /\ [Next]_vars => ReportFlagInv'
    <2> SUFFICES ASSUME TypeOK, LoopInv, ReportFlagInv, [Next]_vars
                 PROVE  ReportFlagInv'
      OBVIOUS
    <2> USE DEF ReportFlagInv, FuzzReportOwn
    <2>1. CASE SkipTest
      BY <2>1 DEF SkipTest, Launch, LoopInv, KindInv
    <2>2. CASE FuzzRunTest \/ FaultRunTest
      BY <2>2 DEF FuzzRunTest, FaultRunTest, Launch, BeginRun
    <2>3. CASE RunAgain
      BY <2>3 DEF RunAgain, Continues, BeginRun
    <2>4. CASE BodyFault \/ BodyFaultSet \/ SymEqual \/ CatchBegin \/ ProgramAssertCaught
      BY <2>4 DEF BodyFault, BodyFaultSet, SymEqual, CatchBegin,
         ProgramAssertCaught, Step, InBody
    <2>5. CASE \/ Pass \/ Propagate \/ AssertFail \/ BareError
               \/ SymSyntax \/ SymUnequal
               \/ HookError \/ ProgramAssertUncaught \/ CatchEndUnfired
      BY <2>5, EndRunRaises
         DEF Pass, Propagate, AssertFail, BareError, SymSyntax, SymUnequal,
             HookError, ProgramAssertUncaught, CatchEndUnfired, JumpOut, Leave,
             Results
    <2>6. CASE ProgramAssertLost \/ ReportCorrupt
      BY <2>6 DEF ProgramAssertLost, ReportCorrupt, Undefined
    <2>7. CASE AfterTest
      BY <2>7 DEF AfterTest, FuzzReport
    <2>8. CASE MainFaultSet \/ SuiteBegin \/ SuiteEnd \/ SuiteFiltered \/ MainEnd
      BY <2>8 DEF MainFaultSet, SuiteBegin, SuiteEnd, SuiteFiltered, MainEnd, Between
    <2>9. CASE UNCHANGED vars
      BY <2>9 DEF vars
    <2> QED
      BY <2>1, <2>2, <2>3, <2>4, <2>5, <2>6, <2>7, <2>8, <2>9 DEF Next, Body
  <1>3. ReportFlagInv => FuzzReportOwn
    BY DEF ReportFlagInv
  <1> QED
    BY <1>1, <1>2, <1>3, LoopInvariance, PTL DEF Spec
-----------------------------------------------------------------------------
(* Which calls fail *)

\* In a test that leaves the fault mode alone, the mode of each of its runs.
ModeInv == Running /\ loop = "fault" /\ ~toggled =>
              /\ fault_prev = test_mode
              /\ fault_checking = IF phase = "body" /\ iteration = NoIdx
                                  THEN "OFF" ELSE test_mode

\* How far the counter has got in a run that injects faults: in mode ONE it
\* follows the calls, in mode SET it stops at the index.
CallInv == phase = "body" /\ loop = "fault" /\ ~toggled /\ iteration # NoIdx =>
              fault_calls = IF test_mode = "ONE" \/ Len(log) < iteration
                            THEN Len(log) ELSE iteration

ShapeInv == ModeInv /\ CallInv /\ FaultShape

LEMMA ShapeInvBodyFault ==
    ASSUME TypeOK, LoopInv, ShapeInv, BodyFault
    PROVE  ShapeInv'
  <1> SUFFICES ASSUME loop = "fault", ~toggled
               PROVE  ShapeInv'
    BY DEF BodyFault, Step, ShapeInv, ModeInv, CallInv, FaultShape
  <1>1. /\ phase = "body" /\ phase' = "body"
        /\ UNCHANGED <<loop, toggled, iteration, fault_prev, test_mode>>
    BY DEF BodyFault, Step, InBody
  <1>2. /\ UNCHANGED <<fault_checking, fault_fail_call_idx>>
        /\ test_mode \in {"SET", "ONE"}
        /\ fault_fail_call_idx = iteration
        /\ fault_checking = IF iteration = NoIdx THEN "OFF" ELSE test_mode
    BY <1>1 DEF BodyFault, FaultInjected, FaultPassed, ShapeInv, ModeInv, LoopInv,
       KindInv, FaultInv, Running, TypeOK, FaultModes
  <1>3. DOMAIN log = 1 .. Len(log) /\ Len(log) \in Nat
    BY LenProperties DEF TypeOK
  <1>4. iteration # NoIdx => iteration \in Nat
    BY DEF TypeOK
  <1>5. CASE FaultHit
    <2>1. log' = Append(log, TRUE)
      BY <1>5 DEF BodyFault, FaultPassed
    <2>2. FaultInjected
      BY <1>5 DEF BodyFault, FaultPassed
    <2>3. /\ Len(log') = Len(log) + 1
          /\ DOMAIN log' = 1 .. Len(log) + 1
          /\ \A k \in 1 .. Len(log) : log'[k] = log[k]
          /\ log'[Len(log) + 1] = TRUE
      BY <2>1, AppendIndex, AppendProperties DEF TypeOK
    <2>4. /\ iteration # NoIdx
          /\ fault_calls = iteration
          /\ fault_calls' = IF test_mode = "ONE" THEN fault_calls + 1 ELSE fault_calls
      BY <1>2, <1>5, <2>2 DEF FaultHit, FaultInjected
    <2>5. IF test_mode = "ONE" THEN Len(log) = iteration ELSE Len(log) >= iteration
      BY <1>1, <1>3, <1>4, <2>4 DEF ShapeInv, CallInv
    <2>6. ModeInv'
      BY <1>1, <1>2 DEF ShapeInv, ModeInv, Running
    <2>7. CallInv'
      BY <1>1, <1>3, <1>4, <2>3, <2>4, <2>5 DEF CallInv
    <2>8. FaultShape'
      <3> SUFFICES ASSUME NEW c \in 1 .. Len(log) + 1
                   PROVE  log'[c] <=> IF test_mode = "ONE" THEN c - 1 = iteration
                                                           ELSE c - 1 >= iteration
        BY <1>1, <2>3, <2>4 DEF FaultShape
      <3>1. CASE c \in 1 .. Len(log)
        BY <1>1, <1>3, <2>3, <2>4, <3>1 DEF ShapeInv, FaultShape
      <3>2. CASE c = Len(log) + 1
        BY <1>3, <1>4, <2>3, <2>4, <2>5, <3>2
      <3> QED
        BY <1>3, <3>1, <3>2
    <2> QED
      BY <2>6, <2>7, <2>8 DEF ShapeInv
  <1>6. CASE ~FaultHit
    <2>1. log' = Append(log, FALSE)
      BY <1>6 DEF BodyFault, FaultInjected
    <2>2. FaultPassed
      BY <1>6 DEF BodyFault, FaultInjected
    <2>3. /\ Len(log') = Len(log) + 1
          /\ DOMAIN log' = 1 .. Len(log) + 1
          /\ \A k \in 1 .. Len(log) : log'[k] = log[k]
          /\ log'[Len(log) + 1] = FALSE
      BY <2>1, AppendIndex, AppendProperties DEF TypeOK
    <2>4. /\ fault_calls' = fault_calls + 1
          /\ iteration # NoIdx => fault_calls # iteration
      BY <1>2, <1>6, <2>2 DEF FaultHit, FaultPassed
    <2>5. iteration # NoIdx => IF test_mode = "ONE" THEN Len(log) # iteration
                                                   ELSE Len(log) < iteration
      BY <1>1, <1>2, <1>3, <1>4, <2>4 DEF ShapeInv, CallInv
    <2>6. ModeInv'
      BY <1>1, <1>2 DEF ShapeInv, ModeInv, Running
    <2>7. CallInv'
      BY <1>1, <1>2, <1>3, <1>4, <2>3, <2>4, <2>5 DEF ShapeInv, CallInv
    <2>8. FaultShape'
      <3> SUFFICES ASSUME NEW c \in 1 .. Len(log) + 1
                   PROVE  log'[c] <=> /\ iteration # NoIdx
                                      /\ IF test_mode = "ONE" THEN c - 1 = iteration
                                                              ELSE c - 1 >= iteration
        BY <1>1, <2>3 DEF FaultShape
      <3>1. CASE c \in 1 .. Len(log)
        BY <1>1, <1>3, <2>3, <3>1 DEF ShapeInv, FaultShape
      <3>2. CASE c = Len(log) + 1
        BY <1>3, <1>4, <2>3, <2>5, <3>2
      <3> QED
        BY <1>3, <3>1, <3>2
    <2> QED
      BY <2>6, <2>7, <2>8 DEF ShapeInv
  <1> QED
    BY <1>5, <1>6

\* In a test under fault checking, whatever ended its earlier runs, exactly
\* the calls the mode says fail.
THEOREM FaultShapeThm == Spec => []FaultShape
  <1>1. Init => ShapeInv
    BY DEF Init, ShapeInv, ModeInv, CallInv, FaultShape, Running
  <1>2. TypeOK /\ LoopInv /\ ShapeInv /\ [Next]_vars => ShapeInv'
    <2> SUFFICES ASSUME TypeOK, LoopInv, ShapeInv, [Next]_vars
                 PROVE  ShapeInv'
      OBVIOUS
    <2> USE DEF ShapeInv, ModeInv, CallInv, FaultShape, Running
    <2>1. CASE SkipTest
      BY <2>1 DEF SkipTest, Launch, LoopInv, KindInv
    <2>2. CASE FuzzRunTest
      BY <2>2 DEF FuzzRunTest, Launch, BeginRun
    <2>3. CASE FaultRunTest
      BY <2>3 DEF FaultRunTest, FaultArm, Launch, BeginRun, NoIdx
    <2>4. CASE RunAgain
      <3>1. /\ phase = "returned" /\ phase' = "body" /\ log' = <<>>
            /\ iteration' = iteration + 1 /\ iteration' \in Nat
            /\ loop = "fault" => fault_calls' = 0 /\ fault_checking' = fault_checking
            /\ UNCHANGED <<loop, fault_prev, test_mode, toggled>>
        BY <2>4 DEF RunAgain, FaultArm, BeginRun, TypeOK, NoIdx
      <3>2. Len(log') = 0 /\ DOMAIN log' = {}
        BY <3>1
      <3> QED
        BY <3>1, <3>2 DEF NoIdx
    <2>5. CASE BodyFault
      BY <2>5, ShapeInvBodyFault
    <2>6. CASE SymEqual \/ CatchBegin \/ ProgramAssertCaught
      BY <2>6 DEF SymEqual, CatchBegin, ProgramAssertCaught, Step, InBody
    <2>7. CASE BodyFaultSet
      BY <2>7 DEF BodyFaultSet
    <2>8. ASSUME NEW r, EndRun(r), InBody PROVE ShapeInv'
      BY <2>8 DEF EndRun, FaultFree, ModeAfterRun, InBody
    <2>9. CASE \/ Pass \/ Propagate \/ AssertFail \/ BareError
               \/ SymSyntax \/ SymUnequal
               \/ HookError \/ ProgramAssertUncaught \/ CatchEndUnfired
      BY <2>8, <2>9 DEF Pass, Propagate, AssertFail, BareError, SymSyntax, SymUnequal,
         HookError, ProgramAssertUncaught, CatchEndUnfired, JumpOut, Leave
    <2>10. CASE ProgramAssertLost \/ ReportCorrupt \/ AfterTest
      BY <2>10 DEF ProgramAssertLost, ReportCorrupt, Undefined, AfterTest
    <2>11. CASE MainFaultSet \/ SuiteBegin \/ SuiteEnd \/ SuiteFiltered \/ MainEnd
      BY <2>11 DEF MainFaultSet, SuiteBegin, SuiteEnd, SuiteFiltered, MainEnd, Between
    <2>12. CASE UNCHANGED vars
      BY <2>12 DEF vars
    <2> QED
      BY <2>1, <2>2, <2>3, <2>4, <2>5, <2>6, <2>7, <2>9, <2>10, <2>11, <2>12
         DEF Next, Body
  <1>3. ShapeInv => FaultShape
    BY DEF ShapeInv
  <1> QED
    BY <1>1, <1>2, <1>3, LoopInvariance, PTL DEF Spec
-----------------------------------------------------------------------------
(* Suites *)

\* The flag of the runner is the verdict of the one open suite.
SuiteInv == \/ indent_lvl = 0 /\ Len(bad) = 0
            \/ /\ indent_lvl = 1 /\ Len(bad) = 1
               /\ bad[1] = suite_failed
               /\ current_suite

\* If no suite is run inside another, a suite is counted as failed just when
\* a test run in it failed.
THEOREM SuiteVerdictThm ==
    ASSUME MaxNesting = 1
    PROVE  Spec => SuiteVerdict
  <1> DEFINE Claim ==
        indent_lvl' < indent_lvl => /\ suite_fails' > suite_fails <=> bad[Len(bad)]
                                    /\ suite_passes' > suite_passes <=> ~bad[Len(bad)]
  <1>1. Init => SuiteInv
    BY DEF Init, SuiteInv
  <1>2. TypeOK /\ SuiteInv /\ [Next]_vars => SuiteInv' /\ Claim
    <2> SUFFICES ASSUME TypeOK, SuiteInv, [Next]_vars
                 PROVE  SuiteInv' /\ Claim
      OBVIOUS
    <2>1. CASE UNCHANGED suiteVars
      BY <2>1 DEF SuiteInv, TypeOK
    <2>2. CASE AfterTest
      <3>1. UNCHANGED <<indent_lvl, current_suite>>
        BY <2>2 DEF AfterTest
      <3>2. CASE indent_lvl = 0
        BY <2>2, <3>1, <3>2 DEF AfterTest, SuiteInv
      <3>3. CASE indent_lvl = 1 /\ res \in {"FAIL", "ERROR"}
        <4>1. suite_failed' = TRUE /\ bad' = [bad EXCEPT ![Len(bad)] = TRUE]
          BY <2>2, <3>3 DEF AfterTest, SuiteInv, FailsSuite
        <4>2. Len(bad') = 1 /\ bad'[1] = TRUE
          BY <3>3, <4>1, ExceptSeq DEF SuiteInv, TypeOK
        <4> QED
          BY <3>1, <3>3, <4>1, <4>2 DEF SuiteInv
      <3>4. CASE indent_lvl = 1 /\ res \notin {"FAIL", "ERROR"}
        BY <2>2, <3>1, <3>4 DEF AfterTest, SuiteInv, FailsSuite
      <3> QED
        BY <3>2, <3>3, <3>4 DEF SuiteInv
    <2>3. CASE SuiteBegin
      <3>1. indent_lvl = 0 /\ indent_lvl' = 1 /\ Len(bad) = 0
        BY <2>3 DEF SuiteBegin, SuiteInv
      <3>2. Len(bad') = 1 /\ bad'[1] = FALSE
        BY <2>3, <3>1, AppendIndex DEF SuiteBegin, TypeOK
      <3>3. current_suite' = TRUE /\ suite_failed' = FALSE
        BY <2>3 DEF SuiteBegin
      <3>4. SuiteInv'
        BY <3>1, <3>2, <3>3 DEF SuiteInv
      <3> QED
        BY <3>1, <3>4
    <2>4. CASE SuiteFiltered
      BY <2>4 DEF SuiteFiltered, SuiteInv
    <2>5. CASE SuiteEnd
      <3>1. indent_lvl = 1 /\ indent_lvl' = 0 /\ Len(bad) = 1 /\ bad[1] = suite_failed
        BY <2>5 DEF SuiteEnd, SuiteInv
      <3>2. Len(bad') = 0
        BY <2>5, <3>1, SubSeqProperties DEF SuiteEnd, TypeOK
      <3>3. Claim
        BY <2>5, <3>1 DEF SuiteEnd, TypeOK
      <3> QED
        BY <3>1, <3>2, <3>3 DEF SuiteInv
    <2>6. CASE SkipTest \/ FuzzRunTest \/ FaultRunTest \/ RunAgain \/ ReportCorrupt
      BY <2>1, <2>6 DEF SkipTest, FuzzRunTest, FaultRunTest, RunAgain, BeginRun,
         ReportCorrupt, Undefined
    <2>7. CASE Body
      BY <2>1, <2>7 DEF Body, BodyFault, BodyFaultSet, Pass, Propagate, AssertFail, BareError,
         SymSyntax, SymEqual, SymUnequal, HookError, CatchBegin, CatchEndUnfired,
         ProgramAssertCaught, ProgramAssertLost, ProgramAssertUncaught, JumpOut, Leave, Step, EndRun, Undefined
    <2>8. CASE MainFaultSet \/ MainEnd \/ UNCHANGED vars
      BY <2>1, <2>8 DEF MainFaultSet, MainEnd, vars
    <2> QED
      BY <2>2, <2>3, <2>4, <2>5, <2>6, <2>7, <2>8 DEF Next
  <1>3. SuiteVerdict <=> [][Claim]_vars
    BY DEF SuiteVerdict
  <1> HIDE DEF Claim
  <1> QED
    BY <1>1, <1>2, <1>3, TypeCorrect, PTL DEF Spec
=============================================================================
