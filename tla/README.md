# A TLA+ model of mptest

mptest is a unit-test library for C89 programs: the test program calls macros
that run tests and suites, the code under test calls macros that replace
`malloc`, `free`, `realloc` and `assert`, and the library decides what passed,
what leaked and what happened when an operation was made to fail.  It has no
threads.  What makes it hard is that control leaves a test in several ways
(return, `longjmp` from an assertion, from a bad `free()`, from a lack of
memory), that one test is run many times (once per injected fault, once per
fuzz iteration), and that all of it shares one global state that is reset only
in part between runs.

## Inventory

| Part | Source | State | Operations |
|---|---|---|---|
| Test runner | `mptest_state.c` | counters of tests, suites and assertions; `current_suite`, `suite_failed`; `fail_reason` and its data | `run_test` (before, do, after), `run_suite` (before, after), `assert_pass/fail`, `catch_assert_begin/end/fail`, `report` |
| Fault injection | `mptest_state.c` | `fault_checking`, `fault_calls`, `fault_fail_call_idx`, `fault_failed` | `fault`, `fault_set`, `fault_reset`, `fault_run_test` |
| Non-local exits | `mptest_longjmp.c` | `checking`, `reason`, two jump buffers | `longjmp_exec` |
| Leak checker | `mptest_leakcheck.c` | list of block records, a header before every block, counts, mode, `fall_through`, verdict | `hook_malloc/free/realloc`, `set`, `reset`, `before_test`, `after_test`, `report_test`, `malloc_dump` |
| Fuzzing | `mptest_fuzz.c` | generator state, pending iterations, failing iteration and seed | `rand`, `next_test`, `run_test`, `report_test` |
| S-expressions | `mptest_sym.c`, macros in `mptest_api.h` | records in a vector, the position and the stack of the parser, builders, walkers, two trees in the failure data | parse, dump, equals, `build_*`, `walk_*`, `check_*`, `make_*` |
| Command line | `mptest_aparse.c` | lists of test and suite names, three switches | `init`, `init_argv`, the handlers, `match_*_name`, `destroy` |
| Argument library | `_cpack/impl.c`, `_cpack/internal.h`, `_cpack/api.h` | the table of arguments, the position in `argv`, `out_buf` | `add_*`, `arg_*`, `parse`, the messages, `state_out`, `state_flush` |
| Strings, views, vectors | `_cpack/impl.c`, `_cpack/internal.h` | size, capacity, data | init, push, insert, cat, reserve, clear, move, copy, compare, destroy |
| Timing | `mptest_time.c` | start times | start, end |

The parts meet in the test runner.  `run_test` chooses the fault loop or the
fuzz loop, each loop calls `do_run_test` several times, and `do_run_test` calls
the leak checker before and after the body.  The hooks of the leak checker ask
the fault injector whether to fail and leave the test through
`longjmp_exec`; assertions of the program under test leave it the same way,
to one of two jump buffers.  A test compares s-expressions through
`ASSERT_SYMEQ`, which leaves its two trees in the runner's failure data; the
trees and the parser keep their text in the strings and their records in the
vectors.  Before any test runs, the command line sets the runner's modes and
chooses what will run.

### What is hard, and what makes each part correct

* **Test runner.**  One `fail_reason`, one union of failure data, one
  `current_suite`: none is reset when a test begins.  It is correct when every
  test is counted once, under the result of its last run, a report reads the
  data its own reason says is there, and a suite fails exactly when a test in
  it failed.  A body may return any `int`; one that names no result is neither
  a pass nor a failure to the code, and the model keeps it apart.
* **Fault injection.**  The fault loop learns in a fault-free run how many
  calls there are and then makes one run per call.  It is correct when no
  fault point is left out, and in each run exactly the calls the mode says
  fail, also when the body switches the mode or the run before was left by a
  jump.
* **Non-local exits.**  Whether an assertion is expected is one variable that
  only two macros write.  It is correct when no jump goes to a frame that has
  returned.
* **Leak checker.**  Three hooks keep a list of records beside libc's heap,
  with a header in front of each block pointing to its record; each hook has
  five to eight exits, among them a refusal by libc half-way.  It is correct
  when records and heap agree after every exit, the verdict on leaks is exact,
  bad pointers are reported and good ones never are.
* **Fuzzing.**  `FUZZ_TEST` leaves a request that `run_test` picks up later, or
  not at all if the test is filtered out.  It is correct when each test runs as
  often as its own macro asked, and the reported seed replays the failure.
* **S-expressions.**  The parser is loops inside a loop that hand characters
  back, reads signed characters, and can be refused memory at every token.  It
  is correct when it accepts the language and nothing else, builds what the
  text says, stops at the end of the text and ends; the checks are correct when
  the verdict is that of the trees and every tree is given back.  (Two of the
  ways out do not give all back; see below.)
* **Command line.**  Correct when what the user means is what the handlers are
  called with, the lists of names are what the arguments say and are released
  once, and what then runs is what they say.
* **Containers.**  Correct when an operation has its whole effect or, when
  memory is refused, none, and every block has one owner.

The hazards, each at its line, are in `PROJECT.json`; the properties below are
named there beside the hazard they cover.

## The modules

| Module | What it is |
|---|---|
| `Fault` | the fault injector: its three variables and operations, extended by both components that use it |
| `HeapLedger` | abstract: what a leak checker promises (which blocks are outstanding, what the verdict at the end of a test is) |
| `LeakCheck` | the hooks and the life of the records in `mptest_leakcheck.c`, over a model of libc's heap |
| `LeakReport` | what the leak checker prints, as functions of the state of `LeakCheck` |
| `Tally` | abstract: what a runner's counters promise |
| `Runner` | `mptest_state.c`, the loops of `mptest_fuzz.c`, `mptest_longjmp.c`, and the API macros as the steps of a test body |
| `FuzzRand` | the generator of fuzz tests |
| `Workload`, `Lists` | what programs do with containers; abstract: what containers promise |
| `CStrings`, `Str`, `StrUser` | C strings; the operations on strings and views; a program that uses them |
| `Vec`, `VecUser` | the capacity of vectors; the operations and a program that uses them |
| `Containers` | a program with the one kind or with the other |
| `SymTree` | the records of a tree: adding, comparing, walking, dumping |
| `SymParse` | the parser, over `SymTree`, `Str` and `Vec` |
| `SymGrammar` | reference: the language of s-expressions and UTF-8, without the parser's state |
| `OrderedTree` | abstract: what builders promise |
| `Sym` | `ASSERT_SYMEQ` and `SYM`, which compose parser, builders, comparison and walkers |
| `ArgTable` | what the library is given: elements of argv, and tables of arguments |
| `ArgParse` | the argument library: the parser, its messages, its output buffer |
| `ArgUse` | reference: what a user means, and how it is written |
| `CommandLine` | `mptest_aparse.c` over `ArgParse`: sessions of a test program |
| `MCLeakCheck`, `MCRunner`, `MCContainers`, `MCSym`, `MCCommandLine` | the values of the constants for TLC |
| `LeakCheckProofs` | the inductive invariant of `LeakCheck` and the theorems that follow from it; `LeakCheck` implements `HeapLedger`; the verdict on leaks; the chain of reallocations; the counters of calls and of fault points |
| `LeakReportProofs` | what is printed is true |
| `RunnerProofs` | the theorems about `Runner` |
| `ContainersProofs` | the theorems about `Containers`, and about comparison |
| `SymProofs` | the theorems about `Sym` but one |
| `SymGrammarProofs` | that the parser follows `SymGrammar`, the other one |
| `CommandLineProofs` | the theorems about `CommandLine` and the output of `ArgParse` |

In a module with mutants, an operator whose comment begins with "Mutant" is a
plausible mistake in the definition below it: it shows that the property named
beside it in `PROJECT.json` would find it.

### LeakCheck and the code

A block record of the C list is an element of the sequence `blocks`, in list
order (`first_block` is its head, `top_block` its end); a pointer to a record is
its index, and a pointer to the memory of a block is a member of `Addr`.
`heap[a]` is what libc knows of an address (free, handed to a hook, handed to
the program directly), `header[a]` what stands in the bytes before it: nothing
(`None`), a pointer to a record, or a pointer to a record that was destroyed
(`Gone`).  It survives `free`, because memory does, until libc hands out the
address again; where the code reads a header that C leaves undefined, every
outcome the reading can have is an alternative (`Outcomes`).  `realloc` may
move a block or keep its place.  Libc may refuse memory at the places in
`NoMemSites`.

| Action | Code |
|---|---|
| `HookMalloc`, `HookFree`, `HookRealloc` | the three hooks: passed through, audited, refused; a disjunct for each exit (`MallocNoMemBase`, `MallocNoMemBlock`: the two refusals of `hook_malloc`, the second after libc has given the block) |
| `HookFaulted`, `UserFault` | a call that the injector fails; `mptest_fault` called by the program |
| `BeforeTest`, `AfterTest` | `leakcheck_before_test` (the reset) and `leakcheck_after_test` |
| `LeakcheckSet`, `FaultCheckingSet` | the macros that switch the modes, allowed at any time |
| `MainEnd` | `state_destroy` |

With `LegalUse` the program passes to `free` and `realloc` only what the hooks
gave it in this test, in the mode they gave it; without, any pointer.  The
verdict on leaks is a walk over the records (`HasLeaks`); `total_allocations`,
which the hooks count beside them, is read by nothing that decides.

### Runner and the code

A behaviour is a sequence of tests and suites chosen freely.  A test body is at
most `MaxSteps` uses of the API macros, chosen anew in every run: a passing or
failing `ASSERT`, `ASSERT_ASSERT` around further steps, `ASSERT_SYMEQ` with its
four ends, a call of `mptest_fault`, a change of the fault mode, an error in a
hook, an assertion of the program under test, a `PROPAGATE` of any value.
`mptest__result` is an `int`: `OTHER` stands for all values that name no result.
The leak checker is present as its verdict at the end of the run.  `Uses` are
the uses that a program may be without (`LEAK`, `BARE_ERROR`, `LEAVE_CATCH`,
`PROPAGATE`).

| Action | Code |
|---|---|
| `SkipTest`, `FuzzRunTest`, `FaultRunTest` | `RUN_TEST` or `FUZZ_TEST`, then `before_test` up to the first run of the body |
| the actions of `Body` | one API macro each (`Propagate` is `PROPAGATE`); those that end the body include the rest of `do_run_test` and what the loop saves of it |
| `RunAgain` | the next iteration of either loop |
| `AfterTest`, `ReportCorrupt` | the end of the loop and `after_test`, which has a branch for each named result and none for another value (`Counted`); the second when the report would read data that is not there |
| `SuiteBegin`, `SuiteEnd`, `SuiteFiltered` | `run_suite` |
| `MainFaultSet`, `MainEnd` | between tests |

The C locals `i`, `iters`/`max_iter` and `fault_prev` of the loops are the
variables `iteration`, `iterations`, `fault_prev`; `loop` says which loop owns
them.  Variables marked *history* in the module record what happened, for the
properties; no guard reads them.

### LeakReport and the code

`report_test` and `malloc_dump` change nothing, so they are operators: the
early return (`Reports`), the long chain of reasons (`Accusation`: which kinds
of lines it prints), the records listed as leaks (`Listed`), and what is said
of each (`Origin`, `From`); `DumpLine` is a line of the dump.  Both properties
evaluate them at the end of every test, however it ended.  `ReportListsLeaks`
compares the pointers that are listed with the heap; `ReportCountsLeaks` asks only
that there is one line for each block in use, which remains true where libc has
refused the record of a moved block: that line shows the pointer the block had
before it was moved.

### Containers and the code

A string is its fields: `short` (the low bit of `_size_short`), size, capacity,
block, and the cells up to the terminator, since nothing behind it is relied
on; growing uncovers cells nobody has written (`Junk`).  `Room` and `NewAlloc`
are the arithmetic of `mn__str_grow`, the clearing of one bit included.  Copying
loops are what they leave behind, in the order in which they read and write
(`StrInsert`).  A vector is its elements, its capacity and its block.  Every
operation that may allocate has the alternative in which libc refuses, and both
users take any operation on any live container in any order.  The refinement
maps a container to its characters or elements: capacities, forms and blocks
must not show.

### S-expressions and the code

A tree is its storage, `t[ref + 1]` the record `ref` of the C array.  The
operations on it are operators (`SymNew`, `SymEquals`, `PeekNext`, `HasMore`,
`Dump`), with recursion over the links written as recursive functions.

`SymParse` is `mptest__sym_parse_do`: `mode` is the loop that is reading, a step
reads one character, `pos` is `str_pos` and may be one past the end.  A byte
above 127 is negative (`Signed`).  Emitting a token is one step that includes
the string's and the tree's growth, with an alternative for each refusal (`Refused`:
that of the record after the copy of the string was made leaves the copy to
nobody, which `stray` records); an escape is read digit by digit.  `HexLimit` and `DecLimit` stand
for the literals 8 and 10.

| Action of `Sym` | Code |
|---|---|
| `CheckAlloc`, `CheckInit`, `SecondRefused` | `sym_check_init` up to the parser: the first sym, the second and what the parser is given, the second refused |
| `MakeInit`, `NoSym` | `sym_make_init` up to the parser; the first sym of either refused |
| `Parsing` | a step of the parser |
| `ParseFailed`, `CheckParsed`, `MakeParsed` | what follows the parser in both |
| `BuildExpr`, `BuildAtom`, `BuildType`, `ConversionFails` | the program's conversion: `build_*` on any handle it holds |
| `CheckWild`, `CheckEqual`, `CheckUnequal`, `ReportUnequal` | `sym_check`, `sym_check_destroy`, the end of the trees in the report |
| `WalkNext`, `WalkInto`, `MakeDestroy`, `FromSymFails` | `walk_*` and the ends of `SYM` |

`owned` are the trees that are allocated and not freed.  `SymsReleased` counts
them, and `stray` beside them.

### Command line and the code

An element of `argv` is its dashes and a sequence of symbols; a message is a
sequence of the pieces it is put together from, so that `out_buf` may overflow
between any two.  `ArgParse` is the parser: `mode` is the loop it is in, one
step takes an element, a letter of a cluster or a value, and `Invoke` calls the
handler of a row, which may end the parse.  `Out` and `Flush` pass a message on,
with an `out_cb` that may fail.

`CommandLine` gives the parser two tables: that of mptest, whose construction
may be cut short by a refused allocation (`SetUp`; the code ignores the error),
and one with all kinds of arguments, as another client of the library may have.
The nodes of the lists of names have addresses that are never used twice, so
that a dangling head shows.  A program may run two sessions, and finds in the
second what the first has left in static memory.

### FuzzRand and the code

`FuzzRand(s, width)` is the recurrence with a product that wraps at `width`,
2^32 or 2^64: `unsigned long` has both.  `RandParam` is `RAND_PARAM`.  It is
proved about and not run: TLC's integers have 32 bits.

## What TLC checks

| Run | Question | Bounds |
|---|---|---|
| `leakcheck_misuse` | do records, headers and heap agree whatever pointers the program passes; is the verdict exact and what is printed true; is `HeapLedger` implemented | 2 addresses, 3 records, 4 fault calls |
| `leakcheck_legal` | is a correct program never crashed or accused | 3 addresses (symmetric), 3 records, 4 fault calls |
| `leakcheck_oom` | has a report one line for each block in use even when libc refuses memory anywhere | 2 addresses, 3 records, 4 fault calls |
| `leakcheck_realloc_oom` | *violated*: a record claims a block libc has taken back | 2 addresses |
| `runner_any` | whatever bodies do and return: counting, fault points, fuzz iterations, what a report says of its iteration, suites, termination | 2 tests, 1 suite, 2 steps a run, 2 fuzz iterations |
| `runner_leave_catch` | *violated*: no jump into a dead frame | |
| `runner_stale_report` | *violated*: a report reads the data its reason says is there | 2 tests, 1 step a run |
| `containers` | are strings and vectors lists, with one owner for each block, whatever is refused; is comparison an order | 2 containers, sizes up to 4, short form up to 1 |
| `sym` | does the parser accept the language and build the text's tree; are verdicts, walks and builders right; are the syms given back; does parsing end | every text of up to 4 characters over 10, 27 longer ones; 4 nodes built, 3 steps of a walk |
| `sym_no_memory` | *violated*: running out of memory in the parser is reported as such | 2 texts |
| `arguments` | is what the user means, in any way of writing it but two, what the handlers get and what runs; are messages whole | up to 2 uses in any way, 3 letters, 2 stray elements; a buffer of 3 pieces; 2 sessions |
| `arguments_table` | *violated*: every way the validity table allows is parsed | 1 use |

**Why the bounds are enough.**  Two addresses are the least with which a block
can move, an address be reused while an older record still names it, and a
header be read that belongs to another block; three records are the least for
a chain of two reallocations.  In the runner, what leaks from one test to
another needs two tests, and a test outside any suite beside one in it;
a fault loop with two injected runs needs two fault calls, and so does a body
that makes more calls in one run than in another or changes the mode between
them.  A body of three steps (a catch, a change of the mode and a fault in one
run) is beyond this bound.  The theorems hold for every value of these bounds
except where a later section says otherwise.

With a short form of one character and sizes up to four a string goes through
both forms, and with two strings a move, a copy and an append of a string to
itself meet every form; `Chunk = 2` makes the cleared bit matter at both of its
values.  Its block is large enough for the rest, so that a long string is never
given a larger block here (`realloc` of its block): the theorems cover that.  Four characters over the alphabet
`( ) blank 0 x 7 a " '` and the byte 255 end every loop of the parser in every
way it can end, the longer texts nest three deep and reach each boundary of
UTF-8 up to three bytes (a `\u` escape has four digits, so the four-byte form
cannot be reached).  With `HexLimit = DecLimit = 3` both limits are met and
exceeded.  Two uses are enough for a value to be mistaken for the next option or
for a letter of a cluster; a message has more pieces than the buffer, so it
overflows at every place.

`CHECK_DEADLOCK FALSE` is given throughout: a program ends, the bounds stop it,
and after undefined behaviour nothing is said.

**Fairness.**  There is one thread, and it takes its next step as long as there
is one.  `TestEnds` therefore assumes weak fairness of the runner's whole
next-state relation; that a body ends by itself is the assumption `MaxSteps`
makes.  What it then shows is about the loops: their bound is fixed before they
start, whatever the body does to the state they share.  `ParseEnds` assumes weak
fairness of the steps inside the parser only (`InParser`), which is one call the
macro waits for; nothing is assumed of the program around it.

## What the violated runs show

The properties of these five are claims made by comments of the source
(quoted in `PROJECT.json`); the traces are these.

* `leakcheck_realloc_oom`: `realloc` moves a block, the allocation of its new
  record fails, the jump leaves the old record marked as freeable.  The reset
  before the next run gives its header to `free` a second time.
* `runner_leave_catch`: a body returns from inside `ASSERT_ASSERT`; `checking`
  stays set, and the next accidental assertion jumps to a frame that is gone.
* `runner_stale_report`: a test fails at an unequal `ASSERT_SYMEQ`; its report
  destroys both syms and leaves `fail_reason` as it is.  The next test leaks,
  which sets no reason, and is reported as an inequality of the same two syms.
* `sym_no_memory`: a growth inside the parser is refused and returns -1, which is
  also `MPTEST__SYM_PARSE_ERROR`; the failure is reported as a syntax error whose
  message is `NULL`, and the branch "no mem" is never taken.
* `arguments_table`: an option with `0_OR_MORE` or `1_OR_MORE` values counts them
  against its negative `nargs`, so it takes all the elements that follow, options
  among them, and then reports that an argument is missing.

### Behaviours no property claims

The models also contain the following, because the code does.  No comment or
test promises otherwise, or the fault is of the same kind as one above, so the
properties are stated around them.

* `realloc(NULL)` under audit reads the header before the pointer is compared
  with `NULL` (`LeakCheck`, a crash).
* A plain `free()` of an audited pointer, after a test has switched the audit
  off, is undefined (`LeakCheck`, a crash); legal programs do not switch.
* A test whose body returns an `int` that names no result (`PROPAGATE` passes any
  on) is counted nowhere, not even in the total, and fails no suite; its loop
  ends as with a failure.  `Tally` says so, and so do the properties.
* `fault_fail_call_idx` outlives the fault loop, so a later failure is printed
  with the last fault iteration.
* A suite inside a suite clears `current_suite` and `suite_failed`; `SuiteVerdict`
  is about suites that are not nested, and `runner_any` does not nest them.
* A test left by `longjmp` with memory outstanding is counted as `FAIL`, not
  `ERROR`.
* In `mptest_sym_build_str` the copy of a string is lost when the record it was
  made for is refused (`stray`).  In the parser that happens only as memory
  runs out, which ends the macro; elsewhere it is the program's conversion, and
  a build that is refused ends it in the model: a program that goes on after one
  is not modelled.
* A conversion that fails inside `ASSERT_SYMEQ` or `SYM` leaves the trees
  allocated, and `SYM` takes a lack of memory there for a pass.
* `sym_check` compares the first expression of each tree and ignores those
  behind it; a tree without records has no first one (`CheckWild`).
* At the top level a walker returns the first record forever, and `hasmore` never
  becomes 0 there: `WalkVisitsKids` is about walkers inside an expression.
* `-OP` for an option with `0_OR_1` or `0_OR_MORE` values: the validity table
  marks it, but it is spelled like `-Os`, and `P` is taken for the value of `O`.
* The eighth hexadecimal and the tenth decimal digit are refused.  A character
  literal above 127 is returned as if it were an error code, with no reason.  A
  byte 255 ends the text.  `SymGrammar` has these three as the code has them, so
  `TreeFollowsText` cannot tell whether they are meant.
* Usage of an option with one or more values has a bracket that is not opened.
* All elements that are no options go to the first positional argument: the
  macro that should advance looks at the list from its beginning.
* The head of the list of suites is not initialised and not cleared at the end:
  a second session of one program follows a freed node when the first was given
  `--suite`.  When `aparse_init` is refused its memory, parsing arguments or
  ending the session reads a parser that is not there.
* A program that stops at its arguments (`--help`, an error) destroys nothing.

## What is proved

TLAPS checks the following for every value of the constants.

**LeakCheckProofs.**  The invariant is `IInv == Shape /\ Links`: `Shape` is type
correctness, `Links` says that a freeable record owns a hooked block whose
header leads back to it, that every hooked block has such a record, and that a
header never leads to a record of another address.  `FreeableOwnsHeap`
alone is not inductive: `free` finds its record through the header, so one must
know that *every* hooked block is tracked and that headers lead back.  From it
follow `TypeOK`, `LedgerAgrees`, `DoubleFreeCaught`, `AllocationCount` (which no
run checks: nothing reads the counter), and for legal programs `NeverCrashes` and `NeverAccused`.  All assume that libc does not
refuse the record of a moved block (`"realloc_block" \notin NoMemSites`):
without it `FreeableOwnsHeap` is false, as `leakcheck_realloc_oom` shows, and
the invariant with it.

By `IInv` the records marked freeable name exactly the hooked blocks of libc
(`LedgerIsHooked`), so a step need only be followed on the heap.  `HookEffect` lists what a call of a hook can do to it: nothing, end
the body leaving heap and records alone, crash, or add, take or move one block.
With `Unjudged` (no verdict of a leak while a body runs) this gives
`ImplementsLedger` and `LeakVerdict`, under the same assumption on libc: where the
record of a moved block is refused, the call that ends the body *has* changed
the heap.  Where that of a new block is, `hook_malloc` has given it back before it
jumps (`BlockReturned`).

`ReallocChain` is inductive beside `IInv`, which it needs to know that the record
a hook marks is one that may still be freed.
`InjectionCoversCalls` needs no assumption: every step counts a call with both
counters, with the injector's alone, or resets them together.

**LeakReportProofs.**  `ReportListsLeaksThm` rests on `IInv` (the freeable records
name exactly the hooked blocks, each once), on the chain (a moved block leads to
a record that is not listed) and on one more invariant, `Made`: no record ever loses the flag that tells how its block was
allocated, so no leak is listed without an origin.  The assumption on libc is
the same.

**FuzzRand.**  Two facts for every state of the generator: the sequence does
not depend on the width of `unsigned long`, and its lowest bit alternates (`RAND_PARAM(2)` makes its two choices in turn).  TLC does
not run this module: its integers have 32 bits.

**RunnerProofs.**
* `TypeCorrect`.
* `ImplementsTallyThm`: the refinement of `Tally`, step by step, for every value a
  body can return.
* `FaultRunsMadeThm`, `FuzzRunsMadeThm`: by `LoopInv`, which says of either
  loop that the runs made so far are the ones its variable counts, and of the
  fault-free run that the counter equals the calls made.  The
  latter holds although the body may enable fault checking there, since no
  call has the index -1.
* `FaultShapeThm`: by `ShapeInv`, which ties the counter to the length of the
  log (in mode ONE always, in mode SET up to the index, where it stops) and
  the current mode to the one the test started in.
* `FuzzReportOwnThm`: the flag is down whenever a run begins.
* `AccidentalAssertCaughtThm` assumes that no body leaves the statement of an
  `ASSERT_ASSERT`, which `runner_leave_catch` drops; `SuiteVerdictThm` that suites
  are not nested.

**ContainersProofs.**  `StrInv` and `VecInv` say of every live container that its
capacity fits its form and its contents (`WellFormed`, `VecFits`: what the CHECK
macros assert), and of the heap that each block has one owner.  Neither half is
inductive alone: an operation trusts the form of its operand to know whether
there is a block to give back, and a growth moves the ownership with the form.
Ownership is stated with quantifiers instead of the set of long strings
(`StrOwners`), and the heap is finite, so that a new block is a new number.
From it follow `ContainersTypeOKThm` and `OneOwnerThm`; with one lemma per operation
that says what it does to the text (for the copying loops, what they leave) it
gives the refinements `StrImplementsListsThm` and `VecImplementsListsThm`, for any
containers and literals.  `CmpIsOrderThm` needs no invariant but `StrInv`: two views
that differ and are equally long have a least index at which they differ, and
that index decides.  The assumptions are what a workload is: its literals are
sequences of integers no longer than the bound `MaxSize`.

**SymProofs.**  The invariant is
`SymInv == ReaderInv /\ ParserTreeInv /\ UserTreeInv /\ WalkerInv /\ OwnerInv`:
the position is inside the text or one past it, and a mode that still reads is
never past it; the links of every storage lead forward to records that exist;
the stack, the builders and the walker refer to records of their own tree; and
which trees are allocated depends on the phase alone.  `NeverReadsPastThm`,
`SymsReleasedThm` and `SymTypeOKThm` follow, the second with `StrayInv` (a string is
lost only where memory ran out in the parser).  Since links lead forward, the
recursive functions over them (`Siblings`) satisfy their equations: a
function of that kind exists, and a set of records that holds one whenever it
holds the one behind it holds them all (`FromTheLast`).  On this rest
`WalkVisitsKidsThm` (`SeenInv`: what the walker returned, and the siblings from where
it stands, are the children) and `BuildersImplementTreeThm`, whose invariant
`BuildersInv` says that the last child each builder remembers is the last one
there is, and that no two builders are for one expression: without the latter
one builder would add behind a child that another has followed.
`CheckVerdictThm` compares two descriptions of the same trees.  `SymEquals` follows
the links of both trees at once, as the code does; `Dump` writes a tree down as
tokens and brackets.  A dump can be read: where a list of records ends in a
sequence of symbols, and where each of them does, can be seen from the symbols
(`EndsAlike`, by induction from the last record).  So that two lists have
the same dump solves the equation of `SymEquals` (`SameListsSolve`), and it is the
only solution (`SolvesOnce`).  This needs that an atom has no children, since
neither the code's comparison nor the dump looks below one and `SymEquals`, which
treats all records alike, does: `VerdictInv` keeps it, by keeping every builder
and every place on the parser's stack inside an expression.  `EscapeIsUtf8Thm` is
about a text that is one `\u` escape in quotes.  `EscapeInv` follows the parser
through it, from the quote over each of the four digits to the string in the
tree, with the number as far as it has been read; `Utf8Decodes` shows
that `SymGrammar!Decode`, the reference, gives back every number below 65536 from the
one to three bytes the parser makes of it.

The assumptions (`TextAssumption`, `TokenAssumption`) say that texts are bytes and
that a program builds strings and numbers, and `LimitAssumption` that the digits
which make a literal too long are at least one (hex) and two (decimal).

**SymGrammarProofs.**  `TreeFollowsTextThm` is about all texts without escapes: the
parser accepts those of the language and no others, unless memory runs out, and
its tree holds the tokens of the text.  `SymGrammar!TokensFrom` gives the tokens from each place of the text
on; `FollowInv` (which TLC has checked on the instance of the run `sym`) says that while
the parser reads there are tokens `P` and a place `i` with `Agrees`: the tokens of the
text are `P` and those from `i` on, the piece that is being read began at `i` and
what the parser holds of it is what has been read (`Begun`, one case for each loop), no
bracket of `P` closes what was not opened (`Sound`), and the dump of the tree is `P`
with a closing bracket for each expression on the stack.  The last part needs that
the open expressions are a path (`Nested`): each is the last child of the one
before, and the first is the last record that is nobody's child.  So a record that
is added stands, in the dump, right before the brackets of what is open
(`TreeGrows`, by induction from the innermost open expression out).  `WordPiece`,
`StringPiece` and `CharPiece` say what the grammar makes of a piece, in terms of the
characters in it; where the parser gives up, before the piece has ended or one
character late, the grammar finds it bad as well (`BadFollows`, `WordTokenIs`).

**CommandLineProofs.**  `CursorInv` are the cursors of the parser, for any table and
any arguments.  `OutputInv` is the way of a message: what `out_cb` was given, what
waits in the buffer and what is still to be written, put together, are the
message, until `out_cb` fails; so `MessageWholeThm`, for a buffer of any size.  The
rest is about the first session.  The nodes stand in two chains: `Parts` gives
each node its list (`part`) and says that a node leads to the next node of its
list, that the head is the first and the tail the last.  This is what a handler
relies on that reads only the tail, and it makes the recursion of `Reached` the set of
the nodes of a list.  `HeardInv` ties both lists and the switches to the calls of
handlers so far; `SessionFollowsArgumentsThm` and `CommandLineTypeOKThm` follow for any
number of arguments and names.  `ClientAssumption` says that the tables are
tables and that argument lists are elements with at most two dashes.

`ArgumentsHonouredThm` relates the parser to `ArgUse`.  `Written` is defined from the
last use back, since a joined letter moves into the element of the use after it;
so the proof has two sequences, `from` (the elements written for the uses from the
k-th on) and `upto` (the calls meant by the first k).  `Stands` says how a use stands
at the head of `from[k]`, in each of the six ways of writing one (`Reads`); the two
ways that the parser does not keep (`Unkept`) are left out.  The
invariant `HonourInv` says, while what a user meant is parsed, where the parser is:
between two uses (`AtArgs`: what is left of argv is some `from[k]`, and the calls so
far are the `upto` before it), inside a cluster (`AtLetters`), among the values of an
option with several (`AtValues`), or at the end (`Ended`).  One lemma for each way
shows that the parser reads it back (`AloneMet` to `ManyMet`); the row it finds is the
one meant because the rows are apart.  The other half, that no positional is left
out of any arguments that parse, is `TakenInv`: a handler was called with every
positional that was passed.  `MeaningAssumption` says that the rows of the other
client's table can be told apart (`Apart`: the parser takes the first row that fits),
that this table is not an incomplete one of mptest, and that the uses are uses of
their table.  That mptest's own table is `Apart` is proved (`MptestApart`), and TLC
evaluates the assumption.

**Only model-checked.**
* `TestEnds` and `ParseEnds`: liveness is out of the prover's reach.
* `ReportCountsLeaks`, which is about a libc that refuses memory anywhere: where it
  refuses the record of a moved block the invariant of the theorems is false.

The theorems of the library about induction over data cannot be instantiated here.
Where a recursive function is reasoned about (as `Dump`, `TokensFrom` and `Siblings` are)
the induction is made by hand: over the least counterexample among the natural
numbers.

## Not modelled

* The wording and layout of what is printed, positions in files, sizes and
  addresses in reports; `LeakReport` and `ArgParse` model which lines and pieces
  are printed.  A character above 127 in a dump is printed with the sign bits in
  front; colours and line breaks of the dump are left out.
* Times, and the count of assertions.
* The width of sizes and of `int`: numbers of an s-expression that overflow, and
  `fault_calls` after 2^31 calls.
* The `cat` of vectors, which cannot be compiled where it is used; subcommands of
  the argument library, whose commands cannot be added (that function is under
  `#if 0`); `required`, which nothing sets.
* `_cpack/mptest.h` is generated from the other files.  Builds without longjmp do
  not link, and builds without the other parts are subsets of the one modelled.

## Plan

1. Done: `Fault`, `LeakCheck` with `HeapLedger`, `Runner` with `Tally`, and
   their proofs.
2. Done: the containers with `Lists`; the s-expressions with `OrderedTree` and
   `SymGrammar`; the argument library and the command line with `ArgUse`; the
   leak report and the generator with their proofs.
3. Done: the proofs about containers, s-expressions and the command line.
   Every invariant a passing run checks has a theorem.
4. Composition: `Runner` with the real `LeakCheck` in the place of its verdict,
   so that misuse, jumps, resets between runs and the fault loop meet, and the
   invariants of both parts carried over to it.
