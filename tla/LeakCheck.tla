----------------------------- MODULE LeakCheck -----------------------------
(***************************************************************************)
(* The leak checker (mptest_leakcheck.c) with the fault injection it calls *)
(* (mptest__fault).  The hooks replace malloc, free and realloc in the     *)
(* program under test.  A hooked block is one libc block holding a header  *)
(* (guard bytes and a pointer to a block record) before the user's memory; *)
(* the records form a list that only a reset empties.                      *)
(*                                                                         *)
(* A user pointer is named by the base address of its libc block.  The     *)
(* list of records is the sequence `blocks`; a pointer to a record is its  *)
(* index, 0 for NULL.  The libc heap is external to the repository: heap   *)
(* says what each address holds, header what a header read there contains, *)
(* also after the block was given back to libc.                            *)
(***************************************************************************)
EXTENDS Fault, Sequences, FiniteSets

CONSTANTS Addr,          \* base addresses libc can hand out
          NULL,
          MaxBlocks,     \* bound: records made between two resets
          MaxFaultCalls, \* bound: calls mptest__fault counts
          NoMemSites,    \* the libc calls that may return NULL
          LegalUse       \* the program only makes calls it may make

AllocSites == {"malloc_base", "malloc_block", "realloc_base", "realloc_block"}

ASSUME NullAssumption == NULL \notin Addr
ASSUME BoundAssumption == MaxBlocks \in Nat /\ MaxFaultCalls \in Nat
ASSUME SiteAssumption == NoMemSites \subseteq AllocSites
ASSUME UseAssumption == LegalUse \in BOOLEAN

VARIABLES phase,               \* where control is, see Phases
          test_leak_checking,
          fall_through,        \* set by the command line, before any test
          blocks,              \* the list from first_block to top_block
          total_allocations,
          total_calls,
          fail_reason,
          heap,                \* external: the state of each libc block
          header               \* external: the record a header points to

recordVars == <<blocks, total_allocations, total_calls>>
heapVars == <<heap, header>>
modeVars == <<test_leak_checking, fall_through>>
vars == <<phase, modeVars, recordVars, fail_reason, heapVars, faultVars>>

\* outside: no test body is running; jumped: longjmp left the test body;
\* crashed: undefined behaviour (a wild read, libc given a bad pointer).
Phases == {"outside", "test", "jumped", "over", "crashed"}

Flags == {"INITIAL", "FREED", "REALLOC_OLD", "REALLOC_NEW"}
Misuses == {"REALLOC_OF_NULL", "REALLOC_OF_INVALID", "REALLOC_OF_FREED",
            "REALLOC_OF_REALLOCED", "FREE_OF_NULL", "FREE_OF_INVALID",
            "FREE_OF_FREED", "FREE_OF_REALLOCED"}
FailReasons == {"PASS", "NOMEM", "LEAKED"} \cup Misuses

None == 0    \* no header there, or the memory was overwritten since
Gone == -1   \* a header whose record has been destroyed

Block == [header : Addr, flags : SUBSET Flags,
          realloc_prev : Nat, realloc_next : Nat]

TypeOK == /\ phase \in Phases
          /\ test_leak_checking \in BOOLEAN
          /\ fall_through \in BOOLEAN
          /\ blocks \in Seq(Block)
          /\ total_allocations \in Nat
          /\ total_calls \in Nat
          /\ fail_reason \in FailReasons
          /\ heap \in [Addr -> {"free", "raw", "hooked"}]
          /\ header \in [Addr -> Nat \cup {Gone}]
          /\ FaultTypeOK
-----------------------------------------------------------------------------
(* The records *)

\* Mutants: a record freed, or one reallocated, still looks freeable.
FreeableAfterFree(flags) == "REALLOC_OLD" \notin flags
FreeableAfterMove(flags) == "FREED" \notin flags

\* mptest__leakcheck_block_has_freeable, on the flags of a record.
Freeable(flags) == flags \cap {"FREED", "REALLOC_OLD"} = {}

FreeableBlocks == {b \in DOMAIN blocks : Freeable(blocks[b].flags)}
FreeableHeaders == {blocks[b].header : b \in FreeableBlocks}

\* Mutant: only the oldest record is looked at.
HasLeaksOldest == blocks # <<>> /\ Freeable(blocks[1].flags)

HasLeaks == FreeableBlocks # {}

\* Mutants: the realloc() chain is not linked back; the wrong record is
\* marked as the target of the reallocation.
NewBlockUnlinked(a, flag, prev) ==
    [header |-> a, flags |-> {flag}, realloc_prev |-> 0, realloc_next |-> 0]
NewBlockMarked(a, flag, prev) ==
    [header |-> a, realloc_prev |-> prev, realloc_next |-> 0,
     flags |-> IF prev = 0 THEN {flag} ELSE {flag, "REALLOC_OLD"}]

\* mptest__leakcheck_block_init and link_header.
NewBlock(a, flag, prev) ==
    [header |-> a, flags |-> {flag}, realloc_prev |-> prev, realloc_next |-> 0]

\* What becomes of a record when its block is moved to record `next`.
Superseded(block, next) ==
    [header |-> block.header, flags |-> block.flags \cup {"REALLOC_OLD"},
     realloc_prev |-> block.realloc_prev, realloc_next |-> next]

\* mptest__leakcheck_destroy hands every freeable header to free(): that is
\* defined when each is a block in use, and no two are the same.
DestroyDefined ==
    /\ \A b \in FreeableBlocks : heap[blocks[b].header] = "hooked"
    /\ \A b, c \in FreeableBlocks :
          blocks[b].header = blocks[c].header => b = c

HeapAfterDestroy == [a \in Addr |-> IF a \in FreeableHeaders THEN "free"
                                                             ELSE heap[a]]
HeaderAfterDestroy == [a \in Addr |-> IF header[a] = None THEN None ELSE Gone]
-----------------------------------------------------------------------------
(* Control *)

\* Undefined behaviour: nothing is said of what follows.
Crash == /\ phase' = "crashed"
         /\ UNCHANGED <<modeVars, recordVars, fail_reason, heapVars, faultVars>>

\* The hooks never jump for the reason a test may be checking for, so a jump
\* always goes to test_context: stale when no test body is running.
LongjmpExec == phase' = IF phase = "test" THEN "jumped" ELSE "crashed"

LeakcheckError(reason) == fail_reason' = reason

\* A hook finds an error: the verdict is recorded and control leaves the body.
Refuse(reason) == /\ LeakcheckError(reason)
                  /\ LongjmpExec
                  /\ UNCHANGED <<modeVars, recordVars, heapVars>>

Calling == /\ phase = "test" \/ (phase = "outside" /\ ~LegalUse)
           /\ fault_calls < MaxFaultCalls

AuditedCall == Calling /\ test_leak_checking /\ ~fall_through
PassedCall == Calling /\ (test_leak_checking => fall_through)

\* The pointers a legal program may pass: back to where they came from.
Usable(p) ==
    LegalUse => \/ p = NULL /\ ~(test_leak_checking /\ ~fall_through)
                \/ /\ p \in Addr
                   /\ heap[p] = IF test_leak_checking /\ ~fall_through
                                THEN "hooked" ELSE "raw"
-----------------------------------------------------------------------------
(* Calls that end in libc: checking is off, or allocations fall through *)

\* malloc() and realloc() ask for a fault and are counted only when checking.
FallThroughCounted ==
    /\ IF test_leak_checking
       THEN FaultPassed /\ total_calls' = total_calls + 1
       ELSE UNCHANGED <<faultVars, total_calls>>
    /\ UNCHANGED <<phase, modeVars, blocks, total_allocations, fail_reason>>

\* libc hands out a block, new or in place of the block at p, with no header.
RawBlock(p) ==
    \E a \in Addr :
        /\ heap[a] = "free" \/ a = p
        /\ heap' = [b \in Addr |-> IF b = a THEN "raw"
                                    ELSE IF b = p THEN "free" ELSE heap[b]]
        /\ header' = [header EXCEPT ![a] = None]

MallocPassed == PassedCall /\ RawBlock(NULL) /\ FallThroughCounted

\* libc's realloc() must be given a block it handed out, or NULL.
ReallocPassed ==
    /\ PassedCall
    /\ \E p \in Addr \cup {NULL} :
          /\ Usable(p)
          /\ IF p = NULL \/ heap[p] = "raw"
             THEN RawBlock(p) /\ FallThroughCounted
             ELSE (test_leak_checking => ~FaultHit) /\ Crash

\* free() asks for no fault and is not counted.
FreePassed ==
    /\ PassedCall
    /\ \E p \in Addr :
          /\ Usable(p)
          /\ IF heap[p] = "raw"
             THEN /\ heap' = [heap EXCEPT ![p] = "free"]
                  /\ UNCHANGED <<phase, modeVars, recordVars, fail_reason,
                                 header, faultVars>>
             ELSE Crash
-----------------------------------------------------------------------------
(* What a header read says of a pointer *)

FlagsOutcome(flags) == IF "FREED" \in flags THEN "FREED"
                       ELSE IF ~Freeable(flags) THEN "REALLOCED"
                       ELSE "FREEABLE"

\* The guard bytes of a block in use are intact; those of a block given back
\* to libc may have been overwritten; a raw block has none.  The record a
\* header points to reads as anything once it has been destroyed.
Outcomes(p) ==
    (IF heap[p] = "hooked" THEN {} ELSE {"INVALID"})
    \cup (IF header[p] = None THEN {}
          ELSE IF header[p] = Gone THEN {"FREED", "REALLOCED", "FREEABLE"}
          ELSE {FlagsOutcome(blocks[header[p]].flags)})

FreeVerdict == [INVALID |-> "FREE_OF_INVALID", FREED |-> "FREE_OF_FREED",
                REALLOCED |-> "FREE_OF_REALLOCED"]
ReallocVerdict == [INVALID |-> "REALLOC_OF_INVALID",
                   FREED |-> "REALLOC_OF_FREED",
                   REALLOCED |-> "REALLOC_OF_REALLOCED"]
-----------------------------------------------------------------------------
(* Audited malloc() *)

\* The injected fault, in malloc() or realloc(): NULL is returned.
HookFaulted ==
    /\ Calling
    /\ test_leak_checking
    /\ FaultInjected
    /\ UNCHANGED <<phase, modeVars, recordVars, fail_reason, heapVars>>

\* No memory for the block.
MallocNoMemBase ==
    /\ AuditedCall
    /\ "malloc_base" \in NoMemSites
    /\ FaultPassed
    /\ Refuse("NOMEM")

\* Mutant: the block is not given back when its record has no memory.
MallocNoMemBlockKept(a) ==
    /\ AuditedCall
    /\ "malloc_block" \in NoMemSites
    /\ heap[a] = "free"
    /\ FaultPassed
    /\ heap' = [heap EXCEPT ![a] = "hooked"]
    /\ LeakcheckError("NOMEM")
    /\ LongjmpExec
    /\ UNCHANGED <<modeVars, recordVars, header>>

\* libc gives the block and has no memory for its record: the block is given
\* back before control leaves the body.
MallocNoMemBlock(a) ==
    /\ AuditedCall
    /\ "malloc_block" \in NoMemSites
    /\ heap[a] = "free"
    /\ FaultPassed
    /\ LET taken == [heap EXCEPT ![a] = "hooked"]
       IN heap' = [taken EXCEPT ![a] = "free"]
    /\ LeakcheckError("NOMEM")
    /\ LongjmpExec
    /\ UNCHANGED <<modeVars, recordVars, header>>

MallocTracked(a) ==
    /\ AuditedCall
    /\ Len(blocks) < MaxBlocks
    /\ heap[a] = "free"
    /\ FaultPassed
    /\ heap' = [heap EXCEPT ![a] = "hooked"]
    /\ blocks' = Append(blocks, NewBlock(a, "INITIAL", 0))
    /\ header' = [header EXCEPT ![a] = Len(blocks) + 1]
    /\ total_allocations' = total_allocations + 1
    /\ total_calls' = total_calls + 1
    /\ UNCHANGED <<phase, modeVars, fail_reason>>

HookMalloc == \/ MallocPassed \/ MallocNoMemBase
              \/ \E a \in Addr : MallocNoMemBlock(a) \/ MallocTracked(a)
-----------------------------------------------------------------------------
(* Audited free() *)

FreeOfNull ==
    /\ AuditedCall
    /\ Usable(NULL)
    /\ Refuse("FREE_OF_NULL")
    /\ UNCHANGED faultVars

FreeRefused(p) ==
    /\ AuditedCall
    /\ Usable(p)
    /\ \E outcome \in Outcomes(p) \ {"FREEABLE"} : Refuse(FreeVerdict[outcome])
    /\ UNCHANGED faultVars

\* Mutant: the record is not marked.
FreeTrackedUnmarked(p) ==
    /\ AuditedCall
    /\ heap[p] = "hooked"
    /\ "FREEABLE" \in Outcomes(p)
    /\ heap' = [heap EXCEPT ![p] = "free"]
    /\ total_allocations' = total_allocations - 1
    /\ UNCHANGED <<phase, modeVars, blocks, total_calls, fail_reason, header,
                   faultVars>>

\* The record is marked, never removed: its pointers can be recognised later.
FreeTracked(p) ==
    /\ AuditedCall
    /\ heap[p] = "hooked"
    /\ "FREEABLE" \in Outcomes(p)
    /\ heap' = [heap EXCEPT ![p] = "free"]
    /\ blocks' = [blocks EXCEPT ![header[p]].flags = @ \cup {"FREED"}]
    /\ total_allocations' = total_allocations - 1
    /\ UNCHANGED <<phase, modeVars, total_calls, fail_reason, header, faultVars>>

\* A block already given back passes every check: libc frees it again.
FreeStale(p) ==
    /\ AuditedCall
    /\ Usable(p)
    /\ heap[p] = "free" /\ "FREEABLE" \in Outcomes(p)
    /\ Crash

HookFree == \/ FreePassed \/ FreeOfNull
            \/ \E p \in Addr : FreeRefused(p) \/ FreeTracked(p) \/ FreeStale(p)
-----------------------------------------------------------------------------
(* Audited realloc() *)

\* The header is read before the pointer is compared with NULL.  The read is
\* undefined: it crashes, or the compiler moved it past the comparison.
ReallocOfNull ==
    /\ AuditedCall
    /\ Usable(NULL)
    /\ \/ FaultPassed /\ Refuse("REALLOC_OF_NULL")
       \/ ~FaultHit /\ Crash

ReallocRefused(p) ==
    /\ AuditedCall
    /\ Usable(p)
    /\ \E outcome \in Outcomes(p) \ {"FREEABLE"} :
          Refuse(ReallocVerdict[outcome])
    /\ FaultPassed

\* The checks pass: the block at p may move to a, or stay.
Resizing(p, a) == /\ AuditedCall
                  /\ heap[p] = "hooked"
                  /\ "FREEABLE" \in Outcomes(p)
                  /\ a = p \/ heap[a] = "free"
                  /\ FaultPassed

\* realloc() itself fails: control leaves the body, no verdict is recorded.
ReallocNoMemBase(p) ==
    /\ Resizing(p, p)
    /\ "realloc_base" \in NoMemSites
    /\ LongjmpExec
    /\ UNCHANGED <<modeVars, recordVars, fail_reason, heapVars>>

\* Mutant: the old record is marked before there is a new one.
ReallocNoMemBlockMarked(p, a) ==
    /\ Resizing(p, a)
    /\ "realloc_block" \in NoMemSites
    /\ heap' = [heap EXCEPT ![p] = "free", ![a] = "hooked"]
    /\ header' = [header EXCEPT ![a] = header[p]]
    /\ blocks' = [blocks EXCEPT ![header[p]].flags = @ \cup {"REALLOC_OLD"}]
    /\ LeakcheckError("NOMEM")
    /\ LongjmpExec
    /\ UNCHANGED <<modeVars, total_allocations, total_calls>>

\* realloc() moved the block, header included, but there is no memory for
\* its new record: the old record is left as it was.
ReallocNoMemBlock(p, a) ==
    /\ Resizing(p, a)
    /\ "realloc_block" \in NoMemSites
    /\ heap' = [heap EXCEPT ![p] = "free", ![a] = "hooked"]
    /\ header' = [header EXCEPT ![a] = header[p]]
    /\ LeakcheckError("NOMEM")
    /\ LongjmpExec
    /\ UNCHANGED <<modeVars, recordVars>>

ReallocTracked(p, a) ==
    /\ Resizing(p, a)
    /\ Len(blocks) < MaxBlocks
    /\ heap' = [heap EXCEPT ![p] = "free", ![a] = "hooked"]
    /\ header' = [header EXCEPT ![a] = Len(blocks) + 1]
    /\ blocks' = Append([blocks EXCEPT ![header[p]]
                                         = Superseded(@, Len(blocks) + 1)],
                        NewBlock(a, "REALLOC_NEW", header[p]))
    /\ total_calls' = total_calls + 1
    /\ UNCHANGED <<phase, modeVars, total_allocations, fail_reason>>

ReallocStale(p) == /\ ~FaultHit
                   /\ FreeStale(p)

HookRealloc == \/ ReallocPassed \/ ReallocOfNull
               \/ \E p \in Addr : \/ ReallocRefused(p) \/ ReallocNoMemBase(p)
                                  \/ ReallocStale(p)
               \/ \E p, a \in Addr : ReallocNoMemBlock(p, a)
                                     \/ ReallocTracked(p, a)
-----------------------------------------------------------------------------
(* Life of a test and of the program *)

\* mptest_fault, called by the program for a class of calls of its own.
UserFault == /\ Calling
             /\ FaultInjected \/ FaultPassed
             /\ UNCHANGED <<phase, modeVars, recordVars, fail_reason, heapVars>>

\* mptest__leakcheck_set and mptest__fault_set, in a test or between tests.
LeakcheckSet == /\ phase \in {"outside", "test"}
                /\ test_leak_checking' \in BOOLEAN
                /\ UNCHANGED <<phase, fall_through, recordVars, fail_reason,
                               heapVars, faultVars>>

FaultCheckingSet == /\ phase \in {"outside", "test"}
                    /\ \E mode \in FaultModes : FaultSet(mode)
                    /\ UNCHANGED <<phase, modeVars, recordVars, fail_reason,
                                   heapVars>>

\* How the runner leaves the fault counters when a run of a test body starts:
\* untouched in mode OFF, else reset for the fault-free run or for run idx.
ArmRun == \/ fault_checking = "OFF" /\ UNCHANGED faultVars
          \/ FaultArm("OFF", NoIdx)
          \/ \E mode \in {"SET", "ONE"}, idx \in 0 .. MaxFaultCalls - 1 :
                FaultArm(mode, idx)

\* mptest__leakcheck_before_test: everything left over is destroyed.
BeforeTest ==
    /\ phase = "outside"
    /\ IF DestroyDefined
       THEN /\ phase' = "test"
            /\ heap' = HeapAfterDestroy
            /\ header' = HeaderAfterDestroy
            /\ blocks' = <<>>
            /\ total_allocations' = 0
            /\ total_calls' = 0
            /\ fail_reason' = "PASS"
            /\ ArmRun
            /\ UNCHANGED modeVars
       ELSE Crash

AfterTest ==
    /\ phase \in {"test", "jumped"}
    /\ phase' = "outside"
    /\ IF test_leak_checking /\ HasLeaks THEN LeakcheckError("LEAKED")
                                         ELSE UNCHANGED fail_reason
    /\ UNCHANGED <<modeVars, recordVars, heapVars, faultVars>>

\* MPTEST_MAIN_END: the records are destroyed and the list is left dangling.
MainEnd ==
    /\ phase = "outside"
    /\ IF DestroyDefined
       THEN /\ phase' = "over"
            /\ heap' = HeapAfterDestroy
            /\ header' = HeaderAfterDestroy
            /\ UNCHANGED <<modeVars, recordVars, fail_reason, faultVars>>
       ELSE Crash

Init == /\ phase = "outside"
        /\ test_leak_checking \in BOOLEAN
        /\ fall_through \in BOOLEAN
        /\ blocks = <<>>
        /\ total_allocations = 0
        /\ total_calls = 0
        /\ fail_reason = "PASS"
        /\ heap = [a \in Addr |-> "free"]
        /\ header = [a \in Addr |-> None]
        /\ FaultInit

Next == \/ HookMalloc \/ HookFree \/ HookRealloc \/ HookFaulted \/ UserFault
        \/ LeakcheckSet \/ FaultCheckingSet
        \/ BeforeTest \/ AfterTest \/ MainEnd

Spec == Init /\ [][Next]_vars
-----------------------------------------------------------------------------
(* Properties of every program, legal or not *)

\* A record that says its pointer can be freed owns a live libc block whose
\* header points back to it: destroying the list frees each block once.
FreeableOwnsHeap ==
    phase # "over" =>
        \A b \in FreeableBlocks : /\ heap[blocks[b].header] = "hooked"
                                  /\ header[blocks[b].header] = b

\* Every block libc gave to the hooks and has not got back is in the ledger,
\* and nothing else is: no leak is missed and none is invented.
LedgerAgrees ==
    phase # "over" => FreeableHeaders = {a \in Addr : heap[a] = "hooked"}

\* "Total number of allocations in use" counts the freeable records.
AllocationCount == total_allocations = Cardinality(FreeableBlocks)

\* A record is superseded by exactly one later record, which links back to
\* it, and a superseded record is never freed.
ReallocChain ==
    \A b \in DOMAIN blocks :
        LET block == blocks[b] IN
        /\ ("REALLOC_OLD" \in block.flags) <=> (block.realloc_next # 0)
        /\ ("REALLOC_NEW" \in block.flags) <=> (block.realloc_prev # 0)
        /\ ~({"FREED", "REALLOC_OLD"} \subseteq block.flags)
        /\ block.realloc_next # 0 =>
              /\ block.realloc_next \in b + 1 .. Len(blocks)
              /\ blocks[block.realloc_next].realloc_prev = b
        /\ block.realloc_prev # 0 =>
              /\ block.realloc_prev \in 1 .. b - 1
              /\ blocks[block.realloc_prev].realloc_next = b

\* While the record of a block lives, the block given back to libc cannot
\* pass the checks of free() or realloc() a second time.
DoubleFreeCaught ==
    \A a \in Addr : heap[a] = "free" /\ header[a] \in DOMAIN blocks
                        => phase = "over" \/ "FREEABLE" \notin Outcomes(a)

\* Every call the checker counts was a point where a fault could have been
\* injected, so running once per counted fault covers every call.
InjectionCoversCalls == total_calls <= fault_calls

\* A test is found leaking exactly when it is audited and a block handed out
\* by the hooks has not come back to libc.
LeakVerdict ==
    [][phase' = "outside" /\ phase # "outside" =>
         (fail_reason' = "LEAKED"
            <=> test_leak_checking /\ \E a \in Addr : heap[a] = "hooked")]_vars

\* The checker keeps the promises of HeapLedger.
Ledger == INSTANCE HeapLedger WITH
    status <- CASE phase = "outside" -> "idle"
                [] phase \in {"test", "jumped"} -> "running"
                [] phase = "over" -> "done"
                [] phase = "crashed" -> "aborted",
    audit <- test_leak_checking,
    outstanding <- IF phase = "over" THEN {} ELSE FreeableHeaders,
    leaked <- (fail_reason = "LEAKED")

ImplementsLedger == Ledger!Spec
-----------------------------------------------------------------------------
(* Properties of a program that only makes legal calls *)

\* The checker never brings such a program down.
NeverCrashes == LegalUse => phase # "crashed"

\* It never accuses such a program of misusing a pointer.
NeverAccused == LegalUse => fail_reason \notin Misuses
=============================================================================
