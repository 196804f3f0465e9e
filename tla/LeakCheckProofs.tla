-------------------------- MODULE LeakCheckProofs --------------------------
(***************************************************************************)
(* Proofs about LeakCheck, for every heap, every bound and every program.  *)
(* The safety theorems assume that libc does not refuse the record of a    *)
(* block that realloc() has just moved: without that assumption TLC finds  *)
(* them violated (run leakcheck_realloc_oom).                              *)
(*                                                                         *)
(* FreeableOwnsHeap is not inductive.  It needs its converse (a hooked     *)
(* block's header leads to a record that can be freed) and a fact about    *)
(* every header, also of memory already given back: if it still leads to a *)
(* record, the record leads back to it.  So a stale pointer can never be   *)
(* taken for the block another record owns.  From this also follows that   *)
(* LeakCheck implements HeapLedger.                                        *)
(***************************************************************************)
EXTENDS LeakCheck, FiniteSetTheorems, SequenceTheorems, TLAPS

\* The types of everything but total_allocations, which AllocationCount gives.
Shape == /\ phase \in Phases
         /\ test_leak_checking \in BOOLEAN
         /\ fall_through \in BOOLEAN
         /\ blocks \in Seq(Block)
         /\ total_calls \in Nat
         /\ fail_reason \in FailReasons
         /\ heap \in [Addr -> {"free", "raw", "hooked"}]
         /\ header \in [Addr -> Nat \cup {Gone}]
         /\ FaultTypeOK

HookedIsTracked ==
    phase # "over" =>
        \A a \in Addr : heap[a] = "hooked" =>
            /\ header[a] \in DOMAIN blocks
            /\ Freeable(blocks[header[a]].flags)

HeaderLeadsBack ==
    \A a \in Addr :
        /\ header[a] \in {None, Gone} \cup DOMAIN blocks
        /\ header[a] \in DOMAIN blocks => blocks[header[a]].header = a

Links == FreeableOwnsHeap /\ HookedIsTracked /\ HeaderLeadsBack

IInv == Shape /\ Links
-----------------------------------------------------------------------------
(* The sequence of records *)

LEMMA BlockType ==
    ASSUME blocks \in Seq(Block)
    PROVE  /\ DOMAIN blocks = 1 .. Len(blocks)
           /\ Len(blocks) \in Nat
           /\ \A b \in DOMAIN blocks : blocks[b] \in Block
  BY LenProperties, ElementOfSeq

\* A record is appended, and at most one older record b is replaced.
LEMMA AppendBlock ==
    ASSUME NEW s \in Seq(Block), NEW e \in Block
    PROVE  /\ Append(s, e) \in Seq(Block)
           /\ DOMAIN Append(s, e) = 1 .. Len(s) + 1
           /\ Append(s, e)[Len(s) + 1] = e
           /\ \A i \in 1 .. Len(s) : Append(s, e)[i] = s[i]
  BY AppendProperties, LenProperties

LEMMA ReplaceBlock ==
    ASSUME NEW s \in Seq(Block), NEW b \in 1 .. Len(s), NEW e \in Block
    PROVE  LET t == [s EXCEPT ![b] = e]
           IN  /\ t \in Seq(Block)
               /\ Len(t) = Len(s)
               /\ DOMAIN t = 1 .. Len(s)
               /\ t[b] = e
               /\ \A i \in 1 .. Len(s) : i # b => t[i] = s[i]
  BY ExceptSeq, LenProperties
-----------------------------------------------------------------------------
(* Steps that leave the records and the heap alone *)

Quiet == /\ UNCHANGED <<blocks, heap, header>>
         /\ phase = "over" <=> phase' = "over"

LEMMA QuietKeepsLinks == Links /\ Quiet => Links'
  BY DEF Links, Quiet, FreeableOwnsHeap, HookedIsTracked, HeaderLeadsBack,
         FreeableBlocks
LEMMA FaultTypes ==
    ASSUME FaultTypeOK,
           FaultInjected \/ FaultPassed \/ UNCHANGED faultVars
    PROVE  FaultTypeOK'
  BY DEF FaultTypeOK, FaultInjected, FaultPassed, faultVars

\* The outcomes of the checks are the four the verdicts are indexed by.
LEMMA OutcomeType ==
    ASSUME NEW p
    PROVE  Outcomes(p) \subseteq {"INVALID", "FREED", "REALLOCED", "FREEABLE"}
  BY DEF Outcomes, FlagsOutcome

LEMMA RefuseIsQuiet ==
    ASSUME Shape, Links, Calling, NEW reason \in FailReasons, Refuse(reason),
           FaultInjected \/ FaultPassed \/ UNCHANGED faultVars
    PROVE  Shape' /\ Links'
  <1>1. phase' \in {"jumped", "crashed"} /\ phase # "over"
    BY DEF Refuse, LongjmpExec, Calling
  <1>2. Shape'
    BY <1>1, FaultTypes DEF Shape, Refuse, LeakcheckError, recordVars,
       heapVars, modeVars, Phases
  <1>3. Quiet
    BY <1>1 DEF Quiet, Refuse, recordVars, heapVars
  <1> QED
    BY <1>2, <1>3, QuietKeepsLinks

LEMMA CrashIsQuiet ==
    ASSUME Shape, Links, phase # "over", Crash
    PROVE  Shape' /\ Links'
  <1>1. Shape'
    BY FaultTypes DEF Shape, Crash, recordVars, heapVars, modeVars, Phases
  <1>2. Quiet
    BY DEF Quiet, Crash, recordVars, heapVars
  <1> QED
    BY <1>1, <1>2, QuietKeepsLinks

\* The other steps that leave blocks, heap and header as they are.
LEMMA QuietSteps ==
    ASSUME Shape, Links,
           \/ HookFaulted \/ UserFault \/ LeakcheckSet \/ FaultCheckingSet
           \/ AfterTest
           \/ \E p \in Addr : ReallocNoMemBase(p)
    PROVE  Shape' /\ Links'
  <1>1. Quiet
    BY DEF Quiet, HookFaulted, UserFault, LeakcheckSet, FaultCheckingSet,
       AfterTest, ReallocNoMemBase, Resizing, AuditedCall, Calling,
       LongjmpExec, recordVars, heapVars
  <1>2. FaultTypeOK'
    BY FaultTypes DEF Shape, HookFaulted, UserFault, LeakcheckSet,
       FaultCheckingSet, AfterTest, ReallocNoMemBase, Resizing, FaultSet,
       FaultTypeOK, faultVars
  <1>3. Shape'
    BY <1>1, <1>2 DEF Shape, Quiet, HookFaulted, UserFault, LeakcheckSet,
       FaultCheckingSet, AfterTest, ReallocNoMemBase, Resizing, AuditedCall,
       Calling, LongjmpExec, LeakcheckError, recordVars, heapVars, modeVars,
       Phases, FailReasons
  <1> QED
    BY <1>1, <1>3, QuietKeepsLinks
-----------------------------------------------------------------------------
(* Steps on blocks the checker does not track *)

\* Such a step neither makes nor takes a hooked block, and overwrites no
\* hooked block's header.
Untracked ==
    /\ blocks' = blocks
    /\ phase' = phase
    /\ \A a \in Addr :
          /\ heap'[a] = "hooked" <=> heap[a] = "hooked"
          /\ header'[a] = header[a]
             \/ (header'[a] = None /\ heap[a] # "hooked")

LEMMA UntrackedKeepsLinks ==
    ASSUME Shape, Links, Untracked
    PROVE  Links'
  <1>1. \A b \in DOMAIN blocks : blocks[b].header \in Addr
    BY BlockType DEF Shape, Block
  <1>2. FreeableBlocks' = FreeableBlocks
    BY DEF Untracked, FreeableBlocks
  <1>3. DOMAIN blocks = 1 .. Len(blocks)
    BY BlockType DEF Shape
  <1>4. FreeableOwnsHeap'
    BY <1>1, <1>2 DEF Links, FreeableOwnsHeap, Untracked, FreeableBlocks
  <1>5. HookedIsTracked'
    BY DEF Links, HookedIsTracked, Untracked
  <1>6. HeaderLeadsBack'
    BY <1>3 DEF Links, HeaderLeadsBack, Untracked, None
  <1> QED
    BY <1>4, <1>5, <1>6 DEF Links

LEMMA RawBlockUntracked ==
    ASSUME Shape, NEW p \in Addr \cup {NULL},
           p = NULL \/ heap[p] = "raw",
           RawBlock(p), FallThroughCounted
    PROVE  Untracked /\ Shape'
  <1>1. PICK a \in Addr : /\ heap[a] = "free" \/ a = p
                          /\ heap' = [b \in Addr |->
                                IF b = a THEN "raw"
                                ELSE IF b = p THEN "free" ELSE heap[b]]
                          /\ header' = [header EXCEPT ![a] = None]
    BY DEF RawBlock
  <1>2. heap' \in [Addr -> {"free", "raw", "hooked"}]
    BY <1>1 DEF Shape
  <1>3. \A b \in Addr : heap'[b] = "hooked" <=> heap[b] = "hooked"
    BY <1>1, NullAssumption DEF Shape
  <1>4. header' \in [Addr -> Nat \cup {Gone}]
        /\ \A b \in Addr : header'[b] = header[b]
                           \/ (header'[b] = None /\ heap[b] # "hooked")
    BY <1>1, NullAssumption DEF Shape, None
  <1>5. Untracked
    BY <1>3, <1>4 DEF Untracked, FallThroughCounted
  <1>6. FaultTypeOK'
    BY FaultTypes DEF FallThroughCounted, Shape
  <1> QED
    BY <1>2, <1>4, <1>5, <1>6 DEF Shape, FallThroughCounted, modeVars

LEMMA MallocPassedStep ==
    ASSUME Shape, Links, MallocPassed
    PROVE  Shape' /\ Links'
  BY RawBlockUntracked, UntrackedKeepsLinks DEF MallocPassed

LEMMA ReallocPassedStep ==
    ASSUME Shape, Links, ReallocPassed
    PROVE  Shape' /\ Links'
  <1>1. PICK p \in Addr \cup {NULL} :
            IF p = NULL \/ heap[p] = "raw"
            THEN RawBlock(p) /\ FallThroughCounted
            ELSE Crash
    BY DEF ReallocPassed
  <1>2. phase # "over"
    BY DEF ReallocPassed, PassedCall, Calling
  <1>3. CASE p = NULL \/ heap[p] = "raw"
    BY <1>1, <1>3, RawBlockUntracked, UntrackedKeepsLinks
  <1>4. CASE ~(p = NULL \/ heap[p] = "raw")
    BY <1>1, <1>2, <1>4, CrashIsQuiet
  <1> QED
    BY <1>3, <1>4

LEMMA FreePassedStep ==
    ASSUME Shape, Links, FreePassed
    PROVE  Shape' /\ Links'
  <1>1. PICK p \in Addr :
            IF heap[p] = "raw"
            THEN /\ heap' = [heap EXCEPT ![p] = "free"]
                 /\ UNCHANGED <<phase, modeVars, recordVars, fail_reason,
                                header, faultVars>>
            ELSE Crash
    BY DEF FreePassed
  <1>2. phase # "over"
    BY DEF FreePassed, PassedCall, Calling
  <1>3. CASE heap[p] = "raw"
    <2>1. Untracked
      BY <1>1, <1>3 DEF Untracked, Shape, recordVars
    <2>2. Shape'
      BY <1>1, <1>3, FaultTypes DEF Shape, recordVars, modeVars
    <2> QED
      BY <2>1, <2>2, UntrackedKeepsLinks
  <1>4. CASE heap[p] # "raw"
    BY <1>1, <1>2, <1>4, CrashIsQuiet
  <1> QED
    BY <1>3, <1>4
-----------------------------------------------------------------------------
(* Steps on tracked blocks *)

LEMMA MallocTrackedStep ==
    ASSUME Shape, Links, NEW a \in Addr, MallocTracked(a)
    PROVE  Shape' /\ Links'
  <1> DEFINE n == Len(blocks)
             e == NewBlock(a, "INITIAL", 0)
  <1>1. /\ heap[a] = "free" /\ phase # "over" /\ phase' = phase
        /\ heap' = [heap EXCEPT ![a] = "hooked"]
        /\ header' = [header EXCEPT ![a] = n + 1]
        /\ blocks' = Append(blocks, e)
    BY DEF MallocTracked, AuditedCall, Calling
  <1>2. e \in Block /\ e.header = a /\ Freeable(e.flags)
    BY DEF NewBlock, Block, Flags, Freeable
  <1>3. /\ n \in Nat /\ DOMAIN blocks = 1 .. n
        /\ \A b \in 1 .. n : blocks[b].header \in Addr
    BY BlockType DEF Shape, Block
  <1>4. /\ blocks' \in Seq(Block) /\ DOMAIN blocks' = 1 .. n + 1
        /\ blocks'[n + 1] = e
        /\ \A i \in 1 .. n : blocks'[i] = blocks[i]
    BY <1>1, <1>2, AppendBlock DEF Shape
  <1> HIDE DEF n, e
  <1>5. Shape'
    <2>1. FaultTypeOK'
      BY FaultTypes DEF Shape, MallocTracked
    <2>2. heap' \in [Addr -> {"free", "raw", "hooked"}]
          /\ header' \in [Addr -> Nat \cup {Gone}]
      BY <1>1, <1>3 DEF Shape
    <2> QED
      BY <1>4, <2>1, <2>2 DEF Shape, MallocTracked, modeVars
  <1>6. FreeableOwnsHeap'
    <2> SUFFICES ASSUME NEW b \in 1 .. n + 1, Freeable(blocks'[b].flags)
                 PROVE  /\ heap'[blocks'[b].header] = "hooked"
                        /\ header'[blocks'[b].header] = b
      BY <1>4 DEF FreeableOwnsHeap, FreeableBlocks
    <2>1. CASE b = n + 1
      BY <1>1, <1>2, <1>4, <2>1 DEF Shape
    <2>2. CASE b \in 1 .. n
      <3>1. b \in FreeableBlocks
        BY <1>3, <1>4, <2>2 DEF FreeableBlocks
      <3>2. heap[blocks[b].header] = "hooked" /\ header[blocks[b].header] = b
        BY <1>1, <3>1 DEF Links, FreeableOwnsHeap
      <3> QED
        BY <1>1, <1>3, <1>4, <2>2, <3>2 DEF Shape
    <2> QED
      BY <1>3, <2>1, <2>2
  <1>7. HookedIsTracked'
    BY <1>1, <1>2, <1>3, <1>4 DEF Links, HookedIsTracked, Shape
  <1>8. HeaderLeadsBack'
    BY <1>1, <1>2, <1>3, <1>4 DEF Links, HeaderLeadsBack, Shape, None, Gone
  <1> QED
    BY <1>5, <1>6, <1>7, <1>8 DEF Links

\* What the checks establish when they pass: header[p] is the record of the
\* block at p, and that record can be freed.
LEMMA ChecksPassed ==
    ASSUME Shape, Links, phase # "over",
           NEW p \in Addr, heap[p] = "hooked"
    PROVE  /\ header[p] \in DOMAIN blocks
           /\ Freeable(blocks[header[p]].flags)
           /\ blocks[header[p]].header = p
           /\ \A b \in DOMAIN blocks :
                 Freeable(blocks[b].flags) /\ blocks[b].header = p
                    => b = header[p]
  BY DEF Links, HookedIsTracked, HeaderLeadsBack, FreeableOwnsHeap,
         FreeableBlocks

LEMMA FreeTrackedStep ==
    ASSUME Shape, Links, NEW p \in Addr, FreeTracked(p)
    PROVE  Shape' /\ Links'
  <1> DEFINE n == Len(blocks)
             b == header[p]
             e == [blocks[b] EXCEPT !.flags = @ \cup {"FREED"}]
  <1>1. /\ heap[p] = "hooked" /\ phase # "over" /\ phase' = phase
        /\ heap' = [heap EXCEPT ![p] = "free"]
        /\ header' = header
        /\ blocks' = [blocks EXCEPT ![b] = e]
    BY DEF FreeTracked, AuditedCall, Calling
  <1>2. /\ b \in DOMAIN blocks /\ Freeable(blocks[b].flags)
        /\ blocks[b].header = p
        /\ \A c \in DOMAIN blocks :
              Freeable(blocks[c].flags) /\ blocks[c].header = p => c = b
    BY <1>1, ChecksPassed
  <1>3. /\ n \in Nat /\ DOMAIN blocks = 1 .. n
        /\ \A c \in 1 .. n : blocks[c] \in Block /\ blocks[c].header \in Addr
    BY BlockType DEF Shape, Block
  <1>4. e \in Block /\ e.header = p /\ ~Freeable(e.flags)
    BY <1>2, <1>3 DEF Block, Flags, Freeable
  <1>5. /\ blocks' \in Seq(Block) /\ DOMAIN blocks' = 1 .. n
        /\ blocks'[b] = e
        /\ \A i \in 1 .. n : i # b => blocks'[i] = blocks[i]
    BY <1>1, <1>2, <1>3, <1>4, ReplaceBlock DEF Shape
  <1> HIDE DEF n, b, e
  <1>6. Shape'
    <2>1. heap' \in [Addr -> {"free", "raw", "hooked"}]
      BY <1>1 DEF Shape
    <2> QED
      BY <1>5, <2>1, FaultTypes DEF Shape, FreeTracked, modeVars
  <1>7. FreeableOwnsHeap'
    <2> SUFFICES ASSUME NEW c \in 1 .. n, Freeable(blocks'[c].flags)
                 PROVE  /\ heap'[blocks'[c].header] = "hooked"
                        /\ header'[blocks'[c].header] = c
      BY <1>5 DEF FreeableOwnsHeap, FreeableBlocks
    <2>1. c # b /\ blocks'[c] = blocks[c]
      BY <1>4, <1>5
    <2>2. heap[blocks[c].header] = "hooked" /\ header[blocks[c].header] = c
      BY <1>1, <1>3, <2>1 DEF Links, FreeableOwnsHeap, FreeableBlocks
    <2>3. blocks[c].header # p
      BY <1>2, <1>3, <2>1
    <2> QED
      BY <1>1, <1>3, <2>1, <2>2, <2>3 DEF Shape
  <1>8. HookedIsTracked'
    BY <1>1, <1>2, <1>3, <1>5 DEF Links, HookedIsTracked, HeaderLeadsBack, Shape
  <1>9. HeaderLeadsBack'
    BY <1>1, <1>2, <1>3, <1>4, <1>5 DEF Links, HeaderLeadsBack, Shape
  <1> QED
    BY <1>6, <1>7, <1>8, <1>9 DEF Links

LEMMA SupersededType ==
    ASSUME NEW block \in Block, NEW next \in Nat
    PROVE  /\ Superseded(block, next) \in Block
           /\ Superseded(block, next).header = block.header
           /\ ~Freeable(Superseded(block, next).flags)
  BY DEF Superseded, Block, Flags, Freeable

LEMMA ReallocTrackedStep ==
    ASSUME Shape, Links, NEW p \in Addr, NEW a \in Addr, ReallocTracked(p, a)
    PROVE  Shape' /\ Links'
  <1> DEFINE n == Len(blocks)
             b == header[p]
             old == Superseded(blocks[b], n + 1)
             new == NewBlock(a, "REALLOC_NEW", b)
             mid == [blocks EXCEPT ![b] = old]
  <1>1. /\ heap[p] = "hooked" /\ phase # "over" /\ phase' = phase
        /\ a = p \/ heap[a] = "free"
        /\ heap' = [heap EXCEPT ![p] = "free", ![a] = "hooked"]
        /\ header' = [header EXCEPT ![a] = n + 1]
        /\ blocks' = Append(mid, new)
    BY DEF ReallocTracked, Resizing, AuditedCall, Calling
  <1>2. /\ b \in DOMAIN blocks /\ Freeable(blocks[b].flags)
        /\ blocks[b].header = p
        /\ \A c \in DOMAIN blocks :
              Freeable(blocks[c].flags) /\ blocks[c].header = p => c = b
    BY <1>1, ChecksPassed
  <1>3. /\ n \in Nat /\ DOMAIN blocks = 1 .. n
        /\ \A c \in 1 .. n : blocks[c] \in Block /\ blocks[c].header \in Addr
    BY BlockType DEF Shape, Block
  <1>4. old \in Block /\ old.header = p /\ ~Freeable(old.flags)
    <2>1. blocks[b] \in Block /\ n + 1 \in Nat
      BY <1>2, <1>3
    <2>2. blocks[b].header = p
      BY <1>2
    <2> HIDE DEF n, b
    <2> QED
      BY <2>1, <2>2, SupersededType
  <1>5. new \in Block /\ new.header = a /\ Freeable(new.flags)
    BY <1>2, <1>3 DEF NewBlock, Block, Flags, Freeable
  <1>6. /\ mid \in Seq(Block) /\ Len(mid) = n /\ mid[b] = old
        /\ \A i \in 1 .. n : i # b => mid[i] = blocks[i]
    BY <1>2, <1>3, <1>4, ReplaceBlock DEF Shape
  <1> HIDE DEF n, b, old, new, mid
  <1>7. /\ blocks' \in Seq(Block) /\ DOMAIN blocks' = 1 .. n + 1
        /\ blocks'[n + 1] = new /\ blocks'[b] = old
        /\ \A i \in 1 .. n : i # b => blocks'[i] = blocks[i]
    BY <1>1, <1>2, <1>3, <1>5, <1>6, AppendBlock
  <1>8. \A x \in Addr : heap'[x] = IF x = a THEN "hooked"
                                   ELSE IF x = p THEN "free" ELSE heap[x]
    BY <1>1 DEF Shape
  <1>9. Shape'
    <2>1. heap' \in [Addr -> {"free", "raw", "hooked"}]
          /\ header' \in [Addr -> Nat \cup {Gone}]
      BY <1>1, <1>3 DEF Shape
    <2>2. FaultTypeOK'
      BY FaultTypes DEF Shape, ReallocTracked, Resizing
    <2> QED
      BY <1>7, <2>1, <2>2 DEF Shape, ReallocTracked, modeVars
  <1>10. FreeableOwnsHeap'
    <2> SUFFICES ASSUME NEW c \in 1 .. n + 1, Freeable(blocks'[c].flags)
                 PROVE  /\ heap'[blocks'[c].header] = "hooked"
                        /\ header'[blocks'[c].header] = c
      BY <1>7 DEF FreeableOwnsHeap, FreeableBlocks
    <2>1. CASE c = n + 1
      BY <1>1, <1>5, <1>7, <1>8, <2>1 DEF Shape
    <2>2. CASE c \in 1 .. n
      <3>1. c # b /\ blocks'[c] = blocks[c]
        BY <1>4, <1>7, <2>2
      <3>2. heap[blocks[c].header] = "hooked" /\ header[blocks[c].header] = c
        BY <1>1, <1>3, <2>2, <3>1 DEF Links, FreeableOwnsHeap, FreeableBlocks
      <3>3. blocks[c].header \in Addr \ {p, a}
        BY <1>1, <1>2, <1>3, <2>2, <3>1, <3>2
      <3> QED
        BY <1>1, <1>8, <3>1, <3>2, <3>3 DEF Shape
    <2> QED
      BY <1>3, <2>1, <2>2
  <1>11. HookedIsTracked'
    <2> SUFFICES ASSUME NEW x \in Addr, heap'[x] = "hooked"
                 PROVE  /\ header'[x] \in 1 .. n + 1
                        /\ Freeable(blocks'[header'[x]].flags)
      BY <1>7 DEF HookedIsTracked
    <2>1. CASE x = a
      BY <1>1, <1>3, <1>5, <1>7, <2>1 DEF Shape
    <2>2. CASE x # a
      <3>1. x # p /\ heap[x] = "hooked" /\ header'[x] = header[x]
        BY <1>1, <1>8, <2>2 DEF Shape
      <3>2. /\ header[x] \in 1 .. n /\ Freeable(blocks[header[x]].flags)
            /\ blocks[header[x]].header = x
        BY <1>1, <1>3, <3>1, ChecksPassed
      <3> QED
        BY <1>2, <1>3, <1>7, <3>1, <3>2
    <2> QED
      BY <2>1, <2>2
  <1>12. HeaderLeadsBack'
    <2> SUFFICES ASSUME NEW x \in Addr
                 PROVE  /\ header'[x] \in {None, Gone} \cup 1 .. n + 1
                        /\ header'[x] \in 1 .. n + 1
                              => blocks'[header'[x]].header = x
      BY <1>7 DEF HeaderLeadsBack
    <2>1. CASE x = a
      BY <1>1, <1>3, <1>5, <1>7, <2>1 DEF Shape
    <2>2. CASE x # a
      <3>1. header'[x] = header[x]
        BY <1>1, <2>2 DEF Shape
      <3>2. /\ header[x] \in {None, Gone} \cup 1 .. n
            /\ header[x] \in 1 .. n => blocks[header[x]].header = x
        BY <1>3 DEF Links, HeaderLeadsBack
      <3> QED
        BY <1>2, <1>3, <1>4, <1>7, <3>1, <3>2 DEF None, Gone
    <2> QED
      BY <2>1, <2>2
  <1> QED
    BY <1>9, <1>10, <1>11, <1>12 DEF Links
-----------------------------------------------------------------------------
(* Steps that destroy the records *)

\* Handing every freeable header to libc is defined, and takes all of them.
LEMMA DestroyIsDefined ==
    ASSUME Shape, Links, phase # "over"
    PROVE  /\ DestroyDefined
           /\ \A a \in Addr : HeapAfterDestroy[a] \in {"free", "raw"}
           /\ HeapAfterDestroy \in [Addr -> {"free", "raw", "hooked"}]
           /\ HeaderAfterDestroy \in [Addr -> {None, Gone}]
  <1>1. DestroyDefined
    BY DEF DestroyDefined, Links, FreeableOwnsHeap
  <1>2. \A a \in Addr : heap[a] = "hooked" => a \in FreeableHeaders
    BY ChecksPassed DEF FreeableHeaders, FreeableBlocks
  <1>3. \A a \in Addr : HeapAfterDestroy[a] \in {"free", "raw"}
    BY <1>2 DEF HeapAfterDestroy, Shape
  <1>4. /\ HeapAfterDestroy \in [Addr -> {"free", "raw", "hooked"}]
        /\ HeaderAfterDestroy \in [Addr -> {None, Gone}]
    BY DEF HeapAfterDestroy, HeaderAfterDestroy, Shape
  <1> QED
    BY <1>1, <1>3, <1>4

LEMMA BeforeTestStep ==
    ASSUME Shape, Links, BeforeTest
    PROVE  Shape' /\ Links'
  <1>1. /\ phase = "outside" /\ phase' = "test"
        /\ heap' = HeapAfterDestroy /\ header' = HeaderAfterDestroy
        /\ blocks' = <<>> /\ total_calls' = 0
        /\ fail_reason' = "PASS" /\ ArmRun /\ UNCHANGED modeVars
    BY DestroyIsDefined DEF BeforeTest
  <1>2. blocks' \in Seq(Block) /\ DOMAIN blocks' = {}
    BY <1>1, EmptySeq, LenProperties
  <1>3. FaultTypeOK'
    BY <1>1, BoundAssumption DEF Shape, ArmRun, FaultArm, FaultTypeOK,
       FaultModes, NoIdx, faultVars
  <1>4. Shape'
    BY <1>1, <1>2, <1>3, DestroyIsDefined DEF Shape, Phases, FailReasons,
       modeVars, None
  <1>5. Links'
    BY <1>1, <1>2, DestroyIsDefined DEF Links, FreeableOwnsHeap,
       HookedIsTracked, HeaderLeadsBack, FreeableBlocks
  <1> QED
    BY <1>4, <1>5

LEMMA MainEndStep ==
    ASSUME Shape, Links, MainEnd
    PROVE  Shape' /\ Links'
  <1>1. /\ phase' = "over"
        /\ heap' = HeapAfterDestroy /\ header' = HeaderAfterDestroy
        /\ UNCHANGED <<modeVars, recordVars, fail_reason, faultVars>>
    BY DestroyIsDefined DEF MainEnd
  <1>2. phase = "outside"
    BY DEF MainEnd
  <1>3. Shape'
    BY <1>1, <1>2, DestroyIsDefined, FaultTypes DEF Shape, Phases, modeVars,
       recordVars, None
  <1>4. DOMAIN blocks' = 1 .. Len(blocks')
    BY <1>3, LenProperties DEF Shape
  <1>5. Links'
    BY <1>1, <1>2, <1>4, DestroyIsDefined DEF Links, FreeableOwnsHeap,
       HookedIsTracked, HeaderLeadsBack, None, Gone
  <1> QED
    BY <1>3, <1>5
-----------------------------------------------------------------------------
(* The invariant *)

LEMMA InitLinks == Init => IInv
  <1> SUFFICES ASSUME Init PROVE Shape /\ Links
    BY DEF IInv
  <1>1. blocks \in Seq(Block) /\ DOMAIN blocks = {}
    BY EmptySeq, LenProperties DEF Init
  <1>2. Shape
    BY <1>1 DEF Init, Shape, Phases, FailReasons, None, FaultInit,
       FaultTypeOK, FaultModes, NoIdx
  <1>3. Links
    BY <1>1 DEF Init, Links, FreeableOwnsHeap, HookedIsTracked,
       HeaderLeadsBack, FreeableBlocks
  <1> QED
    BY <1>2, <1>3

\* The block whose record is refused is back with libc when control leaves.
LEMMA BlockReturned ==
    ASSUME Shape, NEW a \in Addr, MallocNoMemBlock(a)
    PROVE  AuditedCall /\ FaultPassed /\ Refuse("NOMEM")
  <1>1. heap' = heap
    BY DEF MallocNoMemBlock, Shape
  <1> QED
    BY <1>1 DEF MallocNoMemBlock, Refuse, heapVars

LEMMA MallocStep ==
    ASSUME IInv, HookMalloc
    PROVE  IInv'
  <1>1. CASE MallocPassed
    BY <1>1, MallocPassedStep DEF IInv
  <1>2. CASE MallocNoMemBase
    BY <1>2, RefuseIsQuiet DEF IInv, MallocNoMemBase, AuditedCall, FailReasons
  <1>3. ASSUME NEW a \in Addr, MallocNoMemBlock(a) PROVE IInv'
    BY <1>3, BlockReturned, RefuseIsQuiet DEF IInv, AuditedCall, FailReasons
  <1>4. ASSUME NEW a \in Addr, MallocTracked(a) PROVE IInv'
    BY <1>4, MallocTrackedStep DEF IInv
  <1> QED
    BY <1>1, <1>2, <1>3, <1>4 DEF HookMalloc

LEMMA StaleStep ==
    ASSUME IInv, NEW p \in Addr, FreeStale(p)
    PROVE  IInv'
  BY CrashIsQuiet DEF IInv, FreeStale, AuditedCall, Calling

LEMMA FreeStep ==
    ASSUME IInv, HookFree
    PROVE  IInv'
  <1>1. CASE FreePassed
    BY <1>1, FreePassedStep DEF IInv
  <1>2. CASE FreeOfNull
    BY <1>2, RefuseIsQuiet DEF IInv, FreeOfNull, AuditedCall, FailReasons,
       Misuses
  <1>3. ASSUME NEW p \in Addr, FreeRefused(p) PROVE IInv'
    <2>1. PICK outcome \in Outcomes(p) \ {"FREEABLE"} :
              Refuse(FreeVerdict[outcome])
      BY <1>3 DEF FreeRefused
    <2>2. FreeVerdict[outcome] \in FailReasons
      BY <2>1, OutcomeType DEF FreeVerdict, FailReasons, Misuses
    <2> QED
      BY <1>3, <2>1, <2>2, RefuseIsQuiet DEF IInv, FreeRefused, AuditedCall
  <1>4. ASSUME NEW p \in Addr, FreeTracked(p) PROVE IInv'
    BY <1>4, FreeTrackedStep DEF IInv
  <1> QED
    BY <1>1, <1>2, <1>3, <1>4, StaleStep DEF HookFree

LEMMA ReallocStep ==
    ASSUME IInv, HookRealloc, "realloc_block" \notin NoMemSites
    PROVE  IInv'
  <1>1. CASE ReallocPassed
    BY <1>1, ReallocPassedStep DEF IInv
  <1>2. CASE ReallocOfNull
    <2>1. CASE FaultPassed /\ Refuse("REALLOC_OF_NULL")
      BY <1>2, <2>1, RefuseIsQuiet DEF IInv, ReallocOfNull, AuditedCall,
         FailReasons, Misuses
    <2>2. CASE Crash
      BY <1>2, <2>2, CrashIsQuiet DEF IInv, ReallocOfNull, AuditedCall, Calling
    <2> QED
      BY <1>2, <2>1, <2>2 DEF ReallocOfNull
  <1>3. ASSUME NEW p \in Addr, ReallocRefused(p) PROVE IInv'
    <2>1. PICK outcome \in Outcomes(p) \ {"FREEABLE"} :
              Refuse(ReallocVerdict[outcome])
      BY <1>3 DEF ReallocRefused
    <2>2. ReallocVerdict[outcome] \in FailReasons
      BY <2>1, OutcomeType DEF ReallocVerdict, FailReasons, Misuses
    <2> QED
      BY <1>3, <2>1, <2>2, RefuseIsQuiet DEF IInv, ReallocRefused, AuditedCall
  <1>4. ASSUME NEW p \in Addr, ReallocNoMemBase(p) PROVE IInv'
    BY <1>4, QuietSteps DEF IInv
  <1>5. ASSUME NEW p \in Addr, ReallocStale(p) PROVE IInv'
    BY <1>5, StaleStep DEF ReallocStale
  <1>6. ASSUME NEW p \in Addr, NEW a \in Addr, ReallocTracked(p, a) PROVE IInv'
    BY <1>6, ReallocTrackedStep DEF IInv
  <1> QED
    BY <1>1, <1>2, <1>3, <1>4, <1>5, <1>6 DEF HookRealloc, ReallocNoMemBlock

LEMMA NextKeepsLinks ==
    ASSUME IInv, [Next]_vars, "realloc_block" \notin NoMemSites
    PROVE  IInv'
  <1>1. CASE HookMalloc
    BY <1>1, MallocStep
  <1>2. CASE HookFree
    BY <1>2, FreeStep
  <1>3. CASE HookRealloc
    BY <1>3, ReallocStep
  <1>4. CASE HookFaulted \/ UserFault \/ LeakcheckSet \/ FaultCheckingSet
             \/ AfterTest
    BY <1>4, QuietSteps DEF IInv
  <1>5. CASE BeforeTest
    BY <1>5, BeforeTestStep DEF IInv
  <1>6. CASE MainEnd
    BY <1>6, MainEndStep DEF IInv
  <1>7. CASE UNCHANGED vars
    <2>1. Quiet
      BY <1>7 DEF Quiet, vars, recordVars, heapVars
    <2>2. Shape'
      BY <1>7, FaultTypes DEF IInv, Shape, vars, recordVars, heapVars, modeVars
    <2> QED
      BY <2>1, <2>2, QuietKeepsLinks DEF IInv
  <1> QED
    BY <1>1, <1>2, <1>3, <1>4, <1>5, <1>6, <1>7 DEF Next

\* IInv holds of every reachable state.
THEOREM Invariance ==
    ASSUME "realloc_block" \notin NoMemSites
    PROVE  Spec => []IInv
  <1>1. Init => IInv
    BY InitLinks
  <1>2. IInv /\ [Next]_vars => IInv'
    BY NextKeepsLinks
  <1> QED
    BY <1>1, <1>2, PTL DEF Spec

\* Each record that can be freed owns a live block, whatever the program does.
THEOREM FreeableOwnsHeapThm ==
    ASSUME "realloc_block" \notin NoMemSites
    PROVE  Spec => []FreeableOwnsHeap
  <1>1. IInv => FreeableOwnsHeap
    BY DEF IInv, Links
  <1> QED
    BY <1>1, Invariance, PTL

LEMMA LedgerIsHooked ==
    ASSUME IInv, phase # "over"
    PROVE  FreeableHeaders = {a \in Addr : heap[a] = "hooked"}
  <1>1. \A b \in DOMAIN blocks : blocks[b].header \in Addr
    BY BlockType DEF IInv, Shape, Block
  <1>2. \A b \in FreeableBlocks : blocks[b].header \in Addr
                                  /\ heap[blocks[b].header] = "hooked"
    BY <1>1 DEF IInv, Links, FreeableOwnsHeap, FreeableBlocks
  <1>3. ASSUME NEW a \in Addr, heap[a] = "hooked"
        PROVE  a \in FreeableHeaders
    <2>1. header[a] \in FreeableBlocks /\ blocks[header[a]].header = a
      BY <1>3, ChecksPassed DEF IInv, FreeableBlocks
    <2> QED
      BY <2>1 DEF FreeableHeaders
  <1> QED
    BY <1>2, <1>3 DEF FreeableHeaders

\* The ledger and libc agree on what is outstanding.
THEOREM LedgerAgreesThm ==
    ASSUME "realloc_block" \notin NoMemSites
    PROVE  Spec => []LedgerAgrees
  <1>1. IInv => LedgerAgrees
    BY LedgerIsHooked DEF LedgerAgrees
  <1> QED
    BY <1>1, Invariance, PTL

\* While its record lives, a block given back cannot pass the checks again.
THEOREM DoubleFreeCaughtThm ==
    ASSUME "realloc_block" \notin NoMemSites
    PROVE  Spec => []DoubleFreeCaught
  <1>1. IInv => DoubleFreeCaught
    <2> SUFFICES ASSUME IInv, phase # "over",
                        NEW a \in Addr, heap[a] = "free",
                        header[a] \in DOMAIN blocks
                 PROVE  "FREEABLE" \notin Outcomes(a)
      BY DEF DoubleFreeCaught
    <2>1. ~Freeable(blocks[header[a]].flags)
      BY DEF IInv, Links, FreeableOwnsHeap, HeaderLeadsBack, FreeableBlocks
    <2>2. header[a] # None /\ header[a] # Gone
      BY BlockType DEF IInv, Shape, None, Gone
    <2> QED
      BY <2>1, <2>2 DEF Outcomes, FlagsOutcome
  <1> QED
    BY <1>1, Invariance, PTL
-----------------------------------------------------------------------------
(* The count of allocations *)

LEMMA FreeableIsFinite ==
    ASSUME Shape
    PROVE  IsFiniteSet(FreeableBlocks) /\ Cardinality(FreeableBlocks) \in Nat
  <1>1. FreeableBlocks \subseteq 1 .. Len(blocks) /\ Len(blocks) \in Nat
    BY BlockType DEF FreeableBlocks, Shape
  <1>2. IsFiniteSet(1 .. Len(blocks))
    BY <1>1, FS_Interval
  <1>3. IsFiniteSet(FreeableBlocks)
    BY <1>1, <1>2, FS_Subset
  <1> QED
    BY <1>3, FS_CardinalityType

LEMMA MallocCount ==
    ASSUME Shape, AllocationCount, NEW a \in Addr, MallocTracked(a)
    PROVE  AllocationCount'
  <1> DEFINE n == Len(blocks)
             e == NewBlock(a, "INITIAL", 0)
  <1>1. blocks' = Append(blocks, e) /\ total_allocations' = total_allocations + 1
    BY DEF MallocTracked
  <1>2. e \in Block /\ Freeable(e.flags)
    BY DEF NewBlock, Block, Flags, Freeable
  <1>3. n \in Nat /\ DOMAIN blocks = 1 .. n
    BY BlockType DEF Shape
  <1>4. /\ DOMAIN blocks' = 1 .. n + 1 /\ blocks'[n + 1] = e
        /\ \A i \in 1 .. n : blocks'[i] = blocks[i]
    BY <1>1, <1>2, AppendBlock DEF Shape
  <1> HIDE DEF n, e
  <1>5. FreeableBlocks' = FreeableBlocks \cup {n + 1} /\ n + 1 \notin FreeableBlocks
    BY <1>2, <1>3, <1>4 DEF FreeableBlocks
  <1> QED
    BY <1>1, <1>5, FreeableIsFinite, FS_AddElement DEF AllocationCount

LEMMA FreeCount ==
    ASSUME IInv, AllocationCount, NEW p \in Addr, FreeTracked(p)
    PROVE  AllocationCount'
  <1> DEFINE b == header[p]
             e == [blocks[b] EXCEPT !.flags = @ \cup {"FREED"}]
  <1>1. /\ heap[p] = "hooked" /\ phase # "over"
        /\ blocks' = [blocks EXCEPT ![b] = e]
        /\ total_allocations' = total_allocations - 1
    BY DEF FreeTracked, AuditedCall, Calling
  <1>2. b \in DOMAIN blocks /\ Freeable(blocks[b].flags)
    BY <1>1, ChecksPassed DEF IInv
  <1>3. /\ DOMAIN blocks = 1 .. Len(blocks)
        /\ blocks[b] \in Block
    BY <1>2, BlockType DEF IInv, Shape
  <1>4. e \in Block /\ ~Freeable(e.flags)
    BY <1>3 DEF Block, Flags, Freeable
  <1>5. /\ DOMAIN blocks' = DOMAIN blocks /\ blocks'[b] = e
        /\ \A i \in DOMAIN blocks : i # b => blocks'[i] = blocks[i]
    BY <1>1, <1>2, <1>3, <1>4, ReplaceBlock DEF IInv, Shape
  <1> HIDE DEF b, e
  <1>6. FreeableBlocks' = FreeableBlocks \ {b} /\ b \in FreeableBlocks
    BY <1>2, <1>4, <1>5 DEF FreeableBlocks
  <1> QED
    BY <1>1, <1>6, FreeableIsFinite, FS_RemoveElement DEF AllocationCount, IInv

LEMMA ReallocCount ==
    ASSUME IInv, AllocationCount, NEW p \in Addr, NEW a \in Addr,
           ReallocTracked(p, a)
    PROVE  AllocationCount'
  <1> DEFINE n == Len(blocks)
             b == header[p]
             old == Superseded(blocks[b], n + 1)
             new == NewBlock(a, "REALLOC_NEW", b)
             mid == [blocks EXCEPT ![b] = old]
  <1>1. /\ heap[p] = "hooked" /\ phase # "over"
        /\ blocks' = Append(mid, new)
        /\ total_allocations' = total_allocations
    BY DEF ReallocTracked, Resizing, AuditedCall, Calling
  <1>2. b \in DOMAIN blocks /\ Freeable(blocks[b].flags)
    BY <1>1, ChecksPassed DEF IInv
  <1>3. n \in Nat /\ DOMAIN blocks = 1 .. n /\ blocks[b] \in Block
    BY <1>2, BlockType DEF IInv, Shape
  <1>4. old \in Block /\ ~Freeable(old.flags)
    <2>1. n + 1 \in Nat
      BY <1>3
    <2> HIDE DEF n, b
    <2> QED
      BY <1>3, <2>1, SupersededType
  <1>5. new \in Block /\ Freeable(new.flags)
    BY <1>2, <1>3 DEF NewBlock, Block, Flags, Freeable
  <1>6. /\ mid \in Seq(Block) /\ Len(mid) = n /\ mid[b] = old
        /\ \A i \in 1 .. n : i # b => mid[i] = blocks[i]
    BY <1>2, <1>3, <1>4, ReplaceBlock DEF IInv, Shape
  <1> HIDE DEF n, b, old, new, mid
  <1>7. /\ DOMAIN blocks' = 1 .. n + 1
        /\ blocks'[n + 1] = new /\ blocks'[b] = old
        /\ \A i \in 1 .. n : i # b => blocks'[i] = blocks[i]
    BY <1>1, <1>2, <1>3, <1>5, <1>6, AppendBlock
  <1>8. /\ FreeableBlocks' = (FreeableBlocks \ {b}) \cup {n + 1}
        /\ b \in FreeableBlocks /\ n + 1 \notin FreeableBlocks
    BY <1>2, <1>3, <1>4, <1>5, <1>7 DEF FreeableBlocks
  <1>9. /\ IsFiniteSet(FreeableBlocks \ {b})
        /\ Cardinality(FreeableBlocks \ {b}) = Cardinality(FreeableBlocks) - 1
        /\ Cardinality(FreeableBlocks) \in Nat
    BY <1>8, FreeableIsFinite, FS_RemoveElement DEF IInv
  <1>10. Cardinality(FreeableBlocks') = Cardinality(FreeableBlocks \ {b}) + 1
    BY <1>8, <1>9, FS_AddElement
  <1> QED
    BY <1>1, <1>9, <1>10 DEF AllocationCount

\* Every other step leaves the records and their count alone, or drops both.
LEMMA OtherCount ==
    ASSUME IInv, AllocationCount, [Next]_vars,
           \A a \in Addr : ~MallocTracked(a),
           \A p \in Addr : ~FreeTracked(p),
           \A p, a \in Addr : ~ReallocTracked(p, a)
    PROVE  AllocationCount'
  <1>1. \/ UNCHANGED <<blocks, total_allocations>>
        \/ blocks' = <<>> /\ total_allocations' = 0
    <2>1. CASE HookMalloc
      BY <2>1 DEF HookMalloc, MallocPassed, FallThroughCounted,
         MallocNoMemBase, MallocNoMemBlock, Refuse, recordVars
    <2>2. CASE HookFree
      BY <2>2 DEF HookFree, FreePassed, FreeOfNull, FreeRefused, FreeStale,
         Refuse, Crash, recordVars
    <2>3. CASE HookRealloc
      BY <2>3 DEF HookRealloc, ReallocPassed, FallThroughCounted,
         ReallocOfNull, ReallocRefused, ReallocNoMemBase, ReallocNoMemBlock,
         ReallocStale, FreeStale, Refuse, Crash, recordVars
    <2>4. CASE BeforeTest \/ MainEnd
      BY <2>4 DEF BeforeTest, MainEnd, Crash, recordVars
    <2>5. CASE HookFaulted \/ UserFault \/ LeakcheckSet \/ FaultCheckingSet
               \/ AfterTest \/ UNCHANGED vars
      BY <2>5 DEF HookFaulted, UserFault, LeakcheckSet, FaultCheckingSet,
         AfterTest, vars, recordVars
    <2> QED
      BY <2>1, <2>2, <2>3, <2>4, <2>5 DEF Next
  <1>2. CASE UNCHANGED <<blocks, total_allocations>>
    BY <1>2 DEF AllocationCount, FreeableBlocks
  <1>3. CASE blocks' = <<>> /\ total_allocations' = 0
    <2>1. DOMAIN blocks' = {}
      BY <1>3, EmptySeq, LenProperties
    <2>2. FreeableBlocks' = {}
      BY <2>1 DEF FreeableBlocks
    <2> QED
      BY <1>3, <2>2, FS_EmptySet DEF AllocationCount
  <1> QED
    BY <1>1, <1>2, <1>3

\* total_allocations is the number of blocks in use.
THEOREM AllocationCountThm ==
    ASSUME "realloc_block" \notin NoMemSites
    PROVE  Spec => []AllocationCount
  <1>1. Init => AllocationCount
    <2> SUFFICES ASSUME Init PROVE AllocationCount
      OBVIOUS
    <2>1. blocks = <<>> /\ DOMAIN blocks = {} /\ total_allocations = 0
      BY EmptySeq, LenProperties DEF Init
    <2>2. FreeableBlocks = {}
      BY <2>1 DEF FreeableBlocks
    <2> QED
      BY <2>1, <2>2, FS_EmptySet DEF AllocationCount
  <1>2. IInv /\ AllocationCount /\ [Next]_vars => AllocationCount'
    BY MallocCount, FreeCount, ReallocCount, OtherCount DEF IInv
  <1> QED
    BY <1>1, <1>2, Invariance, PTL DEF Spec

\* Type correctness; total_allocations never goes below zero.
THEOREM TypeCorrect ==
    ASSUME "realloc_block" \notin NoMemSites
    PROVE  Spec => []TypeOK
  <1>1. IInv /\ AllocationCount => TypeOK
    BY FreeableIsFinite DEF IInv, Shape, TypeOK, AllocationCount
  <1> QED
    BY <1>1, Invariance, AllocationCountThm, PTL
-----------------------------------------------------------------------------
(* Legal programs *)

LegalInv == NeverCrashes /\ NeverAccused

\* The pointer a legal program passes to a checked call is found freeable.
LEMMA LegalOutcome ==
    ASSUME IInv, LegalUse, AuditedCall, NEW p \in Addr, Usable(p)
    PROVE  heap[p] = "hooked" /\ Outcomes(p) = {"FREEABLE"}
  <1>1. heap[p] = "hooked" /\ phase # "over"
    BY NullAssumption DEF Usable, AuditedCall, Calling
  <1>2. header[p] \in DOMAIN blocks /\ Freeable(blocks[header[p]].flags)
    BY <1>1, ChecksPassed DEF IInv
  <1>3. header[p] # None /\ header[p] # Gone
    BY <1>2, BlockType DEF IInv, Shape, None, Gone
  <1> QED
    BY <1>1, <1>2, <1>3 DEF Outcomes, FlagsOutcome, Freeable

LEMMA LegalStep ==
    ASSUME IInv, LegalUse, LegalInv, [Next]_vars
    PROVE  LegalInv'
  <1> SUFFICES phase' # "crashed" /\ fail_reason' \notin Misuses
    BY DEF LegalInv, NeverCrashes, NeverAccused
  <1>0. phase # "crashed" /\ fail_reason \notin Misuses
    BY DEF LegalInv, NeverCrashes, NeverAccused
  <1>1. CASE HookMalloc
    BY <1>0, <1>1 DEF HookMalloc, MallocPassed, FallThroughCounted,
       MallocNoMemBase, MallocNoMemBlock, MallocTracked, AuditedCall, Calling, Refuse,
       LeakcheckError, LongjmpExec, Misuses
  <1>2. CASE HookFree
    <2>1. CASE FreePassed
      BY <1>0, <2>1, NullAssumption DEF FreePassed, PassedCall, Usable
    <2>2. ~FreeOfNull
      BY NullAssumption DEF FreeOfNull, Usable, AuditedCall
    <2>3. ASSUME NEW p \in Addr PROVE ~FreeRefused(p) /\ ~FreeStale(p)
      BY LegalOutcome DEF FreeRefused, FreeStale
    <2>4. ASSUME NEW p \in Addr, FreeTracked(p)
          PROVE  phase' # "crashed" /\ fail_reason' \notin Misuses
      BY <1>0, <2>4 DEF FreeTracked
    <2> QED
      BY <1>2, <2>1, <2>2, <2>3, <2>4 DEF HookFree
  <1>3. CASE HookRealloc
    <2>1. CASE ReallocPassed
      BY <1>0, <2>1, NullAssumption DEF ReallocPassed, PassedCall, Usable,
         FallThroughCounted
    <2>2. ~ReallocOfNull
      BY NullAssumption DEF ReallocOfNull, Usable, AuditedCall
    <2>3. ASSUME NEW p \in Addr PROVE ~ReallocRefused(p) /\ ~ReallocStale(p)
      BY LegalOutcome DEF ReallocRefused, ReallocStale, FreeStale
    <2>4. ASSUME NEW p \in Addr, NEW a \in Addr,
                 \/ ReallocNoMemBase(p) \/ ReallocNoMemBlock(p, a)
                 \/ ReallocTracked(p, a)
          PROVE  phase' # "crashed" /\ fail_reason' \notin Misuses
      BY <1>0, <2>4 DEF ReallocNoMemBase, ReallocNoMemBlock, ReallocTracked,
         Resizing, AuditedCall, Calling, LongjmpExec, LeakcheckError, Misuses
    <2> QED
      BY <1>3, <2>1, <2>2, <2>3, <2>4 DEF HookRealloc
  <1>4. CASE BeforeTest \/ MainEnd
    BY <1>0, <1>4, DestroyIsDefined DEF BeforeTest, MainEnd, IInv, Misuses
  <1>5. CASE HookFaulted \/ UserFault \/ LeakcheckSet \/ FaultCheckingSet
             \/ AfterTest \/ UNCHANGED vars
    BY <1>0, <1>5 DEF HookFaulted, UserFault, LeakcheckSet, FaultCheckingSet,
       AfterTest, LeakcheckError, vars, Misuses
  <1> QED
    BY <1>1, <1>2, <1>3, <1>4, <1>5 DEF Next

LEMMA LegalInvariance ==
    ASSUME "realloc_block" \notin NoMemSites
    PROVE  Spec => []LegalInv
  <1>1. Init => LegalInv
    BY DEF Init, LegalInv, NeverCrashes, NeverAccused, Misuses
  <1>2. IInv /\ LegalInv /\ [Next]_vars => LegalInv'
    BY LegalStep, UseAssumption DEF LegalInv, NeverCrashes, NeverAccused
  <1> QED
    BY <1>1, <1>2, Invariance, PTL DEF Spec

\* A program that makes only legal calls is never brought down by the checker.
THEOREM NeverCrashesThm ==
    ASSUME "realloc_block" \notin NoMemSites
    PROVE  Spec => []NeverCrashes
  <1>1. LegalInv => NeverCrashes
    BY DEF LegalInv
  <1> QED
    BY <1>1, LegalInvariance, PTL

\* Nor is it ever accused of misusing a pointer.
THEOREM NeverAccusedThm ==
    ASSUME "realloc_block" \notin NoMemSites
    PROVE  Spec => []NeverAccused
  <1>1. LegalInv => NeverAccused
    BY DEF LegalInv
  <1> QED
    BY <1>1, LegalInvariance, PTL

-----------------------------------------------------------------------------
(* LeakCheck implements HeapLedger, and what follows for the verdict on a    *)
(* test.  By the invariant the blocks the records call freeable are those    *)
(* libc holds as hooked, so each step is followed on libc's heap alone.      *)
(* Then the chain of reallocations and the counters of the calls.            *)

Hooked == {a \in Addr : heap[a] = "hooked"}

\* While a test runs there is no verdict of a leak.
Unjudged == phase \in {"test", "jumped"} => fail_reason # "LEAKED"

\* The invariant in the states before and after a step.
Sound == IInv /\ Unjudged

\* A step that neither HeapLedger nor the verdict can see.
Invisible == /\ phase' = phase
             /\ phase \in {"outside", "test"}
             /\ Hooked' = Hooked
             /\ UNCHANGED <<test_leak_checking, fail_reason>>

\* A step that ends the test body early, or the program.
Ejects == /\ phase \in {"outside", "test"}
          /\ phase' = IF phase = "test" THEN "jumped" ELSE "crashed"
          /\ heap' = heap
          /\ blocks' = blocks
          /\ fail_reason' # "LEAKED" \/ fail_reason' = fail_reason
          /\ UNCHANGED test_leak_checking

LEMMA RefuseEjects ==
    ASSUME Calling, NEW reason, reason # "LEAKED", Refuse(reason)
    PROVE  Ejects
  BY DEF Calling, Refuse, LeakcheckError, LongjmpExec, Ejects, heapVars,
     recordVars, modeVars

\* A bad pointer has one of the verdicts of misuse.
LEMMA VerdictIsMisuse ==
    ASSUME NEW p, NEW outcome \in Outcomes(p) \ {"FREEABLE"}
    PROVE  FreeVerdict[outcome] # "LEAKED" /\ ReallocVerdict[outcome] # "LEAKED"
  BY OutcomeType DEF FreeVerdict, ReallocVerdict

LEMMA RawIsInvisible ==
    ASSUME Shape, NEW p \in Addr \cup {NULL}, p = NULL \/ heap[p] = "raw",
           PassedCall, RawBlock(p), FallThroughCounted
    PROVE  Invisible
  <1>1. Untracked
    BY RawBlockUntracked
  <1> QED
    BY <1>1 DEF Untracked, Invisible, Hooked, PassedCall, Calling,
       FallThroughCounted, modeVars

\* What a call of a hook does to the ledger, if it does not crash.
HookEffect ==
    \/ Invisible
    \/ Ejects
    \/ Crash /\ phase # "over"
    \/ /\ phase' = phase
       /\ phase \in {"outside", "test"}
       /\ UNCHANGED <<test_leak_checking, fail_reason>>
       /\ \/ \E a \in Addr \ Hooked : Hooked' = Hooked \cup {a}
          \/ \E a \in Hooked : Hooked' = Hooked \ {a}
          \/ \E p \in Hooked : \E a \in Addr \ (Hooked \ {p}) :
                Hooked' = (Hooked \ {p}) \cup {a}

LEMMA HookMallocEffect ==
    ASSUME IInv, HookMalloc
    PROVE  HookEffect
  <1>1. CASE MallocPassed
    BY <1>1, RawIsInvisible DEF MallocPassed, IInv, HookEffect
  <1>2. CASE MallocNoMemBase
    BY <1>2, RefuseEjects DEF MallocNoMemBase, AuditedCall, HookEffect
  <1>3. ASSUME NEW a \in Addr, MallocNoMemBlock(a) PROVE HookEffect
    BY <1>3, BlockReturned, RefuseEjects DEF IInv, AuditedCall, HookEffect
  <1>4. ASSUME NEW a \in Addr, MallocTracked(a) PROVE HookEffect
    <2>1. a \notin Hooked /\ Hooked' = Hooked \cup {a}
      BY <1>4 DEF MallocTracked, Hooked, IInv, Shape
    <2> QED
      BY <1>4, <2>1 DEF MallocTracked, AuditedCall, Calling, HookEffect, modeVars
  <1> QED
    BY <1>1, <1>2, <1>3, <1>4 DEF HookMalloc

LEMMA HookFreeEffect ==
    ASSUME IInv, HookFree
    PROVE  HookEffect
  <1>1. CASE FreePassed
    <2>1. PICK p \in Addr :
             IF heap[p] = "raw"
             THEN /\ heap' = [heap EXCEPT ![p] = "free"]
                  /\ UNCHANGED <<phase, modeVars, fail_reason>>
             ELSE Crash
      BY <1>1 DEF FreePassed
    <2>2. CASE heap[p] = "raw"
      BY <1>1, <2>1, <2>2 DEF FreePassed, PassedCall, Calling, HookEffect,
         Invisible, Hooked, IInv, Shape, modeVars
    <2> QED
      BY <1>1, <2>1, <2>2 DEF FreePassed, PassedCall, Calling, HookEffect
  <1>2. CASE FreeOfNull
    BY <1>2, RefuseEjects DEF FreeOfNull, AuditedCall, HookEffect
  <1>3. ASSUME NEW p \in Addr, FreeRefused(p) PROVE HookEffect
    BY <1>3, RefuseEjects, VerdictIsMisuse DEF FreeRefused, AuditedCall, HookEffect
  <1>4. ASSUME NEW p \in Addr, FreeTracked(p) PROVE HookEffect
    <2>1. p \in Hooked /\ Hooked' = Hooked \ {p}
      BY <1>4 DEF FreeTracked, Hooked, IInv, Shape
    <2> QED
      BY <1>4, <2>1 DEF FreeTracked, AuditedCall, Calling, HookEffect, modeVars
  <1>5. ASSUME NEW p \in Addr, FreeStale(p) PROVE HookEffect
    BY <1>5 DEF FreeStale, AuditedCall, Calling, HookEffect
  <1> QED
    BY <1>1, <1>2, <1>3, <1>4, <1>5 DEF HookFree

LEMMA HookReallocEffect ==
    ASSUME IInv, HookRealloc, "realloc_block" \notin NoMemSites
    PROVE  HookEffect
  <1>1. CASE ReallocPassed
    <2>1. PICK p \in Addr \cup {NULL} :
             IF p = NULL \/ heap[p] = "raw"
             THEN RawBlock(p) /\ FallThroughCounted
             ELSE Crash
      BY <1>1 DEF ReallocPassed
    <2>2. CASE p = NULL \/ heap[p] = "raw"
      BY <1>1, <2>1, <2>2, RawIsInvisible DEF ReallocPassed, IInv, HookEffect
    <2> QED
      BY <1>1, <2>1, <2>2 DEF ReallocPassed, PassedCall, Calling, HookEffect
  <1>2. CASE ReallocOfNull
    BY <1>2, RefuseEjects DEF ReallocOfNull, AuditedCall, Calling, HookEffect
  <1>3. ASSUME NEW p \in Addr, ReallocRefused(p) PROVE HookEffect
    BY <1>3, RefuseEjects, VerdictIsMisuse DEF ReallocRefused, AuditedCall, HookEffect
  <1>4. ASSUME NEW p \in Addr, ReallocNoMemBase(p) PROVE HookEffect
    BY <1>4 DEF ReallocNoMemBase, Resizing, AuditedCall, Calling, LongjmpExec,
       HookEffect, Ejects, heapVars, recordVars, modeVars
  <1>5. ASSUME NEW p \in Addr, ReallocStale(p) PROVE HookEffect
    BY <1>5 DEF ReallocStale, FreeStale, AuditedCall, Calling, HookEffect
  <1>6. ASSUME NEW p \in Addr, NEW a \in Addr, ReallocTracked(p, a)
        PROVE  HookEffect
    <2>1. p \in Hooked /\ a \in Addr \ (Hooked \ {p})
      BY <1>6 DEF ReallocTracked, Resizing, Hooked
    <2>2. Hooked' = (Hooked \ {p}) \cup {a}
      BY <1>6 DEF ReallocTracked, Hooked, IInv, Shape
    <2> QED
      BY <1>6, <2>1, <2>2 DEF ReallocTracked, Resizing, AuditedCall, Calling,
         HookEffect, modeVars
  <1> QED
    BY <1>1, <1>2, <1>3, <1>4, <1>5, <1>6 DEF HookRealloc, ReallocNoMemBlock
-----------------------------------------------------------------------------
(* The refinement *)

\* What the ledger calls outstanding, and what it is.
Outstanding == IF phase = "over" THEN {} ELSE FreeableHeaders
OutstandingIsHooked == Outstanding = IF phase = "over" THEN {} ELSE Hooked

LEMMA OutstandingNow == IInv => OutstandingIsHooked
  BY LedgerIsHooked DEF OutstandingIsHooked, Outstanding, Hooked

LEMMA OutstandingThen == IInv' => OutstandingIsHooked'
  BY OutstandingNow, PTL

LEMMA SameRecords ==
    ASSUME blocks' = blocks PROVE FreeableHeaders' = FreeableHeaders
  BY DEF FreeableHeaders, FreeableBlocks

LEMMA HookRefines ==
    ASSUME Sound, IInv', HookEffect
    PROVE  Unjudged' /\ (Ledger!Next \/ UNCHANGED Ledger!ledger)
  <1> USE DEF Ledger!ledger, Ledger!Next, Ledger!Active
  <1>1. OutstandingIsHooked /\ OutstandingIsHooked'
    BY OutstandingNow, OutstandingThen DEF Sound
  <1>2. CASE Invisible
    <2>1. Outstanding' = Outstanding
      BY <1>1, <1>2 DEF OutstandingIsHooked, Invisible
    <2> QED
      BY <1>2, <2>1 DEF Invisible, Outstanding, Sound, Unjudged
  <1>3. CASE Ejects
    <2>1. FreeableHeaders' = FreeableHeaders
      BY <1>3, SameRecords DEF Ejects
    <2>2. CASE phase = "test"
      BY <1>3, <2>1, <2>2 DEF Ejects, Sound, Unjudged
    <2>3. CASE phase = "outside"
      BY <1>3, <2>1, <2>3 DEF Ejects, Unjudged, Ledger!Abort
    <2> QED
      BY <1>3, <2>2, <2>3 DEF Ejects
  <1>4. CASE Crash /\ phase # "over"
    <2>1. FreeableHeaders' = FreeableHeaders
      BY <1>4, SameRecords DEF Crash, recordVars
    <2> QED
      BY <1>4, <2>1 DEF Crash, modeVars, Unjudged, Ledger!Abort
  <1>5. CASE /\ phase' = phase
             /\ phase \in {"outside", "test"}
             /\ UNCHANGED <<test_leak_checking, fail_reason>>
             /\ \/ \E a \in Addr \ Hooked : Hooked' = Hooked \cup {a}
                \/ \E a \in Hooked : Hooked' = Hooked \ {a}
                \/ \E q \in Hooked : \E a \in Addr \ (Hooked \ {q}) :
                      Hooked' = (Hooked \ {q}) \cup {a}
    <2>1. FreeableHeaders = Hooked /\ FreeableHeaders' = Hooked'
      BY <1>1, <1>5 DEF OutstandingIsHooked, Outstanding
    <2>2. Ledger!Active /\ Unjudged'
      BY <1>5 DEF Sound, Unjudged
    <2>3. \/ \E a \in Addr \ Hooked : Hooked' = Hooked \cup {a}
          \/ \E a \in Hooked : Hooked' = Hooked \ {a}
          \/ \E q \in Hooked : \E a \in Addr \ (Hooked \ {q}) :
                Hooked' = (Hooked \ {q}) \cup {a}
      BY <1>5
    <2>4. Ledger!Alloc \/ Ledger!Free \/ Ledger!Move
      BY <1>5, <2>1, <2>2, <2>3 DEF Ledger!Alloc, Ledger!Free, Ledger!Move
    <2> QED
      BY <2>2, <2>4
  <1> QED
    BY <1>2, <1>3, <1>4, <1>5 DEF HookEffect

LEMMA RunnerRefines ==
    ASSUME Sound, IInv', BeforeTest \/ AfterTest \/ MainEnd
    PROVE  Unjudged' /\ (Ledger!Next \/ UNCHANGED Ledger!ledger)
  <1> USE DEF Ledger!ledger, Ledger!Next
  <1>1. OutstandingIsHooked /\ OutstandingIsHooked'
    BY OutstandingNow, OutstandingThen DEF Sound
  <1>2. CASE BeforeTest
    <2>1. /\ phase = "outside" /\ phase' = "test" /\ fail_reason' = "PASS"
          /\ UNCHANGED test_leak_checking /\ heap' = HeapAfterDestroy
      BY <1>2, DestroyIsDefined DEF BeforeTest, Sound, IInv, modeVars
    <2>2. Hooked' = {}
      BY <2>1, DestroyIsDefined DEF Hooked, Sound, IInv
    <2>3. FreeableHeaders' = {}
      BY <1>1, <2>1, <2>2 DEF OutstandingIsHooked, Outstanding
    <2> QED
      BY <2>1, <2>3 DEF Unjudged, Ledger!Begin
  <1>3. CASE AfterTest
    <2>1. FreeableHeaders' = FreeableHeaders
      BY <1>3, SameRecords DEF AfterTest, recordVars
    <2>2. HasLeaks <=> FreeableHeaders # {}
      BY DEF HasLeaks, FreeableHeaders
    <2>3. /\ phase \in {"test", "jumped"} /\ phase' = "outside"
          /\ fail_reason' = "LEAKED" <=> test_leak_checking /\ HasLeaks
          /\ UNCHANGED test_leak_checking
      BY <1>3 DEF AfterTest, LeakcheckError, Sound, Unjudged, modeVars
    <2> QED
      BY <2>1, <2>2, <2>3 DEF Unjudged, Ledger!End
  <1>4. CASE MainEnd
    <2>1. /\ phase = "outside" /\ phase' = "over"
          /\ UNCHANGED <<test_leak_checking, fail_reason>>
      BY <1>4, DestroyIsDefined DEF MainEnd, Sound, IInv, modeVars
    <2> QED
      BY <2>1 DEF Unjudged, Ledger!Finish
  <1> QED
    BY <1>2, <1>3, <1>4

LEMMA NextRefines ==
    ASSUME Sound, IInv', [Next]_vars, "realloc_block" \notin NoMemSites
    PROVE  Unjudged' /\ [Ledger!Next]_(Ledger!ledger)
  <1>1. CASE HookMalloc \/ HookFree \/ HookRealloc
    BY <1>1, HookMallocEffect, HookFreeEffect, HookReallocEffect, HookRefines
       DEF Sound
  <1>2. CASE BeforeTest \/ AfterTest \/ MainEnd
    BY <1>2, RunnerRefines
  <1>3. CASE HookFaulted \/ UserFault \/ FaultCheckingSet
    <2>1. Invisible
      BY <1>3 DEF HookFaulted, UserFault, FaultCheckingSet, Calling, Invisible,
         Hooked, heapVars, modeVars
    <2> QED
      BY <2>1, HookRefines DEF HookEffect
  <1>4. CASE LeakcheckSet
    <2>1. FreeableHeaders' = FreeableHeaders
      BY <1>4, SameRecords DEF LeakcheckSet, recordVars
    <2> QED
      BY <1>4, <2>1 DEF LeakcheckSet, Sound, Unjudged, Ledger!ledger,
         Ledger!Next, Ledger!Active, Ledger!Toggle
  <1>5. CASE UNCHANGED vars
    <2>1. FreeableHeaders' = FreeableHeaders
      BY <1>5, SameRecords DEF vars, recordVars
    <2> QED
      BY <1>5, <2>1 DEF vars, modeVars, Sound, Unjudged, Ledger!ledger
  <1> QED
    BY <1>1, <1>2, <1>3, <1>4, <1>5 DEF Next

LEMMA SoundInvariance ==
    ASSUME "realloc_block" \notin NoMemSites
    PROVE  Spec => []Sound
  <1>1. Init => Unjudged
    BY DEF Init, Unjudged
  <1>2. Sound /\ IInv' /\ [Next]_vars => Unjudged'
    BY NextRefines
  <1> QED
    BY <1>1, <1>2, Invariance, PTL DEF Spec, Sound

\* The leak checker implements the ledger: blocks are outstanding from the
\* call that returns them to the call that takes them back, and the verdict at
\* the end of a test is the ledger's.
THEOREM ImplementsLedgerThm ==
    ASSUME "realloc_block" \notin NoMemSites
    PROVE  Spec => ImplementsLedger
  <1>1. Init => Ledger!Init
    BY OutstandingNow, InitLinks
       DEF Init, Ledger!Init, OutstandingIsHooked, Outstanding, Hooked
  <1>2. Sound /\ IInv' /\ [Next]_vars => [Ledger!Next]_(Ledger!ledger)
    BY NextRefines
  <1> QED
    BY <1>1, <1>2, SoundInvariance, Invariance, PTL
       DEF Spec, ImplementsLedger, Ledger!Spec

\* A test is found leaking exactly when it is audited and a block the hooks
\* handed out has not come back to libc.
THEOREM LeakVerdictThm ==
    ASSUME "realloc_block" \notin NoMemSites
    PROVE  Spec => LeakVerdict
  <1> DEFINE Claim ==
        phase' = "outside" /\ phase # "outside" =>
            (fail_reason' = "LEAKED"
               <=> test_leak_checking /\ \E a \in Addr : heap[a] = "hooked")
  <1>1. Sound /\ IInv' /\ [Next]_vars => Claim
    <2> SUFFICES ASSUME Sound, IInv', [Next]_vars,
                        phase' = "outside", phase # "outside"
                 PROVE  fail_reason' = "LEAKED"
                          <=> test_leak_checking /\ Hooked # {}
      BY DEF Hooked
    <2>1. ~HookEffect
      BY DEF HookEffect, Invisible, Ejects, Crash
    <2>2. AfterTest
      BY <2>1, HookMallocEffect, HookFreeEffect, HookReallocEffect
         DEF Next, Sound, HookFaulted, UserFault, LeakcheckSet, FaultCheckingSet,
             BeforeTest, MainEnd, Crash, vars
    <2>3. HasLeaks <=> Hooked # {}
      BY <2>2, LedgerIsHooked DEF AfterTest, HasLeaks, FreeableHeaders, Hooked, Sound
    <2> QED
      BY <2>2, <2>3 DEF AfterTest, LeakcheckError, Sound, Unjudged
  <1>2. LeakVerdict <=> [][Claim]_vars
    BY DEF LeakVerdict
  <1> HIDE DEF Claim
  <1> QED
    BY <1>1, <1>2, SoundInvariance, Invariance, PTL DEF Spec
-----------------------------------------------------------------------------
(* Two more invariants of LeakCheck: the records of one reallocated block    *)
(* form a chain, and the fault injector is asked at least as often as the    *)
(* checker counts a call.                                                    *)

\* Every step but the reset changes the counters together: the checker counts
\* at most one call, and then the injector has counted it too.
CountedTogether ==
    \/ total_calls' = total_calls /\ fault_calls' \in {fault_calls, fault_calls + 1}
    \/ total_calls' = total_calls + 1 /\ fault_calls' = fault_calls + 1
    \/ total_calls' = 0

LEMMA FaultsCount ==
    ASSUME FaultInjected \/ FaultPassed
    PROVE  fault_calls' \in {fault_calls, fault_calls + 1}
  BY DEF FaultInjected, FaultPassed

LEMMA CrashCounts ==
    ASSUME Crash
    PROVE  CountedTogether
  BY DEF Crash, CountedTogether, recordVars, faultVars

LEMMA RefuseCounts ==
    ASSUME NEW reason, Refuse(reason), FaultPassed \/ UNCHANGED faultVars
    PROVE  CountedTogether
  BY FaultsCount DEF Refuse, CountedTogether, recordVars, faultVars

LEMMA PassedCounts ==
    ASSUME FallThroughCounted
    PROVE  CountedTogether
  BY DEF FallThroughCounted, CountedTogether, FaultPassed, faultVars

LEMMA HooksCount ==
    ASSUME HookMalloc \/ HookFree \/ HookRealloc
    PROVE  CountedTogether
  <1>1. CASE HookMalloc
    BY <1>1, PassedCounts, RefuseCounts
       DEF HookMalloc, MallocPassed, MallocNoMemBase, MallocNoMemBlock,
           MallocTracked, recordVars, CountedTogether, FaultPassed
  <1>2. CASE HookFree
    <2>1. CASE FreePassed
      BY <2>1, CrashCounts DEF FreePassed, CountedTogether, recordVars, faultVars
    <2>2. CASE FreeOfNull \/ \E p \in Addr : FreeRefused(p)
      BY <2>2, RefuseCounts DEF FreeOfNull, FreeRefused
    <2>3. CASE \E p \in Addr : FreeTracked(p) \/ FreeStale(p)
      BY <2>3, CrashCounts DEF FreeTracked, FreeStale, CountedTogether, faultVars
    <2> QED
      BY <1>2, <2>1, <2>2, <2>3 DEF HookFree
  <1>3. CASE HookRealloc
    <2>1. CASE ReallocPassed
      BY <2>1, PassedCounts, CrashCounts DEF ReallocPassed
    <2>2. CASE ReallocOfNull \/ \E p \in Addr : ReallocRefused(p)
      BY <2>2, RefuseCounts, CrashCounts DEF ReallocOfNull, ReallocRefused
    <2>3. CASE \E p \in Addr : ReallocNoMemBase(p) \/ ReallocStale(p)
      BY <2>3, FaultsCount, CrashCounts
         DEF ReallocNoMemBase, ReallocStale, FreeStale, Resizing,
             CountedTogether, recordVars
    <2>4. CASE \E p, a \in Addr : ReallocNoMemBlock(p, a) \/ ReallocTracked(p, a)
      BY <2>4, FaultsCount
         DEF ReallocNoMemBlock, ReallocTracked, Resizing, CountedTogether,
             recordVars, FaultPassed
    <2> QED
      BY <1>3, <2>1, <2>2, <2>3, <2>4 DEF HookRealloc
  <1> QED
    BY <1>1, <1>2, <1>3

LEMMA NextCounts ==
    ASSUME [Next]_vars
    PROVE  CountedTogether
  <1>1. CASE HookFaulted \/ UserFault
    BY <1>1, FaultsCount DEF HookFaulted, UserFault, CountedTogether, recordVars
  <1>2. CASE LeakcheckSet \/ FaultCheckingSet \/ AfterTest \/ UNCHANGED vars
    BY <1>2 DEF LeakcheckSet, FaultCheckingSet, FaultSet, AfterTest, vars,
       CountedTogether, recordVars, faultVars
  <1>3. CASE BeforeTest \/ MainEnd
    BY <1>3, CrashCounts DEF BeforeTest, MainEnd, CountedTogether, recordVars,
       faultVars
  <1> QED
    BY <1>1, <1>2, <1>3, HooksCount DEF Next

\* The counters as numbers, in whatever state libc leaves the heap.
CountersOK == total_calls \in Nat /\ FaultTypeOK

LEMMA NextKeepsCounters ==
    ASSUME CountersOK, [Next]_vars
    PROVE  CountersOK'
  <1>1. total_calls' \in Nat
    BY NextCounts DEF CountersOK, CountedTogether
  <1>2. FaultTypeOK'
    <2>1. \/ FaultInjected \/ FaultPassed \/ UNCHANGED faultVars
          \/ ArmRun \/ \E mode \in FaultModes : FaultSet(mode)
      BY DEF Next, HookMalloc, HookFree, HookRealloc, HookFaulted, UserFault,
         LeakcheckSet, FaultCheckingSet, BeforeTest, AfterTest, MainEnd, vars,
         MallocPassed, FallThroughCounted, MallocNoMemBase, MallocNoMemBlock,
         MallocTracked, FreePassed, FreeOfNull, FreeRefused, FreeTracked, FreeStale, Crash,
         ReallocPassed, ReallocOfNull, ReallocRefused, ReallocNoMemBase,
         ReallocStale, ReallocNoMemBlock, ReallocTracked, Resizing
    <2> QED
      BY <2>1, FaultTypes, BoundAssumption DEF CountersOK, ArmRun, FaultArm,
         FaultSet, FaultTypeOK, FaultModes, faultVars, NoIdx
  <1> QED
    BY <1>1, <1>2 DEF CountersOK

\* Every call the checker counts was offered to the fault injector, also when
\* libc refuses memory and whatever the program does to the modes.
THEOREM InjectionCoversCallsThm == Spec => []InjectionCoversCalls
  <1>1. Init => CountersOK /\ InjectionCoversCalls
    BY DEF Init, CountersOK, InjectionCoversCalls, FaultInit, FaultTypeOK,
       FaultModes, NoIdx
  <1>2. CountersOK /\ InjectionCoversCalls /\ [Next]_vars
          => CountersOK' /\ InjectionCoversCalls'
    BY NextCounts, NextKeepsCounters DEF CountersOK, FaultTypeOK,
       InjectionCoversCalls, CountedTogether
  <1> QED
    BY <1>1, <1>2, PTL DEF Spec
-----------------------------------------------------------------------------
(* The chain of reallocations *)

\* A record b of the sequence s is linked to its neighbours in the chain.
LinkedAt(s, b) ==
    /\ ("REALLOC_OLD" \in s[b].flags) <=> (s[b].realloc_next # 0)
    /\ ("REALLOC_NEW" \in s[b].flags) <=> (s[b].realloc_prev # 0)
    /\ ~({"FREED", "REALLOC_OLD"} \subseteq s[b].flags)
    /\ s[b].realloc_next # 0 =>
          /\ s[b].realloc_next \in b + 1 .. Len(s)
          /\ s[s[b].realloc_next].realloc_prev = b
    /\ s[b].realloc_prev # 0 =>
          /\ s[b].realloc_prev \in 1 .. b - 1
          /\ s[s[b].realloc_prev].realloc_next = b

LEMMA ChainIsLinked == ReallocChain <=> \A b \in DOMAIN blocks : LinkedAt(blocks, b)
  BY DEF ReallocChain, LinkedAt

LEMMA ChainIsLinkedThen ==
    ReallocChain' <=> \A b \in DOMAIN blocks' : LinkedAt(blocks', b)
  BY DEF ReallocChain, LinkedAt

LEMMA MallocChains ==
    ASSUME Shape, ReallocChain, NEW a \in Addr, MallocTracked(a)
    PROVE  ReallocChain'
  <1> DEFINE n == Len(blocks)
             e == NewBlock(a, "INITIAL", 0)
  <1>1. blocks' = Append(blocks, e) /\ blocks \in Seq(Block) /\ e \in Block
    BY DEF MallocTracked, Shape, NewBlock, Block, Flags
  <1>2. /\ n \in Nat /\ DOMAIN blocks = 1 .. n
        /\ blocks' \in Seq(Block) /\ DOMAIN blocks' = 1 .. n + 1
        /\ Len(blocks') = n + 1
        /\ blocks'[n + 1] = e
        /\ \A i \in 1 .. n : blocks'[i] = blocks[i]
    BY <1>1, BlockType, AppendBlock, AppendProperties
  <1>3. /\ e.flags = {"INITIAL"} /\ e.realloc_prev = 0 /\ e.realloc_next = 0
    BY DEF NewBlock
  <1> HIDE DEF n, e
  <1>4. ASSUME NEW b \in 1 .. n PROVE LinkedAt(blocks', b)
    <2>1. LinkedAt(blocks, b) /\ Len(blocks) = n
      BY <1>2, ChainIsLinked DEF n
    <2> QED
      BY <1>2, <2>1 DEF LinkedAt
  <1>5. LinkedAt(blocks', n + 1)
    BY <1>2, <1>3 DEF LinkedAt
  <1> QED
    BY <1>2, <1>4, <1>5, ChainIsLinkedThen

LEMMA FreeChains ==
    ASSUME IInv, ReallocChain, NEW p \in Addr, FreeTracked(p)
    PROVE  ReallocChain'
  <1> DEFINE n == Len(blocks)
             c == header[p]
             e == [blocks[c] EXCEPT !.flags = @ \cup {"FREED"}]
  <1>1. /\ heap[p] = "hooked" /\ phase # "over"
        /\ blocks' = [blocks EXCEPT ![c] = e] /\ blocks \in Seq(Block)
    BY DEF FreeTracked, AuditedCall, Calling, IInv, Shape
  <1>2. c \in DOMAIN blocks /\ Freeable(blocks[c].flags)
    BY <1>1, ChecksPassed DEF IInv
  <1>3. n \in Nat /\ DOMAIN blocks = 1 .. n /\ blocks[c] \in Block
    BY <1>1, <1>2, BlockType
  <1>4. /\ e \in Block
        /\ e.flags = blocks[c].flags \cup {"FREED"}
        /\ e.realloc_prev = blocks[c].realloc_prev
        /\ e.realloc_next = blocks[c].realloc_next
    BY <1>3 DEF Block, Flags
  <1> HIDE DEF e, c
  <1>5. /\ Len(blocks') = n /\ DOMAIN blocks' = 1 .. n
        /\ blocks'[c] = e
        /\ \A i \in 1 .. n : i # c => blocks'[i] = blocks[i]
    BY <1>1, <1>2, <1>3, <1>4, ReplaceBlock
  <1>6. \A i \in 1 .. n : /\ blocks'[i].realloc_prev = blocks[i].realloc_prev
                          /\ blocks'[i].realloc_next = blocks[i].realloc_next
    BY <1>4, <1>5
  <1>7. \A i \in 1 .. n : LinkedAt(blocks, i)
    BY <1>3, ChainIsLinked
  <1>8. ASSUME NEW b \in 1 .. n PROVE LinkedAt(blocks', b)
    <2>1. /\ "REALLOC_OLD" \in blocks'[b].flags <=> "REALLOC_OLD" \in blocks[b].flags
          /\ "REALLOC_NEW" \in blocks'[b].flags <=> "REALLOC_NEW" \in blocks[b].flags
          /\ ~({"FREED", "REALLOC_OLD"} \subseteq blocks'[b].flags)
      BY <1>2, <1>4, <1>5, <1>7 DEF LinkedAt, Freeable
    <2> QED
      BY <1>3, <1>5, <1>6, <1>7, <2>1 DEF LinkedAt
  <1> QED
    BY <1>5, <1>8, ChainIsLinkedThen

LEMMA ReallocChains ==
    ASSUME IInv, ReallocChain, NEW p \in Addr, NEW a \in Addr,
           ReallocTracked(p, a)
    PROVE  ReallocChain'
  <1> DEFINE n == Len(blocks)
             c == header[p]
             old == Superseded(blocks[c], n + 1)
             new == NewBlock(a, "REALLOC_NEW", c)
             s == [blocks EXCEPT ![c] = old]
  <1>1. /\ heap[p] = "hooked" /\ phase # "over" /\ blocks \in Seq(Block)
        /\ blocks' = Append(s, new)
    BY DEF ReallocTracked, Resizing, AuditedCall, Calling, IInv, Shape
  <1>2. c \in DOMAIN blocks /\ Freeable(blocks[c].flags)
    BY <1>1, ChecksPassed DEF IInv
  <1>3. n \in Nat /\ DOMAIN blocks = 1 .. n /\ blocks[c] \in Block
    BY <1>1, <1>2, BlockType
  <1>4. /\ old \in Block
        /\ old.flags = blocks[c].flags \cup {"REALLOC_OLD"}
        /\ old.realloc_prev = blocks[c].realloc_prev
        /\ old.realloc_next = n + 1
    BY <1>3 DEF Superseded, Block, Flags
  <1>5. /\ new \in Block /\ new.flags = {"REALLOC_NEW"}
        /\ new.realloc_prev = c /\ new.realloc_next = 0
    BY <1>2, <1>3 DEF NewBlock, Block, Flags
  <1>6. /\ s \in Seq(Block) /\ Len(s) = n
        /\ s[c] = old
        /\ \A i \in 1 .. n : i # c => s[i] = blocks[i]
    BY <1>1, <1>2, <1>3, <1>4, ReplaceBlock
  <1>7. /\ Len(blocks') = n + 1 /\ DOMAIN blocks' = 1 .. n + 1
        /\ blocks'[n + 1] = new /\ blocks'[c] = old
        /\ \A i \in 1 .. n : i # c => blocks'[i] = blocks[i]
    BY <1>1, <1>2, <1>3, <1>5, <1>6, AppendBlock, AppendProperties
  <1>8. c \in 1 .. n /\ \A i \in 1 .. n : LinkedAt(blocks, i)
    BY <1>2, <1>3, ChainIsLinked
  <1> HIDE DEF n, c, old, new, s
  <1>9. LinkedAt(blocks', n + 1)
    BY <1>3, <1>4, <1>5, <1>7, <1>8 DEF LinkedAt
  <1>10. LinkedAt(blocks', c)
    <2>1. /\ blocks[c].realloc_next = 0
          /\ "FREED" \notin old.flags
          /\ "REALLOC_NEW" \in old.flags <=> old.realloc_prev # 0
      BY <1>2, <1>4, <1>8 DEF LinkedAt, Freeable
    <2>2. old.realloc_prev # 0 =>
             /\ old.realloc_prev \in 1 .. c - 1
             /\ blocks'[old.realloc_prev].realloc_next = c
      BY <1>3, <1>4, <1>7, <1>8 DEF LinkedAt
    <2> QED
      BY <1>3, <1>4, <1>5, <1>7, <1>8, <2>1, <2>2 DEF LinkedAt
  <1>11. ASSUME NEW b \in 1 .. n, b # c PROVE LinkedAt(blocks', b)
    <2>1. blocks'[b] = blocks[b] /\ LinkedAt(blocks, b) /\ Len(blocks) = n
      BY <1>7, <1>8, <1>11 DEF n
    <2>2. blocks[b].realloc_prev # 0 =>
             /\ blocks[b].realloc_prev \in 1 .. b - 1
             /\ blocks'[blocks[b].realloc_prev].realloc_next = b
      <3>1. blocks[c].realloc_next = 0
        BY <1>2, <1>8 DEF LinkedAt, Freeable
      <3> QED
        BY <1>3, <1>7, <1>8, <1>11, <2>1, <3>1 DEF LinkedAt
    <2>3. blocks[b].realloc_next # 0 =>
             /\ blocks[b].realloc_next \in b + 1 .. n
             /\ blocks'[blocks[b].realloc_next].realloc_prev = b
      BY <1>3, <1>4, <1>7, <1>8, <2>1 DEF LinkedAt
    <2> QED
      BY <1>3, <1>7, <2>1, <2>2, <2>3 DEF LinkedAt
  <1> QED
    BY <1>3, <1>7, <1>8, <1>9, <1>10, <1>11, ChainIsLinkedThen

\* The steps that change the records are the three above and the reset.
LEMMA RecordSteps ==
    ASSUME [Next]_vars
    PROVE  \/ blocks' = blocks
           \/ blocks' = <<>>
           \/ \E a \in Addr : MallocTracked(a)
           \/ \E p \in Addr : FreeTracked(p)
           \/ \E p, a \in Addr : ReallocTracked(p, a)
  BY DEF Next, HookMalloc, HookFree, HookRealloc, HookFaulted, UserFault,
     LeakcheckSet, FaultCheckingSet, BeforeTest, AfterTest, MainEnd, vars,
     MallocPassed, FallThroughCounted, MallocNoMemBase, MallocNoMemBlock,
     FreePassed, FreeOfNull, FreeRefused, FreeStale, Crash, Refuse, ReallocPassed, ReallocOfNull,
     ReallocRefused, ReallocNoMemBase, ReallocStale, ReallocNoMemBlock,
     recordVars

LEMMA NextChains ==
    ASSUME IInv, ReallocChain, [Next]_vars
    PROVE  ReallocChain'
  <1>1. CASE blocks' = blocks
    BY <1>1 DEF ReallocChain
  <1>2. CASE blocks' = <<>>
    BY <1>2 DEF ReallocChain
  <1> QED
    BY <1>1, <1>2, RecordSteps, MallocChains, FreeChains, ReallocChains DEF IInv

\* The records of a reallocated block form a chain from the first to the last,
\* linked both ways, in which only the last may be freed.
THEOREM ReallocChainThm ==
    ASSUME "realloc_block" \notin NoMemSites
    PROVE  Spec => []ReallocChain
  <1>1. Init => ReallocChain
    BY DEF Init, ReallocChain
  <1>2. IInv /\ ReallocChain /\ [Next]_vars => ReallocChain'
    BY NextChains
  <1> QED
    BY <1>1, <1>2, Invariance, PTL DEF Spec
=============================================================================
