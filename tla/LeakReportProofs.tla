------------------------- MODULE LeakReportProofs -------------------------
(***************************************************************************)
(* Proofs about LeakReport, for every heap, every bound and every program, *)
(* under the assumption of LeakCheckProofs.  They rest on the agreement of *)
(* the records with the heap, on the chain of reallocations, and on one    *)
(* more invariant: no record forgets how its block was allocated.          *)
(***************************************************************************)
EXTENDS LeakReport, LeakCheckProofs

\* Every record still carries the flag it was made with.
Made == \A b \in DOMAIN blocks : blocks[b].flags \cap {"INITIAL", "REALLOC_NEW"} # {}

LEMMA MallocMade ==
    ASSUME IInv, Made, NEW a \in Addr, MallocTracked(a)
    PROVE  Made'
  <1> DEFINE e == NewBlock(a, "INITIAL", 0)
  <1>1. blocks' = Append(blocks, e) /\ e \in Block /\ e.flags = {"INITIAL"}
    BY DEF MallocTracked, NewBlock, Block, Flags
  <1> HIDE DEF e
  <1>2. \A b \in DOMAIN blocks' : blocks'[b] = e \/ (b \in DOMAIN blocks /\ blocks'[b] = blocks[b])
    BY <1>1, BlockType, AppendBlock DEF IInv, Shape
  <1> QED
    BY <1>1, <1>2 DEF Made

LEMMA FreeMade ==
    ASSUME IInv, Made, NEW p \in Addr, FreeTracked(p)
    PROVE  Made'
  <1>1. /\ DOMAIN blocks' = DOMAIN blocks
        /\ blocks' = [blocks EXCEPT ![header[p]].flags = @ \cup {"FREED"}]
    BY DEF FreeTracked
  <1>2. \A b \in DOMAIN blocks : blocks[b].flags \subseteq blocks'[b].flags
    BY <1>1, BlockType DEF IInv, Shape, Block
  <1> QED
    BY <1>1, <1>2 DEF Made

LEMMA ReallocMade ==
    ASSUME IInv, Made, NEW p \in Addr, NEW a \in Addr, ReallocTracked(p, a)
    PROVE  Made'
  <1> DEFINE n == Len(blocks)
             c == header[p]
             old == Superseded(blocks[c], n + 1)
             new == NewBlock(a, "REALLOC_NEW", c)
             s == [blocks EXCEPT ![c] = old]
  <1>1. /\ heap[p] = "hooked" /\ phase # "over" /\ blocks \in Seq(Block)
        /\ blocks' = Append(s, new)
    BY DEF ReallocTracked, Resizing, AuditedCall, Calling, IInv, Shape
  <1>2. c \in DOMAIN blocks
    BY <1>1, ChecksPassed DEF IInv
  <1>3. n \in Nat /\ DOMAIN blocks = 1 .. n /\ blocks[c] \in Block
    BY <1>1, <1>2, BlockType
  <1>4. old \in Block /\ blocks[c].flags \subseteq old.flags
    BY <1>3 DEF Superseded, Block, Flags
  <1>5. new \in Block /\ new.flags = {"REALLOC_NEW"}
    BY <1>2, <1>3 DEF NewBlock, Block, Flags
  <1>6. /\ s \in Seq(Block) /\ Len(s) = n
        /\ s[c] = old
        /\ \A i \in 1 .. n : i # c => s[i] = blocks[i]
    BY <1>1, <1>2, <1>3, <1>4, ReplaceBlock
  <1> HIDE DEF n, c, old, new, s
  <1>7. /\ DOMAIN blocks' = 1 .. n + 1
        /\ blocks'[n + 1] = new /\ blocks'[c] = old
        /\ \A i \in 1 .. n : i # c => blocks'[i] = blocks[i]
    BY <1>1, <1>2, <1>3, <1>5, <1>6, AppendBlock
  <1> QED
    BY <1>2, <1>3, <1>4, <1>5, <1>7 DEF Made

LEMMA MadeInvariance ==
    ASSUME "realloc_block" \notin NoMemSites
    PROVE  Spec => []Made
  <1>1. Init => Made
    BY DEF Init, Made
  <1>2. IInv /\ Made /\ [Next]_vars => Made'
    <2> SUFFICES ASSUME IInv, Made, [Next]_vars PROVE Made'
      OBVIOUS
    <2>1. CASE blocks' = blocks
      BY <2>1 DEF Made
    <2>2. CASE blocks' = <<>>
      BY <2>2 DEF Made
    <2> QED
      BY <2>1, <2>2, RecordSteps, MallocMade, FreeMade, ReallocMade
  <1> QED
    BY <1>1, <1>2, Invariance, PTL DEF Spec
-----------------------------------------------------------------------------
(* What is printed *)

\* A record that was moved from another is preceded by it, and that one is
\* marked as moved.
LEMMA MovedFrom ==
    ASSUME ReallocChain, NEW b \in DOMAIN blocks, blocks[b].realloc_prev # 0
    PROVE  LET c == blocks[b].realloc_prev
           IN  /\ c \in 1 .. b - 1
               /\ c \in DOMAIN blocks => "REALLOC_OLD" \in blocks[c].flags
  BY DEF ReallocChain

LEMMA DumpIsSound ==
    ASSUME IInv, ReallocChain
    PROVE  DumpSound
  <1> SUFFICES ASSUME NEW b \in DOMAIN blocks, DumpLine(b).from # NULL
               PROVE  \E c \in 1 .. b - 1 :
                          /\ DumpLine(c).pointer = DumpLine(b).from
                          /\ "REALLOC_OLD" \in DumpLine(c).flags
    BY DEF DumpSound
  <1> DEFINE c == blocks[b].realloc_prev
  <1>1. c # 0 /\ DumpLine(b).from = blocks[c].header
    BY DEF DumpLine
  <1>2. c \in 1 .. b - 1 /\ c \in DOMAIN blocks
    BY <1>1, MovedFrom, BlockType DEF IInv, Shape
  <1>3. "REALLOC_OLD" \in blocks[c].flags
    BY <1>1, <1>2, MovedFrom
  <1> QED
    BY <1>1, <1>2, <1>3 DEF DumpLine

LEMMA ListIsSound ==
    ASSUME IInv, ReallocChain, Made, phase # "over",
           fail_reason = "LEAKED" => HasLeaks,
           NEW res
    PROVE  ReportSound(res)
  <1>1. Listed = FreeableBlocks
    BY DEF Listed, HasLeaks
  <1>2. fail_reason # "PASS" => Accusation # {} \/ Listed # {}
    BY <1>1 DEF Accusation, HasLeaks, IInv, Shape
  <1>3. ASSUME NEW b \in Listed
        PROVE  /\ Origin(b) # "unknown"
               /\ Origin(b) = "realloc" => From(b) \in DOMAIN blocks \ Listed
    <2>1. b \in DOMAIN blocks
      BY <1>1, <1>3 DEF FreeableBlocks
    <2>2. Origin(b) # "unknown"
      BY <2>1 DEF Made, Origin
    <2>3. ASSUME Origin(b) = "realloc"
          PROVE  From(b) \in DOMAIN blocks \ Listed
      <3> DEFINE c == blocks[b].realloc_prev
      <3>1. c # 0 /\ From(b) = c
        BY <2>1, <2>3 DEF Origin, From, ReallocChain
      <3>2. c \in DOMAIN blocks
        BY <2>1, <3>1, MovedFrom, BlockType DEF IInv, Shape
      <3>3. "REALLOC_OLD" \in blocks[c].flags
        BY <2>1, <3>1, <3>2, MovedFrom
      <3> QED
        BY <1>1, <3>1, <3>2, <3>3 DEF FreeableBlocks, Freeable
    <2> QED
      BY <2>2, <2>3
  <1>4. {blocks[b].header : b \in Listed} = InUse
    BY <1>1, LedgerIsHooked DEF FreeableHeaders, InUse
  <1>5. \A b, c \in Listed : blocks[b].header = blocks[c].header => b = c
    BY <1>1 DEF IInv, Links, FreeableOwnsHeap
  <1> QED
    BY <1>2, <1>3, <1>4, <1>5 DEF ReportSound, Reports

Verdict == phase # "over" /\ (fail_reason = "LEAKED" => HasLeaks)

\* When a test is over, its report is not empty, lists the address of each
\* block libc has not got back, once, and no other, and says truly where it
\* came from; so does the dump.
THEOREM ReportListsLeaksThm ==
    ASSUME "realloc_block" \notin NoMemSites
    PROVE  Spec => ReportListsLeaks
  <1>1. Sound /\ [Next]_vars => (TestOver => Verdict')
    <2> SUFFICES ASSUME Sound, [Next]_vars, TestOver PROVE Verdict'
      OBVIOUS
    <2>1. ~HookEffect
      BY DEF TestOver, HookEffect, Invisible, Ejects, Crash
    <2>2. AfterTest
      BY <2>1, HookMallocEffect, HookFreeEffect, HookReallocEffect
         DEF Next, Sound, HookFaulted, UserFault, LeakcheckSet, FaultCheckingSet,
             BeforeTest, MainEnd, Crash, vars, TestOver
    <2> QED
      BY <2>2 DEF AfterTest, LeakcheckError, Sound, Unjudged, Verdict, HasLeaks, TestOver,
         FreeableBlocks, recordVars
  <1>2. IInv /\ ReallocChain /\ Made /\ Verdict => Truthful
    BY ListIsSound, DumpIsSound DEF Verdict, Truthful
  <1>3. ReportListsLeaks <=> [][TestOver => Truthful']_vars
    BY DEF ReportListsLeaks
  <1> QED
    BY <1>1, <1>2, <1>3, SoundInvariance, Invariance, ReallocChainThm,
       MadeInvariance, PTL DEF Spec
=============================================================================
