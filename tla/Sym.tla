-------------------------------- MODULE Sym --------------------------------
(***************************************************************************)
(* S-expression tests (mptest_sym.c and the macros of mptest_api.h).       *)
(* ASSERT_SYMEQ parses the text a test expects, has the program convert    *)
(* its value with the builders, and compares the two trees; SYM parses a   *)
(* text and has the program read its value with the walkers.  The program  *)
(* keeps one handle per builder it was given, and uses them in any order.  *)
(*                                                                         *)
(* nodes is the parsed tree: the expected one, or the one SYM hands out.   *)
(***************************************************************************)
EXTENDS SymGrammar

CONSTANTS CheckTexts,    \* what ASSERT_SYMEQ may expect
          MakeTexts,     \* what SYM may be given
          UserTokens,    \* the atoms the program writes
          MaxNodes,      \* bound: records in the tree the program builds
          MaxSteps       \* bound: steps of the walker

\* Texts are bytes, and what a program writes into a tree are atoms.
ASSUME TextAssumption == CheckTexts \cup MakeTexts \subseteq Seq(0 .. 255)
ASSUME TokenAssumption ==
    UserTokens \subseteq [type : {"STR", "NUM"}, str : Seq(Int), num : Int]

VARIABLES phase,         \* where the test is: see Phases
          actual,        \* the storage of the tree the program builds
          actualAlloc,
          handles,       \* the builders the program holds
          owned,         \* the syms that have been allocated and not freed
          walk, seen,    \* the walker, and what it returned inside its parent
          reason,        \* fail_reason
          result         \* what the last macro made of the test

userVars == <<actual, actualAlloc, handles>>
walkVars == <<walk, seen>>
verdictVars == <<reason, result>>
vars == <<parseVars, phase, userVars, owned, walkVars, verdictVars>>

Phases == {"idle", "half", "check", "make", "build", "walk", "unequal", "crashed"}
Syms == {"actual", "expected", "made"}

-----------------------------------------------------------------------------
(* ASSERT_SYMEQ. *)

\* The first sym of a macro, of either, could not be allocated.  err is 1, so no
\* reason is set.
NoSym ==
    /\ phase = "idle"
    /\ result' = "ERROR"
    /\ UNCHANGED <<parseVars, phase, userVars, owned, walkVars, reason>>

\* mptest__sym_check_init: the sym for the value, then the one for the text.
CheckAlloc ==
    /\ phase = "idle"
    /\ phase' = "half" /\ owned' = owned \cup {"actual"}
    /\ actual' = <<>> /\ actualAlloc' = 0 /\ handles' = <<>>
    /\ UNCHANGED <<parseVars, walkVars, verdictVars>>

CheckInit(t) ==
    /\ phase = "half"
    /\ phase' = "check" /\ owned' = owned \cup {"expected"}
    /\ ParseBegin(t)
    /\ UNCHANGED <<userVars, walkVars, verdictVars>>

\* The second is refused: the first is destroyed.
SecondRefused ==
    /\ phase = "half"
    /\ result' = "ERROR" /\ phase' = "idle" /\ owned' = owned \ {"actual"}
    /\ UNCHANGED <<parseVars, userVars, walkVars, reason>>

\* mptest__sym_make_init up to the parser.
MakeInit(t) ==
    /\ phase = "idle"
    /\ phase' = "make" /\ owned' = owned \cup {"made"}
    /\ ParseBegin(t)
    /\ UNCHANGED <<userVars, walkVars, verdictVars>>

Parsing ==
    /\ phase \in {"check", "make"}
    /\ ParseStep
    /\ UNCHANGED <<phase, userVars, owned, walkVars, verdictVars>>

\* Mutant: the tree that was being parsed is forgotten.
ParseFailedForgets ==
    /\ phase \in {"check", "make"} /\ mode = "failed"
    /\ owned' = owned \ {"actual", "made"}
    /\ reason' = IF err = ParseError THEN "SYM_SYNTAX" ELSE reason
    /\ result' = "ERROR" /\ phase' = "idle"
    /\ UNCHANGED <<parseVars, userVars, walkVars>>

\* The parser failed: the syms are destroyed, and -1 is taken for a syntax
\* error whatever it was.  The branch behind it, for memory, is never taken.
ParseFailed ==
    /\ phase \in {"check", "make"} /\ mode = "failed"
    /\ owned' = owned \ (IF phase = "check" THEN {"actual", "expected"} ELSE {"made"})
    /\ reason' = IF err = ParseError THEN "SYM_SYNTAX" ELSE reason
    /\ result' = "ERROR" /\ phase' = "idle"
    /\ UNCHANGED <<parseVars, userVars, walkVars>>

CheckParsed ==
    /\ phase = "check" /\ mode = "done"
    /\ phase' = "build" /\ handles' = <<TopPlace>>
    /\ UNCHANGED <<parseVars, actual, actualAlloc, owned, walkVars, verdictVars>>

\* The conversion type##_to_sym gives up, for lack of memory or for a reason of
\* its own.  ASSERT_SYMEQ returns at once and destroys nothing.
ConversionFails ==
    /\ phase = "build"
    /\ result' = "ERROR" /\ phase' = "idle"
    /\ UNCHANGED <<parseVars, userVars, owned, walkVars, reason>>

\* Mutant: the builder is not moved on.
BuildExprStays(h) ==
    /\ phase = "build" /\ Len(actual) < MaxNodes
    /\ actual' = SymNew(actual, handles[h], ExprToken)
    /\ actualAlloc' = GrowOne(Len(actual), actualAlloc)
    /\ handles' = Append(handles, Inside(actual))
    /\ UNCHANGED <<parseVars, phase, owned, walkVars, verdictVars>>

\* mptest_sym_build_expr, _str and _num on the handle h.
BuildExpr(h) ==
    /\ phase = "build" /\ Len(actual) < MaxNodes
    /\ actual' = SymNew(actual, handles[h], ExprToken)
    /\ actualAlloc' = GrowOne(Len(actual), actualAlloc)
    /\ handles' = Append([handles EXCEPT ![h] = Advanced(actual, @)], Inside(actual))
    /\ UNCHANGED <<parseVars, phase, owned, walkVars, verdictVars>>

BuildAtom(h, tok) ==
    /\ phase = "build" /\ Len(actual) < MaxNodes
    /\ actual' = SymNew(actual, handles[h], tok)
    /\ actualAlloc' = GrowOne(Len(actual), actualAlloc)
    /\ handles' = [handles EXCEPT ![h] = Advanced(actual, @)]
    /\ UNCHANGED <<parseVars, phase, owned, walkVars, verdictVars>>

\* mptest_sym_build_type: an expression that begins with a name; the handle
\* itself goes inside.
BuildType(h, tok) ==
    /\ phase = "build" /\ Len(actual) + 1 < MaxNodes /\ tok.type = "STR"
    /\ LET outer == SymNew(actual, handles[h], ExprToken)
       IN /\ actual' = SymNew(outer, Inside(actual), tok)
          /\ actualAlloc' = GrowOne(Len(outer), GrowOne(Len(actual), actualAlloc))
          /\ handles' = [handles EXCEPT ![h] = Advanced(outer, Inside(actual))]
    /\ UNCHANGED <<parseVars, phase, owned, walkVars, verdictVars>>

\* mptest__sym_check compares the first record of each tree.  A tree without
\* records has no first record: what is compared then is wild.
Wild == actual = <<>> \/ nodes = <<>>
CheckWild ==
    /\ phase = "build" /\ Wild
    /\ phase' = "crashed"
    /\ UNCHANGED <<parseVars, userVars, owned, walkVars, verdictVars>>

\* Equal: mptest__sym_check_destroy, and the test goes on.
CheckEqual ==
    /\ phase = "build" /\ ~Wild /\ SymEquals(actual, nodes, 0, 0)
    /\ result' = "PASS" /\ phase' = "idle" /\ owned' = owned \ {"actual", "expected"}
    /\ UNCHANGED <<parseVars, userVars, walkVars, reason>>

CheckUnequal ==
    /\ phase = "build" /\ ~Wild /\ ~SymEquals(actual, nodes, 0, 0)
    /\ result' = "FAIL" /\ phase' = "unequal" /\ reason' = "SYM_INEQUALITY"
    /\ UNCHANGED <<parseVars, userVars, owned, walkVars>>

\* The runner dumps both trees and destroys them (mptest__after_test).
ReportUnequal ==
    /\ phase = "unequal"
    /\ phase' = "idle" /\ owned' = owned \ {"actual", "expected"}
    /\ UNCHANGED <<parseVars, userVars, walkVars, verdictVars>>

-----------------------------------------------------------------------------
(* SYM. *)

MakeParsed ==
    /\ phase = "make" /\ mode = "done"
    /\ phase' = "walk" /\ walk' = TopPlace /\ seen' = <<>>
    /\ UNCHANGED <<parseVars, userVars, owned, verdictVars>>

\* mptest__sym_walk_getnext, as getstr, getnum and getexpr use it: the child
\* is consumed even when it is not of the type asked for (SYM_WRONG_TYPE).
WalkNext ==
    /\ phase = "walk" /\ Len(seen) < MaxSteps
    /\ PeekNext(nodes, walk) # NoRef
    /\ walk' = Place(walk.parent, PeekNext(nodes, walk))
    /\ seen' = Append(seen, PeekNext(nodes, walk))
    /\ UNCHANGED <<parseVars, phase, userVars, owned, verdictVars>>

\* mptest_sym_walk_getexpr on an expression: the program goes on with sub.
WalkInto ==
    /\ phase = "walk"
    /\ PeekIs(nodes, walk, "EXPR")
    /\ walk' = Place(PeekNext(nodes, walk), NoRef) /\ seen' = <<>>
    /\ UNCHANGED <<parseVars, phase, userVars, owned, verdictVars>>

\* type##_from_sym succeeds: mptest__sym_make_destroy.
MakeDestroy ==
    /\ phase = "walk"
    /\ result' = "PASS" /\ phase' = "idle" /\ owned' = owned \ {"made"}
    /\ UNCHANGED <<parseVars, userVars, walkVars, reason>>

\* It fails, or is out of memory, which SYM takes for a pass: in both cases the
\* macro returns at once and the sym is never destroyed.
FromSymFails ==
    /\ phase = "walk"
    /\ result' \in {"ERROR", "PASS_NOMEM"} /\ phase' = "idle"
    /\ UNCHANGED <<parseVars, userVars, owned, walkVars, reason>>

-----------------------------------------------------------------------------

Init ==
    /\ ParseInit
    /\ phase = "idle"
    /\ actual = <<>> /\ actualAlloc = 0 /\ handles = <<>>
    /\ owned = {}
    /\ walk = TopPlace /\ seen = <<>>
    /\ reason = "NONE" /\ result = "NONE"

\* One macro a behaviour: what a macro does depends on no earlier one.
Starts == \/ CheckAlloc
          \/ \E t \in MakeTexts : MakeInit(t)
          \/ NoSym

Builds == \/ \E h \in DOMAIN handles : \/ BuildExpr(h)
                                       \/ \E tok \in UserTokens : BuildAtom(h, tok)
                                       \/ \E tok \in UserTokens : BuildType(h, tok)
          \/ ConversionFails

Next == \/ result = "NONE" /\ Starts
        \/ (\E t \in CheckTexts : CheckInit(t)) \/ SecondRefused
        \/ Parsing \/ ParseFailed
        \/ CheckParsed \/ Builds \/ CheckWild \/ CheckEqual \/ CheckUnequal
        \/ ReportUnequal
        \/ MakeParsed \/ WalkNext \/ WalkInto \/ MakeDestroy \/ FromSymFails

Spec == Init /\ [][Next]_vars

\* Parsing is one uninterrupted call of the test's own thread, which the macro
\* waits for: while it can go on it does.
InParser == Parsing \/ ParseFailed \/ CheckParsed \/ MakeParsed
FairSpec == Spec /\ WF_vars(InParser)

-----------------------------------------------------------------------------
(* What the trees must look like at any time. *)

\* The links of a storage lead forward to records that exist, and no record is
\* reached twice: walking, dumping, comparing and destroying all end, and meet
\* each record once (mptest__sym_new fills the links in, sym.c:77).
Linked(t) ==
    /\ \A r \in Refs(t) : /\ At(t, r).first \in {NoRef} \cup r + 1 .. Len(t) - 1
                          /\ At(t, r).next \in {NoRef} \cup r + 1 .. Len(t) - 1
    /\ \A r, q \in Refs(t) :
          /\ At(t, r).first # NoRef => At(t, r).first # At(t, q).next
          /\ r # q => /\ At(t, r).first # NoRef => At(t, r).first # At(t, q).first
                      /\ At(t, r).next # NoRef => At(t, r).next # At(t, q).next
LinksForward == Linked(nodes) /\ Linked(actual)

\* A place the code holds, a builder or a walker, refers to records of its tree.
Within(t, b) == {b.parent, b.prev} \subseteq Refs(t) \cup {NoRef}

\* Storage, builders and walker are well formed.
TypeOK ==
    /\ LinksForward
    /\ stray \in BOOLEAN
    /\ phase \in Phases /\ owned \subseteq Syms
    /\ mode \in Reading \cup {"idle", "done", "failed"}
    /\ pos \in 0 .. Len(text) + 1
    /\ num \in Nat /\ digits \in 0 .. HexLimit + DecLimit + 4
    /\ within \in {"str", "chr"}
    /\ Len(build_str.data) = build_str.size + 1
    /\ Len(stk) <= stkAlloc /\ Len(nodes) <= nodesAlloc
    /\ Len(actual) <= actualAlloc
    /\ \A k \in DOMAIN stk : Within(nodes, stk[k])
    /\ \A h \in DOMAIN handles : Within(actual, handles[h])
    /\ Within(nodes, base) /\ Within(nodes, walk)
    /\ reason \in {"NONE", "SYM_SYNTAX", "SYM_INEQUALITY"}
    /\ result \in {"NONE", "PASS", "FAIL", "ERROR", "PASS_NOMEM"}

\* mptest__sym_parse_next asserts that it is not called past the one read that
\* found the end (sym.c:137): every loop must stop at the end or step back.
NeverReadsPast == mode \in Reading => pos <= Len(text)

\* The parser accepts the texts of the language and no others, unless memory
\* runs out; and the tree it leaves holds exactly the tokens of the text, in
\* their order and bracketing.  For texts without escapes.
TreeFollowsText ==
    LET tokens == Tokenize(Legible(text))
    IN (\A i \in DOMAIN text : text[i] # Letter.backslash) =>
         /\ mode = "done" => InLanguage(tokens) /\ DumpAll(nodes) = tokens
         /\ mode = "failed" /\ msg # Quiet => ~InLanguage(tokens)

\* A \u escape in a string stands for the UTF-8 form of its number, for every
\* length that has (mptest__sym_parse_gen_utf8).
EscapeIsUtf8 ==
    LET digs == SubSeq(text, 4, 7)
    IN /\ mode = "done" /\ Len(text) = 8
       /\ SubSeq(text, 1, 3) = <<Letter.quote, Letter.backslash, Letter.u>>
       => Decode(nodes[1].tok.str) = ValueOf(digs, 16)

-----------------------------------------------------------------------------
(* What a test sees. *)

\* ASSERT_SYMEQ passes exactly if the program built the first expression of
\* the text: compared here by what the trees say, not by how they are linked.
CheckVerdict ==
    handles # <<>> =>
       /\ result = "PASS" => Dump(actual, 0) = Dump(nodes, 0)
       /\ result = "FAIL" => Dump(actual, 0) # Dump(nodes, 0)

\* The builders together add to one ordered tree: a node becomes the last child
\* of the expression its builder stands for, whichever builders were used in
\* between, and nothing built before is disturbed.
AsTree(t) == [k \in DOMAIN t |->
    [tok |-> t[k].tok,
     kids |-> [i \in DOMAIN Kids(t, k - 1) |-> Kids(t, k - 1)[i] + 1]]]
Tree == INSTANCE OrderedTree WITH Tokens <- UserTokens \cup {ExprToken},
                                  tree <- AsTree(actual)
BuildersImplementTree == Tree!TreeSpec

\* Inside an expression a walker returns its children one by one in their
\* order, and hasmore says there is one exactly until the last was returned.
WalkVisitsKids ==
    phase = "walk" /\ walk.parent # NoRef =>
       /\ IsPrefix(seen, Kids(nodes, walk.parent))
       /\ HasMore(nodes, walk) <=> seen # Kids(nodes, walk.parent)

\* A macro that ended with a verdict, or before there was a tree to convert,
\* has given back every sym it allocated, wherever memory ran out; and unless
\* it ran out in the parser every block of a string is some record's, so that
\* it went with the sym.  (mptest_sym_build_str loses the copy it made if the
\* record is refused, sym.c:694.)
Returned ==
    phase = "idle" /\ (mode # "done" \/ result \in {"PASS", "FAIL"}) => owned = {}
StringsKept == stray => mode = "failed" /\ msg = Quiet
SymsReleased == Returned /\ StringsKept

\* Every text is read to a verdict (mptest__sym_parse_do is a loop of loops).
ParseEnds == (phase \in {"check", "make"}) ~> (phase \notin {"check", "make"})

\* "no mem" (sym.c:966): running out of memory in the parser is told apart from
\* a syntax error and reported as NOMEM.
OutOfMemoryReported ==
    phase = "idle" /\ mode = "failed" /\ msg = Quiet /\ err = ParseError
    => reason = "NOMEM"
=============================================================================
