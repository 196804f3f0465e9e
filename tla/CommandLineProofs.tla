------------------------- MODULE CommandLineProofs -------------------------
(***************************************************************************)
(* Proofs about CommandLine: the cursors of the parser and the lists of    *)
(* names (TypeOK), the way a message takes through the buffer              *)
(* (MessageWhole), that what a session runs is what its arguments say      *)
(* (SessionFollowsArguments), and that what the user means is what the     *)
(* handlers are called with (ArgumentsHonoured).                           *)
(***************************************************************************)
EXTENDS CommandLine, TLAPS, SequenceTheorems, WellFoundedInduction

-----------------------------------------------------------------------------
(* The inductive invariant. *)

\* The parser: its cursors, and which values go with which mode.
CursorInv ==
    /\ IsTable(table) /\ IsArgv(argv)
    /\ idx \in 0 .. Len(argv) /\ mode \in Modes /\ status \in Statuses
    /\ IsSeq(letters) /\ sub \in Nat /\ IsSeq(calls)
    /\ mode = "letters" => letters # <<>> /\ idx > 0
    /\ mode = "values" => opt \in Options /\ (sub > 0 => sub # table[opt].nargs)

\* The output: nothing is said before the parser ends, and until out_cb fails,
\* what it was given, what waits in the buffer and what is still to be written
\* make up the message.
OutputInv ==
    /\ \A s \in {out_buf, said, pending, delivered} : IsSeq(s)
    /\ Len(out_buf) <= BufSize
    /\ mode \in {"idle", "args", "letters", "values"} =>
          /\ status = "NONE"
          /\ out_buf = <<>> /\ said = <<>> /\ pending = <<>> /\ delivered = <<>>
    /\ mode = "print" => status \in {"PARSE", "SHOULD_EXIT"}
    /\ mode = "print" => (delivered \o out_buf) \o pending = said
    /\ MessageWhole

\* A program that has not begun.
FreshInv ==
    session = 0 =>
       /\ phase = "off" /\ nodes = <<>> /\ next_node = 1
       /\ head = [l \in Lists |-> Null] /\ tail = [l \in Lists |-> Null]
       /\ opts = [s \in Switches |-> 0]

\* The lists in which the nodes ns of the first session, 1 up to n - 1, stand:
\* part tells the list of each, and a node leads to the next one of its list,
\* which was made later.
OneLaterIn(ns, part, k) ==
    LET next == ns[k].next
    IN IF next = Null THEN \A j \in DOMAIN ns : part[j] = part[k] => j <= k
       ELSE /\ next \in DOMAIN ns /\ next > k /\ part[next] = part[k]
            /\ \A j \in DOMAIN ns : part[j] = part[k] /\ j > k => j >= next
EndsAt(ns, part, l, first, last) ==
    IF first = Null THEN last = Null /\ \A j \in DOMAIN ns : part[j] # l
    ELSE /\ first \in DOMAIN ns /\ last \in DOMAIN ns
         /\ part[first] = l /\ part[last] = l
         /\ \A j \in DOMAIN ns : part[j] = l => first <= j /\ j <= last
Chains(ns, n, part) ==
    /\ part \in [1 .. n - 1 -> Lists] /\ DOMAIN ns = 1 .. n - 1
    /\ \A k \in DOMAIN ns : /\ ns[k] = [name |-> ns[k].name, next |-> ns[k].next]
                            /\ ns[k].next \in Nat /\ OneLaterIn(ns, part, k)
Parts(ns, n, part, hd, tl) ==
    Chains(ns, n, part) /\ \A l \in Lists : EndsAt(ns, part, l, hd[l], tl[l])
ListsInv ==
    /\ next_node \in Nat \ {0} /\ DOMAIN nodes \subseteq 1 .. next_node - 1
    /\ head \in [Lists -> Nat] /\ tail \in [Lists -> Nat]
    /\ session = 1 /\ phase \notin {"off", "crashed"} =>
          \E part \in [1 .. next_node - 1 -> Lists] : Parts(nodes, next_node, part, head, tail)
    /\ session = 1 /\ phase = "off" => nodes = <<>>

\* The first session: the lists and the switches hold what the handlers were
\* called with, as long as none of them failed.
HeardInv ==
    /\ \A l \in Lists : TextsOf(l) = {nodes[k].name : k \in Reached(head[l])}
    /\ \A s \in Switches : opts[s] = 1 <=> LastSays(s)
SessionInv ==
    /\ phase \in Phases /\ session \in Nat /\ opts \in [Switches -> {0, 1}]
    /\ phase \in {"running", "ran"} => status = "NONE"
    /\ session = 1 /\ phase \in {"parse", "running", "ran"} /\ status = "NONE" => HeardInv
    /\ session = 1 /\ phase = "running" => \A s \in Switches : modes[s] = (opts[s] = 1)
    /\ session = 1 /\ phase = "ran" =>
          ran = [l \in Lists |-> {n \in IF l = "test" THEN TestNames ELSE SuiteNames :
                                     Matches(l, n)}]
    /\ session = 1 /\ library = "made" => phase # "crashed"

CmdInv == CursorInv /\ OutputInv /\ FreshInv /\ ListsInv /\ SessionInv

-----------------------------------------------------------------------------
(* Natural numbers, and the operators of the library. *)

LEMMA LeastNat ==
    ASSUME NEW T \in SUBSET Nat, T # {}
    PROVE  \E x \in T : \A y \in T : x <= y
  <1> DEFINE R == {ss \in Nat \X Nat : ss[1] < ss[2]}
  <1>1. IsWellFoundedOn(R, Nat)
    BY NatLessThanWellFounded DEF OpToRel
  <1> HIDE DEF R
  <1>2. PICK x \in T : \A y \in T : ~ (<<y, x>> \in R)
    BY <1>1, WFMin, Zenon
  <1>3. ASSUME NEW y \in T, ~ (x <= y)
        PROVE  FALSE
    <2>1. x \in Nat /\ y \in Nat
      OBVIOUS
    <2> DEFINE p == <<y, x>>
    <2>2. p \in Nat \X Nat /\ p[1] = y /\ p[2] = x
      BY <2>1
    <2>3. p[1] < p[2]
      BY <1>3, <2>1, <2>2
    <2>4. p \in R
      BY <2>2, <2>3 DEF R
    <2> QED
      BY <1>2, <2>4
  <1> QED
    BY <1>3

\* Induction, said of a set.
LEMMA AllNat ==
    ASSUME NEW T, 0 \in T, \A k \in Nat : k \in T => k + 1 \in T
    PROVE  Nat \subseteq T
  <1> DEFINE Missing == Nat \ T
  <1>1. ASSUME Missing # {}
        PROVE  FALSE
    <2>1. PICK x \in Missing : \A y \in Missing : x <= y
      <3>1. Missing \in SUBSET Nat
        OBVIOUS
      <3> HIDE DEF Missing
      <3> QED
        BY <1>1, <3>1, LeastNat
    <2>2. x \in Nat /\ x # 0 /\ x \notin T
      BY <2>1
    <2>3. x - 1 \in Nat /\ x - 1 \notin Missing
      BY <2>1, <2>2
    <2>4. x - 1 \in T /\ (x - 1) + 1 = x
      BY <2>2, <2>3
    <2> QED
      BY <2>2, <2>3, <2>4
  <1> QED
    BY <1>1

\* FlattenSeq puts sequences of words together one by one.
LEMMA FlattenSteps ==
    ASSUME NEW S, NEW ss \in Seq(Seq(S))
    PROVE  \E parts \in [0 .. Len(ss) -> Seq(S)] :
              /\ parts[0] = <<>> /\ FlattenSeq(ss) = parts[Len(ss)]
              /\ \A i \in 1 .. Len(ss) : parts[i] = parts[i - 1] \o ss[i]
  <1> DEFINE n == Len(ss)
             Eq(f, m) == f = [i \in 1 .. m |-> IF i = 1 THEN ss[i] ELSE f[i - 1] \o ss[i]]
             Built(m) == \E f \in [1 .. m -> Seq(S)] : Eq(f, m)
             T == {m \in Nat : m <= n => Built(m)}
  <1>0. n \in Nat /\ \A i \in 1 .. n : ss[i] \in Seq(S)
    BY ElementOfSeq, LenProperties
  <1>1. 0 \in T
    <2> DEFINE f0 == [i \in 1 .. 0 |-> <<>>]
    <2>1. 1 .. 0 = {}
      OBVIOUS
    <2>2. f0 \in [1 .. 0 -> Seq(S)] /\ Eq(f0, 0)
      BY <2>1
    <2> QED
      BY <2>2
  <1>2. ASSUME NEW k \in Nat, k \in T
        PROVE  k + 1 \in T
    <2>1. CASE k + 1 <= n
      <3>1. PICK f \in [1 .. k -> Seq(S)] : Eq(f, k)
        <4> HIDE DEF Eq
        <4>1. k <= n
          BY <1>0, <2>1
        <4> QED
          BY <1>2, <4>1
      <3> DEFINE last == IF k = 0 THEN ss[1] ELSE f[k] \o ss[k + 1]
                 g == [i \in 1 .. k + 1 |-> IF i = k + 1 THEN last ELSE f[i]]
      <3>2. last \in Seq(S)
        <4>1. k # 0 => f[k] \in Seq(S) /\ ss[k + 1] \in Seq(S)
          BY <1>0, <2>1
        <4>2. ss[1] \in Seq(S)
          BY <1>0, <2>1
        <4> QED
          BY <4>1, <4>2, ConcatProperties
      <3> HIDE DEF last
      <3>3. g \in [1 .. k + 1 -> Seq(S)]
        BY <3>2
      <3>4. ASSUME NEW i \in 1 .. k + 1
            PROVE  g[i] = IF i = 1 THEN ss[i] ELSE g[i - 1] \o ss[i]
        <4>1. CASE i = k + 1
          <5>1. g[i] = last
            BY <4>1
          <5>2. i # 1 => g[i - 1] = f[k]
            BY <4>1
          <5>3. k = 0 <=> i = 1
            BY <4>1
          <5> QED
            BY <4>1, <5>1, <5>2, <5>3 DEF last
        <4>2. CASE i # k + 1
          <5>1. i \in 1 .. k /\ g[i] = f[i] /\ (i # 1 => g[i - 1] = f[i - 1])
            BY <4>2
          <5>2. f[i] = IF i = 1 THEN ss[i] ELSE f[i - 1] \o ss[i]
            BY <3>1, <5>1
          <5> QED
            BY <5>1, <5>2
        <4> QED
          BY <4>1, <4>2
      <3>5. Eq(g, k + 1)
        <4>1. g = [i \in 1 .. k + 1 |-> g[i]]
          OBVIOUS
        <4> HIDE DEF g
        <4> QED
          BY <3>4, <4>1
      <3> HIDE DEF g, Eq
      <3>6. Built(k + 1)
        BY <3>3, <3>5, Zenon
      <3>7. k + 1 \in Nat
        OBVIOUS
      <3> HIDE DEF Built
      <3> QED
        BY <3>6, <3>7
    <2>2. CASE ~(k + 1 <= n)
      <3> HIDE DEF Built
      <3> QED
        BY <2>2
    <2> QED
      BY <2>1, <2>2
  <1>3. n \in T
    <2> HIDE DEF T
    <2>1. Nat \subseteq T
      BY <1>1, <1>2, AllNat
    <2> QED
      BY <1>0, <2>1
  <1>4. PICK f \in [1 .. n -> Seq(S)] : Eq(f, n)
    <2> HIDE DEF Eq
    <2>1. n <= n
      BY <1>0
    <2> QED
      BY <1>3, <2>1
  <1> DEFINE flatten == CHOOSE g : Eq(g, n)
  <1>5. Eq(flatten, n)
    BY <1>4, Zenon
  <1> DEFINE U1 == {m \in Nat : m + 1 \in 1 .. n => flatten[m + 1] \in Seq(S)}
  <1>6. ASSUME NEW i \in 1 .. n
        PROVE  flatten[i] = IF i = 1 THEN ss[i] ELSE flatten[i - 1] \o ss[i]
    <2> HIDE DEF flatten
    <2> QED
      BY <1>5
  <1>7. 0 \in U1
    <2> HIDE DEF flatten
    <2> QED
      BY <1>0, <1>6
  <1>8. ASSUME NEW k \in Nat, k \in U1
        PROVE  k + 1 \in U1
    <2> HIDE DEF flatten
    <2>1. ASSUME (k + 1) + 1 \in 1 .. n
          PROVE  flatten[(k + 1) + 1] \in Seq(S)
      <3> DEFINE i == (k + 1) + 1
      <3>1. i \in 1 .. n /\ i # 1 /\ i - 1 = k + 1 /\ k + 1 \in 1 .. n
        BY <1>0, <2>1
      <3>2. flatten[i] = flatten[k + 1] \o ss[i]
        BY <1>6, <3>1
      <3>3. flatten[k + 1] \in Seq(S) /\ ss[i] \in Seq(S)
        BY <1>0, <1>8, <3>1
      <3> QED
        BY <3>2, <3>3, ConcatProperties
    <2> QED
      BY <2>1
  <1>9. \A i \in 1 .. n : flatten[i] \in Seq(S)
    <2> HIDE DEF U1
    <2>1. Nat \subseteq U1
      BY <1>7, <1>8, AllNat
    <2>2. ASSUME NEW i \in 1 .. n
          PROVE  i - 1 \in U1 /\ (i - 1) + 1 = i
      BY <1>0, <2>1
    <2> HIDE DEF flatten
    <2> QED
      BY <2>2 DEF U1
  <1>10. FlattenSeq(ss) = IF n = 0 THEN <<>> ELSE flatten[n]
    <2>1. n = 0 => ss = <<>>
      BY EmptySeq
    <2> QED
      BY <2>1 DEF FlattenSeq
  <1> HIDE DEF flatten
  <1> DEFINE parts == [i \in 0 .. n |-> IF i = 0 THEN <<>> ELSE flatten[i]]
  <1>11. parts \in [0 .. n -> Seq(S)]
    BY <1>0, <1>9
  <1>12. parts[0] = <<>> /\ FlattenSeq(ss) = parts[n]
    BY <1>0, <1>10
  <1>13. ASSUME NEW i \in 1 .. n
         PROVE  parts[i] = parts[i - 1] \o ss[i]
    <2>1. parts[i] = flatten[i] /\ (i # 1 => parts[i - 1] = flatten[i - 1])
          /\ (i = 1 => parts[i - 1] = <<>>)
      BY <1>0
    <2>2. i = 1 => <<>> \o ss[i] = ss[i]
      BY <1>0, ConcatEmptySeq
    <2> QED
      BY <1>6, <2>1, <2>2
  <1> HIDE DEF parts
  <1> QED
    BY <1>11, <1>12, <1>13

LEMMA FlattenIsSeq ==
    ASSUME NEW S, NEW ss \in Seq(Seq(S))
    PROVE  FlattenSeq(ss) \in Seq(S)
  <1>1. Len(ss) \in 0 .. Len(ss)
    BY LenProperties
  <1>2. PICK parts \in [0 .. Len(ss) -> Seq(S)] : FlattenSeq(ss) = parts[Len(ss)]
    BY FlattenSteps
  <1> QED
    BY <1>1, <1>2

-----------------------------------------------------------------------------
(* Sequences of anything. *)

LEMMA SeqIs ==
    ASSUME NEW S, NEW s \in Seq(S)
    PROVE  IsSeq(s)
  <1>1. Len(s) \in Nat /\ s \in [1 .. Len(s) -> S] /\ DOMAIN s = 1 .. Len(s)
    BY LenProperties
  <1>2. s \in [1 .. Len(s) -> ToSet(s)]
    BY <1>1 DEF ToSet
  <1> QED
    BY <1>1, <1>2, SeqDef DEF IsSeq

LEMMA SeqParts ==
    ASSUME NEW s, IsSeq(s)
    PROVE  /\ Len(s) \in Nat /\ DOMAIN s = 1 .. Len(s)
           /\ s \in Seq(ToSet(s)) /\ \A i \in DOMAIN s : s[i] \in ToSet(s)
           /\ \A S : ToSet(s) \subseteq S => s \in Seq(S)
  <1>1. s \in Seq(ToSet(s))
    BY DEF IsSeq
  <1> DEFINE T == ToSet(s)
  <1> HIDE DEF T
  <1>2. s \in Seq(T)
    BY <1>1 DEF T
  <1>3. Len(s) \in Nat /\ DOMAIN s = 1 .. Len(s) /\ s \in [1 .. Len(s) -> T]
    BY <1>2, LenProperties
  <1>4. \A i \in DOMAIN s : s[i] \in T
    BY <1>3
  <1>5. \A S : T \subseteq S => s \in Seq(S)
    BY <1>2, SeqMonotonic
  <1> QED
    BY <1>2, <1>3, <1>4, <1>5 DEF T

LEMMA Joined ==
    ASSUME NEW s, IsSeq(s), NEW t, IsSeq(t)
    PROVE  IsSeq(s \o t)
  <1> DEFINE S == ToSet(s) \cup ToSet(t)
  <1>1. s \in Seq(S) /\ t \in Seq(S)
    BY SeqParts
  <1> HIDE DEF S
  <1>2. s \o t \in Seq(S)
    BY <1>1, ConcatProperties
  <1> QED
    BY <1>2, SeqIs

LEMMA Tuples ==
    /\ IsSeq(<<>>)
    /\ \A a1 : IsSeq(<<a1>>)
    /\ \A a1, a2 : IsSeq(<<a1, a2>>)
    /\ \A a1, a2, a3 : IsSeq(<<a1, a2, a3>>)
    /\ \A a1, a2, a3, a4 : IsSeq(<<a1, a2, a3, a4>>)
    /\ \A a1, a2, a3, a4, a5 : IsSeq(<<a1, a2, a3, a4, a5>>)
  <1>1. ASSUME NEW a1, NEW a2, NEW a3, NEW a4, NEW a5
        PROVE  /\ IsSeq(<<>>) /\ IsSeq(<<a1>>) /\ IsSeq(<<a1, a2>>)
               /\ IsSeq(<<a1, a2, a3>>) /\ IsSeq(<<a1, a2, a3, a4>>)
               /\ IsSeq(<<a1, a2, a3, a4, a5>>)
    <2> DEFINE S == {a1, a2, a3, a4, a5}
    <2>1. a1 \in S /\ a2 \in S /\ a3 \in S /\ a4 \in S /\ a5 \in S
      OBVIOUS
    <2> HIDE DEF S
    <2>2. /\ <<>> \in Seq(S) /\ <<a1>> \in Seq(S) /\ <<a1, a2>> \in Seq(S)
          /\ <<a1, a2, a3>> \in Seq(S) /\ <<a1, a2, a3, a4>> \in Seq(S)
          /\ <<a1, a2, a3, a4, a5>> \in Seq(S)
      BY <2>1
    <2> QED
      BY <2>2, SeqIs
  <1> QED
    BY <1>1, Zenon

\* FlattenSeq of one sequence for each number.
LEMMA Flattened ==
    ASSUME NEW n \in Nat, NEW f, f = [i \in 1 .. n |-> f[i]],
           \A i \in 1 .. n : IsSeq(f[i])
    PROVE  IsSeq(FlattenSeq(f))
  <1> DEFINE S == UNION {ToSet(f[i]) : i \in 1 .. n}
  <1>1. \A i \in 1 .. n : f[i] \in Seq(S)
    <2>1. ASSUME NEW i \in 1 .. n
          PROVE  f[i] \in Seq(S)
      <3>1. ToSet(f[i]) \subseteq S
        BY Zenon
      <3> QED
        BY <3>1, SeqParts
    <2> QED
      BY <2>1
  <1> HIDE DEF S
  <1>2. f \in [1 .. n -> Seq(S)]
    BY <1>1, Zenon
  <1>3. f \in Seq(Seq(S))
    BY <1>2, SeqDef
  <1>4. FlattenSeq(f) \in Seq(S)
    BY <1>3, FlattenIsSeq
  <1> QED
    BY <1>4, SeqIs

-----------------------------------------------------------------------------
(* Messages are sequences. *)

IsRow(row) == /\ row.type \in {"OPTIONAL", "POSITIONAL"} /\ IsSeq(row.long)
              /\ row.nargs \in Int

LEMMA RowNames ==
    ASSUME NEW row, IsRow(row)
    PROVE  /\ IsSeq(ShortOf(row)) /\ IsSeq(LongOf(row))
           /\ IsSeq(NamesOf(row)) /\ IsSeq(Blank(row))
  <1>1. IsSeq(<<"-", row.short>>) /\ IsSeq(<<"--">>) /\ IsSeq(<<", ">>) /\ IsSeq(<<" ">>)
        /\ IsSeq(<<>>) /\ IsSeq(row.long)
    BY Tuples, Zenon DEF IsRow
  <1>2. IsSeq(ShortOf(row))
    BY <1>1 DEF ShortOf
  <1>3. IsSeq(<<"--">> \o row.long)
    BY <1>1, Joined
  <1>4. IsSeq(LongOf(row))
    BY <1>1, <1>3 DEF LongOf
  <1> DEFINE sep == IF row.short # NoLetter /\ row.long # NoName THEN <<", ">> ELSE <<>>
  <1>5. IsSeq(sep)
    BY <1>1
  <1>6. NamesOf(row) = ShortOf(row) \o sep \o LongOf(row)
    BY DEF NamesOf
  <1> HIDE DEF sep
  <1>7. IsSeq(ShortOf(row) \o sep \o LongOf(row))
    <2>1. IsSeq(ShortOf(row) \o sep)
      BY <1>2, <1>5, Joined
    <2> QED
      BY <1>4, <2>1, Joined
  <1>8. IsSeq(Blank(row))
    BY <1>1 DEF Blank
  <1> QED
    BY <1>2, <1>4, <1>6, <1>7, <1>8

LEMMA BeginArgSeq ==
    ASSUME NEW row, IsRow(row)
    PROVE  IsSeq(BeginArg(row))
  <1>1. /\ IsSeq(ErrorBegin) /\ IsSeq(<<"option ">>) /\ IsSeq(<<": ">>)
        /\ IsSeq(<<"argument ", row.var, ": ">>) /\ IsSeq(NamesOf(row))
    BY Tuples, RowNames DEF ErrorBegin
  <1>2. IsSeq(ErrorBegin \o <<"argument ", row.var, ": ">>)
    BY <1>1, Joined
  <1>3. IsSeq(ErrorBegin \o <<"option ">>)
    BY <1>1, Joined
  <1>4. IsSeq(ErrorBegin \o <<"option ">> \o NamesOf(row))
    BY <1>1, <1>3, Joined
  <1>5. IsSeq(ErrorBegin \o <<"option ">> \o NamesOf(row) \o <<": ">>)
    BY <1>1, <1>4, Joined
  <1> QED
    BY <1>2, <1>5 DEF BeginArg

IsText(e) == e.dash \in -1 .. 2 /\ IsSeq(e.syms)

LEMMA SpelledSeq ==
    ASSUME NEW e, IsText(e)
    PROVE  IsSeq(Spelled(e))
  <1> DEFINE d == [i \in 1 .. e.dash |-> "-"]
             S == {"-"}
  <1>1. e.dash \in -1 .. 2 /\ IsSeq(e.syms)
    BY DEF IsText
  <1>2. IsSeq(d)
    <2>1. "-" \in S
      OBVIOUS
    <2>2. \E n \in Nat : 1 .. e.dash = 1 .. n
      <3>1. CASE e.dash \in Nat
        BY <3>1
      <3>2. CASE e.dash = -1
        <4>1. 1 .. e.dash = 1 .. 0
          BY <3>2
        <4> QED
          BY <4>1
      <3> QED
        BY <1>1, <3>1, <3>2
    <2>3. PICK n \in Nat : d = [i \in 1 .. n |-> "-"]
      BY <2>2
    <2> HIDE DEF d, S
    <2>4. [i \in 1 .. n |-> "-"] \in [1 .. n -> S]
      BY <2>1
    <2>5. d \in Seq(S)
      BY <2>3, <2>4, SeqDef
    <2> QED
      BY <2>5, SeqIs
  <1> HIDE DEF d
  <1>3. IsSeq(d \o e.syms)
    BY <1>1, <1>2, Joined
  <1> QED
    BY <1>3 DEF Spelled, d

\* The messages of the parser itself.
LEMMA ErrorSeqs ==
    ASSUME NEW row, IsRow(row), NEW e, IsText(e), NEW rest, IsSeq(rest)
    PROVE  /\ IsSeq(Unrecognized(e)) /\ IsSeq(BadBool(row, e))
           /\ IsSeq(CannotParseEquals(row)) /\ IsSeq(CannotParse(row, rest))
           /\ IsSeq(ExpectedArgument(row))
  <1>1. IsSeq(Spelled(e)) /\ IsSeq(BeginArg(row))
    BY SpelledSeq, BeginArgSeq
  <1>2. /\ IsSeq(ErrorBegin) /\ IsSeq(<<"unrecognized argument: ">>)
        /\ IsSeq(<<"\n">>) /\ IsSeq(<<"quote">>)
        /\ IsSeq(<<"invalid value for boolean flag: ">>)
        /\ IsSeq(<<"cannot parse '='\n">>) /\ IsSeq(<<"cannot parse '">>)
        /\ IsSeq(<<"expected an argument\n">>)
    BY Tuples, Zenon DEF ErrorBegin
  <1>3. IsSeq(Unrecognized(e))
    <2>1. IsSeq(ErrorBegin \o <<"unrecognized argument: ">>)
      BY <1>2, Joined
    <2>2. IsSeq(ErrorBegin \o <<"unrecognized argument: ">> \o Spelled(e))
      BY <1>1, <2>1, Joined
    <2> QED
      BY <1>2, <2>2, Joined DEF Unrecognized
  <1>4. IsSeq(Quote(e))
    <2>1. IsSeq(<<"quote">> \o Spelled(e))
      BY <1>1, <1>2, Joined
    <2> QED
      BY <1>2, <2>1, Joined DEF Quote
  <1>5. IsSeq(BadBool(row, e))
    <2>1. IsSeq(BeginArg(row) \o <<"invalid value for boolean flag: ">>)
      BY <1>1, <1>2, Joined
    <2>2. IsSeq(BeginArg(row) \o <<"invalid value for boolean flag: ">> \o Quote(e))
      BY <1>4, <2>1, Joined
    <2> QED
      BY <1>2, <2>2, Joined DEF BadBool
  <1>6. IsSeq(CannotParse(row, rest))
    <2>1. IsSeq(BeginArg(row) \o <<"cannot parse '">>)
      BY <1>1, <1>2, Joined
    <2>2. IsSeq(BeginArg(row) \o <<"cannot parse '">> \o rest)
      BY <2>1, Joined
    <2> QED
      BY <1>2, <2>2, Joined DEF CannotParse
  <1>7. IsSeq(CannotParseEquals(row)) /\ IsSeq(ExpectedArgument(row))
    BY <1>1, <1>2, Joined DEF CannotParseEquals, ExpectedArgument
  <1> QED
    BY <1>3, <1>5, <1>6, <1>7

LEMMA SubArgsSeq ==
    ASSUME NEW row, IsRow(row)
    PROVE  IsSeq(SubArgs(row))
  <1> DEFINE v == row.var
             vs == [i \in 1 .. row.nargs |-> IF i = 1 THEN <<v>> ELSE <<" ", v>>]
  <1>1. /\ IsSeq(<<v, " [", v, " ...]]">>) /\ IsSeq(<<"[", v, " [", v, " ...]]">>)
        /\ IsSeq(<<"[", v, "]">>) /\ IsSeq(<<v>>) /\ IsSeq(<<" ", v>>)
    <2> HIDE DEF v
    <2> QED
      BY Tuples, Zenon
  <1>2. \E n \in Nat : 1 .. row.nargs = 1 .. n
    <2>1. CASE row.nargs \in Nat
      BY <2>1
    <2>2. CASE row.nargs \notin Nat
      <3>1. 1 .. row.nargs = 1 .. 0
        BY <2>2 DEF IsRow
      <3> QED
        BY <3>1
    <2> QED
      BY <2>1, <2>2
  <1> HIDE DEF v
  <1>3. PICK n \in Nat : 1 .. row.nargs = 1 .. n
    BY <1>2
  <1>4. vs = [i \in 1 .. n |-> vs[i]] /\ \A i \in 1 .. n : IsSeq(vs[i])
    BY <1>1, <1>3
  <1> HIDE DEF vs
  <1>5. IsSeq(FlattenSeq(vs))
    BY <1>4, Flattened
  <1> QED
    BY <1>1, <1>5 DEF SubArgs, v, vs

LEMMA RowSeqs ==
    ASSUME NEW row, IsRow(row)
    PROVE  IsSeq(UsageOf(row)) /\ IsSeq(HelpOf(row))
  <1>1. /\ IsSeq(ShortOf(row)) /\ IsSeq(LongOf(row)) /\ IsSeq(Blank(row))
        /\ IsSeq(SubArgs(row))
    BY RowNames, SubArgsSeq
  <1>2. /\ IsSeq(<<>>) /\ IsSeq(<<" ", "[">>) /\ IsSeq(<<"]">>) /\ IsSeq(<<"  ">>)
        /\ IsSeq(<<row.var>>) /\ IsSeq(<<", ">>)
        /\ IsSeq(<<"\n", "    ", "help", "\n">>)
    BY Tuples, Zenon
  <1> DEFINE name == IF row.short # NoLetter THEN ShortOf(row) ELSE LongOf(row)
             opening == IF row.type = "OPTIONAL" THEN name \o Blank(row) ELSE <<>>
             short == IF row.short = NoLetter THEN <<>>
                      ELSE ShortOf(row) \o Blank(row) \o SubArgs(row)
             comma == IF row.short = NoLetter THEN <<>> ELSE <<", ">>
             long == IF row.long = NoName THEN <<>>
                     ELSE comma \o LongOf(row) \o Blank(row) \o SubArgs(row)
             entry == IF row.type = "POSITIONAL" THEN <<row.var>> ELSE short \o long
  <1>3. IsSeq(opening)
    <2>1. IsSeq(name)
      BY <1>1
    <2> HIDE DEF name
    <2>2. IsSeq(name \o Blank(row))
      BY <1>1, <2>1, Joined
    <2> QED
      BY <1>2, <2>2
  <1>4. IsSeq(short) /\ IsSeq(comma)
    <2>1. IsSeq(ShortOf(row) \o Blank(row))
      BY <1>1, Joined
    <2>2. IsSeq(ShortOf(row) \o Blank(row) \o SubArgs(row))
      BY <1>1, <2>1, Joined
    <2> QED
      BY <1>2, <2>2
  <1>5. IsSeq(long)
    <2> HIDE DEF comma
    <2>1. IsSeq(comma \o LongOf(row))
      BY <1>1, <1>4, Joined
    <2>2. IsSeq(comma \o LongOf(row) \o Blank(row))
      BY <1>1, <2>1, Joined
    <2>3. IsSeq(comma \o LongOf(row) \o Blank(row) \o SubArgs(row))
      BY <1>1, <2>2, Joined
    <2> QED
      BY <1>2, <2>3
  <1>6. IsSeq(entry)
    <2> HIDE DEF short, long
    <2>1. IsSeq(short \o long)
      BY <1>4, <1>5, Joined
    <2> QED
      BY <1>2, <2>1
  <1>7. UsageOf(row) = <<" ", "[">> \o opening \o SubArgs(row) \o <<"]">>
    BY DEF UsageOf
  <1>8. HelpOf(row) = <<"  ">> \o entry \o <<"\n", "    ", "help", "\n">>
    BY DEF HelpOf
  <1> HIDE DEF opening, entry
  <1>9. IsSeq(UsageOf(row))
    <2>1. IsSeq(<<" ", "[">> \o opening)
      BY <1>2, <1>3, Joined
    <2>2. IsSeq(<<" ", "[">> \o opening \o SubArgs(row))
      BY <1>1, <2>1, Joined
    <2>3. IsSeq(<<" ", "[">> \o opening \o SubArgs(row) \o <<"]">>)
      BY <1>2, <2>2, Joined
    <2> QED
      BY <1>7, <2>3
  <1>10. IsSeq(HelpOf(row))
    <2>1. IsSeq(<<"  ">> \o entry)
      BY <1>2, <1>6, Joined
    <2>2. IsSeq(<<"  ">> \o entry \o <<"\n", "    ", "help", "\n">>)
      BY <1>2, <2>1, Joined
    <2> QED
      BY <1>8, <2>2
  <1> QED
    BY <1>9, <1>10

LEMMA TableRows ==
    ASSUME IsTable(table)
    PROVE  /\ DOMAIN table = 1 .. Len(table) /\ Len(table) \in Nat
           /\ \A i \in DOMAIN table : /\ IsRow(table[i])
                                      /\ table[i].handler \in {"bool", "custom", "help",
                                                               "name", "str", "version"}
  <1>1. IsSeq(table)
    BY DEF IsTable
  <1>2. /\ Len(table) \in Nat /\ DOMAIN table = 1 .. Len(table)
        /\ \A i \in DOMAIN table : table[i] \in ToSet(table)
    BY <1>1, SeqParts
  <1> QED
    BY <1>2 DEF IsTable, IsRow

LEMMA HelpSeqs ==
    ASSUME IsTable(table)
    PROVE  IsSeq(Help) /\ IsSeq(Version)
  <1>1. DOMAIN table = 1 .. Len(table) /\ Len(table) \in Nat
    BY TableRows
  <1>2. ASSUME NEW i \in DOMAIN table
        PROVE  IsSeq(UsageOf(table[i])) /\ IsSeq(HelpOf(table[i]))
    BY TableRows, RowSeqs
  <1>3. /\ IsSeq(<<>>) /\ IsSeq(<<"usage: ", "prog">>) /\ IsSeq(<<" [-">>)
        /\ IsSeq(<<"]">>) /\ IsSeq(<<"\n">>) /\ IsSeq(Version)
    BY Tuples, Zenon DEF Version
  <1> DEFINE flagOf == [i \in DOMAIN table |->
                          IF Coalesces(table[i]) THEN <<table[i].short>> ELSE <<>>]
             otherOf == [i \in DOMAIN table |->
                          IF Coalesces(table[i]) THEN <<>> ELSE UsageOf(table[i])]
             flags == FlattenSeq(flagOf)
             others == FlattenSeq(otherOf)
  <1>4. IsSeq(flags)
    <2>1. \A i \in 1 .. Len(table) : IsSeq(flagOf[i])
      BY <1>1, <1>3, Tuples
    <2>2. flagOf = [i \in 1 .. Len(table) |-> flagOf[i]]
      BY <1>1
    <2> HIDE DEF flagOf
    <2> QED
      BY <1>1, <2>1, <2>2, Flattened
  <1>5. IsSeq(others)
    <2>1. \A i \in 1 .. Len(table) : IsSeq(otherOf[i])
      BY <1>1, <1>2, <1>3
    <2>2. otherOf = [i \in 1 .. Len(table) |-> otherOf[i]]
      BY <1>1
    <2> HIDE DEF otherOf
    <2> QED
      BY <1>1, <2>1, <2>2, Flattened
  <1> DEFINE bundle == IF flags = <<>> THEN <<>> ELSE <<" [-">> \o flags \o <<"]">>
  <1>6. Usage = <<"usage: ", "prog">> \o bundle \o others \o <<"\n">>
    BY DEF Usage, Each
  <1> HIDE DEF flags, others
  <1>7. IsSeq(bundle)
    <2>1. IsSeq(<<" [-">> \o flags)
      BY <1>3, <1>4, Joined
    <2>2. IsSeq(<<" [-">> \o flags \o <<"]">>)
      BY <1>3, <2>1, Joined
    <2> QED
      BY <1>3, <2>2
  <1> HIDE DEF bundle
  <1>8. IsSeq(Usage)
    <2>1. IsSeq(<<"usage: ", "prog">> \o bundle)
      BY <1>3, <1>7, Joined
    <2>2. IsSeq(<<"usage: ", "prog">> \o bundle \o others)
      BY <1>5, <2>1, Joined
    <2>3. IsSeq(<<"usage: ", "prog">> \o bundle \o others \o <<"\n">>)
      BY <1>3, <2>2, Joined
    <2> QED
      BY <1>6, <2>3
  <1>9. ASSUME NEW title, NEW type
        PROVE  IsSeq(Section(title, type))
    <2> DEFINE rowOf == [i \in DOMAIN table |->
                           IF table[i].type = type THEN HelpOf(table[i]) ELSE <<>>]
               rows == FlattenSeq(rowOf)
    <2>1. \A i \in 1 .. Len(table) : IsSeq(rowOf[i])
      BY <1>1, <1>2, <1>3
    <2>2. rowOf = [i \in 1 .. Len(table) |-> rowOf[i]]
      BY <1>1
    <2>3. IsSeq(rows)
      <3> HIDE DEF rowOf
      <3> QED
        BY <1>1, <2>1, <2>2, Flattened
    <2>4. Section(title, type) = IF rows = <<>> THEN <<>> ELSE <<title>> \o rows
      BY DEF Section, Each
    <2> HIDE DEF rows
    <2>5. IsSeq(<<title>> \o rows)
      BY <2>3, Tuples, Joined
    <2> QED
      BY <1>3, <2>4, <2>5
  <1>10. /\ IsSeq(Section("\npositional arguments:\n", "POSITIONAL"))
         /\ IsSeq(Section("\noptional arguments:\n", "OPTIONAL"))
    BY <1>9
  <1>11. IsSeq(Help)
    <2>1. IsSeq(Usage \o Section("\npositional arguments:\n", "POSITIONAL"))
      BY <1>8, <1>10, Joined
    <2> QED
      BY <1>10, <2>1, Joined DEF Help
  <1> QED
    BY <1>3, <1>11
-----------------------------------------------------------------------------
(* What a step of the parser does. *)

LEMMA FirstRowIn ==
    ASSUME NEW n \in Nat, NEW rows \in SUBSET (1 .. n), FirstRow(rows) # NoRow
    PROVE  FirstRow(rows) \in rows
  <1>1. rows # {} /\ rows \in SUBSET Nat
    BY DEF FirstRow
  <1>2. \E x \in rows : \A y \in rows : x <= y
    BY <1>1, LeastNat
  <1>3. Min(rows) \in rows
    BY <1>2, Zenon DEF Min
  <1> QED
    BY <1>1, <1>3 DEF FirstRow

LEMMA RowsFound ==
    ASSUME IsTable(table)
    PROVE  /\ Options \subseteq DOMAIN table
           /\ \A c : ShortRow(c) # NoRow => ShortRow(c) \in Options
           /\ \A syms : LongRow(syms) # NoRow => LongRow(syms) \in Options
           /\ PositionalRow # NoRow => PositionalRow \in DOMAIN table
  <1>1. DOMAIN table = 1 .. Len(table) /\ Len(table) \in Nat
    BY TableRows
  <1>2. Options \subseteq 1 .. Len(table)
    BY <1>1 DEF Options
  <1>3. ASSUME NEW c, ShortRow(c) # NoRow
        PROVE  ShortRow(c) \in Options
    <2> DEFINE rows == {r \in Options : table[r].short = c}
    <2>1. rows \in SUBSET (1 .. Len(table)) /\ rows \subseteq Options
          /\ ShortRow(c) = FirstRow(rows)
      BY <1>2 DEF ShortRow
    <2> HIDE DEF rows
    <2> QED
      BY <1>1, <1>3, <2>1, FirstRowIn
  <1>4. ASSUME NEW syms, LongRow(syms) # NoRow
        PROVE  LongRow(syms) \in Options
    <2> DEFINE Fits(r) == LET name == table[r].long
                          IN /\ name # NoName /\ IsPrefix(name, syms)
                             /\ Len(syms) > Len(name) => syms[Len(name) + 1] = "="
               rows == {r \in Options : Fits(r)}
    <2>1. LongRow(syms) = FirstRow(rows)
      BY DEF LongRow
    <2> HIDE DEF Fits
    <2>2. rows \in SUBSET (1 .. Len(table)) /\ rows \subseteq Options
      BY <1>2
    <2> HIDE DEF rows
    <2> QED
      BY <1>1, <1>4, <2>1, <2>2, FirstRowIn
  <1>5. PositionalRow # NoRow => PositionalRow \in DOMAIN table
    <2> DEFINE rows == DOMAIN table \ Options
    <2>1. rows \in SUBSET (1 .. Len(table)) /\ PositionalRow = FirstRow(rows)
      BY <1>1 DEF PositionalRow
    <2>2. rows \subseteq DOMAIN table
      OBVIOUS
    <2> HIDE DEF rows
    <2> QED
      BY <1>1, <2>1, <2>2, FirstRowIn
  <1> QED
    BY <1>1, <1>2, <1>3, <1>4, <1>5

Goes(m) == mode' = m /\ UNCHANGED <<outVars, status>>
GivesUp == mode' = "over" /\ status' = "NOMEM" /\ UNCHANGED outVars
Speaks == \E m, s : IsSeq(m) /\ s \in {"PARSE", "SHOULD_EXIT"} /\ Say(m, s)
Outcome(m) == Goes(m) \/ GivesUp \/ Speaks
Called == \E r, k, text : calls' = Append(calls, [row |-> r, sub |-> k, text |-> text])

LEMMA InvokeDoes ==
    ASSUME IsTable(table), NEW r \in DOMAIN table, NEW k, NEW text, IsText(text), NEW m,
           Invoke(r, k, text, m)
    PROVE  Called /\ Outcome(m)
  <1>1. IsRow(table[r])
    BY TableRows
  <1>2. IsSeq(BadBool(table[r], text)) /\ IsSeq(Help) /\ IsSeq(Version)
    BY <1>1, ErrorSeqs, HelpSeqs, Tuples
  <1>3. Called
    BY Zenon DEF Invoke, Called
  <1> DEFINE handler == table[r].handler
  <1> HIDE DEF handler
  <1>4. \/ mode' = m /\ UNCHANGED <<outVars, status>>
        \/ Custom(handler, m)
        \/ Say(BadBool(table[r], text), "PARSE")
        \/ Say(Help, "SHOULD_EXIT")
        \/ Say(Version, "SHOULD_EXIT")
    BY Zenon DEF Invoke, handler
  <1>5. CASE mode' = m /\ UNCHANGED <<outVars, status>>
    BY <1>3, <1>5 DEF Outcome, Goes
  <1>6. CASE Custom(handler, m)
    BY <1>3, <1>6 DEF Custom, Outcome, Goes, GivesUp
  <1>7. CASE \/ Say(BadBool(table[r], text), "PARSE") \/ Say(Help, "SHOULD_EXIT")
             \/ Say(Version, "SHOULD_EXIT")
    <2>1. Speaks
      <3>1. "PARSE" \in {"PARSE", "SHOULD_EXIT"} /\ "SHOULD_EXIT" \in {"PARSE", "SHOULD_EXIT"}
        OBVIOUS
      <3> QED
        BY <1>2, <1>7, <3>1, Zenon DEF Speaks
    <2> QED
      BY <1>3, <2>1 DEF Outcome
  <1> QED
    BY <1>4, <1>5, <1>6, <1>7

LEMMA RefuseDoes ==
    ASSUME NEW msg, IsSeq(msg), Refuse(msg), NEW m
    PROVE  calls' = calls /\ Outcome(m)
  <1>1. "PARSE" \in {"PARSE", "SHOULD_EXIT"}
    OBVIOUS
  <1>2. Speaks
    BY <1>1, Zenon DEF Refuse, Speaks
  <1> QED
    BY <1>2 DEF Refuse, Outcome

\* Where the parser is after a step that goes on in mode m if it goes on.
Moved(m) ==
    /\ m \in {"args", "letters", "values"} /\ Outcome(m)
    /\ idx' \in 0 .. Len(argv) /\ IsSeq(letters') /\ sub' \in Nat
    /\ m = "letters" => letters' # <<>> /\ idx' > 0
    /\ m = "values" => opt' \in Options /\ (sub' > 0 => sub' # table[opt'].nargs)
    /\ calls' = calls \/ Called

LEMMA SeqTail ==
    ASSUME NEW s, IsSeq(s), s # <<>>
    PROVE  IsSeq(Tail(s)) /\ Len(s) > 0
  <1>1. s \in Seq(ToSet(s))
    BY SeqParts
  <1> DEFINE S == ToSet(s)
  <1> HIDE DEF S
  <1>2. s \in Seq(S)
    BY <1>1 DEF S
  <1>3. Tail(s) \in Seq(S) /\ Len(s) > 0
    BY <1>2, HeadTailProperties, EmptySeq, LenProperties
  <1> QED
    BY <1>3, SeqIs

LEMMA ArgTexts ==
    ASSUME IsArgv(argv)
    PROVE  /\ Len(argv) \in Nat /\ IsText(NoText)
           /\ \A i \in 1 .. Len(argv) : IsText(argv[i]) /\ argv[i].dash \in 0 .. 2
           /\ \A s : IsSeq(s) => IsText(Text(s))
  <1>1. IsSeq(argv)
    BY DEF IsArgv
  <1>2. /\ Len(argv) \in Nat /\ DOMAIN argv = 1 .. Len(argv)
        /\ \A i \in 1 .. Len(argv) : argv[i] \in ToSet(argv)
    BY <1>1, SeqParts
  <1>3. \A i \in 1 .. Len(argv) : argv[i].dash \in 0 .. 2 /\ IsSeq(argv[i].syms)
    BY <1>2 DEF IsArgv
  <1>4. IsSeq(<<>>)
    BY Tuples
  <1>5. \A s : IsSeq(s) => IsText(Text(s))
    BY DEF IsText, Text, Element
  <1>6. IsText(NoText)
    <2>1. NoText.dash = -1 /\ NoText.syms = <<>>
      BY DEF NoText, Element
    <2>2. NoText.dash \in -1 .. 2
      BY <2>1
    <2> QED
      BY <1>4, <2>1, <2>2 DEF IsText
  <1> QED
    BY <1>2, <1>3, <1>5, <1>6 DEF IsText

LEMMA MetMoves ==
    ASSUME IsTable(table), IsArgv(argv), IsSeq(letters), sub \in Nat, NEW r \in Options,
           NEW rest, IsSeq(rest), NEW next \in 1 .. Len(argv), Met(r, rest, next)
    PROVE  \E m : Moved(m)
  <1> DEFINE row == table[r]
  <1>1. r \in DOMAIN table /\ IsRow(row)
    BY RowsFound, TableRows
  <1>2. IsText(NoText) /\ Len(argv) \in Nat /\ next \in Nat
    BY ArgTexts
  <1>3. \A e, s : IsText(e) /\ IsSeq(s) =>
           /\ IsSeq(CannotParseEquals(row)) /\ IsSeq(CannotParse(row, s))
           /\ IsSeq(ExpectedArgument(row))
    BY <1>1, ErrorSeqs
  <1>4. /\ IsSeq(CannotParseEquals(row)) /\ IsSeq(CannotParse(row, rest))
        /\ IsSeq(ExpectedArgument(row))
    BY <1>2, <1>3
  <1> HIDE DEF row
  <1>5. ASSUME WithEquals(r, rest, next)
        PROVE  Moved("args")
    <2>1. Refuse(CannotParseEquals(row)) /\ idx' = next /\ UNCHANGED <<letters, opt, sub>>
      BY <1>5 DEF WithEquals, row
    <2>2. calls' = calls /\ Outcome("args")
      BY <1>4, <2>1, RefuseDoes
    <2> QED
      BY <1>2, <2>1, <2>2 DEF Moved
  <1>6. ASSUME WithEqualsValue(r, rest, next)
        PROVE  Moved("args")
    <2>1. /\ Invoke(r, 0, Text(Tail(rest)), "args") /\ rest # <<>>
          /\ idx' = next /\ UNCHANGED <<letters, opt, sub>>
      BY <1>6 DEF WithEqualsValue
    <2>2. IsText(Text(Tail(rest)))
      BY <2>1, SeqTail, ArgTexts
    <2>3. Called /\ Outcome("args")
      BY <1>1, <2>1, <2>2, InvokeDoes
    <2> QED
      BY <1>2, <2>1, <2>3 DEF Moved
  <1>7. ASSUME WithRest(r, rest, next)
        PROVE  \E m : Moved(m)
    <2>1. idx' = next /\ UNCHANGED <<opt, sub>> /\ rest # <<>>
      BY <1>7 DEF WithRest
    <2>2. CASE Refuse(CannotParse(row, rest)) /\ UNCHANGED letters
      <3>1. calls' = calls /\ Outcome("args")
        BY <1>4, <2>2, RefuseDoes
      <3>2. Moved("args")
        BY <1>2, <2>1, <2>2, <3>1 DEF Moved
      <3> QED
        BY <3>2
    <2>3. CASE Invoke(r, 0, Text(rest), "args") /\ UNCHANGED letters
      <3>1. Called /\ Outcome("args")
        BY <1>1, <2>3, InvokeDoes, ArgTexts
      <3>2. Moved("args")
        BY <1>2, <2>1, <2>3, <3>1 DEF Moved
      <3> QED
        BY <3>2
    <2>4. CASE Invoke(r, 0, NoText, "letters") /\ letters' = rest
      <3>1. Called /\ Outcome("letters")
        BY <1>1, <1>2, <2>4, InvokeDoes
      <3>2. Moved("letters")
        BY <1>2, <2>1, <2>4, <3>1 DEF Moved
      <3> QED
        BY <3>2
    <2> QED
      BY <1>7, <2>2, <2>3, <2>4 DEF WithRest, row
  <1>8. ASSUME WithoutValue(r, rest, next)
        PROVE  Moved("args")
    <2>1. idx' = next /\ UNCHANGED <<letters, opt, sub>>
      BY <1>8 DEF WithoutValue
    <2>2. CASE Refuse(ExpectedArgument(row))
      <3>1. calls' = calls /\ Outcome("args")
        BY <1>4, <2>2, RefuseDoes
      <3> QED
        BY <1>2, <2>1, <3>1 DEF Moved
    <2>3. CASE Invoke(r, 0, NoText, "args")
      <3>1. Called /\ Outcome("args")
        BY <1>1, <1>2, <2>3, InvokeDoes
      <3> QED
        BY <1>2, <2>1, <3>1 DEF Moved
    <2> QED
      BY <1>8, <2>2, <2>3 DEF WithoutValue, row
  <1>9. ASSUME WithValue(r, rest, next)
        PROVE  \E m : Moved(m)
    <2>1. UNCHANGED letters /\ next + 1 \in 1 .. Len(argv)
      BY <1>2, <1>9 DEF WithValue, NoValueFollows
    <2>2. CASE Invoke(r, 0, argv[next + 1], "args") /\ idx' = next + 1 /\ UNCHANGED <<opt, sub>>
      <3>1. IsText(argv[next + 1])
        BY <2>1, ArgTexts
      <3>2. Called /\ Outcome("args")
        BY <1>1, <2>2, <3>1, InvokeDoes
      <3>3. Moved("args")
        BY <1>2, <2>1, <2>2, <3>2 DEF Moved
      <3> QED
        BY <3>3
    <2>3. CASE Invoke(r, 0, NoText, "args") /\ idx' = next /\ UNCHANGED <<opt, sub>>
      <3>1. Called /\ Outcome("args")
        BY <1>1, <1>2, <2>3, InvokeDoes
      <3>2. Moved("args")
        BY <1>2, <2>1, <2>3, <3>1 DEF Moved
      <3> QED
        BY <3>2
    <2>4. CASE /\ mode' = "values" /\ idx' = next /\ opt' = r /\ sub' = 0
               /\ UNCHANGED <<calls, outVars, status>>
      <3>1. Outcome("values")
        BY <2>4 DEF Outcome, Goes
      <3>2. Moved("values")
        BY <1>2, <2>1, <2>4, <3>1 DEF Moved
      <3> QED
        BY <3>2
    <2> QED
      BY <1>9, <2>2, <2>3, <2>4 DEF WithValue
  <1> QED
    BY <1>5, <1>6, <1>7, <1>8, <1>9, Zenon DEF Met

LEMMA ArgsMoves ==
    ASSUME CursorInv, Args
    PROVE  \E m : Moved(m)
  <1> DEFINE e == argv[idx + 1]
  <1>1. /\ IsTable(table) /\ IsArgv(argv) /\ IsSeq(letters) /\ sub \in Nat
        /\ idx \in 0 .. Len(argv) /\ mode = "args" /\ idx < Len(argv)
    BY DEF CursorInv, Args
  <1>2. Len(argv) \in Nat /\ idx + 1 \in 1 .. Len(argv) /\ idx + 1 \in 0 .. Len(argv)
    BY <1>1, ArgTexts
  <1>3. IsText(e) /\ IsSeq(e.syms)
    BY <1>1, <1>2, ArgTexts DEF IsText
  <1>4. Plain(e) \/ Short(e) \/ Long(e)
    BY DEF Args
  <1> HIDE DEF e
  <1>5. IsSeq(Unrecognized(e))
    <2>1. IsSeq(<<>>)
      BY Tuples
    <2>2. IsRow([type |-> "OPTIONAL", long |-> <<>>, nargs |-> 0])
      BY <2>1 DEF IsRow
    <2> QED
      BY <1>3, <2>2, ErrorSeqs
  <1>6. CASE Plain(e)
    <2>1. idx' = idx + 1 /\ UNCHANGED <<letters, opt, sub>>
      BY <1>6 DEF Plain
    <2>2. CASE PositionalRow = NoRow
      <3>1. Refuse(Unrecognized(e))
        BY <1>6, <2>2 DEF Plain
      <3>2. calls' = calls /\ Outcome("args")
        BY <1>5, <3>1, RefuseDoes
      <3>3. Moved("args")
        BY <1>1, <1>2, <2>1, <3>2 DEF Moved
      <3> QED
        BY <3>3
    <2>3. CASE PositionalRow # NoRow
      <3>1. Invoke(PositionalRow, 0, e, "args") /\ PositionalRow \in DOMAIN table
        BY <1>1, <1>6, <2>3, RowsFound DEF Plain
      <3>2. Called /\ Outcome("args")
        BY <1>1, <1>3, <3>1, InvokeDoes
      <3>3. Moved("args")
        BY <1>1, <1>2, <2>1, <3>2 DEF Moved
      <3> QED
        BY <3>3
    <2> QED
      BY <2>2, <2>3
  <1>7. CASE Short(e)
    <2>1. /\ e.syms # <<>> /\ mode' = "letters" /\ letters' = e.syms /\ idx' = idx + 1
          /\ UNCHANGED <<opt, sub, calls, outVars, status>>
      BY <1>7 DEF Short, IsPositional
    <2>2. Outcome("letters")
      BY <2>1 DEF Outcome, Goes
    <2>3. Moved("letters")
      BY <1>1, <1>2, <1>3, <2>1, <2>2 DEF Moved
    <2> QED
      BY <2>3
  <1>8. CASE Long(e)
    <2> DEFINE r == LongRow(e.syms)
               rest == SubSeq(e.syms, Len(table[r].long) + 1, Len(e.syms))
    <2>1. CASE r = NoRow
      <3>1. /\ Refuse(Unrecognized(e)) /\ idx' = idx + 1
            /\ UNCHANGED <<letters, opt, sub>>
        BY <1>8, <2>1 DEF Long
      <3>2. calls' = calls /\ Outcome("args")
        BY <1>5, <3>1, RefuseDoes
      <3>3. Moved("args")
        BY <1>1, <1>2, <3>1, <3>2 DEF Moved
      <3> QED
        BY <3>3
    <2>2. CASE r # NoRow
      <3>1. Met(r, rest, idx + 1)
        BY <1>8, <2>2 DEF Long
      <3>2. r \in Options
        BY <1>1, <2>2, RowsFound
      <3>3. IsRow(table[r])
        BY <1>1, <3>2, RowsFound, TableRows
      <3>4. Len(table[r].long) \in Nat
        BY <3>3, SeqParts DEF IsRow
      <3>5. IsSeq(rest)
        <4> DEFINE S == ToSet(e.syms)
                   s == e.syms
                   k == Len(table[r].long)
        <4>1. s \in Seq(S) /\ k \in Nat /\ Len(s) \in Nat /\ DOMAIN s = 1 .. Len(s)
          BY <1>3, <3>4, SeqParts
        <4> HIDE DEF S, s, k
        <4>2. SubSeq(s, k + 1, Len(s)) \in Seq(S)
          <5>1. \A i \in k + 1 .. Len(s) : s[i] \in S
            BY <4>1, ElementOfSeq
          <5> QED
            BY <4>1, <5>1, SubSeqProperties
        <4> QED
          BY <4>2, SeqIs DEF s, k
      <3> HIDE DEF r, rest
      <3> QED
        BY <1>1, <1>2, <3>1, <3>2, <3>5, MetMoves
    <2> QED
      BY <2>1, <2>2
  <1> QED
    BY <1>4, <1>6, <1>7, <1>8

LEMMA LettersMoves ==
    ASSUME CursorInv, Letters
    PROVE  \E m : Moved(m)
  <1>1. /\ IsTable(table) /\ IsArgv(argv) /\ IsSeq(letters) /\ sub \in Nat
        /\ idx \in 0 .. Len(argv) /\ idx > 0 /\ letters # <<>>
    BY DEF CursorInv, Letters
  <1>2. Len(argv) \in Nat /\ idx \in 1 .. Len(argv)
    BY <1>1, ArgTexts
  <1> DEFINE r == ShortRow(Head(letters))
  <1>3. CASE r = NoRow
    <2>1. Refuse(Unrecognized(argv[idx])) /\ UNCHANGED <<idx, letters, opt, sub>>
      BY <1>3 DEF Letters
    <2>2. IsSeq(Unrecognized(argv[idx]))
      <3>1. IsSeq(<<>>)
        BY Tuples
      <3>2. IsRow([type |-> "OPTIONAL", long |-> <<>>, nargs |-> 0])
        BY <3>1 DEF IsRow
      <3>3. IsText(argv[idx])
        BY <1>1, <1>2, ArgTexts
      <3> QED
        BY <3>1, <3>2, <3>3, ErrorSeqs
    <2>3. calls' = calls /\ Outcome("args")
      BY <2>1, <2>2, RefuseDoes
    <2>4. Moved("args")
      BY <1>1, <2>1, <2>3 DEF Moved
    <2> QED
      BY <2>4
  <1>4. CASE r # NoRow
    <2>1. Met(r, Tail(letters), idx)
      BY <1>4 DEF Letters
    <2>2. r \in Options /\ IsSeq(Tail(letters))
      BY <1>1, <1>4, RowsFound, SeqTail
    <2> HIDE DEF r
    <2> QED
      BY <1>1, <1>2, <2>1, <2>2, MetMoves
  <1> QED
    BY <1>3, <1>4

LEMMA ValuesMoves ==
    ASSUME CursorInv, Values
    PROVE  \E m : Moved(m)
  <1>1. /\ IsTable(table) /\ IsArgv(argv) /\ IsSeq(letters) /\ sub \in Nat
        /\ idx \in 0 .. Len(argv) /\ opt \in Options
    BY DEF CursorInv, Values
  <1>2. Len(argv) \in Nat /\ opt \in DOMAIN table /\ IsRow(table[opt])
    BY <1>1, ArgTexts, RowsFound, TableRows
  <1>3. CASE idx < Len(argv)
    <2> DEFINE m == IF sub + 1 = table[opt].nargs THEN "args" ELSE "values"
    <2>1. /\ Invoke(opt, sub, argv[idx + 1], m)
          /\ idx' = idx + 1 /\ sub' = sub + 1 /\ UNCHANGED <<letters, opt>>
      BY <1>1, <1>2, <1>3 DEF Values
    <2>2. idx + 1 \in 1 .. Len(argv) /\ idx + 1 \in 0 .. Len(argv) /\ sub + 1 \in Nat
      BY <1>1, <1>2, <1>3
    <2>3. IsText(argv[idx + 1])
      BY <1>1, <2>2, ArgTexts
    <2>4. m \in {"args", "values"} /\ (m = "values" => sub + 1 # table[opt].nargs)
      OBVIOUS
    <2> HIDE DEF m
    <2>5. Called /\ Outcome(m)
      BY <1>1, <1>2, <2>1, <2>3, InvokeDoes
    <2>6. Moved(m)
      BY <1>1, <2>1, <2>2, <2>4, <2>5 DEF Moved
    <2> QED
      BY <2>6
  <1>4. CASE ~(idx < Len(argv))
    <2>1. Refuse(ExpectedArgument(table[opt])) /\ UNCHANGED <<idx, letters, opt, sub>>
      BY <1>4 DEF Values
    <2>2. IsSeq(ExpectedArgument(table[opt]))
      BY <1>1, <1>2, ErrorSeqs, ArgTexts
    <2>3. calls' = calls /\ Outcome("args")
      BY <2>1, <2>2, RefuseDoes
    <2>4. Moved("args")
      BY <1>1, <2>1, <2>3 DEF Moved
    <2> QED
      BY <2>4
  <1> QED
    BY <1>3, <1>4
-----------------------------------------------------------------------------
(* The parser keeps its invariants. *)

LEMMA Whole ==
    ASSUME NEW m, IsSeq(m)
    PROVE  (<<>> \o <<>>) \o m = m
  <1> DEFINE S == ToSet(m)
  <1>1. m \in Seq(S)
    BY SeqParts
  <1> HIDE DEF S
  <1>2. <<>> \o <<>> = <<>> /\ <<>> \o m = m
    BY <1>1, ConcatEmptySeq, EmptySeq
  <1> QED
    BY <1>2

LEMMA AppendOne ==
    ASSUME NEW b, NEW h, IsSeq(b)
    PROVE  IsSeq(Append(b, h)) /\ Len(Append(b, h)) = Len(b) + 1
  <1> DEFINE S == ToSet(b) \cup {h}
  <1>1. b \in Seq(S) /\ h \in S
    BY SeqParts
  <1> HIDE DEF S
  <1>2. Append(b, h) \in Seq(S) /\ Len(Append(b, h)) = Len(b) + 1
    BY <1>1, AppendProperties
  <1> QED
    BY <1>2, SeqIs

\* One piece goes from what is pending to the end of the buffer.
LEMMA PieceMoves ==
    ASSUME NEW d, NEW b, NEW p, NEW h, NEW t,
           IsSeq(d) /\ IsSeq(b) /\ IsSeq(p) /\ p # <<>> /\ h = Head(p) /\ t = Tail(p)
    PROVE  /\ (d \o Append(b, h)) \o t = (d \o b) \o p
           /\ ((d \o b) \o <<h>>) \o t = (d \o b) \o p
           /\ IsSeq(<<h>>) /\ IsSeq(t) /\ Len(<<h>>) = 1
  <1> DEFINE S == ToSet(d) \cup ToSet(b) \cup ToSet(p)
  <1>1. d \in Seq(S) /\ b \in Seq(S) /\ p \in Seq(S)
    BY SeqParts
  <1> HIDE DEF S
  <1>2. h \in S /\ t \in Seq(S) /\ <<h>> \in Seq(S)
    BY <1>1, HeadTailProperties
  <1>3. p = <<h>> \o t
    BY <1>1, HeadTailProperties, EmptySeq, LenProperties
  <1>4. Append(b, h) = b \o <<h>> /\ b \o <<h>> \in Seq(S) /\ d \o b \in Seq(S)
    BY <1>1, <1>2, AppendIsConcat, ConcatProperties
  <1>5. (d \o b) \o <<h>> = d \o (b \o <<h>>)
    BY <1>1, <1>2, ConcatAssociative
  <1>6. ((d \o b) \o <<h>>) \o t = (d \o b) \o (<<h>> \o t)
    BY <1>2, <1>4, ConcatAssociative
  <1>7. Len(<<h>>) = 1
    OBVIOUS
  <1> QED
    BY <1>2, <1>3, <1>4, <1>5, <1>6, <1>7, SeqIs, Zenon

LEMMA PrefixOfJoin ==
    ASSUME NEW s, IsSeq(s), NEW t, IsSeq(t)
    PROVE  IsPrefix(s, s \o t)
  <1> DEFINE S == ToSet(s) \cup ToSet(t)
  <1>1. s \in Seq(S) /\ t \in Seq(S)
    BY SeqParts
  <1> HIDE DEF S
  <1>2. /\ s \o t \in Seq(S) /\ Len(s \o t) = Len(s) + Len(t)
        /\ \A i \in 1 .. Len(s) : (s \o t)[i] = s[i]
        /\ Len(s) \in Nat /\ Len(t) \in Nat
    BY <1>1, ConcatProperties, LenProperties
  <1>3. SubSeq(s, 1, Len(s)) = s
    BY <1>1, SubSeqFull
  <1>4. SubSeq(s \o t, 1, Len(s)) = s
    BY <1>1, ConcatSimplifications, SubSeqFull, <1>2
  <1> QED
    BY <1>2, <1>3, <1>4 DEF IsPrefix

\* The parts of the state that every step of the parser leaves or checks.
LEMMA MovesKeep ==
    ASSUME CursorInv, OutputInv, mode \in {"args", "letters", "values"},
           UNCHANGED <<table, argv>>, NEW m, Moved(m)
    PROVE  CursorInv' /\ OutputInv'
  <1>1. /\ IsTable(table) /\ IsArgv(argv) /\ IsSeq(calls)
        /\ status = "NONE" /\ out_buf = <<>> /\ said = <<>> /\ pending = <<>>
        /\ delivered = <<>>
    BY DEF CursorInv, OutputInv
  <1>2. IsSeq(<<>>) /\ Len(<<>>) = 0 /\ BufSize \in Nat
    BY Tuples, BufAssumption
  <1>3. IsSeq(calls')
    <2>1. ASSUME Called
          PROVE  IsSeq(calls')
      <3>1. PICK r, k, text : calls' = Append(calls, [row |-> r, sub |-> k, text |-> text])
        BY <2>1 DEF Called
      <3>2. PICK c : c = [row |-> r, sub |-> k, text |-> text]
        OBVIOUS
      <3> DEFINE S == ToSet(calls) \cup {c}
      <3>3. calls \in Seq(S) /\ c \in S
        BY <1>1, SeqParts
      <3> HIDE DEF S
      <3>4. Append(calls, c) \in Seq(S)
        BY <3>3, AppendProperties
      <3> QED
        BY <3>1, <3>2, <3>4, SeqIs
    <2> QED
      BY <1>1, <2>1 DEF Moved
  <1>4. CASE Goes(m)
    <2>1. /\ mode' = m /\ status' = "NONE" /\ out_buf' = <<>> /\ said' = <<>>
          /\ pending' = <<>> /\ delivered' = <<>>
      BY <1>1, <1>4 DEF Goes, outVars
    <2>2. m \in {"args", "letters", "values"}
      BY DEF Moved
    <2>3. CursorInv'
      BY <1>1, <1>3, <2>1, <2>2 DEF CursorInv, Moved, Modes, Statuses, Options
    <2>4. OutputInv'
      BY <1>2, <2>1, <2>2 DEF OutputInv, MessageWhole
    <2> QED
      BY <2>3, <2>4
  <1>5. CASE GivesUp
    <2>1. /\ mode' = "over" /\ status' = "NOMEM" /\ out_buf' = <<>> /\ said' = <<>>
          /\ pending' = <<>> /\ delivered' = <<>>
      BY <1>1, <1>5 DEF GivesUp, outVars
    <2>2. CursorInv'
      BY <1>1, <1>3, <2>1 DEF CursorInv, Moved, Modes, Statuses
    <2>3. OutputInv'
      BY <1>2, <2>1 DEF OutputInv, MessageWhole
    <2> QED
      BY <2>2, <2>3
  <1>6. CASE Speaks
    <2>1. PICK msg, s : IsSeq(msg) /\ s \in {"PARSE", "SHOULD_EXIT"} /\ Say(msg, s)
      BY <1>6 DEF Speaks
    <2>2. /\ mode' = "print" /\ status' = s /\ out_buf' = <<>> /\ said' = msg
          /\ pending' = msg /\ delivered' = <<>>
      BY <1>1, <2>1 DEF Say
    <2>3. CursorInv'
      BY <1>1, <1>3, <2>1, <2>2 DEF CursorInv, Moved, Modes, Statuses
    <2>4. OutputInv'
      BY <1>2, <2>1, <2>2, Whole DEF OutputInv, MessageWhole
    <2> QED
      BY <2>3, <2>4
  <1> QED
    BY <1>4, <1>5, <1>6 DEF Moved, Outcome

LEMMA CursorStays ==
    ASSUME CursorInv,
           UNCHANGED <<table, argv, idx, letters, opt, sub, calls>>,
           mode' \in {"print", "over"}, status' \in Statuses
    PROVE  CursorInv'
  BY DEF CursorInv, Modes

LEMMA OutKeeps ==
    ASSUME CursorInv, OutputInv, Out \/ Flush
    PROVE  CursorInv' /\ OutputInv'
  <1>0. /\ IsSeq(out_buf) /\ IsSeq(said) /\ IsSeq(pending) /\ IsSeq(delivered)
        /\ Len(out_buf) <= BufSize /\ status \in {"PARSE", "SHOULD_EXIT"}
        /\ (delivered \o out_buf) \o pending = said /\ mode = "print"
    BY DEF OutputInv, Out, Flush
  <1>1. BufSize \in Nat \ {0} /\ Len(out_buf) \in Nat /\ Len(<<>>) = 0 /\ IsSeq(<<>>)
    BY <1>0, BufAssumption, SeqParts, Tuples
  <1>2. CursorInv'
    <2>1. /\ UNCHANGED <<table, argv, idx, letters, opt, sub, calls>>
          /\ mode' \in {"print", "over"} /\ (status' = status \/ status' = "OUT")
      BY <1>0, Zenon DEF Out, Flush, OutFails
    <2>2. status' \in Statuses
      BY <1>0, <2>1 DEF Statuses
    <2> QED
      BY <2>1, <2>2, CursorStays
  <1>3. IsSeq(delivered \o out_buf)
    BY <1>0, Joined
  <1>4. ASSUME OutFails
        PROVE  OutputInv'
    <2>1. /\ mode' = "over" /\ status' = "OUT" /\ out_buf' = out_buf /\ said' = said
          /\ pending' = pending /\ delivered' = delivered
      BY <1>4 DEF OutFails, outVars
    <2>2. IsPrefix(delivered, said)
      <3>1. IsPrefix(delivered, delivered \o (out_buf \o pending))
        BY <1>0, Joined, PrefixOfJoin
      <3>2. delivered \o (out_buf \o pending) = said
        <4> DEFINE S == ToSet(delivered) \cup ToSet(out_buf) \cup ToSet(pending)
        <4>1. delivered \in Seq(S) /\ out_buf \in Seq(S) /\ pending \in Seq(S)
          BY <1>0, SeqParts
        <4> HIDE DEF S
        <4>2. (delivered \o out_buf) \o pending = delivered \o (out_buf \o pending)
          BY <4>1, ConcatAssociative
        <4> QED
          BY <1>0, <4>2
      <3> QED
        BY <3>1, <3>2
    <2> QED
      BY <1>0, <2>1, <2>2 DEF OutputInv, MessageWhole
  <1>5. ASSUME mode' = "print", status' = status, said' = said,
               IsSeq(out_buf'), IsSeq(pending'), IsSeq(delivered'), Len(out_buf') <= BufSize,
               (delivered' \o out_buf') \o pending' = said
        PROVE  OutputInv'
    BY <1>0, <1>5 DEF OutputInv, MessageWhole
  <1>6. CASE Out
    <2>1. pending # <<>>
      BY <1>6 DEF Out
    <2>2. PICK d, b, p, h, t : /\ d = delivered /\ b = out_buf /\ p = pending
                               /\ h = Head(pending) /\ t = Tail(pending)
      OBVIOUS
    <2>3. /\ (d \o Append(b, h)) \o t = (d \o b) \o p
          /\ ((d \o b) \o <<h>>) \o t = (d \o b) \o p
          /\ IsSeq(Append(b, h)) /\ Len(Append(b, h)) = Len(b) + 1
          /\ IsSeq(<<h>>) /\ IsSeq(t) /\ Len(<<h>>) = 1
      <3>1. /\ IsSeq(d) /\ IsSeq(b) /\ IsSeq(p) /\ p # <<>>
            /\ h = Head(p) /\ t = Tail(p)
        BY <1>0, <2>1, <2>2
      <3>2. (d \o Append(b, h)) \o t = (d \o b) \o p
        BY <3>1, PieceMoves
      <3>3. ((d \o b) \o <<h>>) \o t = (d \o b) \o p
        BY <3>1, PieceMoves
      <3>4. IsSeq(Append(b, h)) /\ Len(Append(b, h)) = Len(b) + 1
        BY <3>1, AppendOne
      <3>5. IsSeq(<<h>>) /\ IsSeq(t) /\ Len(<<h>>) = 1
        BY <3>1, PieceMoves
      <3> QED
        BY <3>2, <3>3, <3>4, <3>5
    <2>4. (d \o b) \o p = said
      BY <1>0, <2>2
    <2>5. CASE /\ Len(out_buf) < BufSize
               /\ out_buf' = Append(out_buf, Head(pending)) /\ pending' = Tail(pending)
               /\ UNCHANGED <<mode, status, said, delivered>>
      <3>1. out_buf' = Append(b, h) /\ pending' = t /\ delivered' = d
        BY <2>2, <2>5
      <3>2. (delivered' \o out_buf') \o pending' = said
        BY <2>3, <2>4, <3>1, Zenon
      <3>3. IsSeq(out_buf') /\ IsSeq(pending') /\ IsSeq(delivered')
            /\ Len(out_buf') = Len(out_buf) + 1
        BY <1>0, <2>2, <2>3, <3>1, Zenon
      <3>4. Len(out_buf') <= BufSize
        BY <1>1, <2>5, <3>3
      <3>5. OutputInv'
        BY <1>0, <1>5, <2>5, <3>2, <3>3, <3>4
      <3> QED
        BY <1>2, <3>5
    <2>6. CASE /\ Len(out_buf) = BufSize /\ Delivering
               /\ out_buf' = <<Head(pending)>> /\ pending' = Tail(pending)
               /\ UNCHANGED <<mode, status, said>>
      <3>1. out_buf' = <<h>> /\ pending' = t /\ delivered' = d \o b
        BY <2>2, <2>6 DEF Delivering
      <3>2. (delivered' \o out_buf') \o pending' = said
        BY <2>3, <2>4, <3>1, Zenon
      <3>3. IsSeq(out_buf') /\ IsSeq(pending') /\ IsSeq(delivered') /\ Len(out_buf') = 1
        BY <1>3, <2>2, <2>3, <3>1, Zenon
      <3>4. Len(out_buf') <= BufSize
        BY <1>1, <3>3
      <3>5. OutputInv'
        BY <1>0, <1>5, <2>6, <3>2, <3>3, <3>4
      <3> QED
        BY <1>2, <3>5
    <2>7. CASE OutFails
      BY <1>2, <1>4, <2>7
    <2> QED
      BY <1>6, <2>5, <2>6, <2>7 DEF Out
  <1>7. CASE Flush
    <2>1. pending = <<>>
      BY <1>7 DEF Flush
    <2>2. CASE /\ Delivering /\ out_buf' = <<>> /\ mode' = "over"
               /\ UNCHANGED <<said, pending, status>>
      <3>1. (delivered \o out_buf) \o <<>> = delivered \o out_buf
        <4> DEFINE s == delivered \o out_buf
                   S == ToSet(s)
        <4>1. s \in Seq(S)
          BY <1>3, SeqParts
        <4> HIDE DEF S, s
        <4>2. s \o <<>> = s
          BY <4>1, ConcatEmptySeq
        <4> QED
          BY <4>2 DEF s
      <3>2. delivered' = said
        BY <1>0, <2>1, <2>2, <3>1 DEF Delivering
      <3>3. OutputInv'
        BY <1>0, <1>1, <2>1, <2>2, <3>2 DEF OutputInv, MessageWhole
      <3> QED
        BY <1>2, <3>3
    <2>3. CASE OutFails
      BY <1>2, <1>4, <2>3
    <2> QED
      BY <1>7, <2>2, <2>3 DEF Flush
  <1> QED
    BY <1>6, <1>7

\* What is true of any step of the parser.
LEMMA ArgStepKeeps ==
    ASSUME CursorInv, OutputInv, ArgStep
    PROVE  /\ CursorInv' /\ OutputInv' /\ UNCHANGED <<table, argv>>
           /\ calls' = calls \/ Called
           /\ status' = "NONE" => status = "NONE"
  <1>1. ASSUME Args \/ Letters \/ Values
        PROVE  /\ CursorInv' /\ OutputInv' /\ UNCHANGED <<table, argv>>
               /\ calls' = calls \/ Called
               /\ status = "NONE"
    <2>1. mode \in {"args", "letters", "values"} /\ UNCHANGED <<table, argv>>
      BY <1>1 DEF Args, Letters, Values
    <2>2. PICK m : Moved(m)
      BY <1>1, ArgsMoves, LettersMoves, ValuesMoves
    <2>3. CursorInv' /\ OutputInv'
      BY <2>1, <2>2, MovesKeep
    <2>4. calls' = calls \/ Called
      BY <2>2 DEF Moved
    <2>5. status = "NONE"
      BY <2>1 DEF OutputInv
    <2> QED
      BY <2>1, <2>3, <2>4, <2>5
  <1>2. ASSUME AllTaken
        PROVE  CursorInv' /\ OutputInv'
    <2>1. /\ mode = "args" /\ mode' = "over"
          /\ UNCHANGED <<table, argv, idx, letters, opt, sub, calls, outVars, status>>
      BY <1>2 DEF AllTaken
    <2>2. /\ status = "NONE" /\ out_buf = <<>> /\ said = <<>> /\ pending = <<>>
          /\ delivered = <<>> /\ IsSeq(<<>>)
      BY <2>1, Tuples DEF OutputInv
    <2>3. CursorInv'
      BY <2>1, <2>2, CursorStays DEF Statuses
    <2>4. OutputInv'
      BY <2>1, <2>2 DEF OutputInv, MessageWhole, outVars
    <2> QED
      BY <2>3, <2>4
  <1>3. Out \/ Flush => (status' = "NONE" => status = "NONE")
    BY DEF Out, Flush, OutFails
  <1>4. Out \/ Flush \/ AllTaken => UNCHANGED <<table, argv, calls>>
    BY Zenon DEF Out, Flush, AllTaken
  <1>5. AllTaken => (status' = "NONE" => status = "NONE")
    BY DEF AllTaken
  <1> QED
    BY <1>1, <1>2, <1>3, <1>4, <1>5, OutKeeps DEF ArgStep

LEMMA BeginKeeps ==
    ASSUME NEW t, IsTable(t), NEW a, IsArgv(a), ArgsBegin(t, a)
    PROVE  CursorInv' /\ OutputInv'
  <1>1. IsSeq(<<>>) /\ Len(<<>>) = 0 /\ BufSize \in Nat /\ Len(a) \in Nat
    BY Tuples, BufAssumption, SeqParts DEF IsArgv
  <1>2. CursorInv'
    BY <1>1 DEF ArgsBegin, CursorInv, Modes, Statuses
  <1>3. OutputInv'
    BY <1>1 DEF ArgsBegin, OutputInv, MessageWhole
  <1> QED
    BY <1>2, <1>3

LEMMA ArgsStay ==
    ASSUME CursorInv, OutputInv, UNCHANGED argVars
    PROVE  CursorInv' /\ OutputInv'
  <1>1. UNCHANGED <<table, argv, idx, mode, letters, opt, sub, calls, out_buf, said, pending,
                    delivered, status>>
    BY DEF argVars, outVars
  <1>2. CursorInv'
    BY <1>1 DEF CursorInv, Options
  <1>3. OutputInv'
    BY <1>1 DEF OutputInv, MessageWhole
  <1> QED
    BY <1>2, <1>3
-----------------------------------------------------------------------------
(* The parser's part of the invariant, in every step of the program. *)

LEMMA MptestRows ==
    /\ IsSeq(MptestTable) /\ Len(MptestTable) = 7
    /\ \A i \in 1 .. 7 : LET row == MptestTable[i]
                         IN /\ row.type \in {"OPTIONAL", "POSITIONAL"} /\ IsSeq(row.long)
                            /\ row.nargs \in Int
                            /\ row.handler \in {"bool", "custom", "help", "name", "str",
                                                "version"}
  <1> DEFINE Fine(row) == /\ row.type \in {"OPTIONAL", "POSITIONAL"} /\ IsSeq(row.long)
                          /\ row.nargs \in Int
                          /\ row.handler \in {"bool", "custom", "help", "name", "str",
                                              "version"}
  <1>1. ASSUME NEW short, NEW long, IsSeq(long), NEW n \in Int, NEW v,
               NEW h \in {"bool", "custom", "help", "name", "str", "version"}
        PROVE  Fine(Option(short, long, n, h, v))
    <2> DEFINE row == Option(short, long, n, h, v)
    <2>1. /\ row.type = "OPTIONAL" /\ row.long = long /\ row.nargs = n /\ row.handler = h
      BY DEF Option
    <2> HIDE DEF row
    <2>2. Fine(row)
      BY <1>1, <2>1
    <2> QED
      BY <2>2 DEF row
  <1>2. ASSUME NEW long, IsSeq(long), NEW short
        PROVE  Fine(BoolOption(long)) /\ Fine(HelpOption(short, long))
               /\ Fine(VersionOption(long))
    <2>1. Nargs0Or1Eq \in Int /\ 0 \in Int
      BY DEF Nargs0Or1Eq
    <2> HIDE DEF Fine
    <2> QED
      BY <1>1, <1>2, <2>1 DEF BoolOption, HelpOption, VersionOption
  <1>3. /\ IsSeq(<<"test">>) /\ IsSeq(<<"suite">>) /\ IsSeq(<<"fault", "check">>)
        /\ IsSeq(<<"leak", "check">>) /\ IsSeq(<<"leak", "check", "pass">>)
        /\ IsSeq(<<"help">>) /\ IsSeq(<<"version">>)
    BY Tuples, Zenon
  <1> HIDE DEF Fine
  <1>4. /\ Fine(Option("t", <<"test">>, 1, "name", "NAME"))
        /\ Fine(Option("s", <<"suite">>, 1, "name", "NAME"))
    BY <1>1, <1>3
  <1>5. /\ Fine(BoolOption(<<"fault", "check">>)) /\ Fine(BoolOption(<<"leak", "check">>))
        /\ Fine(BoolOption(<<"leak", "check", "pass">>))
        /\ Fine(HelpOption("h", <<"help">>)) /\ Fine(VersionOption(<<"version">>))
    BY <1>2, <1>3
  <1>6. PICK r1, r2, r3, r4, r5, r6, r7 :
           /\ r1 = Option("t", <<"test">>, 1, "name", "NAME")
           /\ r2 = Option("s", <<"suite">>, 1, "name", "NAME")
           /\ r3 = BoolOption(<<"fault", "check">>) /\ r4 = BoolOption(<<"leak", "check">>)
           /\ r5 = BoolOption(<<"leak", "check", "pass">>)
           /\ r6 = HelpOption("h", <<"help">>) /\ r7 = VersionOption(<<"version">>)
    OBVIOUS
  <1>7. MptestTable = <<r1, r2, r3, r4, r5, r6, r7>>
    BY <1>6 DEF MptestTable
  <1> DEFINE S == {r1, r2, r3, r4, r5, r6, r7}
  <1>8. <<r1, r2, r3, r4, r5, r6, r7>> \in Seq(S) /\ Len(<<r1, r2, r3, r4, r5, r6, r7>>) = 7
    <2>1. r1 \in S /\ r2 \in S /\ r3 \in S /\ r4 \in S /\ r5 \in S /\ r6 \in S /\ r7 \in S
      OBVIOUS
    <2> HIDE DEF S
    <2> QED
      BY <2>1
  <1>9. \A row \in S : Fine(row)
    BY <1>4, <1>5, <1>6
  <1>10. \A i \in 1 .. 7 : MptestTable[i] \in S
    <2> HIDE DEF S
    <2> QED
      BY <1>7, <1>8, ElementOfSeq
  <1>11. IsSeq(MptestTable)
    <2> HIDE DEF S
    <2> QED
      BY <1>7, <1>8, SeqIs
  <1>12. Len(MptestTable) = 7
    BY <1>7, <1>8
  <1>13. \A i \in 1 .. 7 : Fine(MptestTable[i])
    BY <1>9, <1>10
  <1> QED
    BY <1>11, <1>12, <1>13 DEF Fine

\* The table a session begins with, and an empty command line.
LEMMA TablesOfSessions ==
    /\ \A lib \in Libraries : \A size \in Sizes(lib) : IsTable(SubSeq(MptestTable, 1, size))
    /\ IsArgv(<<>>)
  <1>1. ASSUME NEW lib \in Libraries, NEW size \in Sizes(lib)
        PROVE  IsTable(SubSeq(MptestTable, 1, size))
    <2>1. size \in 0 .. 7
      BY MptestRows DEF Sizes
    <2> DEFINE S == ToSet(MptestTable)
               u == SubSeq(MptestTable, 1, size)
    <2>2. \A i \in 1 .. size : MptestTable[i] \in S /\ i \in 1 .. 7
      <3>1. IsSeq(MptestTable) /\ Len(MptestTable) = 7
        BY MptestRows
      <3>2. \A i \in 1 .. 7 : MptestTable[i] \in S
        BY <3>1, SeqParts
      <3> HIDE DEF S
      <3> QED
        BY <2>1, <3>2
    <2>3. /\ u \in Seq(S) /\ Len(u) = size
          /\ \A i \in 1 .. size : u[i] = MptestTable[i]
      <3> HIDE DEF S
      <3>1. 1 \in Int /\ size \in Int /\ size \in Nat
        BY <2>1
      <3>2. /\ SubSeq(MptestTable, 1, size) \in Seq(S)
            /\ Len(SubSeq(MptestTable, 1, size)) = IF 1 <= size THEN size - 1 + 1 ELSE 0
            /\ \A i \in 1 .. size - 1 + 1 :
                  SubSeq(MptestTable, 1, size)[i] = MptestTable[1 + i - 1]
        BY <2>2, <3>1, SubSeqProperties
      <3> QED
        BY <3>1, <3>2
    <2> HIDE DEF S, u
    <2>4. IsSeq(u)
      BY <2>3, SeqIs
    <2>5. \A row \in ToSet(u) : \E i \in 1 .. 7 : row = MptestTable[i]
      <3>1. DOMAIN u = 1 .. size
        BY <2>3, LenProperties
      <3> QED
        BY <2>2, <2>3, <3>1 DEF ToSet
    <2>6. IsTable(u)
      BY <2>4, <2>5, MptestRows, Zenon DEF IsTable
    <2> QED
      BY <2>6 DEF u
  <1>2. IsArgv(<<>>)
    <2>1. ToSet(<<>>) = {}
      BY EmptySeq DEF ToSet
    <2> QED
      BY <2>1, Tuples DEF IsArgv
  <1> QED
    BY <1>1, <1>2

\* Every way to begin gives the parser a table and an argv.
LEMMA BeginsBegin ==
    ASSUME Begins
    PROVE  \E t, a : IsTable(t) /\ IsArgv(a) /\ ArgsBegin(t, a)
  <1>1. ASSUME NEW lib \in Libraries, NEW size \in Sizes(lib), NEW a, IsArgv(a),
               SetUp(lib, size, a)
        PROVE  \E t, b : IsTable(t) /\ IsArgv(b) /\ ArgsBegin(t, b)
    BY <1>1, TablesOfSessions, Zenon DEF SetUp
  <1>2. ASSUME NEW us, NEW a, NEW meant, IsArgv(a), MainBeginArgs(us, a, meant)
        PROVE  \E t, b : IsTable(t) /\ IsArgv(b) /\ ArgsBegin(t, b)
    BY <1>1, <1>2, Zenon DEF MainBeginArgs
  <1>3. ASSUME NEW us, NEW a, NEW meant, IsArgv(a), OtherBegins(us, a, meant)
        PROVE  \E t, b : IsTable(t) /\ IsArgv(b) /\ ArgsBegin(t, b)
    BY <1>3, ClientAssumption, Zenon DEF OtherBegins
  <1>4. /\ \A us \in Given(MptestTable) : IsArgv(Written(MptestTable, us))
        /\ \A us \in Given(OtherTable) : IsArgv(Written(OtherTable, us))
        /\ \A a \in Stray(MptestTable) : IsArgv(a)
        /\ \A a \in Stray(OtherTable) : IsArgv(a)
    BY ClientAssumption, Zenon
  <1>5. CASE MainBegin \/ MainBeginNoArgs
    BY <1>1, <1>5, TablesOfSessions, Zenon DEF MainBegin, MainBeginNoArgs
  <1>6. CASE \E us \in Given(MptestTable) : MainBeginArgs(us, Written(MptestTable, us), TRUE)
    BY <1>2, <1>4, <1>6, Zenon
  <1>7. CASE \E a \in Stray(MptestTable) : MainBeginArgs(<<>>, a, FALSE)
    BY <1>2, <1>4, <1>7, Zenon
  <1>8. CASE \E us \in Given(OtherTable) : OtherBegins(us, Written(OtherTable, us), TRUE)
    BY <1>3, <1>4, <1>8, Zenon
  <1>9. CASE \E a \in Stray(OtherTable) : OtherBegins(<<>>, a, FALSE)
    BY <1>3, <1>4, <1>9, Zenon
  <1> QED
    BY <1>5, <1>6, <1>7, <1>8, <1>9, Zenon DEF Begins

LEMMA ParserStep ==
    ASSUME CursorInv, OutputInv, [Next]_vars
    PROVE  CursorInv' /\ OutputInv'
  <1>1. CASE Begins
    BY <1>1, BeginsBegin, BeginKeeps
  <1>2. CASE Parsing
    BY <1>2, ArgStepKeeps DEF Parsing
  <1>3. ASSUME Parsed \/ NotParsed \/ RunAll \/ MainEnd \/ UNCHANGED vars
        PROVE  UNCHANGED argVars
    BY <1>3, Zenon DEF Parsed, NotParsed, RunAll, MainEnd, vars
  <1>4. CASE Parsed \/ NotParsed \/ RunAll \/ MainEnd \/ UNCHANGED vars
    BY <1>3, <1>4, ArgsStay
  <1> QED
    BY <1>1, <1>2, <1>4 DEF Next

LEMMA ParserInit ==
    ASSUME Init
    PROVE  CursorInv /\ OutputInv
  <1>1. IsSeq(<<>>) /\ Len(<<>>) = 0 /\ BufSize \in Nat /\ ToSet(<<>>) = {}
    BY Tuples, BufAssumption, EmptySeq DEF ToSet
  <1>2. IsTable(<<>>) /\ IsArgv(<<>>)
    BY <1>1 DEF IsTable, IsArgv
  <1>3. CursorInv
    BY <1>1, <1>2 DEF Init, ArgInit, CursorInv, Modes, Statuses
  <1>4. OutputInv
    BY <1>1 DEF Init, ArgInit, OutputInv, MessageWhole
  <1> QED
    BY <1>3, <1>4

\* Every message is delivered whole and once, or, when out_cb fails, from its
\* beginning on, for any size of the buffer and any table and arguments
\* (aparse__state_out and the flush of aparse_parse).
THEOREM MessageWholeThm == Spec => []MessageWhole
  <1>1. CursorInv /\ OutputInv /\ [Next]_vars => (CursorInv /\ OutputInv)'
    BY ParserStep
  <1>2. OutputInv => MessageWhole
    BY DEF OutputInv
  <1> QED
    BY <1>1, <1>2, ParserInit, PTL DEF Spec
-----------------------------------------------------------------------------
(* The lists of names. *)

\* The recursion of Reached, where the nodes stand in chains.
LEMMA ChainFrom ==
    ASSUME NEW n \in Nat \ {0}, NEW ns, NEW part, Chains(ns, n, part),
           NEW from
    PROVE  LET Eq(f) == f = [k \in 0 .. n |-> IF k \notin DOMAIN ns THEN {}
                                              ELSE {k} \cup f[ns[k].next]]
           IN /\ \E f : Eq(f)
              /\ (\A k \in 0 .. n : from[k] = IF k \notin DOMAIN ns THEN {}
                                              ELSE {k} \cup from[ns[k].next]) =>
                 /\ from[Null] = {}
                 /\ \A k \in DOMAIN ns :
                       from[k] = {j \in DOMAIN ns : part[j] = part[k] /\ j >= k}
  <1> DEFINE D == 1 .. n - 1
             After(k) == {j \in D : part[j] = part[k] /\ j >= k}
             Eq(f) == f = [k \in 0 .. n |-> IF k \notin DOMAIN ns THEN {}
                                            ELSE {k} \cup f[ns[k].next]]
             F == [k \in 0 .. n |-> IF k \notin D THEN {} ELSE After(k)]
  <1>1. /\ DOMAIN ns = D /\ D \subseteq 0 .. n /\ 0 \in 0 .. n /\ 0 \notin D
        /\ \A k \in D : ns[k].next \in Nat /\ OneLaterIn(ns, part, k)
    BY DEF Chains
  <1>2. \A k \in D : \/ ns[k].next = 0 /\ \A j \in D : part[j] = part[k] => j <= k
                     \/ /\ ns[k].next \in D /\ ns[k].next > k /\ part[ns[k].next] = part[k]
                        /\ \A j \in D : part[j] = part[k] /\ j > k => j >= ns[k].next
    BY <1>1, Zenon DEF OneLaterIn, Null
  <1>3. ASSUME NEW k \in D
        PROVE  After(k) = {k} \cup F[ns[k].next]
    <2>1. CASE ns[k].next = 0 /\ \A j \in D : part[j] = part[k] => j <= k
      <3>1. F[ns[k].next] = {}
        BY <1>1, <2>1
      <3>2. After(k) = {k}
        BY <2>1
      <3> QED
        BY <3>1, <3>2
    <2>2. CASE /\ ns[k].next \in D /\ ns[k].next > k /\ part[ns[k].next] = part[k]
               /\ \A j \in D : part[j] = part[k] /\ j > k => j >= ns[k].next
      <3>1. F[ns[k].next] = After(ns[k].next)
        BY <1>1, <2>2
      <3>2. After(k) = {k} \cup After(ns[k].next)
        BY <2>2
      <3> QED
        BY <3>1, <3>2
    <2> QED
      BY <1>2, <2>1, <2>2
  <1>4. Eq(F)
    <2>1. \A k \in 0 .. n : F[k] = IF k \notin DOMAIN ns THEN {} ELSE {k} \cup F[ns[k].next]
      BY <1>1, <1>3
    <2>2. F = [k \in 0 .. n |-> F[k]]
      OBVIOUS
    <2> HIDE DEF F
    <2> QED
      BY <2>1, <2>2
  <1>5. \E f : Eq(f)
    <2> HIDE DEF F
    <2> QED
      BY <1>4
  <1> SUFFICES ASSUME \A k \in 0 .. n : from[k] = IF k \notin DOMAIN ns THEN {}
                                                  ELSE {k} \cup from[ns[k].next]
               PROVE  /\ from[Null] = {}
                      /\ \A k \in DOMAIN ns :
                            from[k] = {j \in DOMAIN ns : part[j] = part[k] /\ j >= k}
    <2> HIDE DEF F
    <2> QED
      BY <1>5
  <1>6. from[0] = {} /\ \A k \in D : from[k] = {k} \cup from[ns[k].next]
    <2> HIDE DEF F
    <2> QED
      BY <1>1
  <1> HIDE DEF Eq
  <1> DEFINE Missing == {n - k : k \in {q \in D : from[q] # After(q)}}
  <1>7. ASSUME Missing # {}
        PROVE  FALSE
    <2>1. Missing \in SUBSET Nat
      OBVIOUS
    <2>2. PICK m \in Missing : \A y \in Missing : m <= y
      <3> HIDE DEF Missing
      <3> QED
        BY <1>7, <2>1, LeastNat
    <2>3. PICK k \in D : m = n - k /\ from[k] # After(k)
      BY <2>2
    <2>4. \A q \in D : q > k => from[q] = After(q)
      <3>1. ASSUME NEW q \in D, q > k, from[q] # After(q)
            PROVE  FALSE
        <4>1. n - q \in Missing
          BY <3>1
        <4>2. n - k <= n - q
          <5> HIDE DEF Missing
          <5> QED
            BY <2>2, <2>3, <4>1
        <4> QED
          BY <3>1, <4>2
      <3> QED
        BY <3>1
    <2>5. from[ns[k].next] = F[ns[k].next]
      <3>1. CASE ns[k].next = 0
        BY <1>1, <1>6, <3>1
      <3>2. CASE ns[k].next \in D /\ ns[k].next > k
        <4>1. F[ns[k].next] = After(ns[k].next)
          BY <1>1, <3>2
        <4> QED
          BY <2>4, <3>2, <4>1
      <3> QED
        BY <1>2, <3>1, <3>2
    <2> HIDE DEF F
    <2> QED
      BY <1>3, <1>6, <2>3, <2>5
  <1>8. \A k \in D : from[k] = After(k)
    BY <1>7
  <1>9. from[Null] = {}
    BY <1>6 DEF Null
  <1>10. ASSUME NEW k \in DOMAIN ns
         PROVE  from[k] = {j \in DOMAIN ns : part[j] = part[k] /\ j >= k}
    BY <1>1, <1>8
  <1> HIDE DEF D, After, F, Missing
  <1> QED
    BY <1>9, <1>10, Zenon

LEMMA ChainExists ==
    ASSUME NEW n \in Nat \ {0}, NEW ns, NEW part, Chains(ns, n, part)
    PROVE  \E f : f = [k \in 0 .. n |-> IF k \notin DOMAIN ns THEN {}
                                        ELSE {k} \cup f[ns[k].next]]
  <1>1. PICK from : from = {}
    OBVIOUS
  <1> QED
    BY <1>1, ChainFrom

\* The recursion equation of Reached, in a state and in the next.
LEMMA ReachedFrom ==
    ASSUME next_node \in Nat \ {0}, NEW part, Chains(nodes, next_node, part)
    PROVE  \E from : /\ \A x : Reached(x) = from[x]
                     /\ \A k \in 0 .. next_node :
                           from[k] = IF k \notin DOMAIN nodes THEN {}
                                     ELSE {k} \cup from[(nodes)[k].next]
  <1> DEFINE Eq(f) == f = [k \in 0 .. next_node |-> IF k \notin DOMAIN nodes THEN {}
                                                     ELSE {k} \cup f[(nodes)[k].next]]
             from == CHOOSE f : Eq(f)
  <1>1. PICK n, ns : n = next_node /\ ns = nodes
    OBVIOUS
  <1> DEFINE Eq2(f) == f = [k \in 0 .. n |-> IF k \notin DOMAIN ns THEN {}
                                             ELSE {k} \cup f[ns[k].next]]
  <1>2. \A f : Eq(f) <=> Eq2(f)
    BY <1>1
  <1>3. \E f : Eq2(f)
    <2>1. n \in Nat \ {0} /\ Chains(ns, n, part)
      BY <1>1
    <2> QED
      BY <2>1, ChainExists, Zenon
  <1>4. Eq(from)
    <2> HIDE DEF Eq, Eq2
    <2> QED
      BY <1>2, <1>3, Zenon
  <1>5. \A x : Reached(x) = from[x]
    BY DEF Reached
  <1> HIDE DEF from
  <1>6. \A k \in 0 .. next_node : from[k] = IF k \notin DOMAIN nodes THEN {}
                                          ELSE {k} \cup from[(nodes)[k].next]
    BY <1>4
  <1> QED
    BY <1>5, <1>6

LEMMA ReachedFromThen ==
    ASSUME next_node' \in Nat \ {0}, NEW part, Chains(nodes', next_node', part)
    PROVE  \E from : /\ \A x : Reached(x)' = from[x]
                     /\ \A k \in 0 .. next_node' :
                           from[k] = IF k \notin DOMAIN nodes' THEN {}
                                     ELSE {k} \cup from[(nodes')[k].next]
  <1> DEFINE Eq(f) == f = [k \in 0 .. next_node' |-> IF k \notin DOMAIN nodes' THEN {}
                                                     ELSE {k} \cup f[(nodes')[k].next]]
             from == CHOOSE f : Eq(f)
  <1>1. PICK n, ns : n = next_node' /\ ns = nodes'
    OBVIOUS
  <1> DEFINE Eq2(f) == f = [k \in 0 .. n |-> IF k \notin DOMAIN ns THEN {}
                                             ELSE {k} \cup f[ns[k].next]]
  <1>2. \A f : Eq(f) <=> Eq2(f)
    BY <1>1
  <1>3. \E f : Eq2(f)
    <2>1. n \in Nat \ {0} /\ Chains(ns, n, part)
      BY <1>1
    <2> QED
      BY <2>1, ChainExists, Zenon
  <1>4. Eq(from)
    <2> HIDE DEF Eq, Eq2
    <2> QED
      BY <1>2, <1>3, Zenon
  <1>5. \A x : Reached(x)' = from[x]
    BY DEF Reached
  <1> HIDE DEF from
  <1>6. \A k \in 0 .. next_node' : from[k] = IF k \notin DOMAIN nodes' THEN {}
                                          ELSE {k} \cup from[(nodes')[k].next]
    BY <1>4
  <1> QED
    BY <1>5, <1>6

Follows(from, ns, n) ==
    \A k \in 0 .. n : from[k] = IF k \notin DOMAIN ns THEN {} ELSE {k} \cup from[ns[k].next]
LEMMA ChainsReach ==
    ASSUME NEW n \in Nat \ {0}, NEW ns, NEW part, NEW hd, NEW tl, Parts(ns, n, part, hd, tl),
           NEW from, Follows(from, ns, n), NEW l \in Lists
    PROVE  /\ from[hd[l]] = {j \in DOMAIN ns : part[j] = l}
           /\ hd[l] = Null <=> from[hd[l]] = {}
           /\ hd[l] = Null <=> tl[l] = Null
           /\ hd[l] # Null => hd[l] \in DOMAIN ns
  <1>2. Chains(ns, n, part) /\ EndsAt(ns, part, l, hd[l], tl[l])
    BY DEF Parts
  <1>3. /\ from[Null] = {}
        /\ \A k \in DOMAIN ns : from[k] = {j \in DOMAIN ns : part[j] = part[k] /\ j >= k}
    BY <1>2, ChainFrom DEF Follows
  <1>5. DOMAIN ns = 1 .. n - 1
    BY <1>2 DEF Chains
  <1>6. CASE hd[l] = Null
    <2>1. tl[l] = Null /\ \A j \in DOMAIN ns : part[j] # l
      BY <1>2, <1>6 DEF EndsAt
    <2>2. {j \in DOMAIN ns : part[j] = l} = {}
      BY <2>1
    <2> QED
      BY <1>3, <1>6, <2>1, <2>2
  <1>7. CASE hd[l] # Null
    <2>1. /\ hd[l] \in DOMAIN ns /\ tl[l] \in DOMAIN ns /\ part[hd[l]] = l
          /\ \A j \in DOMAIN ns : part[j] = l => hd[l] <= j
      BY <1>2, <1>7 DEF EndsAt
    <2>2. from[hd[l]] = {j \in DOMAIN ns : part[j] = l /\ j >= hd[l]}
      BY <1>3, <2>1
    <2>3. {j \in DOMAIN ns : part[j] = l /\ j >= hd[l]} = {j \in DOMAIN ns : part[j] = l}
      BY <1>5, <2>1
    <2>4. hd[l] \in {j \in DOMAIN ns : part[j] = l}
      BY <2>1
    <2>5. tl[l] # Null
      BY <1>5, <2>1 DEF Null
    <2> QED
      BY <1>7, <2>1, <2>2, <2>3, <2>4, <2>5
  <1> QED
    BY <1>6, <1>7

\* What the chains say of the lists.
LEMMA ChainsReached ==
    ASSUME NEW part, NEW l, l \in Lists, next_node \in Nat \ {0},
           Parts(nodes, next_node, part, head, tail)
    PROVE  /\ Reached(head[l]) = {j \in DOMAIN nodes : part[j] = l}
           /\ head[l] = Null <=> Reached(head[l]) = {}
           /\ head[l] = Null <=> tail[l] = Null
           /\ ~Dangling(l)
  <1>1. Chains(nodes, next_node, part)
    BY DEF Parts
  <1>2. PICK from : /\ \A x : Reached(x) = from[x]
                    /\ \A k \in 0 .. next_node :
                          from[k] = IF k \notin DOMAIN nodes THEN {}
                                    ELSE {k} \cup from[nodes[k].next]
    BY <1>1, ReachedFrom
  <1>3. PICK n, ns, hd, tl : n = next_node /\ ns = nodes /\ hd = head /\ tl = tail
    OBVIOUS
  <1>4. /\ n \in Nat \ {0} /\ Parts(ns, n, part, hd, tl)
        /\ Follows(from, ns, n)
    BY <1>2, <1>3 DEF Follows
  <1>5. /\ from[hd[l]] = {j \in DOMAIN ns : part[j] = l}
        /\ hd[l] = Null <=> from[hd[l]] = {}
        /\ hd[l] = Null <=> tl[l] = Null
        /\ hd[l] # Null => hd[l] \in DOMAIN ns
    BY <1>4, ChainsReach, Zenon
  <1> QED
    BY <1>2, <1>3, <1>5 DEF Dangling

LEMMA PartReached ==
    ASSUME NEW part, NEW l, l \in Lists, next_node \in Nat \ {0},
           Parts(nodes, next_node, part, head, tail)
    PROVE  Reached(head[l]) = {j \in DOMAIN nodes : part[j] = l}
  BY ChainsReached

LEMMA ChainsReachedThen ==
    ASSUME NEW part, NEW l, l \in Lists, next_node' \in Nat \ {0},
           Parts(nodes', next_node', part, head', tail')
    PROVE  Reached(head[l])' = {j \in DOMAIN nodes' : part[j] = l}
  <1>1. Chains(nodes', next_node', part)
    BY DEF Parts
  <1>2. PICK from : /\ \A x : Reached(x)' = from[x]
                    /\ \A k \in 0 .. next_node' :
                          from[k] = IF k \notin DOMAIN nodes' THEN {}
                                    ELSE {k} \cup from[(nodes')[k].next]
    BY <1>1, ReachedFromThen
  <1>3. PICK n, ns, hd, tl : n = next_node' /\ ns = nodes' /\ hd = head' /\ tl = tail'
    OBVIOUS
  <1>4. /\ n \in Nat \ {0} /\ Parts(ns, n, part, hd, tl)
        /\ Follows(from, ns, n)
    BY <1>2, <1>3 DEF Follows
  <1>5. from[hd[l]] = {j \in DOMAIN ns : part[j] = l}
    BY <1>4, ChainsReach, Zenon
  <1>6. Reached(head[l])' = from[(head')[l]]
    BY <1>2 DEF Reached
  <1> QED
    BY <1>3, <1>5, <1>6

LEMMA NoneReached ==
    ASSUME nodes = <<>>, next_node \in Nat
    PROVE  Reached(Null) = {}
  <1> DEFINE Eq(f) == f = [k \in 0 .. next_node |-> IF k \notin DOMAIN nodes THEN {}
                                                     ELSE {k} \cup f[nodes[k].next]]
             F == [k \in 0 .. next_node |-> {}]
  <1>1. DOMAIN nodes = {} /\ Null \in 0 .. next_node
    BY EmptySeq DEF Null
  <1>2. Eq(F)
    BY <1>1
  <1>3. Eq(CHOOSE f : Eq(f))
    <2> HIDE DEF Eq, F
    <2> QED
      BY <1>2, Zenon
  <1> DEFINE from == CHOOSE f : Eq(f)
  <1>4. Reached(Null) = from[Null]
    BY DEF Reached
  <1>5. Eq(from)
    BY <1>3
  <1> HIDE DEF from, F
  <1>6. from[Null] = {}
    BY <1>1, <1>5
  <1> QED
    BY <1>4, <1>6
LEMMA Relinked ==
    ASSUME NEW a, NEW b, NEW n, NEW r, r = [name |-> a, next |-> b]
    PROVE  [r EXCEPT !.next = n] = [name |-> a, next |-> n]
  OBVIOUS



\* A node behind the last of its list.
Linked(ns, n, part, hd, tl, l, name, ns2, part2, hd2, tl2) ==
    /\ ns2 = [k \in DOMAIN ns \cup {n} |->
                 IF k = n THEN [name |-> name, next |-> Null]
                 ELSE IF k = tl[l] THEN [ns[k] EXCEPT !.next = n] ELSE ns[k]]
    /\ part2 = [k \in 1 .. n |-> IF k = n THEN l ELSE part[k]]
    /\ hd2 = (IF hd[l] = Null THEN [hd EXCEPT ![l] = n] ELSE hd)
    /\ tl2 = [tl EXCEPT ![l] = n]
OneMore(ns, n, part, l, name, ns2, part2) ==
    /\ DOMAIN ns2 = DOMAIN ns \cup {n} /\ ns2[n].name = name /\ part2[n] = l
    /\ \A k \in DOMAIN ns : k # n /\ ns2[k].name = ns[k].name /\ part2[k] = part[k]
LEMMA LinkedChains ==
    ASSUME NEW n, NEW ns, NEW part, NEW hd, NEW tl, NEW l, NEW name,
           NEW ns2, NEW part2, NEW hd2, NEW tl2,
           Linked(ns, n, part, hd, tl, l, name, ns2, part2, hd2, tl2),
           n \in Nat \ {0}, hd \in [Lists -> Nat], tl \in [Lists -> Nat], l \in Lists,
           Parts(ns, n, part, hd, tl)
    PROVE  /\ Parts(ns2, n + 1, part2, hd2, tl2) /\ part2 \in [1 .. (n + 1) - 1 -> Lists]
           /\ OneMore(ns, n, part, l, name, ns2, part2)
  <1> DEFINE D == 1 .. n - 1
             D2 == 1 .. n
  <1> USE DEF Linked
  <1>1. /\ part \in [D -> Lists] /\ DOMAIN ns = D
        /\ \A k \in D : /\ ns[k] = [name |-> ns[k].name, next |-> ns[k].next]
                        /\ ns[k].next \in Nat /\ OneLaterIn(ns, part, k)
        /\ \A m \in Lists : EndsAt(ns, part, m, hd[m], tl[m])
    BY DEF Parts, Chains
  <1>2. /\ D2 = D \cup {n} /\ n \notin D /\ 1 .. (n + 1) - 1 = D2 /\ Null \notin D
        /\ n \in Nat /\ Null \notin D2 /\ \A k \in D : k < n
    BY DEF Null
  <1>3. DOMAIN ns2 = D2 /\ part2 \in [D2 -> Lists] /\ part2[n] = l
        /\ \A k \in D : part2[k] = part[k]
    BY <1>1, <1>2
  <1>4. ns2[n] = [name |-> name, next |-> Null]
    BY <1>1, <1>2
  <1>5. ASSUME NEW k \in D
        PROVE  /\ ns2[k].name = ns[k].name
               /\ ns2[k].next = IF k = tl[l] THEN n ELSE ns[k].next
               /\ ns2[k] = [name |-> ns2[k].name, next |-> ns2[k].next]
    <2>1. PICK a, b : ns[k] = [name |-> a, next |-> b]
      BY <1>1
    <2>2. ns2[k] = IF k = tl[l] THEN [ns[k] EXCEPT !.next = n] ELSE ns[k]
      BY <1>1, <1>2
    <2>5. ns[k].name = a /\ ns[k].next = b
      BY <2>1
    <2>3. CASE k = tl[l]
      <3>1. ns2[k] = [name |-> a, next |-> n]
        BY <2>1, <2>2, <2>3, Relinked
      <3>2. ns2[k].name = a /\ ns2[k].next = n
        <4>1. PICK r : r = ns2[k]
          OBVIOUS
        <4>2. r = [name |-> a, next |-> n]
          BY <3>1, <4>1, Zenon
        <4>3. r.name = a /\ r.next = n
          BY <4>2
        <4> QED
          BY <4>1, <4>3, Zenon
      <3>3. ns2[k] = [name |-> ns2[k].name, next |-> ns2[k].next]
        BY <3>1, <3>2, Zenon
      <3> QED
        BY <2>5, <2>3, <3>2, <3>3, Zenon
    <2>4. CASE k # tl[l]
      <3>1. ns2[k] = [name |-> a, next |-> b]
        BY <2>1, <2>2, <2>4
      <3>2. ns2[k].name = a /\ ns2[k].next = b
        <4>1. PICK r : r = ns2[k]
          OBVIOUS
        <4>2. r = [name |-> a, next |-> b]
          BY <3>1, <4>1, Zenon
        <4>3. r.name = a /\ r.next = b
          BY <4>2
        <4> QED
          BY <4>1, <4>3, Zenon
      <3>3. ns2[k] = [name |-> ns2[k].name, next |-> ns2[k].next]
        BY <3>1, <3>2, Zenon
      <3> QED
        BY <2>5, <2>4, <3>2, <3>3, Zenon
    <2> QED
      BY <2>3, <2>4
  <1>6. EndsAt(ns, part, l, hd[l], tl[l])
    BY <1>1
  \* The last node had none behind it.
  <1>7. ASSUME NEW k \in D
        PROVE  \/ /\ ns[k].next = Null /\ \A j \in D : part[j] = part[k] => j <= k
               \/ /\ ns[k].next \in D /\ ns[k].next > k /\ part[ns[k].next] = part[k]
                  /\ \A j \in D : part[j] = part[k] /\ j > k => j >= ns[k].next
    BY <1>1, Zenon DEF OneLaterIn
  <1>8. ASSUME NEW k \in D
        PROVE  OneLaterIn(ns2, part2, k)
    <2>1. CASE k = tl[l]
      <3>1. /\ part[k] = l /\ \A j \in D : part[j] = l => j <= k
        BY <1>2, <1>6, <2>1, <1>1 DEF EndsAt
      <3>2. ns2[k].next = n /\ n # Null /\ n \in DOMAIN ns2 /\ n > k /\ part2[n] = part2[k]
        BY <1>2, <1>3, <1>5, <2>1, <3>1
      <3>3. \A j \in DOMAIN ns2 : part2[j] = part2[k] /\ j > k => j >= n
        BY <1>2, <1>3, <3>1
      <3> QED
        BY <3>2, <3>3 DEF OneLaterIn
    <2>2. CASE k # tl[l] /\ part[k] = l
      <3>1. tl[l] \in D /\ part[tl[l]] = l /\ \A j \in D : part[j] = l => j <= tl[l]
        BY <1>1, <1>6, <2>2 DEF EndsAt
      <3>2. k < tl[l]
        BY <2>2, <3>1
      <3>3. /\ ns[k].next \in D /\ ns[k].next > k /\ part[ns[k].next] = part[k]
            /\ \A j \in D : part[j] = part[k] /\ j > k => j >= ns[k].next
        BY <1>7, <2>2, <3>1, <3>2
      <3>4. /\ ns2[k].next = ns[k].next /\ ns2[k].next # Null /\ ns2[k].next \in DOMAIN ns2
            /\ ns2[k].next > k /\ part2[ns2[k].next] = part2[k]
        BY <1>2, <1>3, <1>5, <2>2, <3>3
      <3>5. \A j \in DOMAIN ns2 : part2[j] = part2[k] /\ j > k => j >= ns2[k].next
        <4>1. ASSUME NEW j \in D2, part2[j] = part2[k], j > k
              PROVE  j >= ns[k].next
          BY <1>2, <1>3, <3>3, <4>1
        <4> QED
          BY <1>3, <3>4, <4>1
      <3> QED
        BY <3>4, <3>5 DEF OneLaterIn
    <2>3. CASE part[k] # l
      <3>1. k # tl[l]
        <4>1. tl[l] \in D => part[tl[l]] = l
          BY <1>1, <1>2, <1>6 DEF EndsAt
        <4> QED
          BY <2>3, <4>1
      <3>2. ns2[k].next = ns[k].next /\ part2[k] = part[k] /\ part2[n] # part2[k]
        BY <1>3, <1>5, <2>3, <3>1
      <3>3. CASE ns[k].next = Null /\ \A j \in D : part[j] = part[k] => j <= k
        <4>1. \A j \in DOMAIN ns2 : part2[j] = part2[k] => j <= k
          BY <1>2, <1>3, <3>2, <3>3
        <4> QED
          BY <3>2, <3>3, <4>1 DEF OneLaterIn
      <3>4. CASE /\ ns[k].next \in D /\ ns[k].next > k /\ part[ns[k].next] = part[k]
                 /\ \A j \in D : part[j] = part[k] /\ j > k => j >= ns[k].next
        <4>1. /\ ns2[k].next # Null /\ ns2[k].next \in DOMAIN ns2 /\ ns2[k].next > k
              /\ part2[ns2[k].next] = part2[k]
          BY <1>2, <1>3, <3>2, <3>4
        <4>2. \A j \in DOMAIN ns2 : part2[j] = part2[k] /\ j > k => j >= ns2[k].next
          BY <1>2, <1>3, <3>2, <3>4
        <4> QED
          BY <4>1, <4>2 DEF OneLaterIn
      <3> QED
        BY <1>7, <3>3, <3>4
    <2> QED
      BY <2>1, <2>2, <2>3
  <1>9. OneLaterIn(ns2, part2, n)
    <2>1. ns2[n].next = Null
      BY <1>4
    <2>2. \A j \in DOMAIN ns2 : j <= n
      BY <1>3
    <2> QED
      BY <2>1, <2>2 DEF OneLaterIn
  <1>10. Chains(ns2, n + 1, part2)
    <2>1. ASSUME NEW k \in D2
          PROVE  /\ ns2[k] = [name |-> ns2[k].name, next |-> ns2[k].next]
                 /\ ns2[k].next \in Nat /\ OneLaterIn(ns2, part2, k)
      <3>1. CASE k = n
        BY <1>4, <1>9, <3>1 DEF Null
      <3>2. CASE k \in D
        <4>1. ns2[k].next \in Nat
          BY <1>1, <1>2, <1>5, <3>2
        <4> QED
          BY <1>5, <1>8, <3>2, <4>1
      <3> QED
        BY <1>2, <3>1, <3>2
    <2> QED
      BY <1>2, <1>3, <2>1 DEF Chains
  <1>11. ASSUME NEW m \in Lists
         PROVE  EndsAt(ns2, part2, m, hd2[m], tl2[m])
    <2>1. EndsAt(ns, part, m, hd[m], tl[m])
      BY <1>1
    <2>2. CASE m # l
      <3>1. hd2[m] = hd[m] /\ tl2[m] = tl[m]
        BY <2>2
      <3>2. CASE hd[m] = Null
        <4>1. tl[m] = Null /\ \A j \in D : part[j] # m
          BY <1>1, <2>1, <3>2 DEF EndsAt
        <4>2. \A j \in DOMAIN ns2 : part2[j] # m
          BY <1>2, <1>3, <2>2, <4>1
        <4> QED
          BY <3>1, <3>2, <4>1, <4>2 DEF EndsAt
      <3>3. CASE hd[m] # Null
        <4>1. /\ hd[m] \in D /\ tl[m] \in D /\ part[hd[m]] = m /\ part[tl[m]] = m
              /\ \A j \in D : part[j] = m => hd[m] <= j /\ j <= tl[m]
          BY <1>1, <2>1, <3>3 DEF EndsAt
        <4>2. /\ hd[m] \in DOMAIN ns2 /\ tl[m] \in DOMAIN ns2
              /\ part2[hd[m]] = m /\ part2[tl[m]] = m
          BY <1>2, <1>3, <4>1
        <4>3. \A j \in DOMAIN ns2 : part2[j] = m => hd[m] <= j /\ j <= tl[m]
          BY <1>2, <1>3, <2>2, <4>1
        <4> QED
          BY <3>1, <3>3, <4>2, <4>3 DEF EndsAt
      <3> QED
        BY <3>2, <3>3
    <2>3. CASE m = l
      <3>1. tl2[m] = n
        BY <2>3
      <3>2. CASE hd[l] = Null
        <4>1. hd2[m] = n
          BY <2>3, <3>2
        <4>2. \A j \in D : part[j] # l
          BY <1>1, <1>6, <3>2 DEF EndsAt
        <4>3. \A j \in DOMAIN ns2 : part2[j] = m => n <= j /\ j <= n
          BY <1>2, <1>3, <2>3, <4>2
        <4>4. n # Null /\ n \in DOMAIN ns2 /\ part2[n] = m
          BY <1>2, <1>3, <2>3
        <4> QED
          BY <3>1, <4>1, <4>3, <4>4 DEF EndsAt
      <3>3. CASE hd[l] # Null
        <4>1. hd2[m] = hd[l]
          BY <2>3, <3>3
        <4>2. hd[l] \in D /\ part[hd[l]] = l /\ \A j \in D : part[j] = l => hd[l] <= j
          BY <1>1, <1>6, <3>3 DEF EndsAt
        <4>3. \A j \in DOMAIN ns2 : part2[j] = m => hd[l] <= j /\ j <= n
          BY <1>2, <1>3, <2>3, <4>2
        <4>4. /\ hd[l] \in DOMAIN ns2 /\ n \in DOMAIN ns2 /\ part2[hd[l]] = m
              /\ part2[n] = m
          BY <1>2, <1>3, <2>3, <4>2
        <4> QED
          BY <3>1, <3>3, <4>1, <4>3, <4>4 DEF EndsAt
      <3> QED
        BY <3>2, <3>3
    <2> QED
      BY <2>2, <2>3
  <1>12. Parts(ns2, n + 1, part2, hd2, tl2)
    BY <1>10, <1>11 DEF Parts
  <1> QED
    BY <1>1, <1>2, <1>3, <1>4, <1>5, <1>12 DEF OneMore

-----------------------------------------------------------------------------
(* What a step leaves alone. *)

LEMMA ListsStay ==
    ASSUME ListsInv, UNCHANGED listVars,
           session' = 1 /\ phase' \notin {"off", "crashed"} =>
               session = 1 /\ phase \notin {"off", "crashed"},
           session' = 1 /\ phase' = "off" => session = 1 /\ phase = "off"
    PROVE  ListsInv'
  <1>1. nodes' = nodes /\ next_node' = next_node /\ head' = head /\ tail' = tail
    BY DEF listVars
  <1>2. ASSUME session' = 1, phase' \notin {"off", "crashed"}
        PROVE  \E part \in [1 .. next_node' - 1 -> Lists] :
                  Parts(nodes', next_node', part, head', tail')
    BY <1>1, <1>2 DEF ListsInv
  <1> QED
    BY <1>1, <1>2 DEF ListsInv

LEMMA HeardStays ==
    ASSUME HeardInv, UNCHANGED <<table, calls, listVars, opts>>
    PROVE  HeardInv'
  <1>1. /\ table' = table /\ calls' = calls /\ opts' = opts
        /\ nodes' = nodes /\ next_node' = next_node /\ head' = head
    BY DEF listVars
  <1>2. \A x : Reached(x)' = Reached(x)
    BY <1>1 DEF Reached
  <1>3. ASSUME NEW l \in Lists
        PROVE  TextsOf(l)' = {(nodes')[k].name : k \in Reached(head[l])'}
    <2>1. TextsOf(l)' = TextsOf(l)
      BY <1>1 DEF TextsOf, NameCalls
    <2>2. TextsOf(l) = {nodes[k].name : k \in Reached(head[l])}
      BY DEF HeardInv
    <2>3. Reached(head[l])' = Reached(head[l])
      BY <1>1 DEF Reached
    <2> QED
      BY <1>1, <2>1, <2>2, <2>3
  <1>4. ASSUME NEW s \in Switches
        PROVE  (opts')[s] = 1 <=> LastSays(s)'
    <2>1. LastSays(s)' = LastSays(s)
      BY <1>1 DEF LastSays, BoolCalls
    <2> QED
      BY <1>1, <2>1 DEF HeardInv
  <1> QED
    BY <1>3, <1>4 DEF HeardInv

-----------------------------------------------------------------------------
(* A session begins. *)

LEMMA NoParts ==
    ASSUME NEW ns, ns = <<>>, NEW hd, NEW tl,
           \A l \in Lists : hd[l] = Null /\ tl[l] = Null
    PROVE  \E part \in [1 .. 1 - 1 -> Lists] : Parts(ns, 1, part, hd, tl)
  <1>1. DOMAIN ns = {} /\ 1 .. 1 - 1 = {}
    BY EmptySeq
  <1> DEFINE part == [k \in 1 .. 1 - 1 |-> "test"]
  <1>2. part \in [1 .. 1 - 1 -> Lists]
    BY DEF Lists
  <1> HIDE DEF part
  <1>3. Chains(ns, 1, part)
    BY <1>1, <1>2 DEF Chains
  <1>4. \A l \in Lists : EndsAt(ns, part, l, hd[l], tl[l])
    BY <1>1 DEF EndsAt
  <1>5. Parts(ns, 1, part, hd, tl)
    BY <1>3, <1>4 DEF Parts
  <1> QED
    BY <1>2, <1>5

\* In the first session nothing has been heard and no name kept.
LEMMA FirstBegins ==
    ASSUME calls' = <<>>, nodes' = <<>>, next_node' = 1,
           \A l \in Lists : (head')[l] = Null /\ (tail')[l] = Null,
           \A s \in Switches : (opts')[s] = 0
    PROVE  /\ \E part \in [1 .. next_node' - 1 -> Lists] :
                 Parts(nodes', next_node', part, head', tail')
           /\ HeardInv'
  <1>1. \E part \in [1 .. next_node' - 1 -> Lists] :
           Parts(nodes', next_node', part, head', tail')
    <2>1. PICK ns, hd, tl : ns = nodes' /\ hd = head' /\ tl = tail'
      OBVIOUS
    <2>2. ns = <<>> /\ \A l \in Lists : hd[l] = Null /\ tl[l] = Null
      BY <2>1
    <2>3. \E part \in [1 .. 1 - 1 -> Lists] : Parts(ns, 1, part, hd, tl)
      BY <2>2, NoParts
    <2> QED
      BY <2>1, <2>3
  <1>2. DOMAIN calls' = {} /\ DOMAIN nodes' = {}
    BY EmptySeq
  <1>3. ASSUME NEW l \in Lists
        PROVE  TextsOf(l)' = {(nodes')[k].name : k \in Reached(head[l])'}
    <2>1. TextsOf(l)' = {}
      BY <1>2 DEF TextsOf, NameCalls
    <2>2. PICK part : Parts(nodes', next_node', part, head', tail')
      BY <1>1
    <2>3. Reached(head[l])' = {j \in DOMAIN nodes' : part[j] = l}
      BY <2>2, ChainsReachedThen
    <2>4. Reached(head[l])' = {}
      BY <1>2, <2>3
    <2> QED
      BY <2>1, <2>4
  <1>4. ASSUME NEW s \in Switches
        PROVE  (opts')[s] = 1 <=> LastSays(s)'
    <2>1. ~LastSays(s)'
      BY <1>2 DEF LastSays, BoolCalls
    <2> QED
      BY <2>1
  <1> QED
    BY <1>1, <1>3, <1>4 DEF HeardInv

ProgInv == FreshInv /\ ListsInv /\ SessionInv

LEMMA SetUpKeeps ==
    ASSUME ProgInv, NEW lib, NEW size, NEW a, SetUp(lib, size, a),
           phase' \in {"parse", "running", "exited", "crashed"},
           phase' = "crashed" => lib # "made"
    PROVE  ProgInv'
  <1>1. /\ library' = lib /\ session' = session + 1 /\ calls' = <<>> /\ status' = "NONE"
        /\ head' = [head EXCEPT !["test"] = Null] /\ tail' = [l \in Lists |-> Null]
        /\ opts' = [opts EXCEPT !["leak"] = 0] /\ modes' = [s \in Switches |-> FALSE]
        /\ nodes' = nodes /\ next_node' = next_node
    BY DEF SetUp, ArgsBegin, Switch
  <1>2. /\ session \in Nat /\ next_node \in Nat \ {0} /\ head \in [Lists -> Nat]
        /\ DOMAIN nodes \subseteq 1 .. next_node - 1
        /\ opts \in [Switches -> {0, 1}]
    BY DEF ProgInv, ListsInv, SessionInv
  <1>3. /\ head' \in [Lists -> Nat] /\ tail' \in [Lists -> Nat] /\ session' \in Nat
        /\ session' # 0
    <2>1. head' \in [Lists -> Nat]
      BY <1>1, <1>2 DEF Null
    <2>2. tail' \in [Lists -> Nat]
      BY <1>1 DEF Null
    <2> QED
      BY <1>1, <1>2, <2>1, <2>2
  <1>4. opts' \in [Switches -> {0, 1}]
    BY <1>1, <1>2
  <1>5. ASSUME session' = 1
        PROVE  /\ \E part \in [1 .. next_node' - 1 -> Lists] :
                     Parts(nodes', next_node', part, head', tail')
               /\ HeardInv' /\ \A s \in Switches : (opts')[s] = 0
    <2>1. session = 0
      BY <1>1, <1>2, <1>5
    <2>2. /\ nodes = <<>> /\ next_node = 1 /\ head = [l \in Lists |-> Null]
          /\ opts = [s \in Switches |-> 0]
      BY <2>1 DEF ProgInv, FreshInv
    <2>3. \A l \in Lists : (head')[l] = Null /\ (tail')[l] = Null
      BY <1>1, <2>2
    <2>4. \A s \in Switches : (opts')[s] = 0
      BY <1>1, <2>2
    <2> QED
      BY <1>1, <2>2, <2>3, <2>4, FirstBegins
  <1>6. FreshInv'
    BY <1>3 DEF FreshInv
  <1>7. ListsInv'
    BY <1>1, <1>2, <1>3, <1>5 DEF ListsInv
  <1>8. SessionInv'
    <2>1. phase' \in Phases
      BY DEF Phases
    <2>2. session' = 1 /\ phase' = "running" => \A s \in Switches : (modes')[s] = ((opts')[s] = 1)
      <3>1. \A s \in Switches : (modes')[s] = FALSE
        BY <1>1
      <3>2. 0 # 1
        OBVIOUS
      <3> QED
        BY <1>5, <3>1, <3>2, Zenon
    <2>3. library' = "made" => phase' # "crashed"
      BY <1>1
    <2>4. phase' # "ran"
      OBVIOUS
    <2> QED
      BY <1>1, <1>3, <1>4, <1>5, <2>1, <2>2, <2>3, <2>4 DEF SessionInv
  <1> QED
    BY <1>6, <1>7, <1>8 DEF ProgInv

LEMMA OtherKeeps ==
    ASSUME ProgInv, NEW us, NEW a, NEW meant, OtherBegins(us, a, meant)
    PROVE  ProgInv'
  <1>1. /\ session = 0 /\ session' = MaxSessions /\ calls' = <<>> /\ status' = "NONE"
        /\ phase' = "parse" /\ nodes' = nodes /\ next_node' = next_node
        /\ head' = head /\ tail' = tail /\ opts' = opts
    BY DEF OtherBegins, ArgsBegin, clientVars, listVars
  <1>2. /\ nodes = <<>> /\ next_node = 1 /\ head = [l \in Lists |-> Null]
        /\ tail = [l \in Lists |-> Null] /\ opts = [s \in Switches |-> 0]
    BY <1>1 DEF ProgInv, FreshInv
  <1>3. /\ \E part \in [1 .. next_node' - 1 -> Lists] :
              Parts(nodes', next_node', part, head', tail')
        /\ HeardInv'
    BY <1>1, <1>2, FirstBegins
  <1>4. session' \in Nat \ {0}
    BY <1>1, SessionsAssumption
  <1>5. FreshInv'
    BY <1>4 DEF FreshInv
  <1>6. ListsInv'
    BY <1>1, <1>3 DEF ListsInv, ProgInv
  <1>7. SessionInv'
    BY <1>1, <1>3, <1>4 DEF SessionInv, ProgInv, Phases
  <1> QED
    BY <1>5, <1>6, <1>7 DEF ProgInv

LEMMA BeginsKeeps ==
    ASSUME ProgInv, Begins
    PROVE  ProgInv'
  <1>1. ASSUME MainBegin \/ MainBeginNoArgs
        PROVE  ProgInv'
    <2>1. /\ \E lib \in Libraries : \E size \in Sizes(lib) : SetUp(lib, size, <<>>)
          /\ phase' \in {"running", "exited"}
      BY <1>1 DEF MainBegin, MainBeginNoArgs
    <2>2. PICK lib \in Libraries : \E size \in Sizes(lib) : SetUp(lib, size, <<>>)
      BY <2>1
    <2>3. PICK size \in Sizes(lib) : SetUp(lib, size, <<>>)
      BY <2>2
    <2>4. PICK a : a = <<>>
      OBVIOUS
    <2>5. SetUp(lib, size, a)
      BY <2>3, <2>4
    <2> QED
      BY <2>1, <2>5, SetUpKeeps
  <1>2. ASSUME NEW us, NEW a, NEW meant, MainBeginArgs(us, a, meant)
        PROVE  ProgInv'
    <2>1. PICK lib \in Libraries : \E size \in Sizes(lib) :
             SetUp(lib, size, a) /\ phase' = IF lib = "made" THEN "parse" ELSE "crashed"
      BY <1>2 DEF MainBeginArgs
    <2>2. PICK size \in Sizes(lib) :
             SetUp(lib, size, a) /\ phase' = IF lib = "made" THEN "parse" ELSE "crashed"
      BY <2>1
    <2> QED
      BY <2>2, SetUpKeeps
  <1>3. CASE \E us \in Given(MptestTable) : MainBeginArgs(us, Written(MptestTable, us), TRUE)
    BY <1>2, <1>3, Zenon
  <1>4. CASE \E a \in Stray(MptestTable) : MainBeginArgs(<<>>, a, FALSE)
    BY <1>2, <1>4, Zenon
  <1>5. CASE \E us \in Given(OtherTable) : OtherBegins(us, Written(OtherTable, us), TRUE)
    BY <1>5, OtherKeeps, Zenon
  <1>6. CASE \E a \in Stray(OtherTable) : OtherBegins(<<>>, a, FALSE)
    BY <1>6, OtherKeeps, Zenon
  <1> QED
    BY <1>1, <1>3, <1>4, <1>5, <1>6, Zenon DEF Begins

-----------------------------------------------------------------------------
(* A handler is called. *)

\* What the calls say, after one more call.
LEMMA CallsSay ==
    ASSUME IsSeq(calls), table' = table, NEW c, calls' = Append(calls, c)
    PROVE  /\ Last(calls') = c
           /\ \A l \in Lists : TextsOf(l)' =
                 IF table[c.row].handler = "name" /\ ListOf(table[c.row]) = l
                 THEN TextsOf(l) \cup {c.text} ELSE TextsOf(l)
           /\ \A s \in Switches : LastSays(s)' =
                 IF table[c.row].handler = "bool" /\ SwitchOf(table[c.row]) = s
                 THEN c.text # Text(<<"0">>) ELSE LastSays(s)
  <1>1. PICK n : n = Len(calls) + 1
    OBVIOUS
  <1>2. /\ DOMAIN calls' = DOMAIN calls \cup {n} /\ n \notin DOMAIN calls
        /\ \A i \in DOMAIN calls : (calls')[i] = calls[i] /\ i < n
        /\ (calls')[n] = c /\ n \in Nat /\ DOMAIN calls \subseteq Nat /\ Last(calls') = c
    <2>1. PICK cs, ds : cs = calls /\ ds = calls'
      OBVIOUS
    <2>2. IsSeq(cs) /\ ds = Append(cs, c) /\ n = Len(cs) + 1
      BY <1>1, <2>1
    <2>3. /\ DOMAIN ds = DOMAIN cs \cup {n} /\ n \notin DOMAIN cs
          /\ \A i \in DOMAIN cs : ds[i] = cs[i] /\ i < n
          /\ ds[n] = c /\ Len(cs) \in Nat /\ DOMAIN cs \subseteq Nat /\ Last(ds) = c
      <3> DEFINE S == ToSet(cs) \cup {c}
      <3>1. cs \in Seq(S) /\ c \in S
        BY <2>2, SeqParts
      <3> HIDE DEF S
      <3>2. /\ Len(ds) = Len(cs) + 1 /\ ds \in Seq(S) /\ ds[Len(cs) + 1] = c
            /\ \A i \in 1 .. Len(cs) : ds[i] = cs[i]
        BY <2>2, <3>1, AppendProperties
      <3>3. DOMAIN cs = 1 .. Len(cs) /\ Len(cs) \in Nat /\ DOMAIN ds = 1 .. Len(cs) + 1
        BY <3>1, <3>2, LenProperties
      <3> QED
        BY <2>2, <3>2, <3>3 DEF Last
    <2> QED
      BY <2>1, <2>2, <2>3
  <1>3. ASSUME NEW l
        PROVE  NameCalls(l)' = IF table[c.row].handler = "name" /\ ListOf(table[c.row]) = l
                               THEN NameCalls(l) \cup {n} ELSE NameCalls(l)
    BY <1>2 DEF NameCalls, ListOf
  <1>4. ASSUME NEW s
        PROVE  BoolCalls(s)' = IF table[c.row].handler = "bool" /\ SwitchOf(table[c.row]) = s
                               THEN BoolCalls(s) \cup {n} ELSE BoolCalls(s)
    BY <1>2 DEF BoolCalls, SwitchOf
  <1>5. ASSUME NEW l
        PROVE  TextsOf(l)' = IF table[c.row].handler = "name" /\ ListOf(table[c.row]) = l
                             THEN TextsOf(l) \cup {c.text} ELSE TextsOf(l)
    <2>1. TextsOf(l)' = {(calls')[i].text : i \in NameCalls(l)'}
      BY DEF TextsOf
    <2>2. NameCalls(l) \subseteq DOMAIN calls
      BY DEF NameCalls
    <2>3. \A i \in NameCalls(l) : (calls')[i].text = calls[i].text
      BY <1>2, <2>2
    <2>4. NameCalls(l)' = NameCalls(l) =>
             {(calls')[i].text : i \in NameCalls(l)'} = {calls[i].text : i \in NameCalls(l)}
      BY <2>3
    <2>5. NameCalls(l)' = NameCalls(l) \cup {n} =>
             {(calls')[i].text : i \in NameCalls(l)'} =
             {calls[i].text : i \in NameCalls(l)} \cup {c.text}
      <3> DEFINE N == NameCalls(l)
                 T(i) == (calls')[i].text
      <3>1. {T(i) : i \in N \cup {n}} = {T(i) : i \in N} \cup {T(n)}
        <4> HIDE DEF N, T
        <4> QED
          OBVIOUS
      <3>2. {T(i) : i \in N} = {calls[i].text : i \in N}
        BY <2>3
      <3>3. T(n) = c.text
        BY <1>2
      <3>4. N = NameCalls(l) /\ {T(i) : i \in N \cup {n}} = {(calls')[i].text : i \in N \cup {n}}
        OBVIOUS
      <3> HIDE DEF N, T
      <3> QED
        BY <3>1, <3>2, <3>3, <3>4
    <2> QED
      BY <1>3, <2>1, <2>4, <2>5 DEF TextsOf
  <1>6. ASSUME NEW s
        PROVE  LastSays(s)' = IF table[c.row].handler = "bool" /\ SwitchOf(table[c.row]) = s
                              THEN c.text # Text(<<"0">>) ELSE LastSays(s)
    <2>1. BoolCalls(s) \subseteq DOMAIN calls
      BY DEF BoolCalls
    <2>2. \A i \in BoolCalls(s) : (calls')[i] = calls[i] /\ i < n /\ i \in Nat
      BY <1>2, <2>1
    <2>3. CASE table[c.row].handler = "bool" /\ SwitchOf(table[c.row]) = s
      <3>1. BoolCalls(s)' = BoolCalls(s) \cup {n}
        BY <1>4, <2>3
      <3>2. LastSays(s)' <=> (calls')[n].text # Text(<<"0">>)
        BY <1>2, <2>2, <3>1 DEF LastSays
      <3> QED
        BY <1>2, <2>3, <3>2 DEF LastSays
    <2>4. CASE ~(table[c.row].handler = "bool" /\ SwitchOf(table[c.row]) = s)
      <3>1. BoolCalls(s)' = BoolCalls(s)
        BY <1>4, <2>4
      <3>2. LastSays(s)' = LastSays(s)
        BY <2>2, <3>1 DEF LastSays
      <3> QED
        BY <2>4, <3>2
    <2> QED
      BY <2>3, <2>4
  <1> QED
    BY <1>2, <1>5, <1>6

\* A name is kept behind those of its list.
LEMMA NameKept ==
    ASSUME ListsInv, session = 1, phase \notin {"off", "crashed"}, NEW l \in Lists, NEW name,
           LinkName(l, name), tail' = [tail EXCEPT ![l] = next_node]
    PROVE  /\ \E part \in [1 .. next_node' - 1 -> Lists] :
                 Parts(nodes', next_node', part, head', tail')
           /\ \A m \in Lists : {(nodes')[k].name : k \in Reached(head[m])'} =
                 {nodes[k].name : k \in Reached(head[m])} \cup (IF m = l THEN {name} ELSE {})
  <1>1. PICK part \in [1 .. next_node - 1 -> Lists] :
           Parts(nodes, next_node, part, head, tail)
    BY DEF ListsInv
  <1>2. PICK n, ns, hd, tl : n = next_node /\ ns = nodes /\ hd = head /\ tl = tail
    OBVIOUS
  <1>3. PICK ns2, hd2, tl2 : ns2 = nodes' /\ hd2 = head' /\ tl2 = tail'
    OBVIOUS
  <1> DEFINE part2 == [k \in 1 .. n |-> IF k = n THEN l ELSE part[k]]
  <1>4. /\ n \in Nat \ {0} /\ hd \in [Lists -> Nat] /\ tl \in [Lists -> Nat]
        /\ Parts(ns, n, part, hd, tl)
    BY <1>1, <1>2 DEF ListsInv
  <1>5. next_node' = n + 1
    BY <1>2 DEF LinkName
  <1>6. ns2 = [k \in DOMAIN ns \cup {n} |-> IF k = n THEN [name |-> name, next |-> Null]
                                          ELSE IF k = tl[l] THEN [ns[k] EXCEPT !.next = n]
                                          ELSE ns[k]]
    BY <1>2, <1>3 DEF LinkName
  <1>7. hd2 = (IF hd[l] = Null THEN [hd EXCEPT ![l] = n] ELSE hd) /\ tl2 = [tl EXCEPT ![l] = n]
    BY <1>2, <1>3 DEF LinkName
  <1>8. PICK p2 : p2 = part2
    OBVIOUS
  <1>9. p2 = [k \in 1 .. n |-> IF k = n THEN l ELSE part[k]]
    BY <1>8
  <1> HIDE DEF part2
  <1>10. /\ Parts(ns2, n + 1, p2, hd2, tl2) /\ p2 \in [1 .. (n + 1) - 1 -> Lists]
         /\ DOMAIN ns2 = DOMAIN ns \cup {n} /\ ns2[n].name = name
         /\ \A k \in DOMAIN ns : k # n /\ ns2[k].name = ns[k].name /\ p2[k] = part[k]
         /\ p2[n] = l
    <2>1. Linked(ns, n, part, hd, tl, l, name, ns2, p2, hd2, tl2)
      BY <1>6, <1>7, <1>9 DEF Linked
    <2>2. Parts(ns2, n + 1, p2, hd2, tl2) /\ p2 \in [1 .. (n + 1) - 1 -> Lists]
      BY <1>4, <2>1, LinkedChains
    <2>3. OneMore(ns, n, part, l, name, ns2, p2)
      BY <1>4, <2>1, LinkedChains
    <2> QED
      BY <2>2, <2>3 DEF OneMore
  <1>11. /\ Parts(nodes', next_node', p2, head', tail') /\ next_node' \in Nat \ {0}
         /\ p2 \in [1 .. next_node' - 1 -> Lists]
    BY <1>3, <1>4, <1>5, <1>10
  <1>12. ASSUME NEW m \in Lists
         PROVE  {(nodes')[k].name : k \in Reached(head[m])'} =
                {nodes[k].name : k \in Reached(head[m])} \cup (IF m = l THEN {name} ELSE {})
    <2>1. Reached(head[m]) = {j \in DOMAIN nodes : part[j] = m}
      <3>1. next_node \in Nat \ {0} /\ Parts(nodes, next_node, part, head, tail)
        BY <1>1 DEF ListsInv
      <3> QED
        BY <3>1, PartReached
    <2>2. Reached(head[m])' = {j \in DOMAIN nodes' : p2[j] = m}
      <3>1. next_node' \in Nat \ {0} /\ Parts(nodes', next_node', p2, head', tail')
        BY <1>11
      <3> QED
        BY <3>1, ChainsReachedThen
    <2>3. {(nodes')[k].name : k \in Reached(head[m])'} =
          {ns2[k].name : k \in {j \in DOMAIN ns2 : p2[j] = m}}
      BY <1>3, <2>2
    <2>4. {nodes[k].name : k \in Reached(head[m])} =
          {ns[k].name : k \in {j \in DOMAIN ns : part[j] = m}}
      BY <1>2, <2>1
    <2>5. CASE m = l
      <3>1. {j \in DOMAIN ns2 : p2[j] = m} = {j \in DOMAIN ns : part[j] = m} \cup {n}
        BY <1>10, <2>5
      <3>2. {ns2[k].name : k \in {j \in DOMAIN ns2 : p2[j] = m}} =
            {ns[k].name : k \in {j \in DOMAIN ns : part[j] = m}} \cup {name}
        BY <1>10, <3>1
      <3> QED
        BY <2>3, <2>4, <2>5, <3>2
    <2>6. CASE m # l
      <3>1. {j \in DOMAIN ns2 : p2[j] = m} = {j \in DOMAIN ns : part[j] = m}
        BY <1>10, <2>6
      <3>2. {ns2[k].name : k \in {j \in DOMAIN ns2 : p2[j] = m}} =
            {ns[k].name : k \in {j \in DOMAIN ns : part[j] = m}}
        BY <1>10, <3>1
      <3> QED
        BY <2>3, <2>4, <2>6, <3>2
    <2> QED
      BY <2>5, <2>6
  <1> QED
    BY <1>11, <1>12

LEMMA AppendNameKeeps ==
    ASSUME ProgInv, IsSeq(calls), phase = "parse", table' = table, NEW c,
           calls' = Append(calls, c), table[c.row].handler = "name", status' # "NOMEM",
           status' = "NONE" => status = "NONE",
           AppendName(ListOf(table[c.row]), c.text)
    PROVE  ProgInv'
  <1>1. PICK l \in Lists : l = ListOf(table[c.row])
    BY DEF ListOf, Lists
  <1>2. /\ LinkName(l, c.text) /\ tail' = [tail EXCEPT ![l] = next_node]
        /\ phase' = phase /\ opts' = opts /\ UNCHANGED stageVars
    BY <1>1 DEF AppendName
  <1>3. session' = session /\ library' = library /\ modes' = modes /\ ran' = ran
    BY <1>2 DEF stageVars
  <1>4. /\ next_node' = next_node + 1 /\ DOMAIN nodes' = DOMAIN nodes \cup {next_node}
        /\ head' = IF head[l] = Null THEN [head EXCEPT ![l] = next_node] ELSE head
    BY <1>2 DEF LinkName
  <1>5. /\ next_node \in Nat \ {0} /\ DOMAIN nodes \subseteq 1 .. next_node - 1
        /\ head \in [Lists -> Nat] /\ tail \in [Lists -> Nat]
    BY DEF ProgInv, ListsInv
  <1>6. /\ next_node' \in Nat \ {0} /\ DOMAIN nodes' \subseteq 1 .. next_node' - 1
        /\ head' \in [Lists -> Nat] /\ tail' \in [Lists -> Nat]
    <2>1. next_node' \in Nat \ {0} /\ DOMAIN nodes' \subseteq 1 .. next_node' - 1
      BY <1>4, <1>5
    <2>2. head' \in [Lists -> Nat]
      BY <1>4, <1>5
    <2>3. tail' \in [Lists -> Nat]
      BY <1>2, <1>5
    <2> QED
      BY <2>1, <2>2, <2>3
  <1>7. session = 1 => \E part \in [1 .. next_node' - 1 -> Lists] :
                          Parts(nodes', next_node', part, head', tail')
    BY <1>2, NameKept DEF ProgInv
  <1>8. session # 0
    BY DEF ProgInv, FreshInv
  <1>9. ASSUME session = 1, status' = "NONE"
        PROVE  HeardInv'
    <2>1. HeardInv
      BY <1>9 DEF ProgInv, SessionInv
    <2>2. ASSUME NEW m \in Lists
          PROVE  TextsOf(m)' = {(nodes')[k].name : k \in Reached(head[m])'}
      <3>1. {(nodes')[k].name : k \in Reached(head[m])'} =
            {nodes[k].name : k \in Reached(head[m])} \cup (IF m = l THEN {c.text} ELSE {})
        BY <1>2, <1>9, NameKept DEF ProgInv
      <3>2. TextsOf(m) = {nodes[k].name : k \in Reached(head[m])}
        BY <2>1 DEF HeardInv
      <3>3. TextsOf(m)' = IF l = m THEN TextsOf(m) \cup {c.text} ELSE TextsOf(m)
        BY <1>1, CallsSay
      <3> QED
        BY <3>1, <3>2, <3>3
    <2>3. ASSUME NEW s \in Switches
          PROVE  (opts')[s] = 1 <=> LastSays(s)'
      <3>1. LastSays(s)' = LastSays(s)
        BY CallsSay
      <3> QED
        BY <1>2, <2>1, <3>1 DEF HeardInv
    <2> QED
      BY <2>2, <2>3 DEF HeardInv
  <1>10. FreshInv' /\ ListsInv'
    BY <1>2, <1>3, <1>6, <1>7, <1>8 DEF FreshInv, ListsInv
  <1>11. SessionInv'
    BY <1>2, <1>3, <1>9 DEF ProgInv, SessionInv
  <1> QED
    BY <1>10, <1>11 DEF ProgInv

\* A step that keeps the lists and the switches and calls no handler, or one that
\* does nothing to them.
LEMMA QuietKeeps ==
    ASSUME ProgInv, phase = "parse", UNCHANGED <<phase, clientVars, stageVars>>,
           session = 1 /\ status' = "NONE" => HeardInv'
    PROVE  ProgInv'
  <1>1. /\ phase' = phase /\ UNCHANGED listVars /\ opts' = opts /\ session' = session
        /\ library' = library /\ modes' = modes /\ ran' = ran
    BY DEF clientVars, stageVars
  <1>2. ListsInv'
    BY <1>1, ListsStay DEF ProgInv
  <1>3. FreshInv'
    BY <1>1 DEF ProgInv, FreshInv
  <1>4. SessionInv'
    BY <1>1 DEF ProgInv, SessionInv
  <1> QED
    BY <1>2, <1>3, <1>4 DEF ProgInv

LEMMA SwitchKeeps ==
    ASSUME ProgInv, IsSeq(calls), phase = "parse", table' = table, NEW c,
           calls' = Append(calls, c), table[c.row].handler = "bool",
           status' = "NONE" => status = "NONE",
           opts' = Switch(SwitchOf(table[c.row]), IF c.text = Text(<<"0">>) THEN 0 ELSE 1),
           UNCHANGED <<phase, listVars, stageVars>>
    PROVE  ProgInv'
  <1>1. PICK s \in Switches : s = SwitchOf(table[c.row])
    BY DEF SwitchOf, Switches
  <1>2. /\ phase' = phase /\ UNCHANGED listVars /\ session' = session
        /\ library' = library /\ modes' = modes /\ ran' = ran
        /\ nodes' = nodes /\ next_node' = next_node /\ head' = head
    BY DEF stageVars, listVars
  <1>3. opts \in [Switches -> {0, 1}] /\ session # 0
    BY DEF ProgInv, SessionInv, FreshInv
  <1>4. opts' = [opts EXCEPT ![s] = IF c.text = Text(<<"0">>) THEN 0 ELSE 1]
    BY <1>1 DEF Switch
  <1>5. opts' \in [Switches -> {0, 1}]
    BY <1>3, <1>4
  <1>6. ASSUME session = 1, status' = "NONE"
        PROVE  HeardInv'
    <2>1. HeardInv
      BY <1>6 DEF ProgInv, SessionInv
    <2>2. ASSUME NEW l \in Lists
          PROVE  TextsOf(l)' = {(nodes')[k].name : k \in Reached(head[l])'}
      <3>1. TextsOf(l)' = TextsOf(l)
        BY CallsSay
      <3>2. TextsOf(l) = {nodes[k].name : k \in Reached(head[l])}
        BY <2>1 DEF HeardInv
      <3>3. Reached(head[l])' = Reached(head[l])
        BY <1>2 DEF Reached
      <3> QED
        BY <1>2, <3>1, <3>2, <3>3
    <2>3. ASSUME NEW t \in Switches
          PROVE  (opts')[t] = 1 <=> LastSays(t)'
      <3>1. LastSays(t)' = IF s = t THEN c.text # Text(<<"0">>) ELSE LastSays(t)
        BY <1>1, CallsSay
      <3>2. opts[t] = 1 <=> LastSays(t)
        BY <2>1 DEF HeardInv
      <3>3. (opts')[t] = IF s = t THEN (IF c.text = Text(<<"0">>) THEN 0 ELSE 1) ELSE opts[t]
        BY <1>3, <1>4
      <3>4. CASE s = t
        <4>1. LastSays(t)' = (c.text # Text(<<"0">>))
          BY <3>1, <3>4
        <4>2. (opts')[t] = IF c.text = Text(<<"0">>) THEN 0 ELSE 1
          BY <3>3, <3>4
        <4>3. (opts')[t] = 1 <=> c.text # Text(<<"0">>)
          BY <4>2
        <4> QED
          BY <4>1, <4>3, Zenon
      <3>5. CASE s # t
        <4>1. (opts')[t] = opts[t]
          BY <3>3, <3>5
        <4>2. LastSays(t)' = LastSays(t)
          BY <3>1, <3>5
        <4> QED
          BY <3>2, <4>1, <4>2
      <3> QED
        BY <3>4, <3>5
    <2> QED
      BY <2>2, <2>3 DEF HeardInv
  <1>7. FreshInv' /\ ListsInv'
    BY <1>2, <1>3, ListsStay DEF FreshInv, ProgInv
  <1>8. SessionInv'
    BY <1>2, <1>5, <1>6 DEF ProgInv, SessionInv
  <1> QED
    BY <1>7, <1>8 DEF ProgInv

LEMMA HandleKeeps ==
    ASSUME ProgInv, IsSeq(calls), phase = "parse", table' = table, NEW c,
           calls' = Append(calls, c), status' = "NONE" => status = "NONE",
           Handle(c, status')
    PROVE  ProgInv'
  <1>1. CASE /\ table[c.row].handler = "name" /\ status' # "NOMEM"
             /\ head[ListOf(table[c.row])] # Null /\ tail[ListOf(table[c.row])] = Null
             /\ Crash
    <2>1. PICK l \in Lists : l = ListOf(table[c.row])
      BY DEF ListOf, Lists
    <2>2. session # 0 /\ next_node \in Nat \ {0}
      BY DEF ProgInv, FreshInv, ListsInv
    <2>3. session # 1
      <3>1. SUFFICES ASSUME session = 1
                     PROVE  FALSE
        OBVIOUS
      <3>2. PICK part : Parts(nodes, next_node, part, head, tail)
        BY <3>1 DEF ProgInv, ListsInv
      <3>3. EndsAt(nodes, part, l, head[l], tail[l])
        BY <3>2 DEF Parts
      <3>4. tail[l] \in DOMAIN nodes /\ DOMAIN nodes = 1 .. next_node - 1
        BY <1>1, <2>1, <3>2, <3>3 DEF EndsAt, Parts, Chains
      <3> QED
        BY <1>1, <2>1, <2>2, <3>4 DEF Null
    <2>4. /\ phase' = "crashed" /\ UNCHANGED listVars /\ opts' = opts /\ session' = session
      BY <1>1 DEF Crash, clientVars, stageVars
    <2>5. ListsInv'
      BY <2>3, <2>4, ListsStay DEF ProgInv
    <2>6. FreshInv' /\ SessionInv'
      BY <2>2, <2>3, <2>4 DEF ProgInv, FreshInv, SessionInv, Phases
    <2> QED
      BY <2>5, <2>6 DEF ProgInv
  <1>2. CASE /\ table[c.row].handler = "name" /\ status' # "NOMEM"
             /\ AppendName(ListOf(table[c.row]), c.text)
    BY <1>2, AppendNameKeeps
  <1>3. CASE /\ table[c.row].handler = "bool" /\ status' = "NONE"
             /\ opts' = Switch(SwitchOf(table[c.row]),
                               IF c.text = Text(<<"0">>) THEN 0 ELSE 1)
             /\ UNCHANGED <<phase, listVars, stageVars>>
    BY <1>3, SwitchKeeps
  <1>4. CASE /\ table[c.row].handler \notin {"name", "bool"} \/ status' # "NONE"
             /\ UNCHANGED <<phase, clientVars, stageVars>>
    <2>1. ASSUME session = 1, status' = "NONE"
          PROVE  HeardInv'
      <3>1. HeardInv /\ table[c.row].handler \notin {"name", "bool"}
        BY <1>4, <2>1 DEF ProgInv, SessionInv
      <3>2. /\ nodes' = nodes /\ next_node' = next_node /\ head' = head /\ opts' = opts
        BY <1>4 DEF clientVars, listVars
      <3>3. ASSUME NEW l \in Lists
            PROVE  TextsOf(l)' = {(nodes')[k].name : k \in Reached(head[l])'}
        <4>1. TextsOf(l)' = TextsOf(l)
          BY <3>1, CallsSay
        <4>2. TextsOf(l) = {nodes[k].name : k \in Reached(head[l])}
          BY <3>1 DEF HeardInv
        <4>3. Reached(head[l])' = Reached(head[l])
          BY <3>2 DEF Reached
        <4> QED
          BY <3>2, <4>1, <4>2, <4>3
      <3>4. ASSUME NEW s \in Switches
            PROVE  (opts')[s] = 1 <=> LastSays(s)'
        <4>1. LastSays(s)' = LastSays(s)
          BY <3>1, CallsSay
        <4> QED
          BY <3>1, <3>2, <4>1 DEF HeardInv
      <3> QED
        BY <3>3, <3>4 DEF HeardInv
    <2> QED
      BY <1>4, <2>1, QuietKeeps
  <1> QED
    BY <1>1, <1>2, <1>3, <1>4 DEF Handle

LEMMA ParsingKeeps ==
    ASSUME ProgInv, CursorInv, OutputInv, Parsing
    PROVE  ProgInv'
  <1>1. /\ phase = "parse" /\ IsSeq(calls) /\ table' = table
        /\ status' = "NONE" => status = "NONE"
        /\ calls' = calls \/ Called
    BY ArgStepKeeps DEF Parsing, CursorInv
  <1>2. CASE calls' = calls /\ UNCHANGED <<phase, clientVars, stageVars>>
    <2>1. UNCHANGED <<table, calls, listVars, opts>>
      BY <1>1, <1>2 DEF clientVars
    <2>2. session = 1 /\ status' = "NONE" => HeardInv
      BY <1>1 DEF ProgInv, SessionInv
    <2>3. session = 1 /\ status' = "NONE" => HeardInv'
      BY <2>1, <2>2, HeardStays
    <2> QED
      BY <1>1, <1>2, <2>3, QuietKeeps
  <1>3. CASE calls' # calls /\ Handle(Last(calls'), status')
    <2>1. PICK c : calls' = Append(calls, c)
      BY <1>1, <1>3 DEF Called
    <2>2. Last(calls') = c
      BY <1>1, <2>1, CallsSay
    <2>3. Handle(c, status')
      BY <1>3, <2>2
    <2> QED
      BY <1>1, <2>1, <2>3, HandleKeeps
  <1> QED
    BY <1>2, <1>3 DEF Parsing

-----------------------------------------------------------------------------
(* The other steps. *)

LEMMA ParsedKeeps ==
    ASSUME ProgInv, Parsed
    PROVE  ProgInv'
  <1>1. /\ phase = "parse" /\ status = "NONE" /\ phase' = "running" /\ status' = "NONE"
        /\ UNCHANGED <<table, calls, listVars, opts>> /\ opts' = opts
        /\ session' = session /\ library' = library /\ ran' = ran
        /\ modes' = [s \in Switches |-> opts[s] = 1]
    BY DEF Parsed, argVars, clientVars
  <1>2. ListsInv'
    BY <1>1, ListsStay DEF ProgInv
  <1>3. FreshInv'
    BY <1>1 DEF ProgInv, FreshInv
  <1>4. session = 1 => HeardInv'
    BY <1>1, HeardStays DEF ProgInv, SessionInv
  <1>5. \A s \in Switches : (modes')[s] = ((opts')[s] = 1)
    BY <1>1, Zenon
  <1>6. SessionInv'
    BY <1>1, <1>4, <1>5 DEF ProgInv, SessionInv, Phases
  <1> QED
    BY <1>2, <1>3, <1>6 DEF ProgInv

LEMMA NotParsedKeeps ==
    ASSUME ProgInv, NotParsed
    PROVE  ProgInv'
  <1>1. /\ phase = "parse" /\ phase' = "exited" /\ UNCHANGED listVars /\ opts' = opts
        /\ session' = session /\ library' = library
    BY DEF NotParsed, clientVars, stageVars
  <1>2. ListsInv'
    BY <1>1, ListsStay DEF ProgInv
  <1>3. FreshInv'
    BY <1>1 DEF ProgInv, FreshInv
  <1>4. SessionInv'
    BY <1>1 DEF ProgInv, SessionInv, Phases
  <1> QED
    BY <1>2, <1>3, <1>4 DEF ProgInv

\* In the first session no list leads to a node that has been freed.
LEMMA NoneDangles ==
    ASSUME ListsInv, session = 1, phase \notin {"off", "crashed"}
    PROVE  /\ \A l \in Lists : ~Dangling(l)
           /\ DOMAIN nodes = UNION {Reached(head[l]) : l \in Lists}
           /\ Reached(head["test"]) \cap Reached(head["suite"]) = {}
           /\ \A l \in Lists : head[l] = Null <=> tail[l] = Null
           /\ \A l \in Lists : head[l] = Null <=> Reached(head[l]) = {}
  <1>1. PICK part \in [1 .. next_node - 1 -> Lists] :
           Parts(nodes, next_node, part, head, tail)
    BY DEF ListsInv
  <1>2. next_node \in Nat \ {0}
    BY DEF ListsInv
  <1>3. ASSUME NEW l \in Lists
        PROVE  /\ Reached(head[l]) = {j \in DOMAIN nodes : part[j] = l}
               /\ head[l] = Null <=> Reached(head[l]) = {}
               /\ head[l] = Null <=> tail[l] = Null
               /\ ~Dangling(l)
    BY <1>1, <1>2, ChainsReached
  <1>4. DOMAIN nodes = 1 .. next_node - 1
    BY <1>1 DEF Parts, Chains
  <1>5. Reached(head["test"]) \cap Reached(head["suite"]) = {}
    BY <1>3 DEF Lists
  <1>6. DOMAIN nodes = UNION {Reached(head[l]) : l \in Lists}
    <2>1. \A k \in DOMAIN nodes : part[k] \in Lists /\ k \in Reached(head[part[k]])
      BY <1>3, <1>4
    <2>2. \A l \in Lists : Reached(head[l]) \subseteq DOMAIN nodes
      BY <1>3
    <2> QED
      BY <2>1, <2>2
  <1> QED
    BY <1>3, <1>5, <1>6

LEMMA RunAllKeeps ==
    ASSUME ProgInv, RunAll
    PROVE  ProgInv'
  <1>1. CASE (\E l \in Lists : Dangling(l)) /\ Crash
    <2>1. phase = "running" /\ session # 1
      BY <1>1, NoneDangles DEF RunAll, ProgInv
    <2>2. /\ phase' = "crashed" /\ UNCHANGED listVars /\ opts' = opts /\ session' = session
      BY <1>1 DEF Crash, clientVars, stageVars
    <2>3. ListsInv'
      BY <2>1, <2>2, ListsStay DEF ProgInv
    <2>4. FreshInv' /\ SessionInv'
      BY <2>1, <2>2 DEF ProgInv, FreshInv, SessionInv, Phases
    <2> QED
      BY <2>3, <2>4 DEF ProgInv
  <1>2. CASE /\ ran' = [l \in Lists |->
                   {n \in IF l = "test" THEN TestNames ELSE SuiteNames : Matches(l, n)}]
             /\ phase' = "ran"
             /\ UNCHANGED <<argVars, clientVars, session, uses, intended, library, modes>>
    <2>1. /\ phase = "running" /\ status' = status
          /\ UNCHANGED <<table, calls, listVars, opts>> /\ opts' = opts
          /\ session' = session /\ library' = library
          /\ nodes' = nodes /\ next_node' = next_node /\ head' = head
      BY <1>2 DEF RunAll, argVars, clientVars, listVars
    <2>2. ListsInv'
      BY <1>2, <2>1, ListsStay DEF ProgInv
    <2>3. FreshInv'
      BY <2>1 DEF ProgInv, FreshInv
    <2>4. status = "NONE" /\ (session = 1 => HeardInv)
      BY <2>1 DEF ProgInv, SessionInv
    <2>5. session = 1 => HeardInv'
      BY <2>1, <2>4, HeardStays
    <2>6. \A l, n : Matches(l, n)' = Matches(l, n)
      BY <2>1 DEF Matches, Reached
    <2>7. ran' = [l \in Lists |-> {n \in IF l = "test" THEN TestNames ELSE SuiteNames :
                                      Matches(l, n)'}]
      BY <1>2, <2>6
    <2>8. SessionInv'
      BY <1>2, <2>1, <2>4, <2>5, <2>7 DEF ProgInv, SessionInv, Phases
    <2> QED
      BY <2>2, <2>3, <2>8 DEF ProgInv
  <1> QED
    BY <1>1, <1>2 DEF RunAll

LEMMA MainEndKeeps ==
    ASSUME ProgInv, MainEnd
    PROVE  ProgInv'
  <1>1. phase = "ran" /\ session # 0
    BY DEF MainEnd, ProgInv, FreshInv
  <1>2. CASE (~DestroyDefined \/ \E l \in Lists : Dangling(l)) /\ Crash
    <2>1. session = 1 => library # "made"
      BY <1>1, <1>2, NoneDangles DEF ProgInv, DestroyDefined
    <2>2. /\ phase' = "crashed" /\ UNCHANGED listVars /\ opts' = opts /\ session' = session
          /\ library' = library
      BY <1>2 DEF Crash, clientVars, stageVars
    <2>3. ListsInv'
      BY <1>1, <2>2, ListsStay DEF ProgInv
    <2>4. FreshInv' /\ SessionInv'
      BY <1>1, <2>1, <2>2 DEF ProgInv, FreshInv, SessionInv, Phases
    <2> QED
      BY <2>3, <2>4 DEF ProgInv
  <1>3. CASE /\ nodes' = [k \in DOMAIN nodes \ UNION {Reached(head[l]) : l \in Lists}
                             |-> nodes[k]]
             /\ phase' = "off"
             /\ UNCHANGED <<next_node, head, tail, opts, stageVars>>
    <2>1. /\ next_node' = next_node /\ head' = head /\ tail' = tail /\ opts' = opts
          /\ session' = session /\ library' = library
      BY <1>3 DEF stageVars
    <2>2. session = 1 => nodes' = <<>>
      <3>1. ASSUME session = 1
            PROVE  nodes' = <<>>
        <4>1. DOMAIN nodes = UNION {Reached(head[l]) : l \in Lists}
          BY <1>1, <3>1, NoneDangles DEF ProgInv
        <4>2. nodes' = [k \in {} |-> nodes[k]]
          <5>1. DOMAIN nodes \ UNION {Reached(head[l]) : l \in Lists} = {}
            BY <4>1
          <5> QED
            BY <1>3, <5>1
        <4>3. nodes' \in [1 .. 0 -> {}] /\ Len(<<>>) = 0
          BY <4>2
        <4>4. nodes' \in Seq({}) /\ DOMAIN nodes' = {}
          BY <4>3, SeqDef
        <4> QED
          BY <4>4, EmptySeq, LenProperties
      <3> QED
        BY <3>1
    <2>3. DOMAIN nodes' \subseteq DOMAIN nodes
      BY <1>3
    <2>4. ListsInv'
      BY <1>3, <2>1, <2>2, <2>3 DEF ProgInv, ListsInv
    <2>5. FreshInv'
      BY <1>1, <2>1 DEF FreshInv
    <2>6. SessionInv'
      BY <1>3, <2>1 DEF ProgInv, SessionInv, Phases
    <2> QED
      BY <2>4, <2>5, <2>6 DEF ProgInv
  <1> QED
    BY <1>2, <1>3 DEF MainEnd

LEMMA StutterKeeps ==
    ASSUME ProgInv, UNCHANGED vars
    PROVE  ProgInv'
  <1>1. /\ phase' = phase /\ UNCHANGED <<table, calls, listVars, opts>> /\ opts' = opts
        /\ nodes' = nodes /\ next_node' = next_node /\ head' = head /\ tail' = tail
        /\ session' = session /\ library' = library /\ modes' = modes /\ ran' = ran
        /\ status' = status
    BY DEF vars, argVars, clientVars, stageVars, listVars
  <1>2. ListsInv'
    BY <1>1, ListsStay DEF ProgInv
  <1>3. FreshInv'
    BY <1>1 DEF ProgInv, FreshInv
  <1>4. session = 1 /\ phase \in {"parse", "running", "ran"} /\ status = "NONE" => HeardInv'
    BY <1>1, HeardStays DEF ProgInv, SessionInv
  <1>5. \A l, n : Matches(l, n)' = Matches(l, n)
    BY <1>1 DEF Matches, Reached
  <1>6. SessionInv'
    BY <1>1, <1>4, <1>5 DEF ProgInv, SessionInv
  <1> QED
    BY <1>2, <1>3, <1>6 DEF ProgInv

LEMMA ProgInit ==
    ASSUME Init
    PROVE  ProgInv
  <1>1. /\ session = 0 /\ phase = "off" /\ nodes = <<>> /\ next_node = 1
        /\ head = [l \in Lists |-> Null] /\ tail = [l \in Lists |-> Null]
        /\ opts = [s \in Switches |-> 0]
    BY DEF Init
  <1>2. head \in [Lists -> Nat] /\ tail \in [Lists -> Nat] /\ opts \in [Switches -> {0, 1}]
    BY <1>1 DEF Null
  <1>3. DOMAIN nodes = {}
    BY <1>1, EmptySeq
  <1> QED
    BY <1>1, <1>2, <1>3 DEF ProgInv, FreshInv, ListsInv, SessionInv, Phases

LEMMA CmdInvKept == Spec => []CmdInv
  <1>1. Init => CmdInv
    BY ParserInit, ProgInit DEF CmdInv, ProgInv
  <1>2. CmdInv /\ [Next]_vars => CmdInv'
    <2>1. ASSUME CmdInv, [Next]_vars
          PROVE  ProgInv'
      <3>1. ProgInv /\ CursorInv /\ OutputInv
        BY <2>1 DEF CmdInv, ProgInv
      <3> QED
        BY <2>1, <3>1, BeginsKeeps, ParsingKeeps, ParsedKeeps, NotParsedKeeps, RunAllKeeps,
           MainEndKeeps, StutterKeeps DEF Next
    <2>2. CmdInv /\ [Next]_vars => CursorInv' /\ OutputInv'
      BY ParserStep DEF CmdInv
    <2> QED
      BY <2>1, <2>2 DEF CmdInv, ProgInv
  <1> QED
    BY <1>1, <1>2, PTL DEF Spec

\* The cursors of the parser stay inside argv and the table, the buffer is never
\* overrun, and in the first session of a program the two lists of names are
\* apart, ended, and the only nodes there are; all are freed at its end.
THEOREM CommandLineTypeOKThm == Spec => []TypeOK
  <1>1. CmdInv => TypeOK
    <2>1. ASSUME CmdInv
          PROVE  TypeOK
      <3>1. ListsInv /\ CursorInv /\ OutputInv /\ SessionInv
        BY <2>1 DEF CmdInv
      <3>2. session = 1 /\ phase \notin {"off", "crashed"} =>
               /\ DOMAIN nodes = UNION {Reached(head[l]) : l \in Lists}
               /\ Reached(head["test"]) \cap Reached(head["suite"]) = {}
               /\ \A l \in Lists : head[l] # Null <=> tail[l] # Null
        BY <3>1, NoneDangles
      <3> QED
        BY <3>1, <3>2 DEF TypeOK, ListsInv, CursorInv, OutputInv, SessionInv
    <2> QED
      BY <2>1
  <1> QED
    BY <1>1, CmdInvKept, PTL

\* In the first session of a program whose table could be built, the modes are
\* what the last switch of each kind says, and exactly the tests and suites run
\* that a name given for their kind is part of, or all of them if none was given
\* (mptest__aparse_opt_test_cb, mptest__aparse_match_test_name).
THEOREM SessionFollowsArgumentsThm == Spec => []SessionFollowsArguments
  <1>1. CmdInv => SessionFollowsArguments
    <2>1. ASSUME CmdInv, session = 1, library = "made"
          PROVE  phase # "crashed"
      BY <2>1 DEF CmdInv, SessionInv
    <2>2. ASSUME CmdInv, session = 1, phase = "running"
          PROVE  \A s \in Switches : modes[s] = LastSays(s)
      <3>1. HeardInv /\ \A s \in Switches : modes[s] = (opts[s] = 1)
        BY <2>2 DEF CmdInv, SessionInv
      <3>2. \A s \in Switches : LastSays(s) \in BOOLEAN
        BY DEF LastSays
      <3> QED
        BY <3>1, <3>2 DEF HeardInv
    <2>3. ASSUME CmdInv, session = 1, phase = "ran"
          PROVE  /\ ran["test"] = {n \in TestNames : Chosen("test", n)}
                 /\ ran["suite"] = {n \in SuiteNames : Chosen("suite", n)}
      <3>1. HeardInv /\ ListsInv
        BY <2>3 DEF CmdInv, SessionInv
      <3>2. ran = [l \in Lists |-> {n \in IF l = "test" THEN TestNames ELSE SuiteNames :
                                       Matches(l, n)}]
        BY <2>3 DEF CmdInv, SessionInv
      <3>3. ASSUME NEW l \in Lists, NEW n
            PROVE  Matches(l, n) <=> Chosen(l, n)
        <4>1. TextsOf(l) = {nodes[k].name : k \in Reached(head[l])}
          BY <3>1 DEF HeardInv
        <4>2. head[l] = Null <=> Reached(head[l]) = {}
          BY <2>3, <3>1, NoneDangles
        <4>3. head[l] = Null <=> TextsOf(l) = {}
          BY <4>1, <4>2
        <4>4. (\E k \in Reached(head[l]) : StrStr(n, Spelled(nodes[k].name))) <=>
              (\E t \in TextsOf(l) : StrStr(n, Spelled(t)))
          <5> DEFINE P(t) == StrStr(n, Spelled(t))
          <5> HIDE DEF P
          <5>1. (\E k \in Reached(head[l]) : P(nodes[k].name)) <=> (\E t \in TextsOf(l) : P(t))
            BY <4>1
          <5> QED
            BY <5>1 DEF P
        <4> QED
          BY <4>3, <4>4 DEF Matches, Chosen
      <3>4. "test" \in Lists /\ "suite" \in Lists /\ "suite" # "test"
        BY DEF Lists
      <3>5. ran["test"] = {n \in TestNames : Matches("test", n)}
        BY <3>2, <3>4
      <3>6. ran["suite"] = {n \in SuiteNames : Matches("suite", n)}
        BY <3>2, <3>4
      <3> QED
        BY <3>3, <3>4, <3>5, <3>6
    <2> QED
      BY <2>1, <2>2, <2>3 DEF SessionFollowsArguments
  <1> QED
    BY <1>1, CmdInvKept, PTL

-----------------------------------------------------------------------------
(* Sequences put together. *)

\* Elements of a sequence that is put together from two.
LEMMA JoinedAt ==
    ASSUME NEW s, IsSeq(s), NEW t, IsSeq(t)
    PROVE  /\ IsSeq(s \o t) /\ Len(s \o t) = Len(s) + Len(t)
           /\ Len(s) \in Nat /\ Len(t) \in Nat
           /\ \A i \in 1 .. Len(s) : (s \o t)[i] = s[i]
           /\ \A i \in 1 .. Len(t) : (s \o t)[Len(s) + i] = t[i]
           /\ s \o <<>> = s /\ <<>> \o t = t
           /\ s \o t = <<>> => s = <<>> /\ t = <<>>
  <1> DEFINE S == ToSet(s) \cup ToSet(t)
  <1>1. s \in Seq(S) /\ t \in Seq(S)
    BY SeqParts
  <1> HIDE DEF S
  <1>2. Len(s) \in Nat /\ Len(t) \in Nat
    BY <1>1, LenProperties
  <1>3. /\ s \o t \in Seq(S) /\ Len(s \o t) = Len(s) + Len(t)
        /\ \A i \in 1 .. Len(s) + Len(t) :
              (s \o t)[i] = IF i <= Len(s) THEN s[i] ELSE t[i - Len(s)]
    BY <1>1, ConcatProperties
  <1>4. \A i \in 1 .. Len(s) : (s \o t)[i] = s[i]
    BY <1>2, <1>3
  <1>5. ASSUME NEW i \in 1 .. Len(t)
        PROVE  (s \o t)[Len(s) + i] = t[i]
    <2>1. Len(s) + i \in 1 .. Len(s) + Len(t) /\ ~(Len(s) + i <= Len(s))
          /\ (Len(s) + i) - Len(s) = i
      BY <1>2
    <2> QED
      BY <1>3, <2>1
  <1>6. s \o <<>> = s /\ <<>> \o t = t
    BY <1>1, ConcatEmptySeq
  <1>7. s \o t = <<>> => s = <<>> /\ t = <<>>
    BY <1>1, ConcatEqualIffEmpty
  <1> QED
    BY <1>2, <1>3, <1>4, <1>5, <1>6, <1>7, SeqIs

\* Two sequences with the same elements.
LEMMA SameSeq ==
    ASSUME NEW s, IsSeq(s), NEW t, IsSeq(t), Len(s) = Len(t),
           \A i \in 1 .. Len(s) : s[i] = t[i]
    PROVE  s = t
  <1> DEFINE S == ToSet(s) \cup ToSet(t)
  <1>1. s \in Seq(S) /\ t \in Seq(S)
    BY SeqParts
  <1> HIDE DEF S
  <1> QED
    BY <1>1, SeqEqual

\* Its first element, and the others.
LEMMA FirstAndRest ==
    ASSUME NEW e, NEW s, IsSeq(s)
    PROVE  LET w == <<e>> \o s
           IN /\ IsSeq(w) /\ w # <<>> /\ Len(w) = Len(s) + 1 /\ Len(s) \in Nat
              /\ w[1] = e /\ Head(w) = e /\ Tail(w) = s
              /\ \A i \in 1 .. Len(s) : w[i + 1] = s[i]
  <1> DEFINE S == ToSet(s) \cup {e}
  <1>1. s \in Seq(S) /\ e \in S
    BY SeqParts
  <1> HIDE DEF S
  <1>2. <<e>> \in Seq(S) /\ Len(<<e>>) = 1 /\ <<e>>[1] = e /\ IsSeq(<<e>>)
    BY <1>1, Tuples
  <1> DEFINE w == <<e>> \o s
  <1>3. /\ w \in Seq(S) /\ Len(w) = Len(s) + 1 /\ Len(s) \in Nat
        /\ \A i \in 1 .. Len(s) : w[1 + i] = s[i]
        /\ w[1] = e
    BY <1>1, <1>2, JoinedAt, ConcatProperties
  <1> HIDE DEF w
  <1>4. w # <<>>
    BY <1>3, EmptySeq
  <1>5. Head(w) = e
    BY <1>3, <1>4
  <1>6. Tail(w) \in Seq(S) /\ Len(Tail(w)) = Len(s)
        /\ \A i \in 1 .. Len(s) : Tail(w)[i] = w[i + 1]
    BY <1>3, <1>4, HeadTailProperties
  <1>7. \A i \in 1 .. Len(s) : w[i + 1] = s[i]
    BY <1>3
  <1>8. Tail(w) = s
    BY <1>1, <1>6, <1>7, SeqEqual
  <1> QED
    BY <1>3, <1>4, <1>5, <1>7, <1>8, SeqIs DEF w

\* What begins with the same number of elements and goes on the same way.
LEMMA SameRest ==
    ASSUME NEW d, NEW e, NEW s, IsSeq(s), NEW t, IsSeq(t), <<d>> \o s = <<e>> \o t
    PROVE  d = e /\ s = t
  BY FirstAndRest

\* A sequence is a prefix when it is short enough and has the same elements.
LEMMA PrefixIs ==
    ASSUME NEW s, IsSeq(s), NEW t, IsSeq(t)
    PROVE  IsPrefix(s, t) <=> Len(s) <= Len(t) /\ \A i \in 1 .. Len(s) : s[i] = t[i]
  <1> DEFINE S == ToSet(s) \cup ToSet(t)
  <1>1. s \in Seq(S) /\ t \in Seq(S)
    BY SeqParts
  <1> HIDE DEF S
  <1>2. Len(s) \in Nat /\ Len(t) \in Nat /\ SubSeq(s, 1, Len(s)) = s
    BY <1>1, LenProperties, SubSeqFull
  <1>3. ASSUME Len(s) <= Len(t)
        PROVE  /\ SubSeq(t, 1, Len(s)) \in Seq(S) /\ Len(SubSeq(t, 1, Len(s))) = Len(s)
               /\ \A i \in 1 .. Len(s) : SubSeq(t, 1, Len(s))[i] = t[i]
    <2>1. \A i \in 1 .. Len(s) : t[i] \in S
      BY <1>1, <1>2, <1>3, ElementOfSeq
    <2>2. 1 \in Int /\ Len(s) \in Int
      BY <1>2
    <2>3. /\ SubSeq(t, 1, Len(s)) \in Seq(S)
          /\ Len(SubSeq(t, 1, Len(s))) = IF 1 <= Len(s) THEN Len(s) - 1 + 1 ELSE 0
          /\ \A i \in 1 .. Len(s) - 1 + 1 : SubSeq(t, 1, Len(s))[i] = t[1 + i - 1]
      BY <2>1, <2>2, SubSeqProperties
    <2>4. Len(s) - 1 + 1 = Len(s) /\ \A i \in 1 .. Len(s) : 1 + i - 1 = i
      BY <1>2
    <2>5. Len(SubSeq(t, 1, Len(s))) = Len(s)
      BY <1>2, <2>3, <2>4
    <2> QED
      BY <2>3, <2>4, <2>5
  <1>4. CASE Len(s) <= Len(t)
    <2>1. PICK u : u = SubSeq(t, 1, Len(s))
      OBVIOUS
    <2>2. u \in Seq(S) /\ Len(u) = Len(s) /\ \A i \in 1 .. Len(s) : u[i] = t[i]
      BY <1>3, <1>4, <2>1
    <2>3. s = u <=> \A i \in 1 .. Len(s) : s[i] = t[i]
      BY <1>1, <2>2, SeqEqual
    <2> QED
      BY <1>2, <1>4, <2>1, <2>3 DEF IsPrefix
  <1> QED
    BY <1>4 DEF IsPrefix

\* What a prefix is put together with.
LEMMA PrefixJoined ==
    ASSUME NEW s, IsSeq(s), NEW t, IsSeq(t), NEW u, IsSeq(u), IsPrefix(s \o t, u)
    PROVE  IsPrefix(s, u)
  <1>1. /\ IsSeq(s \o t) /\ Len(s \o t) = Len(s) + Len(t)
        /\ Len(s) \in Nat /\ Len(t) \in Nat
        /\ \A i \in 1 .. Len(s) : (s \o t)[i] = s[i]
    BY JoinedAt
  <1>2. Len(s \o t) <= Len(u) /\ \A i \in 1 .. Len(s \o t) : (s \o t)[i] = u[i]
    BY <1>1, PrefixIs
  <1>3. Len(u) \in Nat
    BY SeqParts
  <1> QED
    BY <1>1, <1>2, <1>3, PrefixIs

-----------------------------------------------------------------------------
(* The uses of arguments. *)

\* A value that is no option and that the handler of its row understands.
Fits(row, v) ==
    /\ v = Element(v.dash, v.syms) /\ IsSeq(v.syms) /\ IsPositional(v)
    /\ row.handler = "bool" => v \in Bools

\* What there is to a use, for each way.
OneFits(row, u) == \E v : Fits(row, v) /\ u.values = <<v>>
AloneUse(row, u) ==
    /\ u.way = "alone" /\ u.values = <<>> /\ row.nargs \in MayStandAlone
    /\ u.joined => u.form = "short"
EqualsUse(row, u) ==
    /\ u.way = "equals" /\ ~u.joined /\ row.nargs \in OneValue \cup {Nargs0Or1Eq}
    /\ OneFits(row, u)
RestUse(row, u) ==
    /\ u.way = "rest" /\ ~u.joined /\ row.nargs \in OneValue /\ u.form = "short"
    /\ OneFits(row, u)
NextUse(row, u) ==
    /\ u.way = "next" /\ ~u.joined /\ row.nargs \in OneValue
    /\ OneFits(row, u)
ManyUse(row, u) ==
    /\ u.way = "next" /\ ~u.joined /\ row.nargs > 1
    /\ IsSeq(u.values) /\ Len(u.values) = row.nargs
    /\ \A i \in 1 .. row.nargs : Fits(row, u.values[i])
PlainUse(row, u) ==
    /\ u.form = "plain" /\ u.way = "plain" /\ ~u.joined /\ row.type = "POSITIONAL"
    /\ OneFits(row, u)
OptionUse(row, u) ==
    /\ row.type = "OPTIONAL"
    /\ \/ u.form = "short" /\ row.short # NoLetter
       \/ u.form = "long" /\ row.long # NoName
    /\ \/ AloneUse(row, u) \/ EqualsUse(row, u) \/ RestUse(row, u)
       \/ NextUse(row, u) \/ ManyUse(row, u)

\* A value of a proper use fits.
LEMMA ValueFits ==
    ASSUME NEW t, NEW us, Proper(t, us), NEW u \in ToSet(us), NEW v \in ToSet(u.values)
    PROVE  Fits(t[u.row], v)
  <1>1. /\ v = Element(v.dash, v.syms) /\ v.syms \in Seq(ToSet(v.syms))
        /\ IsPositional(v)
        /\ t[u.row].handler = "bool" => v \in Bools
    BY Zenon DEF Proper
  <1> QED
    BY <1>1, Zenon DEF Fits, IsSeq

LEMMA OneValueFits ==
    ASSUME NEW t, NEW us, Proper(t, us), NEW u \in ToSet(us), NEW v, u.values = <<v>>
    PROVE  OneFits(t[u.row], u)
  <1>1. v \in ToSet(u.values)
    <2>1. 1 \in DOMAIN <<v>> /\ <<v>>[1] = v
      OBVIOUS
    <2> QED
      BY <2>1, Zenon DEF ToSet
  <1> QED
    BY <1>1, ValueFits, Zenon DEF OneFits

\* A use of an option is one of those its way allows.
LEMMA WayIsUse ==
    ASSUME NEW t, NEW us, Proper(t, us), NEW u \in ToSet(us),
           NEW row, row = t[u.row], row.nargs \in Int, row.type = "OPTIONAL",
           NEW form \in Forms(row), NEW way \in Ways(row.nargs, form),
           NEW vs \in ValuesOf(row, way, ToSet(u.values)),
           NEW joined \in BOOLEAN,
           joined => form = "short" /\ way = "alone",
           u = Use(u.row, form, way, vs, joined)
    PROVE  OptionUse(row, u)
  <1>1. /\ u.form = form /\ u.way = way /\ u.values = vs
    BY DEF Use
  <1>2. u.joined <=> joined
    <2>1. u.joined = joined
      BY DEF Use
    <2> QED
      BY <2>1, Zenon
  <1>3. \/ u.form = "short" /\ row.short # NoLetter
        \/ u.form = "long" /\ row.long # NoName
    BY <1>1 DEF Forms
  <1>4. \/ way = "alone" /\ row.nargs \in MayStandAlone
        \/ way = "equals" /\ row.nargs \in OneValue \cup {Nargs0Or1Eq}
        \/ way = "rest" /\ row.nargs \in OneValue /\ form = "short"
        \/ way = "next" /\ row.nargs \in OneValue /\ ~(row.nargs > 1)
        \/ way = "next" /\ row.nargs > 1
    BY DEF Ways, OneValue, Nargs0Or1, Nargs0OrMore, Nargs1OrMore
  <1>5. CASE way = "alone" /\ row.nargs \in MayStandAlone
    <2>1. u.values = <<>>
      BY <1>1, <1>5 DEF ValuesOf
    <2>2. u.joined => u.form = "short"
      BY <1>1, <1>2, Zenon
    <2>3. AloneUse(row, u)
      BY <1>1, <1>5, <2>1, <2>2, Zenon DEF AloneUse
    <2> QED
      BY <1>3, <2>3, Zenon DEF OptionUse
  <1>6. way # "alone" => ~u.joined
    BY <1>2, Zenon
  <1>7. ASSUME way # "alone", ~(way = "next" /\ row.nargs > 1)
        PROVE  OneFits(row, u)
    <2>1. PICK v : u.values = <<v>>
      BY <1>1, <1>7, Zenon DEF ValuesOf
    <2> QED
      BY <2>1, OneValueFits
  <1>8. CASE way = "equals" /\ row.nargs \in OneValue \cup {Nargs0Or1Eq}
    <2>1. way # "alone" /\ way # "next"
      BY <1>8
    <2>2. EqualsUse(row, u)
      BY <1>1, <1>6, <1>7, <1>8, <2>1, Zenon DEF EqualsUse
    <2> QED
      BY <1>3, <2>2, Zenon DEF OptionUse
  <1>9. CASE way = "rest" /\ row.nargs \in OneValue /\ form = "short"
    <2>1. way # "alone" /\ way # "next"
      BY <1>9
    <2>2. RestUse(row, u)
      BY <1>1, <1>6, <1>7, <1>9, <2>1, Zenon DEF RestUse
    <2> QED
      BY <1>3, <2>2, Zenon DEF OptionUse
  <1>10. CASE way = "next" /\ row.nargs \in OneValue /\ ~(row.nargs > 1)
    <2>1. way # "alone"
      BY <1>10
    <2>2. NextUse(row, u)
      BY <1>1, <1>6, <1>7, <1>10, <2>1, Zenon DEF NextUse
    <2> QED
      BY <1>3, <2>2, Zenon DEF OptionUse
  <1>11. CASE way = "next" /\ row.nargs > 1
    <2>1. way # "alone"
      BY <1>11
    <2> DEFINE V == ToSet(u.values)
               n == row.nargs
    <2>2. u.values \in [1 .. n -> V]
      BY <1>1, <1>11, <2>1 DEF ValuesOf
    <2>3. \A v \in V : Fits(row, v)
      BY ValueFits
    <2>4. n \in Nat
      BY <1>11
    <2> HIDE DEF V, n
    <2>5. u.values \in Seq(V)
      BY <2>2, <2>4, SeqDef
    <2>6. IsSeq(u.values) /\ Len(u.values) = n
      <3>1. DOMAIN u.values = 1 .. n /\ DOMAIN u.values = 1 .. Len(u.values)
            /\ Len(u.values) \in Nat
        BY <2>2, <2>5, LenProperties
      <3> QED
        BY <2>4, <2>5, <3>1, SeqIs
    <2>7. \A i \in 1 .. n : Fits(row, u.values[i])
      BY <2>2, <2>3
    <2>8. ManyUse(row, u)
      BY <1>1, <1>6, <1>11, <2>1, <2>6, <2>7, Zenon DEF ManyUse, n
    <2> QED
      BY <1>3, <2>8, Zenon DEF OptionUse
  <1> QED
    BY <1>4, <1>5, <1>8, <1>9, <1>10, <1>11

LEMMA UseShape ==
    ASSUME NEW t, IsTable(t), NEW us, Proper(t, us), NEW k \in 1 .. Len(us)
    PROVE  /\ us[k].row \in DOMAIN t
           /\ PlainUse(t[us[k].row], us[k]) \/ OptionUse(t[us[k].row], us[k])
  <1>1. IsSeq(us)
    BY DEF Proper, IsSeq
  <1>2. PICK u : u = us[k]
    OBVIOUS
  <1>3. u \in ToSet(us)
    BY <1>1, <1>2, SeqParts
  <1>4. u.row \in DOMAIN t /\ u \in UsesOf(t, u.row, ToSet(u.values))
    BY <1>3, Zenon DEF Proper
  <1> DEFINE row == t[u.row]
  <1>5. row.type \in {"OPTIONAL", "POSITIONAL"} /\ row.nargs \in Int
    <2>1. row \in ToSet(t)
      BY <1>4, Zenon DEF ToSet
    <2> QED
      BY <2>1, Zenon DEF IsTable
  <1>6. CASE row.type = "POSITIONAL"
    <2> DEFINE plain == {Use(u.row, "plain", "plain", <<v>>, FALSE) : v \in ToSet(u.values)}
    <2>1. UsesOf(t, u.row, ToSet(u.values)) = plain
      BY <1>6, SMT DEF UsesOf
    <2>2. PICK v : u = Use(u.row, "plain", "plain", <<v>>, FALSE)
      BY <1>4, <2>1, Zenon
    <2>3. u.form = "plain" /\ u.way = "plain" /\ u.values = <<v>>
      BY <2>2 DEF Use
    <2>4. ~u.joined
      <3>1. u.joined = FALSE
        BY <2>2 DEF Use
      <3> QED
        BY <3>1, Zenon
    <2>5. OneFits(row, u)
      BY <1>3, <2>3, OneValueFits
    <2>6. PlainUse(row, u)
      BY <1>6, <2>3, <2>4, <2>5, Zenon DEF PlainUse
    <2> QED
      BY <1>2, <1>4, <2>6
  <1>7. CASE row.type = "OPTIONAL"
    <2>1. row.type # "POSITIONAL"
      BY <1>7
    <2> DEFINE Flags(form, way) ==
                   IF form = "short" /\ way = "alone" THEN BOOLEAN ELSE {FALSE}
               OfWay(form, way) ==
                   {Use(u.row, form, way, vs, joined) :
                      vs \in ValuesOf(row, way, ToSet(u.values)), joined \in Flags(form, way)}
               OfForm(form) == UNION {OfWay(form, way) : way \in Ways(row.nargs, form)}
    <2>2. UsesOf(t, u.row, ToSet(u.values)) = UNION {OfForm(form) : form \in Forms(row)}
      BY <2>1, SMT DEF UsesOf
    <2>3. PICK form \in Forms(row) : u \in OfForm(form)
      <3> HIDE DEF OfForm
      <3> QED
        BY <1>4, <2>2, Zenon
    <2>4. PICK way \in Ways(row.nargs, form) : u \in OfWay(form, way)
      <3> HIDE DEF OfWay
      <3> QED
        BY <2>3, Zenon DEF OfForm
    <2>5. PICK vs \in ValuesOf(row, way, ToSet(u.values)), joined \in Flags(form, way) :
             u = Use(u.row, form, way, vs, joined)
      <3> HIDE DEF Flags
      <3> QED
        BY <2>4, SMT DEF OfWay
    <2>6. joined \in BOOLEAN
      BY <2>5, Zenon
    <2>7. joined => form = "short" /\ way = "alone"
      BY <2>5, Zenon
    <2>8. OptionUse(row, u)
      BY <1>3, <1>5, <1>7, <2>5, <2>6, <2>7, WayIsUse
    <2> QED
      BY <1>2, <1>4, <2>8
  <1> QED
    BY <1>5, <1>6, <1>7

LEMMA JoinRegroups ==
    ASSUME NEW s, IsSeq(s), NEW t, IsSeq(t), NEW u, IsSeq(u)
    PROVE  (s \o t) \o u = s \o (t \o u)
  <1> DEFINE S == ToSet(s) \cup ToSet(t) \cup ToSet(u)
  <1>1. s \in Seq(S) /\ t \in Seq(S) /\ u \in Seq(S)
    BY SeqParts
  <1> HIDE DEF S
  <1> QED
    BY <1>1, ConcatAssociative

\* The element e before s and t.
LEMMA OneRegroups ==
    ASSUME NEW e, NEW s, IsSeq(s), NEW t, IsSeq(t)
    PROVE  (<<e>> \o s) \o t = <<e>> \o (s \o t)
  <1>1. IsSeq(<<e>>)
    BY Tuples
  <1> QED
    BY <1>1, JoinRegroups

-----------------------------------------------------------------------------
(* What is written for a use. *)

\* An option u begins with an element that names it; behind the name, and in
\* the elements w after that one, stand its values and then what is written
\* for the uses after it.
NameOf(row, u) == IF u.form = "short" THEN <<row.short>> ELSE row.long
DashesOf(u) == IF u.form = "short" THEN 1 ELSE 2
Reads(row, u, behind, w, after) ==
    \/ AloneUse(row, u) /\ ~u.joined /\ behind = <<>> /\ w = after
    \/ /\ AloneUse(row, u) /\ u.joined
       /\ behind # <<>> /\ Head(behind) # "=" /\ <<Element(1, behind)>> \o w = after
    \/ EqualsUse(row, u) /\ behind = <<"=">> \o u.values[1].syms /\ w = after
    \/ /\ RestUse(row, u) /\ behind = u.values[1].syms /\ w = after
       /\ behind # <<>> /\ Head(behind) # "="
    \/ NextUse(row, u) /\ behind = <<>> /\ w = u.values \o after
    \/ ManyUse(row, u) /\ behind = <<>> /\ w = u.values \o after
OptionStands(row, u, all, after) ==
    \E behind, w :
       /\ IsSeq(behind) /\ IsSeq(w) /\ Reads(row, u, behind, w, after)
       /\ all = <<Element(DashesOf(u), NameOf(row, u) \o behind)>> \o w

LEMMA NamedIs ==
    ASSUME NEW t, NEW u, NEW row, row = t[u.row], u.form \in {"short", "long"}
    PROVE  /\ u.way \notin {"equals", "rest"} =>
                Named(t, u) = Element(DashesOf(u), NameOf(row, u))
           /\ u.way = "equals" =>
                Named(t, u) = Element(DashesOf(u), NameOf(row, u) \o <<"=">> \o u.values[1].syms)
           /\ u.way = "rest" =>
                Named(t, u) = Element(DashesOf(u), NameOf(row, u) \o u.values[1].syms)
  <1>1. CASE u.way = "equals"
    BY <1>1 DEF Named, NameOf, DashesOf
  <1>2. CASE u.way = "rest"
    BY <1>2 DEF Named, NameOf, DashesOf
  <1>3. CASE u.way \notin {"equals", "rest"}
    BY <1>3 DEF Named, NameOf, DashesOf
  <1> QED
    BY <1>1, <1>2, <1>3

\* What Before puts before the elements of the uses after it begins with an option
\* that reads as was meant.
LEMMA OptionBegins ==
    ASSUME NEW t, NEW u, NEW row, row = t[u.row], OptionUse(row, u), IsSeq(row.long),
           NEW after, IsSeq(after),
           u.joined => \E c, s : /\ c # "=" /\ IsSeq(s) /\ after # <<>>
                                 /\ Head(after) = Element(1, <<c>> \o s),
           u.way = "rest" => u.values[1].syms # <<>> /\ Head(u.values[1].syms) # "="
    PROVE  OptionStands(row, u, Before(t, u, after), after)
  <1> DEFINE name == NameOf(row, u)
             dashes == DashesOf(u)
  <1>1. u.form \in {"short", "long"}
    BY Zenon DEF OptionUse
  <1>2. IsSeq(name) /\ IsSeq(<<>>) /\ name \o <<>> = name
    <2>1. IsSeq(name)
      BY Tuples DEF NameOf
    <2> HIDE DEF name
    <2> QED
      BY <2>1, JoinedAt, Tuples
  <1>3. /\ u.way \notin {"equals", "rest"} => Named(t, u) = Element(dashes, name)
        /\ u.way = "equals" =>
              Named(t, u) = Element(dashes, name \o <<"=">> \o u.values[1].syms)
        /\ u.way = "rest" => Named(t, u) = Element(dashes, name \o u.values[1].syms)
    BY <1>1, NamedIs
  <1>4. ASSUME ~u.joined
        PROVE  Before(t, u, after) = Elements(t, u) \o after
    BY <1>4, Zenon DEF Before
  <1>5. ASSUME NEW v, u.values = <<v>>
        PROVE  u.values[1] = v
    BY <1>5
  <1> HIDE DEF name, dashes
  <1>6. ASSUME u.way # "plain", u.way # "next"
        PROVE  Elements(t, u) \o after = <<Named(t, u)>> \o after
    <2>1. <<Named(t, u)>> \o <<>> = <<Named(t, u)>>
      BY JoinedAt, Tuples
    <2>2. u.form # "plain"
      BY <1>1
    <2> QED
      BY <1>6, <2>1, <2>2 DEF Elements
  <1>7. ASSUME u.way = "next", IsSeq(u.values)
        PROVE  Elements(t, u) \o after = <<Named(t, u)>> \o (u.values \o after)
    <2>1. (<<Named(t, u)>> \o u.values) \o after = <<Named(t, u)>> \o (u.values \o after)
      <3>1. PICK vals, first : vals = u.values /\ first = Named(t, u)
        OBVIOUS
      <3>2. IsSeq(vals)
        BY <1>7, <3>1
      <3>3. (<<first>> \o vals) \o after = <<first>> \o (vals \o after)
        BY <3>2, OneRegroups
      <3> QED
        BY <3>1, <3>3
    <2>2. u.form # "plain"
      BY <1>1
    <2> QED
      BY <1>7, <2>1, <2>2 DEF Elements
  <1>8. CASE AloneUse(row, u) /\ ~u.joined
    <2>1. u.way = "alone"
      BY <1>8, Zenon DEF AloneUse
    <2>2. Before(t, u, after) = <<Element(dashes, name \o <<>>)>> \o after
      BY <1>2, <1>3, <1>4, <1>6, <1>8, <2>1
    <2>3. Reads(row, u, <<>>, after, after)
      BY <1>8, Zenon DEF Reads
    <2> QED
      BY <1>2, <2>2, <2>3, Zenon DEF OptionStands, name, dashes
  <1>9. CASE AloneUse(row, u) /\ u.joined
    <2>1. PICK c, s : /\ c # "=" /\ IsSeq(s) /\ after # <<>>
                      /\ Head(after) = Element(1, <<c>> \o s)
      BY <1>9, Zenon
    <2>2. PICK behind : behind = Head(after).syms
      OBVIOUS
    <2>3. behind = <<c>> \o s
      BY <2>1, <2>2 DEF Element
    <2>4. IsSeq(behind) /\ behind # <<>> /\ Head(behind) = c
      BY <2>1, <2>3, FirstAndRest
    <2>5. PICK w : w = Tail(after)
      OBVIOUS
    <2>6. IsSeq(w) /\ <<Head(after)>> \o w = after
      <3>1. IsSeq(w)
        BY <2>1, <2>5, SeqTail
      <3> DEFINE S == ToSet(after)
      <3>2. after \in Seq(S)
        BY SeqParts
      <3> HIDE DEF S
      <3>3. /\ Head(after) \in S /\ w \in Seq(S) /\ Len(w) = Len(after) - 1
            /\ \A i \in 1 .. Len(w) : w[i] = after[i + 1]
            /\ Len(after) \in Nat \ {0} /\ Head(after) = after[1]
        BY <2>1, <2>5, <3>2, HeadTailProperties, EmptySeq
      <3> DEFINE z == <<Head(after)>> \o w
      <3>4. /\ IsSeq(z) /\ Len(z) = Len(w) + 1 /\ z[1] = Head(after)
            /\ \A i \in 1 .. Len(w) : z[i + 1] = w[i]
        BY <3>1, FirstAndRest
      <3> HIDE DEF z
      <3>5. ASSUME NEW i \in 1 .. Len(after)
            PROVE  z[i] = after[i]
        <4>1. CASE i = 1
          BY <3>3, <3>4, <4>1
        <4>2. CASE i # 1
          <5>1. i - 1 \in 1 .. Len(w) /\ (i - 1) + 1 = i
            BY <3>3, <4>2
          <5> QED
            BY <3>3, <3>4, <5>1
        <4> QED
          BY <4>1, <4>2
      <3>6. Len(z) = Len(after)
        BY <3>3, <3>4
      <3>7. z = after
        BY <3>4, <3>5, <3>6, SameSeq
      <3> QED
        BY <3>1, <3>7 DEF z
    <2>7. Head(after) = Element(1, behind)
      BY <2>1, <2>3
    <2>8. Reads(row, u, behind, w, after)
      BY <1>9, <2>1, <2>4, <2>6, <2>7, Zenon DEF Reads
    <2>9. u.form = "short"
      BY <1>9, Zenon DEF AloneUse
    <2>10. dashes = 1 /\ name = <<row.short>>
      BY <2>9 DEF dashes, name, DashesOf, NameOf
    <2>11. Before(t, u, after) = <<Element(1, <<t[u.row].short>> \o behind)>> \o w
      BY <1>9, <2>2, <2>5, Zenon DEF Before
    <2>12. Before(t, u, after) = <<Element(dashes, name \o behind)>> \o w
      BY <2>10, <2>11
    <2> QED
      BY <2>4, <2>6, <2>8, <2>12, Zenon DEF OptionStands, name, dashes
  <1>10. CASE EqualsUse(row, u)
    <2>1. u.way = "equals" /\ ~u.joined /\ OneFits(row, u)
      BY <1>10, Zenon DEF EqualsUse
    <2>2. PICK v : Fits(row, v) /\ u.values = <<v>>
      BY <2>1, Zenon DEF OneFits
    <2>3. PICK s : s = u.values[1].syms
      OBVIOUS
    <2>4. IsSeq(s)
      BY <2>2, <2>3 DEF Fits
    <2>5. (name \o <<"=">>) \o s = name \o (<<"=">> \o s) /\ IsSeq(<<"=">> \o s)
      BY <1>2, <2>4, JoinRegroups, Joined, Tuples
    <2>6. Before(t, u, after) = <<Element(dashes, name \o (<<"=">> \o s))>> \o after
      BY <1>3, <1>4, <1>6, <2>1, <2>3, <2>5
    <2>7. Reads(row, u, <<"=">> \o s, after, after)
      BY <1>10, <2>3, Zenon DEF Reads
    <2> QED
      BY <2>5, <2>6, <2>7, Zenon DEF OptionStands, name, dashes
  <1>11. CASE RestUse(row, u)
    <2>1. u.way = "rest" /\ ~u.joined /\ OneFits(row, u)
      BY <1>11, Zenon DEF RestUse
    <2>2. PICK v : Fits(row, v) /\ u.values = <<v>>
      BY <2>1, Zenon DEF OneFits
    <2>3. PICK s : s = u.values[1].syms
      OBVIOUS
    <2>4. IsSeq(s)
      BY <2>2, <2>3 DEF Fits
    <2>5. Before(t, u, after) = <<Element(dashes, name \o s)>> \o after
      BY <1>3, <1>4, <1>6, <2>1, <2>3
    <2>6. Reads(row, u, s, after, after)
      BY <1>11, <2>1, <2>3, Zenon DEF Reads
    <2> QED
      BY <2>4, <2>5, <2>6, Zenon DEF OptionStands, name, dashes
  <1>12. ASSUME NextUse(row, u) \/ ManyUse(row, u)
         PROVE  OptionStands(row, u, Before(t, u, after), after)
    <2>1. u.way = "next" /\ ~u.joined
      BY <1>12, Zenon DEF NextUse, ManyUse
    <2>2. IsSeq(u.values)
      <3>1. CASE OneFits(row, u)
        BY <3>1, Tuples DEF OneFits
      <3> QED
        BY <1>12, <3>1, Zenon DEF NextUse, ManyUse
    <2>3. IsSeq(u.values \o after)
      BY <2>2, Joined
    <2>4. Before(t, u, after) = <<Element(dashes, name \o <<>>)>> \o (u.values \o after)
      BY <1>2, <1>3, <1>4, <1>7, <2>1, <2>2
    <2>5. Reads(row, u, <<>>, u.values \o after, after)
      BY <1>12, Zenon DEF Reads
    <2> QED
      BY <1>2, <2>3, <2>4, <2>5, Zenon DEF OptionStands, name, dashes
  <1> QED
    BY <1>8, <1>9, <1>10, <1>11, <1>12, Zenon DEF OptionUse

LEMMA PlainBegins ==
    ASSUME NEW t, NEW u, PlainUse(t[u.row], u), NEW after, IsSeq(after)
    PROVE  \E v : /\ Fits(t[u.row], v) /\ u.values = <<v>>
                  /\ Before(t, u, after) = <<v>> \o after
  <1>1. u.form = "plain" /\ u.way = "plain" /\ OneFits(t[u.row], u)
    BY Zenon DEF PlainUse
  <1>2. PICK v : Fits(t[u.row], v) /\ u.values = <<v>>
    BY <1>1, Zenon DEF OneFits
  <1>3. <<>> \o u.values = u.values
    BY <1>2, JoinedAt, Tuples
  <1>4. Elements(t, u) = <<v>>
    BY <1>1, <1>2, <1>3 DEF Elements
  <1>5. Before(t, u, after) = Elements(t, u) \o after
    BY Zenon DEF Before, PlainUse
  <1> QED
    BY <1>2, <1>4, <1>5

-----------------------------------------------------------------------------
(* Written and Meant, use by use. *)

\* The calls of the first k uses are upto[k].
Calls(us, upto) ==
    /\ Meant(us) = upto[Len(us)] /\ upto[0] = <<>>
    /\ \A k \in 1 .. Len(us) : upto[k] = upto[k - 1] \o CallsOf(us[k])
    /\ \A k \in 0 .. Len(us) : IsSeq(upto[k])

\* The function f is the recursion of Written for n uses.
IsWritten(t, us, n, f) ==
    f = [k \in 1 .. n + 1 |-> IF k > n THEN <<>> ELSE Before(t, us[k], f[k + 1])]

\* There is one: it goes from the last use back.
LEMMA WrittenExists ==
    ASSUME NEW t, NEW us, NEW n \in Nat
    PROVE  \E f : IsWritten(t, us, n, f)
  <1> DEFINE At(f, k) == f[k] = IF k > n THEN <<>> ELSE Before(t, us[k], f[k + 1])
             Built(m) == \E f : \A k \in 1 .. n + 1 : k > n - m => At(f, k)
             T == {m \in Nat : m <= n => Built(m)}
  <1>1. 0 \in T
    <2> DEFINE f == [k \in 1 .. n + 1 |-> <<>>]
    <2>1. \A k \in 1 .. n + 1 : k > n - 0 => At(f, k)
      OBVIOUS
    <2> HIDE DEF f, At
    <2>2. Built(0)
      BY <2>1
    <2> HIDE DEF Built
    <2> QED
      BY <2>2
  <1>2. ASSUME NEW m \in Nat, m \in T
        PROVE  m + 1 \in T
    <2>1. ASSUME m + 1 <= n
          PROVE  Built(m + 1)
      <3>1. Built(m)
        <4> HIDE DEF Built
        <4> QED
          BY <1>2, <2>1
      <3>2. PICK f : \A k \in 1 .. n + 1 : k > n - m => At(f, k)
        <4> HIDE DEF At
        <4> QED
          BY <3>1
      <3>3. PICK j : j = n - m
        OBVIOUS
      <3>4. j \in 1 .. n /\ j + 1 \in 1 .. n + 1 /\ ~(j > n)
        BY <2>1, <3>3
      <3> DEFINE x == Before(t, us[j], f[j + 1])
                 g == [k \in 1 .. n + 1 |-> IF k = j THEN x ELSE f[k]]
      <3>5. ASSUME NEW k \in 1 .. n + 1, k > n - (m + 1)
            PROVE  At(g, k)
        <4>1. k = j \/ k > j
          BY <3>3, <3>5
        <4>2. CASE k = j
          <5>1. g[k] = x /\ g[k + 1] = f[k + 1]
            BY <3>4, <4>2
          <5> QED
            BY <3>4, <4>2, <5>1
        <4>3. CASE k > j
          <5>1. g[k] = f[k] /\ (~(k > n) => g[k + 1] = f[k + 1])
            BY <3>4, <4>3
          <5>2. f[k] = IF k > n THEN <<>> ELSE Before(t, us[k], f[k + 1])
            BY <3>2, <3>3, <4>3
          <5> QED
            BY <5>1, <5>2
        <4> QED
          BY <4>1, <4>2, <4>3
      <3> HIDE DEF g, At
      <3> QED
        BY <3>5
    <2> HIDE DEF Built
    <2> QED
      BY <2>1
  <1>3. n \in T
    <2> HIDE DEF T
    <2>1. Nat \subseteq T
      BY <1>1, <1>2, AllNat
    <2> QED
      BY <2>1
  <1>4. PICK f : \A k \in 1 .. n + 1 : At(f, k)
    <2>1. Built(n)
      <3> HIDE DEF Built
      <3> QED
        BY <1>3
    <2>2. \A k \in 1 .. n + 1 : k > n - n
      OBVIOUS
    <2> HIDE DEF At
    <2> QED
      BY <2>1, <2>2
  <1> DEFINE h == [k \in 1 .. n + 1 |-> f[k]]
  <1>5. ASSUME NEW k \in 1 .. n + 1
        PROVE  h[k] = IF k > n THEN <<>> ELSE Before(t, us[k], h[k + 1])
    <2>1. h[k] = f[k] /\ (~(k > n) => h[k + 1] = f[k + 1])
      OBVIOUS
    <2> QED
      BY <1>4, <2>1
  <1>6. h = [k \in 1 .. n + 1 |-> h[k]]
    OBVIOUS
  <1> HIDE DEF h
  <1>7. IsWritten(t, us, n, h)
    BY <1>5, <1>6 DEF IsWritten
  <1> QED
    BY <1>7

LEMMA WrittenIs ==
    ASSUME NEW t, NEW us, IsSeq(us)
    PROVE  \E from :
              /\ Written(t, us) = from[1] /\ from[Len(us) + 1] = <<>>
              /\ \A k \in 1 .. Len(us) : from[k] = Before(t, us[k], from[k + 1])
  <1> DEFINE n == Len(us)
             Eq(f) == f = [k \in 1 .. n + 1 |->
                              IF k > n THEN <<>> ELSE Before(t, us[k], f[k + 1])]
             from == CHOOSE f : Eq(f)
  <1>1. n \in Nat
    BY SeqParts
  <1>2. \E f : Eq(f)
    <2>1. \A f : IsWritten(t, us, n, f) <=> Eq(f)
      BY DEF IsWritten
    <2> HIDE DEF Eq, n
    <2> QED
      BY <1>1, <2>1, WrittenExists
  <1>3. Eq(from)
    <2> HIDE DEF Eq
    <2> QED
      BY <1>2
  <1>4. Written(t, us) = from[1]
    BY DEF Written
  <1> HIDE DEF from
  <1>5. from[n + 1] = <<>> /\ \A k \in 1 .. n : from[k] = Before(t, us[k], from[k + 1])
    BY <1>1, <1>3
  <1> QED
    BY <1>4, <1>5

LEMMA CallsIsSeq ==
    ASSUME NEW u, IsSeq(u.values)
    PROVE  /\ IsSeq(CallsOf(u))
           /\ Len(CallsOf(u)) = IF u.values = <<>> THEN 1 ELSE Len(u.values)
           /\ \A i \in 1 .. Len(CallsOf(u)) :
                 CallsOf(u)[i] = [row |-> u.row, sub |-> i - 1,
                                  text |-> IF u.values = <<>> THEN NoText ELSE u.values[i]]
  <1>1. CASE u.values = <<>>
    <2>1. PICK c : c = [row |-> u.row, sub |-> 0, text |-> NoText]
      OBVIOUS
    <2>2. CallsOf(u) = <<c>>
      BY <1>1, <2>1 DEF CallsOf
    <2>3. IsSeq(<<c>>) /\ Len(<<c>>) = 1 /\ <<c>>[1] = c
      BY Tuples
    <2>4. ASSUME NEW i \in 1 .. 1
          PROVE  i = 1 /\ i - 1 = 0
      OBVIOUS
    <2> QED
      BY <1>1, <2>1, <2>2, <2>3, <2>4
  <1>2. CASE u.values # <<>>
    <2> DEFINE Call(v) == [row |-> u.row, sub |-> v - 1, text |-> u.values[v]]
               n == Len(u.values)
               S == {Call(v) : v \in 1 .. n}
    <2>1. n \in Nat /\ DOMAIN u.values = 1 .. n
      BY SeqParts
    <2>2. CallsOf(u) = [v \in 1 .. n |-> Call(v)]
      BY <1>2, <2>1 DEF CallsOf
    <2> HIDE DEF Call, n
    <2>3. CallsOf(u) \in [1 .. n -> S]
      BY <2>2
    <2>4. CallsOf(u) \in Seq(S)
      BY <2>1, <2>3, SeqDef
    <2>5. Len(CallsOf(u)) = n
      <3>1. DOMAIN CallsOf(u) = 1 .. n /\ DOMAIN CallsOf(u) = 1 .. Len(CallsOf(u))
            /\ Len(CallsOf(u)) \in Nat
        BY <2>3, <2>4, LenProperties
      <3> QED
        BY <2>1, <3>1
    <2>6. \A i \in 1 .. n : CallsOf(u)[i] = Call(i)
      BY <2>2
    <2> QED
      BY <1>2, <2>4, <2>5, <2>6, SeqIs DEF Call, n
  <1> QED
    BY <1>1, <1>2

LEMMA MeantIs ==
    ASSUME NEW us, IsSeq(us), \A k \in 1 .. Len(us) : IsSeq(us[k].values)
    PROVE  \E upto : Calls(us, upto)
  <1> DEFINE n == Len(us)
             f == [k \in 1 .. n |-> CallsOf(us[k])]
             S == UNION {ToSet(f[k]) : k \in 1 .. n}
  <1>1. n \in Nat /\ DOMAIN us = 1 .. n
    BY SeqParts
  <1>2. \A k \in 1 .. n : f[k] = CallsOf(us[k]) /\ IsSeq(f[k])
    BY CallsIsSeq
  <1>3. Meant(us) = FlattenSeq(f)
    BY <1>1 DEF Meant
  <1>4. DOMAIN f = 1 .. n /\ f = [k \in 1 .. n |-> f[k]]
    OBVIOUS
  <1> HIDE DEF f, n
  <1>5. \A k \in 1 .. n : f[k] \in Seq(S)
    <2>1. ASSUME NEW k \in 1 .. n
          PROVE  f[k] \in Seq(S)
      <3>1. ToSet(f[k]) \subseteq S
        BY Zenon
      <3> HIDE DEF S
      <3> QED
        BY <1>2, <3>1, SeqParts
    <2> QED
      BY <2>1
  <1> HIDE DEF S
  <1>6. f \in [1 .. n -> Seq(S)]
    BY <1>4, <1>5, Zenon
  <1>7. f \in Seq(Seq(S))
    BY <1>1, <1>6, SeqDef
  <1>8. Len(f) = n
    <2>1. DOMAIN f = 1 .. Len(f) /\ Len(f) \in Nat
      BY <1>7, LenProperties
    <2> QED
      BY <1>1, <1>4, <2>1
  <1>9. PICK upto \in [0 .. n -> Seq(S)] :
              /\ upto[0] = <<>> /\ FlattenSeq(f) = upto[n]
              /\ \A i \in 1 .. n : upto[i] = upto[i - 1] \o f[i]
    BY <1>7, <1>8, FlattenSteps
  <1>10. \A k \in 0 .. n : IsSeq(upto[k])
    <2>1. ASSUME NEW k \in 0 .. n
          PROVE  IsSeq(upto[k])
      <3>1. upto[k] \in Seq(S)
        OBVIOUS
      <3> QED
        BY <3>1, SeqIs
    <2> QED
      BY <2>1
  <1>11. Calls(us, upto)
    BY <1>2, <1>3, <1>9, <1>10 DEF Calls, n
  <1> QED
    BY <1>11

\* The use u stands at the head of all: what is written for it, and then after.
PlainStands(row, u, all, after) ==
    PlainUse(row, u) /\ \E v : /\ Fits(row, v) /\ u.values = <<v>> /\ all = <<v>> \o after
Stands(row, u, all, after) ==
    \/ PlainStands(row, u, all, after)
    \/ OptionUse(row, u) /\ OptionStands(row, u, all, after)

\* The elements written for the uses from the k-th on are from[k]: each use
\* stands before those after it.
Standing(t, us, from) ==
    /\ Written(t, us) = from[1] /\ from[Len(us) + 1] = <<>>
    /\ \A k \in 1 .. Len(us) + 1 : IsSeq(from[k])
    /\ \A k \in 1 .. Len(us) :
          us[k].row \in DOMAIN t /\ Stands(t[us[k].row], us[k], from[k], from[k + 1])

\* What Sensible says of one use.
LEMMA SensibleAt ==
    ASSUME NEW t, NEW us, Proper(t, us), NEW k \in 1 .. Len(us)
    PROVE  /\ us[k].joined => k < Len(us) /\ us[k + 1].form = "short"
           /\ us[k].way = "alone" /\ t[us[k].row].nargs \in {Nargs0Or1, Nargs0OrMore}
                => k = Len(us) \/ us[k + 1].form # "plain"
           /\ us[k].way \in {"equals", "rest"} => us[k].values[1].dash = 0
           /\ us[k].way = "rest" =>
                us[k].values[1].syms # <<>> /\ Head(us[k].values[1].syms) # "="
  <1>1. DOMAIN us = 1 .. Len(us)
    BY SeqParts DEF Proper, IsSeq
  <1>2. k \in DOMAIN us /\ Sensible(t, us)
    BY <1>1, Zenon DEF Proper
  <1> QED
    BY <1>2, Zenon DEF Sensible

LEMMA ShortStands ==
    ASSUME NEW row, NEW u, NEW all, NEW after, Stands(row, u, all, after), u.form = "short"
    PROVE  \E s : IsSeq(s) /\ all # <<>> /\ Head(all) = Element(1, <<row.short>> \o s)
  <1>1. ~PlainStands(row, u, all, after)
    <2>1. u.form # "plain"
      OBVIOUS
    <2> QED
      BY <2>1, Zenon DEF PlainStands, PlainUse
  <1>2. OptionStands(row, u, all, after)
    BY <1>1, Zenon DEF Stands
  <1>3. PICK behind, w : /\ IsSeq(behind) /\ IsSeq(w)
                         /\ all = <<Element(DashesOf(u), NameOf(row, u) \o behind)>> \o w
    BY <1>2, Zenon DEF OptionStands
  <1>4. DashesOf(u) = 1 /\ NameOf(row, u) = <<row.short>>
    BY DEF DashesOf, NameOf
  <1>5. PICK e : e = Element(1, <<row.short>> \o behind)
    OBVIOUS
  <1>6. all = <<e>> \o w
    BY <1>3, <1>4, <1>5
  <1>7. all # <<>> /\ Head(all) = e
    BY <1>3, <1>6, FirstAndRest
  <1> QED
    BY <1>3, <1>5, <1>7

\* One use more.
LEMMA StandsBefore ==
    ASSUME NEW t, IsTable(t), Apart(t), NEW us, Proper(t, us), NEW k \in 1 .. Len(us),
           NEW after, IsSeq(after),
           k < Len(us) => /\ us[k + 1].row \in DOMAIN t
                          /\ \E last : Stands(t[us[k + 1].row], us[k + 1], after, last)
    PROVE  /\ Stands(t[us[k].row], us[k], Before(t, us[k], after), after)
           /\ IsSeq(Before(t, us[k], after))
  <1>1. PICK u, row : u = us[k] /\ row = t[u.row]
    OBVIOUS
  <1>2. u.row \in DOMAIN t /\ (PlainUse(row, u) \/ OptionUse(row, u))
    BY <1>1, UseShape
  <1>3. IsSeq(row.long)
    <2>1. row \in ToSet(t)
      BY <1>1, <1>2 DEF ToSet
    <2> QED
      BY <2>1, Zenon DEF IsTable
  <1>4. CASE PlainUse(row, u)
    <2>1. PICK v : /\ Fits(row, v) /\ u.values = <<v>>
                   /\ Before(t, u, after) = <<v>> \o after
      BY <1>1, <1>4, PlainBegins
    <2>2. PICK all : all = Before(t, u, after)
      OBVIOUS
    <2>3. all = <<v>> \o after
      BY <2>1, <2>2
    <2>4. PlainStands(row, u, all, after)
      BY <1>4, <2>1, <2>3, Zenon DEF PlainStands
    <2>5. IsSeq(all)
      BY <2>3, FirstAndRest
    <2> QED
      BY <1>1, <2>2, <2>4, <2>5 DEF Stands
  <1>5. CASE OptionUse(row, u)
    <2>1. ASSUME u.joined
          PROVE  \E c, s : /\ c # "=" /\ IsSeq(s) /\ after # <<>>
                           /\ Head(after) = Element(1, <<c>> \o s)
      <3>1. k < Len(us) /\ us[k + 1].form = "short"
        BY <1>1, <2>1, SensibleAt, Zenon
      <3>2. PICK next : next = us[k + 1]
        OBVIOUS
      <3>3. PICK last : Stands(t[next.row], next, after, last)
        BY <3>1, <3>2
      <3>4. next.form = "short" /\ next.row \in DOMAIN t
        BY <3>1, <3>2
      <3>5. PICK s : /\ IsSeq(s) /\ after # <<>>
                     /\ Head(after) = Element(1, <<t[next.row].short>> \o s)
        BY <3>3, <3>4, ShortStands
      <3>6. t[next.row].short # "="
        BY <3>4 DEF Apart
      <3> QED
        BY <3>5, <3>6
    <2>2. u.way = "rest" => u.values[1].syms # <<>> /\ Head(u.values[1].syms) # "="
      BY <1>1, SensibleAt
    <2>3. OptionStands(row, u, Before(t, u, after), after)
      BY <1>1, <1>3, <1>5, <2>1, <2>2, OptionBegins
    <2>4. PICK all : all = Before(t, u, after)
      OBVIOUS
    <2>5. PICK behind, w : /\ IsSeq(w)
                           /\ all = <<Element(DashesOf(u), NameOf(row, u) \o behind)>> \o w
      BY <2>3, <2>4, Zenon DEF OptionStands
    <2>6. IsSeq(all)
      BY <2>5, FirstAndRest
    <2> QED
      BY <1>1, <1>5, <2>3, <2>4, <2>6 DEF Stands
  <1> QED
    BY <1>2, <1>4, <1>5

LEMMA UsesStand ==
    ASSUME NEW t, IsTable(t), Apart(t), NEW us, Proper(t, us)
    PROVE  \E from : Standing(t, us, from)
  <1> DEFINE n == Len(us)
  <1>1. IsSeq(us)
    BY DEF Proper, IsSeq
  <1>2. n \in Nat
    BY <1>1, SeqParts
  <1>3. PICK from : /\ Written(t, us) = from[1] /\ from[n + 1] = <<>>
                    /\ \A k \in 1 .. n : from[k] = Before(t, us[k], from[k + 1])
    BY <1>1, WrittenIs
  <1> DEFINE Ok(k) == /\ IsSeq(from[k])
                      /\ k <= n => Stands(t[us[k].row], us[k], from[k], from[k + 1])
             T == {m \in Nat : m <= n => Ok((n + 1) - m)}
  <1>4. 0 \in T
    <2>1. (n + 1) - 0 = n + 1 /\ ~(n + 1 <= n)
      BY <1>2
    <2>2. IsSeq(from[n + 1])
      BY <1>3, Tuples
    <2> QED
      BY <2>1, <2>2
  <1>5. ASSUME NEW m \in Nat, m \in T
        PROVE  m + 1 \in T
    <2>1. ASSUME m + 1 <= n
          PROVE  Ok((n + 1) - (m + 1))
      <3>1. PICK k : k = n - m
        OBVIOUS
      <3>2. k \in 1 .. n /\ (n + 1) - (m + 1) = k /\ (n + 1) - m = k + 1
        BY <1>2, <2>1, <3>1
      <3>3. Ok(k + 1)
        <4>1. m <= n
          BY <1>2, <2>1
        <4> HIDE DEF Ok
        <4> QED
          BY <1>5, <3>2, <4>1
      <3>4. PICK after : after = from[k + 1]
        OBVIOUS
      <3>5. IsSeq(after)
        BY <3>3, <3>4
      <3>6. ASSUME k < n
            PROVE  /\ us[k + 1].row \in DOMAIN t
                   /\ \E last : Stands(t[us[k + 1].row], us[k + 1], after, last)
        <4>1. k + 1 <= n /\ k + 1 \in 1 .. n
          BY <1>2, <3>2, <3>6
        <4>2. us[k + 1].row \in DOMAIN t
          BY <4>1, UseShape
        <4> QED
          BY <3>3, <3>4, <4>1, <4>2
      <3>7. from[k] = Before(t, us[k], after)
        BY <1>3, <3>2, <3>4
      <3> HIDE DEF n
      <3>8. /\ Stands(t[us[k].row], us[k], Before(t, us[k], after), after)
            /\ IsSeq(Before(t, us[k], after))
        BY <3>2, <3>5, <3>6, StandsBefore DEF n
      <3>9. Ok(k)
        BY <3>4, <3>7, <3>8
      <3> HIDE DEF Ok
      <3> QED
        BY <3>2, <3>9
    <2> HIDE DEF Ok
    <2> QED
      BY <2>1
  <1>6. \A m \in Nat : m <= n => Ok((n + 1) - m)
    <2> HIDE DEF T
    <2>1. Nat \subseteq T
      BY <1>4, <1>5, AllNat
    <2> HIDE DEF Ok
    <2> QED
      BY <2>1 DEF T
  <1>7. ASSUME NEW k \in 1 .. n + 1
        PROVE  Ok(k)
    <2>1. PICK m : m = (n + 1) - k
      OBVIOUS
    <2>2. m \in Nat /\ m <= n /\ (n + 1) - m = k
      BY <1>2, <2>1
    <2> HIDE DEF Ok
    <2> QED
      BY <1>6, <2>2
  <1>8. ASSUME NEW k \in 1 .. n
        PROVE  us[k].row \in DOMAIN t /\ Stands(t[us[k].row], us[k], from[k], from[k + 1])
    <2>1. k \in 1 .. n + 1 /\ k <= n
      BY <1>2
    <2> QED
      BY <1>7, <2>1, UseShape
  <1>9. Standing(t, us, from)
    BY <1>3, <1>7, <1>8 DEF Standing
  <1> QED
    BY <1>9

-----------------------------------------------------------------------------
(* The row that is found is the one that was meant. *)

\* A letter, a name and a positional each find their own row in a table whose
\* rows are apart.
LEMMA OnlyRow ==
    ASSUME NEW rows, NEW r \in Nat \ {0}, rows = {r}
    PROVE  FirstRow(rows) = r /\ r # NoRow
  <1>1. \E x \in rows : \A y \in rows : x <= y
    OBVIOUS
  <1>2. Min(rows) \in rows
    BY <1>1, Zenon DEF Min
  <1>3. rows # {}
    OBVIOUS
  <1> QED
    BY <1>2, <1>3 DEF FirstRow, NoRow

LEMMA ShortFound ==
    ASSUME IsTable(table), Apart(table), NEW r \in Options, table[r].short # NoLetter
    PROVE  ShortRow(table[r].short) = r /\ r # NoRow
  <1> DEFINE rows == {q \in Options : table[q].short = table[r].short}
  <1>1. Options \subseteq DOMAIN table /\ DOMAIN table = 1 .. Len(table) /\ Len(table) \in Nat
    BY TableRows, RowsFound
  <1>2. \A q \in DOMAIN table : q # r => (table[q].short = table[r].short => table[q].short = NoLetter)
    BY <1>1, Zenon DEF Apart
  <1>3. rows = {r}
    BY <1>1, <1>2
  <1>4. r \in Nat \ {0}
    BY <1>1
  <1>5. FirstRow(rows) = r /\ r # NoRow
    <2> HIDE DEF rows
    <2> QED
      BY <1>3, <1>4, OnlyRow
  <1> QED
    BY <1>5 DEF ShortRow

LEMMA PositionalFound ==
    ASSUME IsTable(table), Apart(table), NEW r \in DOMAIN table, table[r].type = "POSITIONAL"
    PROVE  PositionalRow = r /\ r # NoRow
  <1> DEFINE rows == DOMAIN table \ Options
  <1>1. DOMAIN table = 1 .. Len(table) /\ Len(table) \in Nat
    BY TableRows
  <1>2. \A q \in DOMAIN table : q # r => table[q].type = "OPTIONAL" \/ table[r].type = "OPTIONAL"
    BY Zenon DEF Apart
  <1>3. table[r].type # "OPTIONAL"
    OBVIOUS
  <1>4. rows = {r}
    BY <1>2, <1>3 DEF Options
  <1>5. r \in Nat \ {0}
    BY <1>1
  <1>6. FirstRow(rows) = r /\ r # NoRow
    <2> HIDE DEF rows
    <2> QED
      BY <1>4, <1>5, OnlyRow
  <1> QED
    BY <1>6 DEF PositionalRow

\* Behind a name nothing follows, or "=".
NameEnds(behind) == IsSeq(behind) /\ (behind # <<>> => Head(behind) = "=")
\* The test of LongRow.
NameMatches(name, syms) ==
    /\ name # NoName /\ IsPrefix(name, syms)
    /\ Len(syms) > Len(name) => syms[Len(name) + 1] = "="

LEMMA NameFits ==
    ASSUME NEW name, IsSeq(name), name # NoName, NEW behind, NameEnds(behind)
    PROVE  NameMatches(name, name \o behind)
  <1> DEFINE syms == name \o behind
  <1>1. IsPrefix(name, syms) /\ IsSeq(behind)
    BY PrefixOfJoin DEF NameEnds
  <1>2. /\ Len(syms) = Len(name) + Len(behind) /\ Len(name) \in Nat /\ Len(behind) \in Nat
        /\ \A i \in 1 .. Len(behind) : syms[Len(name) + i] = behind[i]
    BY <1>1, JoinedAt
  <1> HIDE DEF syms
  <1>3. ASSUME Len(syms) > Len(name)
        PROVE  syms[Len(name) + 1] = "="
    <2>1. 1 \in 1 .. Len(behind) /\ Len(behind) # 0
      BY <1>2, <1>3
    <2>2. behind # <<>>
      BY <2>1
    <2>3. Head(behind) = behind[1]
      <3> DEFINE S == ToSet(behind)
      <3>1. behind \in Seq(S)
        BY <1>1, SeqParts
      <3> HIDE DEF S
      <3> QED
        BY <2>2, <3>1
    <2> QED
      BY <1>2, <2>1, <2>2, <2>3 DEF NameEnds
  <1> QED
    BY <1>1, <1>3 DEF NameMatches, syms

LEMMA NameOnly ==
    ASSUME NEW name, IsSeq(name), "=" \notin ToSet(name), NEW behind, NameEnds(behind),
           NEW other, IsSeq(other), "=" \notin ToSet(other),
           NameMatches(other, name \o behind)
    PROVE  other = name
  <1> DEFINE syms == name \o behind
  <1>1. /\ Len(syms) = Len(name) + Len(behind) /\ Len(name) \in Nat /\ Len(behind) \in Nat
        /\ \A i \in 1 .. Len(name) : syms[i] = name[i]
        /\ \A i \in 1 .. Len(behind) : syms[Len(name) + i] = behind[i]
        /\ IsSeq(syms)
    BY JoinedAt DEF NameEnds
  <1> HIDE DEF syms
  <1>2. /\ IsPrefix(other, syms)
        /\ Len(syms) > Len(other) => syms[Len(other) + 1] = "="
    BY DEF NameMatches, syms
  <1>3. /\ Len(other) <= Len(syms) /\ Len(other) \in Nat
        /\ \A i \in 1 .. Len(other) : other[i] = syms[i]
    BY <1>1, <1>2, PrefixIs, SeqParts
  <1>4. \A i \in 1 .. Len(name) : name[i] \in ToSet(name)
    BY SeqParts
  <1>5. \A i \in 1 .. Len(other) : other[i] \in ToSet(other)
    BY SeqParts
  <1>6. CASE Len(other) < Len(name)
    <2>1. Len(other) + 1 \in 1 .. Len(name) /\ Len(syms) > Len(other)
      BY <1>1, <1>3, <1>6
    <2>2. name[Len(other) + 1] = "="
      BY <1>1, <1>2, <2>1
    <2> QED
      BY <1>4, <2>1, <2>2
  <1>7. CASE Len(other) > Len(name)
    <2>1. /\ Len(name) + 1 \in 1 .. Len(other) /\ 1 \in 1 .. Len(behind)
          /\ Len(behind) # 0
      BY <1>1, <1>3, <1>7
    <2>2. behind # <<>>
      BY <2>1
    <2>3. Head(behind) = behind[1]
      <3> DEFINE S == ToSet(behind)
      <3>1. behind \in Seq(S)
        BY SeqParts DEF NameEnds
      <3> HIDE DEF S
      <3> QED
        BY <2>2, <3>1
    <2>4. behind[1] = "="
      BY <2>2, <2>3 DEF NameEnds
    <2>5. other[Len(name) + 1] = "="
      BY <1>1, <1>3, <2>1, <2>4
    <2> QED
      BY <1>5, <2>1, <2>5
  <1>8. CASE Len(other) = Len(name)
    <2>1. \A i \in 1 .. Len(other) : other[i] = name[i]
      BY <1>1, <1>3, <1>8
    <2> QED
      BY <1>8, <2>1, SameSeq
  <1> QED
    BY <1>1, <1>3, <1>6, <1>7, <1>8

LEMMA SecondPart ==
    ASSUME NEW s, IsSeq(s), NEW t, IsSeq(t)
    PROVE  SubSeq(s \o t, Len(s) + 1, Len(s \o t)) = t
  <1> DEFINE S == ToSet(s) \cup ToSet(t)
  <1>1. s \in Seq(S) /\ t \in Seq(S)
    BY SeqParts
  <1> HIDE DEF S
  <1>2. Len(s \o t) = Len(s) + Len(t) /\ Len(s) \in Nat /\ Len(t) \in Nat
    BY JoinedAt
  <1>3. CASE t = <<>>
    <2>1. Len(s) + 1 \in Int /\ Len(s \o t) \in Int /\ Len(s \o t) < Len(s) + 1
      BY <1>2, <1>3
    <2> QED
      BY <1>3, <2>1, SubSeqEmpty
  <1>4. CASE t # <<>>
    <2>1. Len(t) \in Nat \ {0}
      BY <1>1, <1>4, EmptySeq
    <2>2. PICK m, n : m = Len(s) + 1 /\ n = Len(s) + Len(t)
      OBVIOUS
    <2>3. /\ m \in Len(s) + 1 .. Len(s) + Len(t) /\ n \in Len(s) + 1 .. Len(s) + Len(t)
          /\ m - Len(s) = 1 /\ n - Len(s) = Len(t)
      BY <1>2, <2>1, <2>2
    <2>4. SubSeq(s \o t, m, n) = SubSeq(t, m - Len(s), n - Len(s))
      BY <1>1, <2>3, SubSeqOfConcat2
    <2>5. SubSeq(t, 1, Len(t)) = t
      BY <1>1, SubSeqFull
    <2> QED
      BY <1>2, <2>2, <2>3, <2>4, <2>5
  <1> QED
    BY <1>3, <1>4

LEMMA LongFound ==
    ASSUME IsTable(table), Apart(table), NEW r \in Options, table[r].long # NoName,
           NEW behind, NameEnds(behind), NEW syms, syms = table[r].long \o behind
    PROVE  /\ LongRow(syms) = r /\ r # NoRow
           /\ SubSeq(syms, Len(table[r].long) + 1, Len(syms)) = behind
  <1> DEFINE name == table[r].long
  <1>1. Options \subseteq DOMAIN table /\ DOMAIN table = 1 .. Len(table) /\ Len(table) \in Nat
    BY TableRows, RowsFound
  <1>2. \A q \in DOMAIN table : IsSeq(table[q].long) /\ "=" \notin ToSet(table[q].long)
    <2>1. \A q \in DOMAIN table : IsRow(table[q])
      BY TableRows
    <2>2. \A q \in DOMAIN table : "=" \notin ToSet(table[q].long)
      BY Zenon DEF Apart
    <2> QED
      BY <2>1, <2>2 DEF IsRow
  <1>3. IsSeq(name) /\ name # NoName /\ "=" \notin ToSet(name) /\ r \in Nat \ {0}
    BY <1>1, <1>2
  <1>4. \A q \in DOMAIN table : q # r => (table[q].long = name => table[q].long = NoName)
    BY <1>1, Zenon DEF Apart
  <1> HIDE DEF name
  <1>5. ASSUME NEW q \in Options, NameMatches(table[q].long, syms)
        PROVE  q = r
    <2>1. table[q].long = name
      BY <1>1, <1>2, <1>3, <1>5, NameOnly DEF name
    <2> QED
      BY <1>1, <1>3, <1>4, <2>1
  <1>6. NameMatches(table[r].long, syms)
    BY <1>3, NameFits DEF name
  <1> DEFINE rows == {q \in Options : NameMatches(table[q].long, syms)}
  <1>7. rows = {r}
    BY <1>5, <1>6
  <1>8. LongRow(syms) = FirstRow(rows)
    BY DEF LongRow, NameMatches
  <1>9. FirstRow(rows) = r /\ r # NoRow
    <2> HIDE DEF rows
    <2> QED
      BY <1>3, <1>7, OnlyRow
  <1>10. SubSeq(syms, Len(name) + 1, Len(syms)) = behind
    <2>1. IsSeq(behind)
      BY DEF NameEnds
    <2>2. syms = name \o behind
      BY DEF name
    <2> QED
      BY <1>3, <2>1, <2>2, SecondPart
  <1> QED
    BY <1>8, <1>9, <1>10 DEF name

-----------------------------------------------------------------------------
(* What is left of argv. *)

\* The elements of a that are left when j are taken.
Left(a, j) == SubSeq(a, j + 1, Len(a))

LEMMA LeftIs ==
    ASSUME NEW a, IsSeq(a), NEW j \in 0 .. Len(a)
    PROVE  /\ IsSeq(Left(a, j)) /\ Len(Left(a, j)) = Len(a) - j
           /\ \A i \in 1 .. Len(a) - j : Left(a, j)[i] = a[j + i]
  <1> DEFINE S == ToSet(a)
  <1>1. a \in Seq(S) /\ Len(a) \in Nat
    BY SeqParts
  <1> HIDE DEF S
  <1>2. PICK m, n : m = j + 1 /\ n = Len(a)
    OBVIOUS
  <1>3. m \in 1 .. n + 1 /\ n \in 0 .. Len(a) /\ n \in Int /\ m \in Int
    BY <1>1, <1>2
  <1>4. CASE m > n
    <2>1. SubSeq(a, m, n) = <<>>
      BY <1>3, <1>4, SubSeqEmpty
    <2>2. Len(a) - j = 0 /\ Len(<<>>) = 0 /\ 1 .. 0 = {}
      BY <1>1, <1>2, <1>3, <1>4
    <2>3. IsSeq(<<>>)
      BY Tuples
    <2>4. Left(a, j) = <<>>
      BY <1>2, <2>1 DEF Left
    <2>5. \A i \in 1 .. Len(a) - j : Left(a, j)[i] = a[j + i]
      BY <2>2
    <2> QED
      BY <2>2, <2>3, <2>4, <2>5
  <1>5. CASE m <= n
    <2>1. \A i \in m .. n : i \in 1 .. Len(a)
      BY <1>1, <1>2, <1>3
    <2>2. \A i \in m .. n : a[i] \in S
      BY <1>1, <2>1, ElementOfSeq
    <2>3. m \in Int /\ n \in Int
      BY <1>3
    <2>4. /\ SubSeq(a, m, n) \in Seq(S)
          /\ Len(SubSeq(a, m, n)) = IF m <= n THEN n - m + 1 ELSE 0
          /\ \A i \in 1 .. n - m + 1 : SubSeq(a, m, n)[i] = a[m + i - 1]
      BY <2>3, <2>2, SubSeqProperties
    <2>5. n - m + 1 = Len(a) - j /\ \A i \in 1 .. Len(a) - j : m + i - 1 = j + i
      BY <1>1, <1>2
    <2>6. IsSeq(SubSeq(a, m, n))
      BY <2>4, SeqIs
    <2>7. Len(SubSeq(a, m, n)) = Len(a) - j
      BY <1>5, <2>4, <2>5
    <2>8. \A i \in 1 .. Len(a) - j : SubSeq(a, m, n)[i] = a[j + i]
      BY <2>4, <2>5
    <2> QED
      BY <1>2, <2>6, <2>7, <2>8 DEF Left
  <1> QED
    BY <1>3, <1>4, <1>5

LEMMA AllLeft ==
    ASSUME NEW a, IsSeq(a)
    PROVE  Left(a, 0) = a /\ 0 \in 0 .. Len(a)
  <1>1. Len(a) \in Nat
    BY SeqParts
  <1>2. 0 \in 0 .. Len(a)
    BY <1>1
  <1>3. /\ IsSeq(Left(a, 0)) /\ Len(Left(a, 0)) = Len(a)
        /\ \A i \in 1 .. Len(a) : Left(a, 0)[i] = a[i]
    BY <1>1, <1>2, LeftIs
  <1> QED
    BY <1>2, <1>3, SameSeq

LEMMA NoneLeft ==
    ASSUME NEW a, IsSeq(a), NEW j \in 0 .. Len(a)
    PROVE  Left(a, j) = <<>> <=> j = Len(a)
  <1>1. Len(a) \in Nat
    BY SeqParts
  <1>2. IsSeq(Left(a, j)) /\ Len(Left(a, j)) = Len(a) - j
    BY LeftIs
  <1>3. Left(a, j) = <<>> <=> Len(Left(a, j)) = 0
    BY <1>2, EmptySeq, SeqParts
  <1> QED
    BY <1>1, <1>2, <1>3

LEMMA LeftStep ==
    ASSUME NEW a, IsSeq(a), NEW j \in 0 .. Len(a), NEW x, NEW y, IsSeq(y),
           Left(a, j) = <<x>> \o y
    PROVE  /\ j < Len(a) /\ j + 1 \in 0 .. Len(a)
           /\ a[j + 1] = x /\ Left(a, j + 1) = y
  <1>1. Len(a) \in Nat
    BY SeqParts
  <1>2. /\ Left(a, j) # <<>> /\ Len(Left(a, j)) = Len(y) + 1 /\ Len(y) \in Nat
        /\ Left(a, j)[1] = x
        /\ \A i \in 1 .. Len(y) : Left(a, j)[i + 1] = y[i]
    BY FirstAndRest
  <1>3. Len(Left(a, j)) = Len(a) - j /\ \A i \in 1 .. Len(a) - j : Left(a, j)[i] = a[j + i]
    BY LeftIs
  <1>4. j < Len(a) /\ j + 1 \in 0 .. Len(a) /\ Len(y) = Len(a) - (j + 1)
    BY <1>1, <1>2, <1>3
  <1>5. a[j + 1] = x
    BY <1>1, <1>2, <1>3, <1>4
  <1>6. /\ IsSeq(Left(a, j + 1)) /\ Len(Left(a, j + 1)) = Len(a) - (j + 1)
        /\ \A i \in 1 .. Len(a) - (j + 1) : Left(a, j + 1)[i] = a[(j + 1) + i]
    BY <1>4, LeftIs
  <1>7. ASSUME NEW i \in 1 .. Len(y)
        PROVE  Left(a, j + 1)[i] = y[i]
    <2>1. i + 1 \in 1 .. Len(a) - j /\ (j + 1) + i = j + (i + 1)
      BY <1>1, <1>4
    <2> QED
      BY <1>2, <1>3, <1>4, <1>6, <2>1
  <1> QED
    BY <1>4, <1>5, <1>6, <1>7, SameSeq

-----------------------------------------------------------------------------
(* The calls. *)

LEMMA JoinOne ==
    ASSUME NEW s, IsSeq(s), NEW c
    PROVE  /\ IsSeq(s \o <<c>>) /\ Len(s \o <<c>>) = Len(s) + 1 /\ Len(s) \in Nat
           /\ \A i \in 1 .. Len(s) : (s \o <<c>>)[i] = s[i]
           /\ (s \o <<c>>)[Len(s) + 1] = c
  <1>1. PICK one : one = <<c>>
    OBVIOUS
  <1>2. IsSeq(one)
    BY <1>1, Tuples
  <1>3. Len(one) = 1 /\ one[1] = c
    BY <1>1
  <1>4. /\ Len(s \o one) = Len(s) + Len(one) /\ Len(s) \in Nat
        /\ \A i \in 1 .. Len(s) : (s \o one)[i] = s[i]
        /\ \A i \in 1 .. Len(one) : (s \o one)[Len(s) + i] = one[i]
    BY <1>2, JoinedAt
  <1>5. IsSeq(s \o one)
    BY <1>2, Joined
  <1> QED
    BY <1>1, <1>3, <1>4, <1>5

\* The calls for the values vals of row r.
CallsFor(r, vals) ==
    [v \in DOMAIN vals |-> [row |-> r, sub |-> v - 1, text |-> vals[v]]]

LEMMA OneCall ==
    ASSUME NEW u
    PROVE  /\ u.values = <<>> =>
                CallsOf(u) = <<[row |-> u.row, sub |-> 0, text |-> NoText]>>
           /\ \A v : u.values = <<v>> =>
                CallsOf(u) = <<[row |-> u.row, sub |-> 0, text |-> v]>>
  <1>1. ASSUME u.values = <<>>
        PROVE  CallsOf(u) = <<[row |-> u.row, sub |-> 0, text |-> NoText]>>
    BY <1>1 DEF CallsOf
  <1>2. ASSUME NEW v, u.values = <<v>>
        PROVE  CallsOf(u) = <<[row |-> u.row, sub |-> 0, text |-> v]>>
    <2>1. IsSeq(<<v>>) /\ u.values # <<>> /\ Len(u.values) = 1 /\ u.values[1] = v
      BY <1>2, Tuples
    <2>2. DOMAIN u.values = 1 .. 1
      BY <1>2
    <2>3. CallsOf(u) = [i \in 1 .. 1 |-> [row |-> u.row, sub |-> i - 1, text |-> u.values[i]]]
      BY <2>1, <2>2, Zenon DEF CallsOf
    <2>4. PICK c : c = [row |-> u.row, sub |-> 0, text |-> v]
      OBVIOUS
    <2>5. CallsOf(u) = [i \in 1 .. 1 |-> c]
      BY <2>1, <2>3, <2>4
    <2>6. [i \in 1 .. 1 |-> c] = <<c>>
      OBVIOUS
    <2> QED
      BY <2>4, <2>5, <2>6
  <1> QED
    BY <1>1, <1>2

LEMMA OneMoreCall ==
    ASSUME NEW r, NEW done, IsSeq(done), NEW v
    PROVE  /\ IsSeq(CallsFor(r, done)) /\ Len(CallsFor(r, done)) = Len(done)
           /\ CallsFor(r, done \o <<v>>) =
                CallsFor(r, done) \o <<[row |-> r, sub |-> Len(done), text |-> v]>>
  <1> DEFINE c == [row |-> r, sub |-> Len(done), text |-> v]
             more == done \o <<v>>
             f == CallsFor(r, done)
             g == CallsFor(r, more)
             Call(i, x) == [row |-> r, sub |-> i - 1, text |-> x]
  <1>1. IsSeq(<<v>>) /\ IsSeq(<<c>>) /\ Len(<<v>>) = 1 /\ Len(<<c>>) = 1 /\ <<v>>[1] = v /\ <<c>>[1] = c
    BY Tuples
  <1>2. /\ IsSeq(more) /\ Len(more) = Len(done) + 1 /\ Len(done) \in Nat
        /\ \A i \in 1 .. Len(done) : more[i] = done[i]
        /\ more[Len(done) + 1] = v
    <2>1. IsSeq(more)
      BY <1>1, Joined
    <2> QED
      BY <1>1, <2>1, JoinedAt
  <1>3. DOMAIN done = 1 .. Len(done) /\ DOMAIN more = 1 .. Len(done) + 1
    BY <1>2, SeqParts
  <1>4. f = [i \in 1 .. Len(done) |-> Call(i, done[i])]
    BY <1>3 DEF CallsFor
  <1>5. g = [i \in 1 .. Len(done) + 1 |-> Call(i, more[i])]
    BY <1>3 DEF CallsFor
  <1>6. IsSeq(f) /\ Len(f) = Len(done)
    <2> DEFINE S == {Call(i, done[i]) : i \in 1 .. Len(done)}
    <2>1. f \in [1 .. Len(done) -> S]
      BY <1>4
    <2>2. f \in Seq(S) /\ Len(f) = Len(done)
      BY <1>2, <2>1
    <2> QED
      BY <2>2, SeqIs
  <1>7. IsSeq(g) /\ Len(g) = Len(done) + 1
    <2> DEFINE S == {Call(i, more[i]) : i \in 1 .. Len(done) + 1}
    <2>1. g \in [1 .. Len(done) + 1 -> S]
      BY <1>5
    <2>2. g \in Seq(S) /\ Len(g) = Len(done) + 1
      <3> HIDE DEF g, S
      <3>1. Len(done) + 1 \in Nat
        BY <1>2
      <3> QED
        BY <2>1, <3>1
    <2> QED
      BY <2>2, SeqIs
  <1>8. /\ IsSeq(f \o <<c>>) /\ Len(f \o <<c>>) = Len(done) + 1
        /\ \A i \in 1 .. Len(done) : (f \o <<c>>)[i] = f[i]
        /\ (f \o <<c>>)[Len(done) + 1] = c
    <2> HIDE DEF c, f
    <2>1. PICK h, d : h = f /\ d = c
      OBVIOUS
    <2>2. IsSeq(h)
      BY <1>6, <2>1
    <2>3. /\ IsSeq(h \o <<d>>) /\ Len(h \o <<d>>) = Len(h) + 1
          /\ \A i \in 1 .. Len(h) : (h \o <<d>>)[i] = h[i]
          /\ (h \o <<d>>)[Len(h) + 1] = d
      BY <2>2, JoinOne
    <2> QED
      BY <1>6, <2>1, <2>3
  <1>9. \A i \in 1 .. Len(done) : g[i] = f[i]
    BY <1>2, <1>4, <1>5
  <1>10. g[Len(done) + 1] = c
    <2>1. Len(done) + 1 \in 1 .. Len(done) + 1 /\ (Len(done) + 1) - 1 = Len(done)
      BY <1>2
    <2> QED
      BY <1>2, <1>5, <2>1
  <1> HIDE DEF f, g, c, more
  <1>11. \A i \in 1 .. Len(g) : g[i] = (f \o <<c>>)[i]
    BY <1>2, <1>7, <1>8, <1>9, <1>10
  <1>12. g = f \o <<c>>
    BY <1>7, <1>8, <1>11, SameSeq
  <1> QED
    BY <1>6, <1>12 DEF f, g, c, more

-----------------------------------------------------------------------------
(* Where the parser is in what the user means. *)

\* Between two uses, inside a cluster of letters, or among the values of an
\* option that takes several: left is what is left of argv, and c the calls so
\* far.
AtArgs(us, from, upto, left, c) ==
    \E k \in 1 .. Len(us) + 1 : left = from[k] /\ c = upto[k - 1]
AtLetters(us, from, upto, rest, left, c) ==
    \E k \in 1 .. Len(us) : <<Element(1, rest)>> \o left = from[k] /\ c = upto[k - 1]
AtValues(t, us, from, upto, r, s, left, c) ==
    \E k \in 1 .. Len(us) : \E done, todo :
       /\ ManyUse(t[r], us[k]) /\ us[k].row = r
       /\ IsSeq(done) /\ IsSeq(todo) /\ us[k].values = done \o todo
       /\ Len(done) = s /\ todo # <<>>
       /\ left = todo \o from[k + 1] /\ c = upto[k - 1] \o CallsFor(r, done)

\* At the end, and while a message is printed.
Ended(us, upto, c, s) ==
    /\ IsPrefix(c, upto[Len(us)]) /\ s # "PARSE"
    /\ s = "NONE" => c = upto[Len(us)]

\* The invariant, for every mode of the parser.
Where(us, from, upto) ==
    /\ mode = "args" => AtArgs(us, from, upto, Left(argv, idx), calls)
    /\ mode = "letters" => AtLetters(us, from, upto, letters, Left(argv, idx), calls)
    /\ mode = "values" => AtValues(table, us, from, upto, opt, sub, Left(argv, idx), calls)
    /\ mode \in {"print", "over"} => Ended(us, upto, calls, status)

\* A handler that is called with what was meant either lets the parser go on, or
\* ends the parse: for want of memory, or because it is --help or --version.
Stops == mode' \in {"print", "over"} /\ status' \in {"NOMEM", "SHOULD_EXIT"}

LEMMA InvokeMeant ==
    ASSUME NEW r, NEW k, NEW text, NEW m, Invoke(r, k, text, m),
           table[r].handler = "bool" => text \in Bools
    PROVE  /\ calls' = Append(calls, [row |-> r, sub |-> k, text |-> text])
           /\ mode' = m \/ Stops
  <1>1. calls' = Append(calls, [row |-> r, sub |-> k, text |-> text])
    BY DEF Invoke
  <1>2. \/ mode' = m
        \/ Custom(table[r].handler, m)
        \/ Say(Help, "SHOULD_EXIT")
        \/ Say(Version, "SHOULD_EXIT")
    BY Zenon DEF Invoke
  <1>3. Custom(table[r].handler, m) => mode' = m \/ Stops
    BY Zenon DEF Custom, Stops
  <1>4. \A msg : Say(msg, "SHOULD_EXIT") => Stops
    BY Zenon DEF Say, Stops
  <1> QED
    BY <1>1, <1>2, <1>3, <1>4

-----------------------------------------------------------------------------
(* The calls so far are the beginning of those that are meant. *)

LEMMA LastOne ==
    ASSUME NEW s, IsSeq(s), NEW c
    PROVE  Append(s, c) = s \o <<c>>
  <1> DEFINE S == ToSet(s) \cup {c}
  <1>1. s \in Seq(S) /\ c \in S
    BY SeqParts
  <1> HIDE DEF S
  <1> QED
    BY <1>1, AppendIsConcat

\* The calls of the first uses begin those of all.
LEMMA CallsPrefix ==
    ASSUME NEW us, IsSeq(us), NEW upto, Calls(us, upto),
           \A k \in 1 .. Len(us) : IsSeq(CallsOf(us[k])),
           NEW j \in 0 .. Len(us)
    PROVE  IsPrefix(upto[j], upto[Len(us)])
  <1> DEFINE n == Len(us)
             T == {m \in Nat : m <= n => IsPrefix(upto[n - m], upto[n])}
  <1>1. n \in Nat
    BY SeqParts
  <1>2. \A k \in 0 .. n : IsSeq(upto[k])
    BY DEF Calls
  <1>3. \A k \in 1 .. n : upto[k] = upto[k - 1] \o CallsOf(us[k])
    BY DEF Calls
  <1>4. \A k \in 1 .. n : IsSeq(CallsOf(us[k]))
    OBVIOUS
  <1> HIDE DEF n
  <1>5. 0 \in T
    <2>1. n \in 0 .. n /\ n - 0 = n
      BY <1>1
    <2>2. IsPrefix(upto[n], upto[n])
      <3>1. IsSeq(upto[n]) /\ IsSeq(<<>>)
        BY <1>2, <2>1, Tuples
      <3>2. IsPrefix(upto[n], upto[n] \o <<>>) /\ upto[n] \o <<>> = upto[n]
        BY <3>1, PrefixOfJoin, JoinedAt
      <3> QED
        BY <3>2
    <2> QED
      BY <2>1, <2>2
  <1>6. ASSUME NEW m \in Nat, m \in T
        PROVE  m + 1 \in T
    <2> SUFFICES ASSUME m + 1 <= n
                 PROVE  IsPrefix(upto[n - (m + 1)], upto[n])
      BY <1>6
    <2>1. PICK k : k = n - m
      OBVIOUS
    <2>2. k \in 1 .. n /\ k - 1 = n - (m + 1) /\ k - 1 \in 0 .. n /\ k \in 0 .. n /\ n \in 0 .. n
      BY <1>1, <2>1
    <2>3. IsPrefix(upto[k], upto[n])
      BY <1>6, <1>1, <2>1
    <2>4. PICK s, t, u : s = upto[k - 1] /\ t = CallsOf(us[k]) /\ u = upto[n]
      OBVIOUS
    <2>5. IsSeq(s) /\ IsSeq(t) /\ IsSeq(u) /\ IsPrefix(s \o t, u)
      BY <1>2, <1>3, <1>4, <2>2, <2>3, <2>4
    <2>6. IsPrefix(s, u)
      BY <2>5, PrefixJoined
    <2> QED
      BY <2>2, <2>4, <2>6
  <1>7. Nat \subseteq T
    <2> HIDE DEF T
    <2> QED
      BY <1>5, <1>6, AllNat
  <1>8. n - j \in T /\ n - j <= n /\ n - (n - j) = j
    <2>1. n - j \in Nat /\ n - j <= n /\ n - (n - j) = j
      BY <1>1 DEF n
    <2> QED
      BY <1>7, <2>1
  <1> QED
    BY <1>8 DEF n

\* The only call of a use is the next one.
LEMMA OnlyCall ==
    ASSUME NEW us, IsSeq(us), NEW upto, Calls(us, upto),
           \A k \in 1 .. Len(us) : IsSeq(CallsOf(us[k])),
           NEW j \in 1 .. Len(us), NEW c, CallsOf(us[j]) = <<c>>
    PROVE  /\ Append(upto[j - 1], c) = upto[j]
           /\ IsPrefix(Append(upto[j - 1], c), upto[Len(us)])
  <1>1. Len(us) \in Nat
    BY SeqParts
  <1>2. j \in 0 .. Len(us) /\ j - 1 \in 0 .. Len(us)
    BY <1>1
  <1>3. IsSeq(upto[j - 1]) /\ upto[j] = upto[j - 1] \o <<c>>
    BY <1>2 DEF Calls
  <1>4. Append(upto[j - 1], c) = upto[j]
    BY <1>3, LastOne
  <1>5. IsPrefix(upto[j], upto[Len(us)])
    BY <1>2, CallsPrefix
  <1> QED
    BY <1>4, <1>5

-----------------------------------------------------------------------------
(* One element after the other. *)

\* The table and argv, when the user means the uses us of what can be honoured.
Honouring(us, from, upto) ==
    /\ IsTable(table) /\ Apart(table) /\ IsArgv(argv)
    /\ Proper(table, us) /\ Standing(table, us, from) /\ Calls(us, upto)
    /\ \A k \in DOMAIN us : ~Unkept(table[us[k].row].nargs, us[k])

LEMMA ValuesAreSeq ==
    ASSUME NEW row, NEW u, PlainUse(row, u) \/ OptionUse(row, u)
    PROVE  IsSeq(u.values)
  <1>1. IsSeq(<<>>) /\ \A v : IsSeq(<<v>>)
    BY Tuples
  <1>2. OneFits(row, u) => IsSeq(u.values)
    BY <1>1 DEF OneFits
  <1>3. OptionUse(row, u) => AloneUse(row, u) \/ OneFits(row, u) \/ ManyUse(row, u)
    BY Zenon DEF OptionUse, EqualsUse, RestUse, NextUse
  <1>4. AloneUse(row, u) => IsSeq(u.values)
    BY <1>1 DEF AloneUse
  <1>5. ManyUse(row, u) => IsSeq(u.values)
    BY Zenon DEF ManyUse
  <1>6. PlainUse(row, u) => OneFits(row, u)
    BY Zenon DEF PlainUse
  <1> QED
    BY <1>2, <1>3, <1>4, <1>5, <1>6, Zenon

\* What a use of the table says of the row it is of.
LEMMA UseFacts ==
    ASSUME NEW us, NEW from, NEW upto, Honouring(us, from, upto)
    PROVE  /\ IsSeq(us) /\ Len(us) \in Nat /\ DOMAIN us = 1 .. Len(us)
           /\ \A k \in 1 .. Len(us) :
                 /\ us[k].row \in DOMAIN table
                 /\ PlainUse(table[us[k].row], us[k]) \/ OptionUse(table[us[k].row], us[k])
                 /\ IsSeq(us[k].values) /\ IsSeq(CallsOf(us[k]))
  <1>1. IsTable(table) /\ Proper(table, us)
    BY DEF Honouring
  <1>2. IsSeq(us)
    BY <1>1 DEF Proper, IsSeq
  <1>3. ASSUME NEW k \in 1 .. Len(us)
        PROVE  /\ us[k].row \in DOMAIN table
               /\ PlainUse(table[us[k].row], us[k]) \/ OptionUse(table[us[k].row], us[k])
    BY <1>1, UseShape
  <1>4. ASSUME NEW k \in 1 .. Len(us)
        PROVE  IsSeq(us[k].values)
    BY <1>3, ValuesAreSeq
  <1>5. ASSUME NEW k \in 1 .. Len(us)
        PROVE  IsSeq(CallsOf(us[k]))
    BY <1>4, CallsIsSeq
  <1> QED
    BY <1>2, <1>3, <1>4, <1>5, SeqParts

\* A use with one call is over.
LEMMA Onward ==
    ASSUME NEW us, NEW from, NEW upto, Honouring(us, from, upto), NEW j \in 1 .. Len(us),
           NEW c, CallsOf(us[j]) = <<c>>, calls = upto[j - 1], calls' = Append(calls, c),
           UNCHANGED <<table, argv>>,
           \/ mode' = "args" /\ Left(argv, idx') = from[j + 1]
           \/ /\ mode' = "letters" /\ j < Len(us)
              /\ <<Element(1, letters')>> \o Left(argv, idx') = from[j + 1]
           \/ Stops
    PROVE  Where(us, from, upto)'
  <1>1. /\ IsSeq(us) /\ Len(us) \in Nat /\ Calls(us, upto)
        /\ \A k \in 1 .. Len(us) : IsSeq(CallsOf(us[k]))
    BY UseFacts DEF Honouring
  <1>2. calls' = upto[j] /\ IsPrefix(calls', upto[Len(us)])
    BY <1>1, OnlyCall
  <1>3. CASE mode' = "args" /\ Left(argv, idx') = from[j + 1]
    <2>1. j + 1 \in 1 .. Len(us) + 1 /\ (j + 1) - 1 = j
      BY <1>1
    <2>2. AtArgs(us, from, upto, Left(argv', idx'), calls')
      BY <1>2, <1>3, <2>1 DEF AtArgs
    <2> QED
      BY <1>3, <2>2 DEF Where
  <1>4. CASE /\ mode' = "letters" /\ j < Len(us)
             /\ <<Element(1, letters')>> \o Left(argv, idx') = from[j + 1]
    <2>1. j + 1 \in 1 .. Len(us) /\ (j + 1) - 1 = j
      BY <1>1, <1>4
    <2>2. AtLetters(us, from, upto, letters', Left(argv', idx'), calls')
      BY <1>2, <1>4, <2>1 DEF AtLetters
    <2> QED
      BY <1>4, <2>2 DEF Where
  <1>5. CASE Stops
    <2>1. Ended(us, upto, calls', status')
      BY <1>2, <1>5 DEF Ended, Stops
    <2> QED
      BY <1>5, <2>1 DEF Where, Stops
  <1> QED
    BY <1>3, <1>4, <1>5

\* The call of a use whose only value is v, or that has none.
LEMMA InvokeOnward ==
    ASSUME NEW us, NEW from, NEW upto, Honouring(us, from, upto), NEW j \in 1 .. Len(us),
           NEW text, CallsOf(us[j]) = <<[row |-> us[j].row, sub |-> 0, text |-> text]>>,
           table[us[j].row].handler = "bool" => text \in Bools,
           NEW m, Invoke(us[j].row, 0, text, m),
           calls = upto[j - 1], UNCHANGED <<table, argv>>,
           \/ m = "args" /\ Left(argv, idx') = from[j + 1]
           \/ /\ m = "letters" /\ j < Len(us)
              /\ <<Element(1, letters')>> \o Left(argv, idx') = from[j + 1]
    PROVE  Where(us, from, upto)'
  <1>1. PICK c : c = [row |-> us[j].row, sub |-> 0, text |-> text]
    OBVIOUS
  <1>2. calls' = Append(calls, c) /\ (mode' = m \/ Stops)
    BY <1>1, InvokeMeant
  <1>3. CallsOf(us[j]) = <<c>>
    BY <1>1
  <1> QED
    BY <1>2, <1>3, Onward

\* Behind an option that stands alone there is no value to mistake for its own.
LEMMA OptionHead ==
    ASSUME NEW row, NEW u, NEW all, NEW after, Stands(row, u, all, after), u.form # "plain",
           IsSeq(row.long)
    PROVE  \E e, w : all = <<e>> \o w /\ IsSeq(w) /\ ~IsPositional(e)
  <1>1. OptionUse(row, u) /\ OptionStands(row, u, all, after)
    BY Zenon DEF Stands, PlainStands, PlainUse
  <1>2. PICK behind, w :
           /\ IsSeq(behind) /\ IsSeq(w)
           /\ all = <<Element(DashesOf(u), NameOf(row, u) \o behind)>> \o w
    BY <1>1, Zenon DEF OptionStands
  <1>3. IsSeq(NameOf(row, u)) /\ NameOf(row, u) # <<>>
    <2>1. u.form = "short" \/ (u.form = "long" /\ row.long # NoName)
      BY <1>1, Zenon DEF OptionUse
    <2>2. IsSeq(<<row.short>>) /\ <<row.short>> # <<>>
      BY Tuples
    <2> QED
      BY <2>1, <2>2 DEF NameOf, NoName
  <1>4. PICK name : name = NameOf(row, u)
    OBVIOUS
  <1>5. name \o behind # <<>>
    BY <1>2, <1>3, <1>4, JoinedAt
  <1>6. PICK e : e = Element(DashesOf(u), name \o behind)
    OBVIOUS
  <1>7. e.dash \in {1, 2} /\ e.syms # <<>>
    BY <1>5, <1>6 DEF Element, DashesOf
  <1>8. ~IsPositional(e)
    BY <1>7 DEF IsPositional
  <1> QED
    BY <1>2, <1>4, <1>6, <1>8

LEMMA NothingFollows ==
    ASSUME NEW us, NEW from, NEW upto, Honouring(us, from, upto), NEW j \in 1 .. Len(us),
           us[j].way = "alone", table[us[j].row].nargs \in {Nargs0Or1, Nargs0OrMore},
           NEW next \in 0 .. Len(argv), Left(argv, next) = from[j + 1]
    PROVE  NoValueFollows(next)
  <1>1. IsTable(table) /\ Proper(table, us) /\ Standing(table, us, from) /\ IsSeq(argv)
    BY DEF Honouring, IsArgv
  <1>2. j = Len(us) \/ us[j + 1].form # "plain"
    BY <1>1, SensibleAt
  <1>3. Len(us) \in Nat /\ Len(argv) \in Nat
    BY <1>1, UseFacts, SeqParts
  <1>4. CASE j = Len(us)
    <2>1. Left(argv, next) = <<>>
      BY <1>1, <1>4 DEF Standing
    <2>2. next = Len(argv)
      BY <1>1, <2>1, NoneLeft
    <2> QED
      BY <1>3, <2>2 DEF NoValueFollows
  <1>5. CASE j # Len(us)
    <2>1. j + 1 \in 1 .. Len(us)
      BY <1>3, <1>5
    <2>2. PICK q : q = j + 1
      OBVIOUS
    <2>3. us[q].row \in DOMAIN table /\ Stands(table[us[q].row], us[q], from[q], from[q + 1])
      BY <1>1, <2>1, <2>2 DEF Standing
    <2>4. IsSeq(table[us[q].row].long)
      BY <1>1, <2>3, TableRows DEF IsRow
    <2>5. PICK e, w : from[q] = <<e>> \o w /\ IsSeq(w) /\ ~IsPositional(e)
      BY <1>2, <1>5, <2>2, <2>3, <2>4, OptionHead
    <2>6. argv[next + 1] = e
      BY <1>1, <2>2, <2>5, LeftStep
    <2> QED
      BY <2>5, <2>6 DEF NoValueFollows
  <1> QED
    BY <1>4, <1>5

\* The way of a use, and what is behind its name, choose what the parser does.
LEMMA AloneMet ==
    ASSUME NEW us, NEW from, NEW upto, Honouring(us, from, upto), NEW j \in 1 .. Len(us),
           calls = upto[j - 1], UNCHANGED <<table, argv>>,
           NEW next \in 0 .. Len(argv), AloneUse(table[us[j].row], us[j]),
           Left(argv, next) = from[j + 1], Met(us[j].row, <<>>, next)
    PROVE  Where(us, from, upto)'
  <1> DEFINE r == us[j].row
             n == table[r].nargs
  <1>1. /\ us[j].way = "alone" /\ us[j].values = <<>> /\ n \in MayStandAlone
        /\ n \notin TakesNone => n \in {Nargs0Or1, Nargs0OrMore}
        /\ ~MustTake(n)
    BY DEF AloneUse, MayStandAlone, TakesNone, MustTake, Nargs0Or1, Nargs0Or1Eq,
           Nargs0OrMore, Nargs1OrMore
  <1>2. n \notin TakesNone => NoValueFollows(next)
    BY <1>1, NothingFollows
  <1>3. WithoutValue(r, <<>>, next) \/ WithValue(r, <<>>, next)
    BY DEF Met, WithEquals, WithEqualsValue, WithRest
  <1>4. Invoke(r, 0, NoText, "args") /\ idx' = next
    <2>1. CASE WithoutValue(r, <<>>, next)
      BY <1>1, <2>1, Zenon DEF WithoutValue
    <2>2. CASE WithValue(r, <<>>, next)
      <3>1. n \in TakesNone
        BY <1>2, <2>2, Zenon DEF WithValue
      <3>2. n \notin TakesOne
        BY <3>1 DEF TakesOne, TakesNone, Nargs0Or1, Nargs0Or1Eq
      <3>3. n \in TakesOne \cup TakesNone
        BY <3>1
      <3> QED
        BY <2>2, <3>1, <3>2, <3>3, Zenon DEF WithValue
    <2> QED
      BY <1>3, <2>1, <2>2
  <1>5. CallsOf(us[j]) = <<[row |-> r, sub |-> 0, text |-> NoText]>>
    BY <1>1, OneCall
  <1>6. NoText \in Bools
    BY DEF Bools
  <1>7. Left(argv, idx') = from[j + 1]
    BY <1>4
  <1>8. Invoke(us[j].row, 0, NoText, "args")
    BY <1>4
  <1> QED
    BY <1>5, <1>6, <1>7, <1>8, InvokeOnward

LEMMA JoinedMet ==
    ASSUME NEW us, NEW from, NEW upto, Honouring(us, from, upto), NEW j \in 1 .. Len(us),
           calls = upto[j - 1], UNCHANGED <<table, argv>>,
           NEW next \in 0 .. Len(argv), AloneUse(table[us[j].row], us[j]), us[j].joined,
           NEW behind, behind # <<>>, Head(behind) # "=",
           <<Element(1, behind)>> \o Left(argv, next) = from[j + 1],
           Met(us[j].row, behind, next)
    PROVE  Where(us, from, upto)'
  <1> DEFINE r == us[j].row
             n == table[r].nargs
  <1>1. us[j].values = <<>>
    BY DEF AloneUse
  <1>2. n \in TakesNone
    <2>1. ~Unkept(n, us[j])
      BY UseFacts DEF Honouring
    <2>2. n \in MayStandAlone
      BY Zenon DEF AloneUse
    <2> QED
      BY <2>1, <2>2 DEF Unkept, MayStandAlone, TakesNone
  <1>3. ~(n > 1)
    BY <1>2 DEF TakesNone, Nargs0Or1Eq
  <1>4. WithRest(r, behind, next)
    BY Zenon DEF Met, WithEquals, WithEqualsValue, WithoutValue, WithValue
  <1>5. Invoke(r, 0, NoText, "letters") /\ letters' = behind /\ idx' = next
    BY <1>2, <1>3, <1>4, Zenon DEF WithRest
  <1>6. CallsOf(us[j]) = <<[row |-> r, sub |-> 0, text |-> NoText]>>
    BY <1>1, OneCall
  <1>7. NoText \in Bools
    BY DEF Bools
  <1>8. <<Element(1, letters')>> \o Left(argv, idx') = from[j + 1]
    BY <1>5
  <1>9. j < Len(us)
    <2>1. Proper(table, us)
      BY DEF Honouring
    <2> QED
      BY <2>1, SensibleAt, Zenon
  <1>10. Invoke(us[j].row, 0, NoText, "letters")
    BY <1>5
  <1> QED
    BY <1>6, <1>7, <1>8, <1>9, <1>10, InvokeOnward

\* A value that is no option is all text.
LEMMA TextIs ==
    ASSUME NEW row, NEW v, Fits(row, v), v.dash = 0
    PROVE  Text(v.syms) = v
  BY DEF Fits, Text

LEMMA FirstIs ==
    ASSUME NEW e, NEW s, IsSeq(s), NEW w, w = <<e>> \o s
    PROVE  w # <<>> /\ Head(w) = e /\ Tail(w) = s /\ Len(w) > 0
  <1>1. /\ w # <<>> /\ Len(w) = Len(s) + 1 /\ Len(s) \in Nat
        /\ Head(w) = e /\ Tail(w) = s
    BY FirstAndRest
  <1> QED
    BY <1>1

LEMMA EqualsMet ==
    ASSUME NEW us, NEW from, NEW upto, Honouring(us, from, upto), NEW j \in 1 .. Len(us),
           calls = upto[j - 1], UNCHANGED <<table, argv>>,
           NEW next \in 0 .. Len(argv), EqualsUse(table[us[j].row], us[j]),
           NEW behind, behind = <<"=">> \o us[j].values[1].syms,
           Left(argv, next) = from[j + 1], Met(us[j].row, behind, next)
    PROVE  Where(us, from, upto)'
  <1> DEFINE r == us[j].row
             n == table[r].nargs
  <1>1. us[j].way = "equals" /\ OneFits(table[r], us[j]) /\ n \in OneValue \cup {Nargs0Or1Eq}
    BY Zenon DEF EqualsUse
  <1>2. PICK v : Fits(table[r], v) /\ us[j].values = <<v>>
    BY <1>1, Zenon DEF OneFits
  <1>3. Proper(table, us)
    BY DEF Honouring
  <1>4. us[j].values[1] = v /\ v.dash = 0
    <2>1. us[j].values[1].dash = 0
      BY <1>1, <1>3, SensibleAt
    <2> QED
      BY <1>2, <2>1
  <1>5. IsSeq(v.syms) /\ Text(v.syms) = v /\ (table[r].handler = "bool" => v \in Bools)
    <2>1. Text(v.syms) = v
      BY <1>2, <1>4, TextIs
    <2> QED
      BY <1>2, <2>1, Zenon DEF Fits
  <1>6. behind = <<"=">> \o v.syms
    BY <1>4
  <1>7. behind # <<>> /\ Head(behind) = "=" /\ Tail(behind) = v.syms
    BY <1>5, <1>6, FirstIs
  <1>8. ~(n = 0 \/ n > 1)
    BY <1>1 DEF OneValue, Nargs0Or1, Nargs0Or1Eq, Nargs0OrMore, Nargs1OrMore
  <1>9. WithEqualsValue(r, behind, next)
    BY <1>7, <1>8, Zenon DEF Met, WithEquals, WithRest, WithoutValue, WithValue
  <1>10. Invoke(us[j].row, 0, v, "args") /\ idx' = next
    BY <1>5, <1>7, <1>9 DEF WithEqualsValue
  <1>11. CallsOf(us[j]) = <<[row |-> us[j].row, sub |-> 0, text |-> v]>>
    BY <1>2, OneCall
  <1>12. Left(argv, idx') = from[j + 1]
    BY <1>10
  <1> QED
    BY <1>5, <1>10, <1>11, <1>12, InvokeOnward

LEMMA RestMet ==
    ASSUME NEW us, NEW from, NEW upto, Honouring(us, from, upto), NEW j \in 1 .. Len(us),
           calls = upto[j - 1], UNCHANGED <<table, argv>>,
           NEW next \in 0 .. Len(argv), RestUse(table[us[j].row], us[j]),
           NEW behind, behind = us[j].values[1].syms, behind # <<>>, Head(behind) # "=",
           Left(argv, next) = from[j + 1], Met(us[j].row, behind, next)
    PROVE  Where(us, from, upto)'
  <1> DEFINE r == us[j].row
             n == table[r].nargs
  <1>1. us[j].way = "rest" /\ OneFits(table[r], us[j]) /\ n \in OneValue
    BY Zenon DEF RestUse
  <1>2. PICK v : Fits(table[r], v) /\ us[j].values = <<v>>
    BY <1>1, Zenon DEF OneFits
  <1>3. Proper(table, us)
    BY DEF Honouring
  <1>4. us[j].values[1] = v /\ v.dash = 0
    <2>1. us[j].values[1].dash = 0
      BY <1>1, <1>3, SensibleAt
    <2> QED
      BY <1>2, <2>1
  <1>5. Text(v.syms) = v /\ (table[r].handler = "bool" => v \in Bools)
    <2>1. Text(v.syms) = v
      BY <1>2, <1>4, TextIs
    <2> QED
      BY <1>2, <2>1, Zenon DEF Fits
  <1>6. Text(behind) = v
    BY <1>4, <1>5
  <1>7. ~(n > 1) /\ n \notin TakesNone
    BY <1>1 DEF OneValue, TakesNone, Nargs0Or1, Nargs0Or1Eq, Nargs0OrMore, Nargs1OrMore
  <1>8. WithRest(r, behind, next)
    BY Zenon DEF Met, WithEquals, WithEqualsValue, WithoutValue, WithValue
  <1>9. Invoke(r, 0, Text(behind), "args") /\ idx' = next
    BY <1>7, <1>8, Zenon DEF WithRest
  <1>10. Invoke(us[j].row, 0, v, "args") /\ idx' = next
    BY <1>6, <1>9
  <1>11. CallsOf(us[j]) = <<[row |-> us[j].row, sub |-> 0, text |-> v]>>
    BY <1>2, OneCall
  <1>12. Left(argv, idx') = from[j + 1]
    BY <1>10
  <1> QED
    BY <1>5, <1>10, <1>11, <1>12, InvokeOnward

LEMMA NextMet ==
    ASSUME NEW us, NEW from, NEW upto, Honouring(us, from, upto), NEW j \in 1 .. Len(us),
           calls = upto[j - 1], UNCHANGED <<table, argv>>,
           NEW next \in 0 .. Len(argv), NextUse(table[us[j].row], us[j]),
           Left(argv, next) = us[j].values \o from[j + 1], Met(us[j].row, <<>>, next)
    PROVE  Where(us, from, upto)'
  <1> DEFINE r == us[j].row
             n == table[r].nargs
  <1>1. us[j].way = "next" /\ OneFits(table[r], us[j]) /\ n \in OneValue
    BY Zenon DEF NextUse
  <1>2. PICK v : Fits(table[r], v) /\ us[j].values = <<v>>
    BY <1>1, Zenon DEF OneFits
  <1>3. n \in TakesOne
    <2>1. ~Unkept(n, us[j])
      BY UseFacts DEF Honouring
    <2> QED
      BY <1>1, <2>1 DEF OneValue, TakesOne, Unkept
  <1>4. IsSeq(argv) /\ IsSeq(from[j + 1])
    <2>1. Len(us) \in Nat
      BY UseFacts
    <2>2. j + 1 \in 1 .. Len(us) + 1
      BY <2>1
    <2> QED
      BY <2>2 DEF Honouring, IsArgv, Standing
  <1>5. /\ next < Len(argv) /\ argv[next + 1] = v /\ Left(argv, next + 1) = from[j + 1]
    <2>1. PICK y : y = from[j + 1]
      OBVIOUS
    <2>2. IsSeq(y) /\ Left(argv, next) = <<v>> \o y
      BY <1>2, <1>4, <2>1
    <2>3. next < Len(argv) /\ argv[next + 1] = v /\ Left(argv, next + 1) = y
      BY <1>4, <2>2, LeftStep
    <2> QED
      BY <2>1, <2>3
  <1>6. IsPositional(v) /\ (table[r].handler = "bool" => v \in Bools)
    BY <1>2, Zenon DEF Fits
  <1>7. ~NoValueFollows(next)
    BY <1>5, <1>6 DEF NoValueFollows
  <1>8. n \notin TakesNone
    BY <1>3 DEF TakesOne, TakesNone, Nargs0Or1, Nargs0Or1Eq
  <1>9. WithValue(r, <<>>, next)
    BY <1>7 DEF Met, WithEquals, WithEqualsValue, WithRest, WithoutValue
  <1>10. Invoke(r, 0, argv[next + 1], "args") /\ idx' = next + 1
    <2>1. n \in TakesOne \cup TakesNone
      BY <1>3
    <2> QED
      BY <1>3, <1>8, <1>9, <2>1, Zenon DEF WithValue
  <1>11. Invoke(us[j].row, 0, v, "args") /\ Left(argv, idx') = from[j + 1]
    BY <1>5, <1>10
  <1>12. CallsOf(us[j]) = <<[row |-> us[j].row, sub |-> 0, text |-> v]>>
    BY <1>2, OneCall
  <1> QED
    BY <1>6, <1>11, <1>12, InvokeOnward

\* A sequence that is not empty has a first element.
LEMMA FirstOf ==
    ASSUME NEW s, IsSeq(s), s # <<>>
    PROVE  \E rest : IsSeq(rest) /\ s = <<s[1]>> \o rest
  <1>1. Len(s) \in Nat /\ Len(s) > 0
    BY EmptySeq, SeqParts
  <1>2. 1 \in 0 .. Len(s)
    BY <1>1
  <1>3. PICK rest : rest = Left(s, 1)
    OBVIOUS
  <1>4. /\ IsSeq(rest) /\ Len(rest) = Len(s) - 1
        /\ \A i \in 1 .. Len(s) - 1 : rest[i] = s[1 + i]
    BY <1>2, <1>3, LeftIs
  <1>5. PICK e, w : e = s[1] /\ w = <<e>> \o rest
    OBVIOUS
  <1>6. /\ IsSeq(w) /\ Len(w) = Len(rest) + 1 /\ w[1] = e
        /\ \A i \in 1 .. Len(rest) : w[i + 1] = rest[i]
    BY <1>4, <1>5, FirstAndRest
  <1>7. ASSUME NEW i \in 1 .. Len(s)
        PROVE  s[i] = w[i]
    <2>1. CASE i = 1
      BY <1>5, <1>6, <2>1
    <2>2. CASE i # 1
      <3>1. PICK p : p = i - 1
        OBVIOUS
      <3>2. p \in 1 .. Len(s) - 1 /\ 1 + p = i /\ p + 1 = i
        BY <1>1, <2>2, <3>1
      <3> QED
        BY <1>4, <1>6, <3>2
    <2> QED
      BY <2>1, <2>2
  <1>8. s = w
    BY <1>1, <1>4, <1>6, <1>7, SameSeq
  <1> QED
    BY <1>4, <1>5, <1>8

LEMMA ManyMet ==
    ASSUME NEW us, NEW from, NEW upto, Honouring(us, from, upto), NEW j \in 1 .. Len(us),
           calls = upto[j - 1], UNCHANGED <<table, argv>>,
           NEW next \in 0 .. Len(argv), ManyUse(table[us[j].row], us[j]),
           Left(argv, next) = us[j].values \o from[j + 1], Met(us[j].row, <<>>, next)
    PROVE  Where(us, from, upto)'
  <1> DEFINE r == us[j].row
             n == table[r].nargs
  <1>1. /\ n > 1 /\ n \in Int /\ IsSeq(us[j].values) /\ Len(us[j].values) = n
        /\ \A i \in 1 .. n : Fits(table[r], us[j].values[i])
    <2>1. /\ n > 1 /\ IsSeq(us[j].values) /\ Len(us[j].values) = n
          /\ \A i \in 1 .. n : Fits(table[r], us[j].values[i])
      BY Zenon DEF ManyUse
    <2>2. Len(us[j].values) \in Nat
      BY <2>1, SeqParts
    <2> QED
      BY <2>1, <2>2
  <1>2. us[j].values # <<>> /\ 1 \in 1 .. n
    BY <1>1
  <1>3. PICK vals, after, v : vals = us[j].values /\ after = from[j + 1] /\ v = vals[1]
    OBVIOUS
  <1>4. IsSeq(argv) /\ IsSeq(after) /\ IsSeq(upto[j - 1])
    <2>1. Len(us) \in Nat
      BY UseFacts
    <2>2. j + 1 \in 1 .. Len(us) + 1 /\ j - 1 \in 0 .. Len(us)
      BY <2>1
    <2> QED
      BY <1>3, <2>2 DEF Honouring, IsArgv, Standing, Calls
  <1>5. PICK rest : IsSeq(rest) /\ vals = <<v>> \o rest
    BY <1>1, <1>2, <1>3, FirstOf
  <1>6. Left(argv, next) = <<v>> \o (rest \o after) /\ IsSeq(rest \o after)
    <2>1. Left(argv, next) = (<<v>> \o rest) \o after
      BY <1>3, <1>5
    <2>2. (<<v>> \o rest) \o after = <<v>> \o (rest \o after)
      BY <1>4, <1>5, OneRegroups
    <2>3. IsSeq(rest \o after)
      BY <1>4, <1>5, Joined
    <2> QED
      BY <2>1, <2>2, <2>3
  <1>7. next < Len(argv) /\ argv[next + 1] = v
    <2>1. PICK y : y = rest \o after
      OBVIOUS
    <2>2. Left(argv, next) = <<v>> \o y /\ IsSeq(y)
      BY <1>6, <2>1
    <2> QED
      BY <1>4, <2>2, LeftStep
  <1>8. IsPositional(v)
    <2>1. Fits(table[r], v)
      BY <1>1, <1>2, <1>3
    <2> QED
      BY <2>1, Zenon DEF Fits
  <1>9. ~NoValueFollows(next)
    BY <1>7, <1>8 DEF NoValueFollows
  <1>10. WithValue(r, <<>>, next)
    BY <1>9 DEF Met, WithEquals, WithEqualsValue, WithRest, WithoutValue
  <1>11. n \notin TakesOne /\ n \notin TakesNone /\ n \notin TakesOne \cup TakesNone
    BY <1>1 DEF TakesOne, TakesNone, Nargs0Or1, Nargs0Or1Eq
  <1>12. mode' = "values" /\ idx' = next /\ opt' = r /\ sub' = 0 /\ UNCHANGED <<calls, outVars, status>>
    BY <1>10, <1>11, Zenon DEF WithValue
  <1>13. calls' = upto[j - 1] \o CallsFor(r, <<>>)
    <2>1. CallsFor(r, <<>>) = <<>>
      BY DEF CallsFor
    <2>2. upto[j - 1] \o <<>> = upto[j - 1]
      <3>1. IsSeq(<<>>)
        BY Tuples
      <3> QED
        BY <1>4, <3>1, JoinedAt
    <2> QED
      BY <1>12, <2>1, <2>2
  <1>14. IsSeq(<<>>) /\ Len(<<>>) = 0 /\ vals = <<>> \o vals
    <2>1. IsSeq(<<>>) /\ IsSeq(vals)
      BY <1>1, <1>3, Tuples
    <2> QED
      BY <2>1, JoinedAt
  <1>15. AtValues(table', us, from, upto, opt', sub', Left(argv', idx'), calls')
    <2>1. /\ ManyUse(table'[opt'], us[j]) /\ us[j].row = opt' /\ vals # <<>>
          /\ Left(argv', idx') = vals \o from[j + 1]
          /\ calls' = upto[j - 1] \o CallsFor(opt', <<>>) /\ us[j].values = <<>> \o vals
          /\ Len(<<>>) = sub' /\ IsSeq(<<>>) /\ IsSeq(vals)
      BY <1>1, <1>2, <1>3, <1>12, <1>13, <1>14
    <2> QED
      BY <2>1, Zenon DEF AtValues
  <1> QED
    BY <1>12, <1>15 DEF Where

\* An option that is met, in any way, is handled as it was meant.
LEMMA MetMeant ==
    ASSUME NEW us, NEW from, NEW upto, Honouring(us, from, upto), NEW j \in 1 .. Len(us),
           calls = upto[j - 1], UNCHANGED <<table, argv>>,
           NEW next \in 0 .. Len(argv), NEW behind,
           Reads(table[us[j].row], us[j], behind, Left(argv, next), from[j + 1]),
           Met(us[j].row, behind, next)
    PROVE  Where(us, from, upto)'
  <1> DEFINE row == table[us[j].row]
             u == us[j]
  <1>1. CASE AloneUse(row, u) /\ ~u.joined /\ behind = <<>> /\ Left(argv, next) = from[j + 1]
    BY <1>1, AloneMet
  <1>2. CASE /\ AloneUse(row, u) /\ u.joined
             /\ behind # <<>> /\ Head(behind) # "="
             /\ <<Element(1, behind)>> \o Left(argv, next) = from[j + 1]
    BY <1>2, JoinedMet
  <1>3. CASE /\ EqualsUse(row, u) /\ behind = <<"=">> \o u.values[1].syms
             /\ Left(argv, next) = from[j + 1]
    BY <1>3, EqualsMet
  <1>4. CASE /\ RestUse(row, u) /\ behind = u.values[1].syms /\ Left(argv, next) = from[j + 1]
             /\ behind # <<>> /\ Head(behind) # "="
    BY <1>4, RestMet
  <1>5. CASE NextUse(row, u) /\ behind = <<>> /\ Left(argv, next) = u.values \o from[j + 1]
    BY <1>5, NextMet
  <1>6. CASE ManyUse(row, u) /\ behind = <<>> /\ Left(argv, next) = u.values \o from[j + 1]
    BY <1>6, ManyMet
  <1> QED
    BY <1>1, <1>2, <1>3, <1>4, <1>5, <1>6, Zenon DEF Reads

\* Behind a long name stands nothing or "=".
LEMMA LongEnds ==
    ASSUME NEW row, NEW u, NEW behind, NEW w, NEW after, IsSeq(behind),
           Reads(row, u, behind, w, after), u.form # "short",
           EqualsUse(row, u) => IsSeq(u.values[1].syms)
    PROVE  NameEnds(behind)
  <1>1. CASE behind = <<>>
    BY <1>1 DEF NameEnds
  <1>2. CASE behind # <<>>
    <2>1. EqualsUse(row, u) /\ behind = <<"=">> \o u.values[1].syms
      BY <1>2, Zenon DEF Reads, AloneUse, RestUse
    <2>2. Head(behind) = "="
      BY <2>1, FirstIs
    <2> QED
      BY <2>2 DEF NameEnds
  <1> QED
    BY <1>1, <1>2

LEMMA StandsAt ==
    ASSUME NEW us, NEW from, NEW upto, Honouring(us, from, upto), NEW k \in 1 .. Len(us)
    PROVE  /\ us[k].row \in DOMAIN table /\ IsRow(table[us[k].row])
           /\ IsSeq(from[k]) /\ IsSeq(from[k + 1])
           /\ Stands(table[us[k].row], us[k], from[k], from[k + 1])
  <1>1. Len(us) \in Nat
    BY UseFacts
  <1>2. k + 1 \in 1 .. Len(us) + 1 /\ k \in 1 .. Len(us) + 1
    BY <1>1
  <1>3. Standing(table, us, from) /\ IsTable(table)
    BY DEF Honouring
  <1>4. us[k].row \in DOMAIN table /\ Stands(table[us[k].row], us[k], from[k], from[k + 1])
    BY <1>3 DEF Standing
  <1>5. IsSeq(from[k]) /\ IsSeq(from[k + 1])
    BY <1>2, <1>3 DEF Standing
  <1>6. IsRow(table[us[k].row])
    BY <1>3, <1>4, TableRows
  <1> QED
    BY <1>4, <1>5, <1>6

\* A positional.
LEMMA PlainMeant ==
    ASSUME NEW us, NEW from, NEW upto, Honouring(us, from, upto), NEW k \in 1 .. Len(us),
           idx \in 0 .. Len(argv), Left(argv, idx) = from[k], calls = upto[k - 1],
           PlainStands(table[us[k].row], us[k], from[k], from[k + 1]), Args
    PROVE  Where(us, from, upto)'
  <1> DEFINE r == us[k].row
  <1>1. /\ r \in DOMAIN table /\ IsSeq(from[k + 1])
        /\ IsTable(table) /\ Apart(table) /\ IsSeq(argv)
    BY StandsAt DEF Honouring, IsArgv
  <1>2. PlainUse(table[r], us[k])
    BY Zenon DEF PlainStands
  <1>3. PICK v : Fits(table[r], v) /\ us[k].values = <<v>> /\ from[k] = <<v>> \o from[k + 1]
    BY Zenon DEF PlainStands
  <1>4. argv[idx + 1] = v /\ Left(argv, idx + 1) = from[k + 1]
    <2>1. PICK y : y = from[k + 1]
      OBVIOUS
    <2>2. PICK a, j : a = argv /\ j = idx
      OBVIOUS
    <2>3. IsSeq(a) /\ IsSeq(y) /\ j \in 0 .. Len(a) /\ Left(a, j) = <<v>> \o y
      BY <1>1, <1>3, <2>1, <2>2
    <2>4. j + 1 \in 0 .. Len(a) /\ a[j + 1] = v /\ Left(a, j + 1) = y
      BY <2>3, LeftStep
    <2> QED
      BY <2>1, <2>2, <2>4
  <1>5. table[r].type = "POSITIONAL"
    BY <1>2, Zenon DEF PlainUse
  <1>6. PositionalRow = r /\ r # NoRow
    BY <1>1, <1>5, PositionalFound
  <1>7. IsPositional(v) /\ (table[r].handler = "bool" => v \in Bools)
    BY <1>3, Zenon DEF Fits
  <1>8. Plain(v) /\ UNCHANGED <<table, argv>>
    BY <1>4, <1>7, Zenon DEF Args, Short, Long
  <1>9. Invoke(us[k].row, 0, v, "args") /\ idx' = idx + 1
    BY <1>6, <1>8 DEF Plain
  <1>10. CallsOf(us[k]) = <<[row |-> us[k].row, sub |-> 0, text |-> v]>>
    BY <1>3, OneCall
  <1>11. Left(argv, idx') = from[k + 1]
    BY <1>4, <1>9
  <1> QED
    BY <1>7, <1>8, <1>9, <1>10, <1>11, InvokeOnward

\* A name, or the beginning of a cluster of letters.
LEMMA OptionMeant ==
    ASSUME NEW us, NEW from, NEW upto, Honouring(us, from, upto), NEW k \in 1 .. Len(us),
           idx \in 0 .. Len(argv), Left(argv, idx) = from[k], calls = upto[k - 1],
           OptionUse(table[us[k].row], us[k]),
           OptionStands(table[us[k].row], us[k], from[k], from[k + 1]), Args
    PROVE  Where(us, from, upto)'
  <1> DEFINE r == us[k].row
             row == table[r]
             u == us[k]
  <1>1. /\ r \in DOMAIN table /\ IsSeq(from[k + 1]) /\ IsRow(row)
        /\ IsTable(table) /\ Apart(table) /\ IsSeq(argv)
    BY StandsAt DEF Honouring, IsArgv
  <1>2. PICK behind, w :
           /\ IsSeq(behind) /\ IsSeq(w) /\ Reads(row, u, behind, w, from[k + 1])
           /\ from[k] = <<Element(DashesOf(u), NameOf(row, u) \o behind)>> \o w
    BY Zenon DEF OptionStands
  <1>3. PICK e : e = Element(DashesOf(u), NameOf(row, u) \o behind)
    OBVIOUS
  <1>4. e.dash = DashesOf(u) /\ e.syms = NameOf(row, u) \o behind
    BY <1>3 DEF Element
  <1>5. argv[idx + 1] = e /\ Left(argv, idx + 1) = w /\ idx + 1 \in 0 .. Len(argv)
    <2>1. Left(argv, idx) = <<e>> \o w
      BY <1>2, <1>3
    <2>2. PICK a, j : a = argv /\ j = idx
      OBVIOUS
    <2>3. IsSeq(a) /\ IsSeq(w) /\ j \in 0 .. Len(a) /\ Left(a, j) = <<e>> \o w
      BY <1>1, <1>2, <2>1, <2>2
    <2>4. j + 1 \in 0 .. Len(a) /\ a[j + 1] = e /\ Left(a, j + 1) = w
      BY <2>3, LeftStep
    <2> QED
      BY <2>2, <2>4
  <1>6. Plain(e) \/ Short(e) \/ Long(e)
    BY <1>5 DEF Args
  <1>7. UNCHANGED <<table, argv>>
    BY Zenon DEF Args
  <1>8. IsSeq(NameOf(row, u)) /\ NameOf(row, u) # <<>>
    <2>1. u.form = "short" \/ (u.form = "long" /\ row.long # NoName)
      BY Zenon DEF OptionUse
    <2>2. IsSeq(<<row.short>>) /\ <<row.short>> # <<>> /\ IsSeq(row.long)
      BY <1>1, Tuples DEF IsRow
    <2> QED
      BY <2>1, <2>2 DEF NameOf, NoName
  <1>9. ~IsPositional(e)
    <2>1. PICK name : name = NameOf(row, u)
      OBVIOUS
    <2>2. name \o behind # <<>>
      BY <1>2, <1>8, <2>1, JoinedAt
    <2>3. e.syms # <<>> /\ e.dash # 0
      BY <1>4, <2>1, <2>2 DEF DashesOf
    <2> QED
      BY <2>3 DEF IsPositional
  <1>10. Short(e) \/ Long(e)
    BY <1>6, <1>9, Zenon DEF Plain
  <1>11. CASE u.form = "short"
    <2>1. e.dash = 1
      BY <1>4, <1>11 DEF DashesOf
    <2>2. Short(e)
      BY <1>10, <2>1 DEF Long
    <2>3. mode' = "letters" /\ letters' = e.syms /\ idx' = idx + 1 /\ calls' = calls
      BY <2>2, Zenon DEF Short
    <2>4. e = Element(1, letters')
      BY <1>3, <1>4, <2>1, <2>3 DEF Element
    <2>5. <<Element(1, letters')>> \o Left(argv', idx') = from[k] /\ calls' = upto[k - 1]
      BY <1>2, <1>3, <1>5, <1>7, <2>3, <2>4
    <2>6. AtLetters(us, from, upto, letters', Left(argv', idx'), calls')
      BY <2>5, Zenon DEF AtLetters
    <2> QED
      BY <2>3, <2>6 DEF Where
  <1>12. CASE u.form # "short"
    <2>1. e.dash = 2 /\ e.syms = row.long \o behind
      BY <1>4, <1>12 DEF DashesOf, NameOf
    <2>2. Long(e)
      BY <1>10, <2>1 DEF Short
    <2>3. row.type = "OPTIONAL" /\ row.long # NoName
      BY <1>12, Zenon DEF OptionUse
    <2>4. r \in Options
      BY <1>1, <2>3 DEF Options
    <2>5. NameEnds(behind)
      <3>1. ASSUME EqualsUse(row, u)
            PROVE  IsSeq(u.values[1].syms)
        <4>1. PICK v : Fits(row, v) /\ u.values = <<v>>
          BY <3>1, Zenon DEF EqualsUse, OneFits
        <4>2. u.values[1] = v
          BY <4>1
        <4>3. IsSeq(v.syms)
          BY <4>1, Zenon DEF Fits
        <4> QED
          BY <4>2, <4>3
      <3> QED
        BY <1>2, <1>12, <3>1, LongEnds
    <2>6. /\ LongRow(e.syms) = r /\ r # NoRow
          /\ SubSeq(e.syms, Len(row.long) + 1, Len(e.syms)) = behind
      BY <1>1, <2>1, <2>3, <2>4, <2>5, LongFound
    <2>7. Met(r, behind, idx + 1)
      BY <2>2, <2>6 DEF Long
    <2>8. Reads(row, u, behind, Left(argv, idx + 1), from[k + 1])
      BY <1>2, <1>5
    <2> QED
      BY <1>5, <1>7, <2>7, <2>8, MetMeant
  <1> QED
    BY <1>11, <1>12

\* A step at an element of argv.
LEMMA ArgsMeant ==
    ASSUME NEW us, NEW from, NEW upto, Honouring(us, from, upto), idx \in 0 .. Len(argv),
           AtArgs(us, from, upto, Left(argv, idx), calls), Args
    PROVE  Where(us, from, upto)'
  <1>1. PICK k \in 1 .. Len(us) + 1 : Left(argv, idx) = from[k] /\ calls = upto[k - 1]
    BY DEF AtArgs
  <1>2. IsSeq(argv) /\ from[Len(us) + 1] = <<>>
    BY DEF Honouring, IsArgv, Standing
  <1>3. idx < Len(argv) /\ Len(argv) \in Nat
    BY <1>2, SeqParts DEF Args
  <1>4. Left(argv, idx) # <<>>
    BY <1>2, <1>3, NoneLeft
  <1>5. Len(us) \in Nat
    BY UseFacts
  <1>6. k \in 1 .. Len(us)
    BY <1>1, <1>2, <1>4, <1>5
  <1>7. Stands(table[us[k].row], us[k], from[k], from[k + 1])
    BY <1>6, StandsAt
  <1>8. CASE PlainStands(table[us[k].row], us[k], from[k], from[k + 1])
    BY <1>1, <1>6, <1>8, PlainMeant
  <1>9. CASE /\ OptionUse(table[us[k].row], us[k])
             /\ OptionStands(table[us[k].row], us[k], from[k], from[k + 1])
    BY <1>1, <1>6, <1>9, OptionMeant
  <1> QED
    BY <1>7, <1>8, <1>9, Zenon DEF Stands

LEMMA ElementIs ==
    ASSUME NEW d, NEW s, NEW c, NEW b, Element(d, s) = Element(c, b)
    PROVE  d = c /\ s = b
  <1>1. Element(d, s).dash = d /\ Element(d, s).syms = s
    BY DEF Element
  <1>2. Element(c, b).dash = c /\ Element(c, b).syms = b
    BY DEF Element
  <1> QED
    BY <1>1, <1>2

\* A step at a letter of a cluster.
LEMMA LettersMeant ==
    ASSUME NEW us, NEW from, NEW upto, Honouring(us, from, upto), idx \in 0 .. Len(argv),
           IsSeq(letters), letters # <<>>,
           AtLetters(us, from, upto, letters, Left(argv, idx), calls), Letters
    PROVE  Where(us, from, upto)'
  <1>1. PICK k \in 1 .. Len(us) :
           <<Element(1, letters)>> \o Left(argv, idx) = from[k] /\ calls = upto[k - 1]
    BY DEF AtLetters
  <1> DEFINE r == us[k].row
             row == table[r]
             u == us[k]
  <1>2. /\ r \in DOMAIN table /\ IsSeq(from[k + 1]) /\ IsRow(row)
        /\ IsTable(table) /\ Apart(table) /\ IsSeq(argv)
        /\ Stands(row, u, from[k], from[k + 1])
    BY StandsAt DEF Honouring, IsArgv
  <1>3. PICK left, first, last :
           left = Left(argv, idx) /\ first = Element(1, letters) /\ last = from[k + 1]
    OBVIOUS
  <1>4. IsSeq(left) /\ IsSeq(last) /\ from[k] = <<first>> \o left
    BY <1>1, <1>2, <1>3, LeftIs
  <1>5. first.dash = 1 /\ first.syms = letters
    BY <1>3 DEF Element
  <1>6. ~PlainStands(row, u, from[k], from[k + 1])
    <2> SUFFICES ASSUME PlainStands(row, u, from[k], from[k + 1])
                 PROVE  FALSE
      OBVIOUS
    <2>1. PICK v : Fits(row, v) /\ from[k] = <<v>> \o last
      BY <1>3, Zenon DEF PlainStands
    <2>2. <<first>> \o left = <<v>> \o last
      BY <1>4, <2>1
    <2>3. first = v
      BY <1>4, <2>2, SameRest
    <2>4. IsPositional(v)
      BY <2>1, Zenon DEF Fits
    <2> QED
      BY <1>5, <2>3, <2>4 DEF IsPositional
  <1>7. OptionUse(row, u) /\ OptionStands(row, u, from[k], from[k + 1])
    BY <1>2, <1>6, Zenon DEF Stands
  <1>8. PICK behind, w :
           /\ IsSeq(behind) /\ IsSeq(w) /\ Reads(row, u, behind, w, from[k + 1])
           /\ from[k] = <<Element(DashesOf(u), NameOf(row, u) \o behind)>> \o w
    BY <1>7, Zenon DEF OptionStands
  <1>9. PICK e, d, s : e = Element(d, s) /\ d = DashesOf(u) /\ s = NameOf(row, u) \o behind
    OBVIOUS
  <1>10. <<first>> \o left = <<e>> \o w
    BY <1>4, <1>8, <1>9
  <1>11. first = e /\ left = w
    BY <1>4, <1>8, <1>10, SameRest
  <1>12. d = 1 /\ s = letters
    <2>1. Element(1, letters) = Element(d, s)
      BY <1>3, <1>9, <1>11
    <2> QED
      BY <2>1, ElementIs, Zenon
  <1>13. u.form = "short"
    BY <1>9, <1>12 DEF DashesOf
  <1>14. letters = <<row.short>> \o behind
    BY <1>9, <1>12, <1>13 DEF NameOf
  <1>15. Head(letters) = row.short /\ Tail(letters) = behind
    <2>1. PICK c : c = row.short
      OBVIOUS
    <2>2. letters = <<c>> \o behind
      BY <1>14, <2>1
    <2>3. Head(letters) = c /\ Tail(letters) = behind
      BY <1>8, <2>2, FirstIs
    <2> QED
      BY <2>1, <2>3
  <1>16. row.type = "OPTIONAL" /\ row.short # NoLetter
    BY <1>7, <1>13, Zenon DEF OptionUse
  <1>17. r \in Options
    BY <1>2, <1>16 DEF Options
  <1>18. ShortRow(row.short) = r /\ r # NoRow
    BY <1>2, <1>16, <1>17, ShortFound
  <1>19. Met(r, behind, idx) /\ UNCHANGED <<table, argv>>
    BY <1>15, <1>18 DEF Letters
  <1>20. Reads(row, u, behind, Left(argv, idx), from[k + 1])
    BY <1>3, <1>8, <1>11
  <1> QED
    BY <1>1, <1>19, <1>20, MetMeant

-----------------------------------------------------------------------------
(* The values of an option that takes several. *)

LEMMA CallsForPrefix ==
    ASSUME NEW r, NEW s, IsSeq(s), NEW t, IsSeq(t)
    PROVE  IsPrefix(CallsFor(r, s), CallsFor(r, s \o t))
  <1> DEFINE w == s \o t
             f == CallsFor(r, s)
             g == CallsFor(r, w)
  <1>1. /\ IsSeq(w) /\ Len(w) = Len(s) + Len(t) /\ Len(s) \in Nat /\ Len(t) \in Nat
        /\ \A i \in 1 .. Len(s) : w[i] = s[i]
    BY Joined, JoinedAt
  <1>2. DOMAIN s = 1 .. Len(s) /\ DOMAIN w = 1 .. Len(w)
    BY <1>1, SeqParts
  <1> HIDE DEF w
  <1>3. IsSeq(f) /\ Len(f) = Len(s)
    BY OneMoreCall
  <1>4. IsSeq(g) /\ Len(g) = Len(w)
    BY <1>1, OneMoreCall
  <1>5. \A i \in 1 .. Len(s) : f[i] = g[i]
    BY <1>1, <1>2 DEF CallsFor
  <1> HIDE DEF f, g
  <1>6. IsPrefix(f, g)
    BY <1>1, <1>3, <1>4, <1>5, PrefixIs
  <1> QED
    BY <1>6 DEF f, g, w

LEMMA FollowPrefix ==
    ASSUME NEW a, IsSeq(a), NEW p, IsSeq(p), NEW q, IsSeq(q), IsPrefix(p, q),
           NEW z, IsSeq(z), IsPrefix(a \o q, z)
    PROVE  IsPrefix(a \o p, z)
  <1>1. PICK ap, aq : ap = a \o p /\ aq = a \o q
    OBVIOUS
  <1>2. /\ IsSeq(ap) /\ Len(ap) = Len(a) + Len(p) /\ Len(a) \in Nat /\ Len(p) \in Nat
        /\ \A i \in 1 .. Len(a) : ap[i] = a[i]
        /\ \A i \in 1 .. Len(p) : ap[Len(a) + i] = p[i]
    BY <1>1, Joined, JoinedAt
  <1>3. /\ IsSeq(aq) /\ Len(aq) = Len(a) + Len(q) /\ Len(q) \in Nat
        /\ \A i \in 1 .. Len(a) : aq[i] = a[i]
        /\ \A i \in 1 .. Len(q) : aq[Len(a) + i] = q[i]
    BY <1>1, Joined, JoinedAt
  <1>4. Len(p) <= Len(q) /\ \A i \in 1 .. Len(p) : p[i] = q[i]
    BY PrefixIs
  <1>5. Len(aq) <= Len(z) /\ \A i \in 1 .. Len(aq) : aq[i] = z[i]
    <2>1. IsPrefix(aq, z)
      BY <1>1
    <2> QED
      BY <1>3, <2>1, PrefixIs
  <1>6. Len(z) \in Nat
    BY SeqParts
  <1>7. Len(ap) <= Len(z)
    BY <1>2, <1>3, <1>4, <1>5, <1>6
  <1>8. ASSUME NEW i \in 1 .. Len(ap)
        PROVE  ap[i] = z[i]
    <2>1. aq[i] = z[i]
      BY <1>2, <1>3, <1>4, <1>5
    <2>2. CASE i \in 1 .. Len(a)
      BY <1>2, <1>3, <2>1, <2>2
    <2>3. CASE i \notin 1 .. Len(a)
      <3>1. PICK m : m = i - Len(a)
        OBVIOUS
      <3>2. m \in 1 .. Len(p) /\ m \in 1 .. Len(q) /\ i = Len(a) + m
        BY <1>2, <1>3, <1>4, <2>3, <3>1
      <3> QED
        BY <1>2, <1>3, <1>4, <2>1, <3>2
    <2> QED
      BY <2>2, <2>3
  <1>9. IsPrefix(ap, z)
    BY <1>2, <1>7, <1>8, PrefixIs
  <1> QED
    BY <1>1, <1>9

\* Of values vals, those that are done come before v, and rest behind it.
Splits(vals, done, v, rest) ==
    IsSeq(done) /\ IsSeq(rest) /\ vals = done \o (<<v>> \o rest)

\* The next value to be taken is v.
HasNext(vals, done, v, rest) ==
    /\ IsSeq(done \o <<v>>) /\ vals = (done \o <<v>>) \o rest
    /\ Len(done \o <<v>>) = Len(done) + 1 /\ Len(done) \in Nat
    /\ Len(vals) = (Len(done) + 1) + Len(rest) /\ Len(rest) \in Nat
    /\ vals[Len(done) + 1] = v
    /\ Len(done) + 1 \in 1 .. Len(vals)

LEMMA NextValue ==
    ASSUME NEW vals, NEW done, NEW v, NEW rest, Splits(vals, done, v, rest)
    PROVE  HasNext(vals, done, v, rest)
  <1>1. IsSeq(done) /\ IsSeq(rest) /\ vals = done \o (<<v>> \o rest)
    BY DEF Splits
  <1>2. PICK one, more : one = <<v>> /\ more = done \o one
    OBVIOUS
  <1>3. IsSeq(one)
    BY <1>2, Tuples
  <1>4. vals = more \o rest
    BY <1>1, <1>2, <1>3, JoinRegroups
  <1>5. /\ IsSeq(more) /\ Len(more) = Len(done) + 1 /\ Len(done) \in Nat
        /\ more[Len(done) + 1] = v
    BY <1>1, <1>2, JoinOne
  <1>6. /\ Len(vals) = Len(more) + Len(rest) /\ Len(rest) \in Nat
        /\ \A i \in 1 .. Len(more) : vals[i] = more[i]
    <2>1. /\ Len(more \o rest) = Len(more) + Len(rest) /\ Len(rest) \in Nat
          /\ \A i \in 1 .. Len(more) : (more \o rest)[i] = more[i]
      BY <1>1, <1>5, JoinedAt, Zenon
    <2> QED
      BY <1>4, <2>1
  <1>7. Len(done) + 1 \in 1 .. Len(more) /\ Len(done) + 1 \in 1 .. Len(vals)
    BY <1>5, <1>6
  <1>8. vals[Len(done) + 1] = v
    BY <1>5, <1>6, <1>7
  <1> QED
    BY <1>2, <1>4, <1>5, <1>6, <1>7, <1>8 DEF HasNext

LEMMA AppendJoins ==
    ASSUME NEW a, IsSeq(a), NEW f, IsSeq(f), NEW c
    PROVE  Append(a \o f, c) = a \o (f \o <<c>>)
  <1>1. IsSeq(<<c>>)
    BY Tuples
  <1>2. (a \o f) \o <<c>> = a \o (f \o <<c>>)
    BY <1>1, JoinRegroups
  <1>3. IsSeq(a \o f)
    BY Joined
  <1>4. Append(a \o f, c) = (a \o f) \o <<c>>
    BY <1>3, LastOne
  <1> QED
    BY <1>2, <1>4

\* What is left, of the values todo and what is written after them, begins with v.
Leads(todo, after, v, rest) ==
    /\ IsSeq(rest) /\ todo = <<v>> \o rest
    /\ todo \o after = <<v>> \o (rest \o after) /\ IsSeq(rest \o after)
LEMMA FirstFollows ==
    ASSUME NEW todo, IsSeq(todo), todo # <<>>, NEW after, IsSeq(after)
    PROVE  \E v, rest : Leads(todo, after, v, rest)
  <1>1. PICK v, rest : v = todo[1] /\ IsSeq(rest) /\ todo = <<v>> \o rest
    BY FirstOf
  <1>2. (<<v>> \o rest) \o after = <<v>> \o (rest \o after)
    BY <1>1, OneRegroups
  <1>3. IsSeq(rest \o after)
    BY <1>1, Joined
  <1>4. Leads(todo, after, v, rest)
    BY <1>1, <1>2, <1>3 DEF Leads
  <1> QED
    BY <1>4

\* Its call continues those before it, and begins those that are meant.
Continues(us, upto, k, r, done, v) ==
    /\ Append(upto[k - 1] \o CallsFor(r, done), [row |-> r, sub |-> Len(done), text |-> v])
         = upto[k - 1] \o CallsFor(r, done \o <<v>>)
    /\ IsPrefix(upto[k - 1] \o CallsFor(r, done \o <<v>>), upto[Len(us)])
    /\ upto[k - 1] \o CallsFor(r, us[k].values) = upto[k]
LEMMA NextCall ==
    ASSUME NEW us, NEW from, NEW upto, Honouring(us, from, upto), NEW k \in 1 .. Len(us),
           NEW r, r = us[k].row, us[k].values # <<>>,
           NEW done, NEW v, NEW rest, Splits(us[k].values, done, v, rest)
    PROVE  Continues(us, upto, k, r, done, v)
  <1>1. IsSeq(done) /\ IsSeq(rest) /\ us[k].values = (done \o <<v>>) \o rest
    BY NextValue DEF Splits, HasNext
  <1>2. PICK c, more, vals, a, f, g, h, z :
           /\ c = [row |-> r, sub |-> Len(done), text |-> v]
           /\ more = done \o <<v>> /\ vals = us[k].values
           /\ a = upto[k - 1] /\ z = upto[Len(us)]
           /\ f = CallsFor(r, done) /\ g = CallsFor(r, more) /\ h = CallsFor(r, vals)
    OBVIOUS
  <1>3. /\ IsSeq(us) /\ Len(us) \in Nat /\ Calls(us, upto)
        /\ \A j \in 1 .. Len(us) : IsSeq(CallsOf(us[j]))
    BY UseFacts DEF Honouring
  <1>4. k - 1 \in 0 .. Len(us) /\ k \in 0 .. Len(us) /\ Len(us) \in 0 .. Len(us)
    BY <1>3
  <1>5. IsSeq(a) /\ IsSeq(z)
    BY <1>2, <1>3, <1>4 DEF Calls
  <1>6. IsSeq(f) /\ g = f \o <<c>>
    BY <1>1, <1>2, OneMoreCall
  <1>7. Append(a \o f, c) = a \o g
    BY <1>5, <1>6, AppendJoins
  <1>8. IsSeq(more)
    BY <1>1, <1>2, JoinOne
  <1>9. vals = more \o rest /\ IsSeq(vals)
    BY <1>1, <1>2, <1>8, Joined
  <1>10. IsSeq(g) /\ IsSeq(h) /\ IsPrefix(g, h)
    <2>1. IsPrefix(CallsFor(r, more), CallsFor(r, more \o rest))
      BY <1>1, <1>8, CallsForPrefix
    <2>2. IsSeq(g)
      BY <1>2, <1>8, OneMoreCall
    <2>3. IsSeq(h)
      BY <1>2, <1>9, OneMoreCall
    <2> QED
      BY <1>2, <1>9, <2>1, <2>2, <2>3
  <1>11. h = CallsOf(us[k])
    BY <1>2 DEF CallsFor, CallsOf
  <1>12. a \o h = upto[k]
    BY <1>2, <1>3, <1>11 DEF Calls
  <1>13. IsPrefix(a \o h, z)
    BY <1>2, <1>3, <1>4, <1>12, CallsPrefix
  <1>14. IsPrefix(a \o g, z)
    BY <1>5, <1>10, <1>13, FollowPrefix
  <1> QED
    BY <1>2, <1>7, <1>12, <1>14 DEF Continues

\* A step at one of several values.
LEMMA ValuesMeant ==
    ASSUME NEW us, NEW from, NEW upto, Honouring(us, from, upto), idx \in 0 .. Len(argv),
           AtValues(table, us, from, upto, opt, sub, Left(argv, idx), calls), Values
    PROVE  Where(us, from, upto)'
  <1>1. PICK k \in 1 .. Len(us) : \E done, todo :
           /\ ManyUse(table[opt], us[k]) /\ us[k].row = opt
           /\ IsSeq(done) /\ IsSeq(todo) /\ us[k].values = done \o todo
           /\ Len(done) = sub /\ todo # <<>>
           /\ Left(argv, idx) = todo \o from[k + 1] /\ calls = upto[k - 1] \o CallsFor(opt, done)
    BY Zenon DEF AtValues
  <1>2. PICK done, todo :
           /\ ManyUse(table[opt], us[k]) /\ us[k].row = opt
           /\ IsSeq(done) /\ IsSeq(todo) /\ us[k].values = done \o todo
           /\ Len(done) = sub /\ todo # <<>>
           /\ Left(argv, idx) = todo \o from[k + 1] /\ calls = upto[k - 1] \o CallsFor(opt, done)
    BY <1>1
  <1>3. IsSeq(argv) /\ Len(argv) \in Nat /\ IsSeq(from[k + 1])
    BY StandsAt, SeqParts DEF Honouring, IsArgv
  <1>4. PICK v, rest : Leads(todo, from[k + 1], v, rest)
    BY <1>2, <1>3, FirstFollows, Zenon
  <1>5. /\ IsSeq(rest) /\ todo = <<v>> \o rest
        /\ todo \o from[k + 1] = <<v>> \o (rest \o from[k + 1])
        /\ IsSeq(rest \o from[k + 1])
    BY <1>4 DEF Leads
  <1>6. Splits(us[k].values, done, v, rest)
    BY <1>2, <1>5 DEF Splits
  <1>7. PICK r, vals, after, i, a :
           /\ r = opt /\ vals = us[k].values /\ after = from[k + 1] /\ i = idx /\ a = argv
    OBVIOUS
  <1>8. /\ i < Len(a) /\ i + 1 \in 0 .. Len(a) /\ a[i + 1] = v
        /\ Left(a, i + 1) = rest \o after
    <2>1. PICK y : y = rest \o after
      OBVIOUS
    <2>2. IsSeq(y)
      BY <1>5, <1>7, <2>1
    <2>3. IsSeq(a) /\ i \in 0 .. Len(a) /\ Left(a, i) = <<v>> \o y
      BY <1>2, <1>3, <1>5, <1>7, <2>1
    <2>4. i < Len(a) /\ i + 1 \in 0 .. Len(a) /\ a[i + 1] = v /\ Left(a, i + 1) = y
      BY <2>2, <2>3, LeftStep
    <2> QED
      BY <2>1, <2>4
  <1> DEFINE n == table[r].nargs
             m == IF sub + 1 = n THEN "args" ELSE "values"
  <1>9. idx # Len(argv) /\ argv[idx + 1] = v
    BY <1>3, <1>7, <1>8
  <1>10. /\ Invoke(opt, sub, argv[idx + 1], IF sub + 1 = table[opt].nargs THEN "args" ELSE "values")
        /\ idx' = idx + 1 /\ sub' = sub + 1 /\ UNCHANGED <<letters, opt>>
        /\ UNCHANGED <<table, argv>>
    BY <1>9, Zenon DEF Values
  <1>11. Invoke(r, sub, v, m)
    BY <1>7, <1>9, <1>10
  <1>12. HasNext(vals, done, v, rest)
    <2>1. Splits(vals, done, v, rest)
      BY <1>7, <1>6
    <2> QED
      BY <2>1, NextValue
  <1>13. /\ IsSeq(done \o <<v>>) /\ vals = (done \o <<v>>) \o rest
         /\ Len(done \o <<v>>) = Len(done) + 1 /\ Len(done) \in Nat
         /\ Len(vals) = (Len(done) + 1) + Len(rest) /\ Len(rest) \in Nat
         /\ vals[Len(done) + 1] = v
         /\ Len(done) + 1 \in 1 .. Len(vals)
    BY <1>12 DEF HasNext
  <1>14. /\ Len(vals) = n /\ \A j \in 1 .. n : Fits(table[r], vals[j])
    <2>1. ManyUse(table[r], us[k])
      BY <1>2, <1>7
    <2>2. Len(us[k].values) = n /\ \A j \in 1 .. n : Fits(table[r], us[k].values[j])
      BY <2>1, Zenon DEF ManyUse
    <2> QED
      BY <1>7, <2>2
  <1>15. table[r].handler = "bool" => v \in Bools
    <2>1. Fits(table[r], v)
      BY <1>13, <1>14
    <2> QED
      BY <2>1, Zenon DEF Fits
  <1>16. calls' = Append(calls, [row |-> r, sub |-> sub, text |-> v]) /\ (mode' = m \/ Stops)
    <2> HIDE DEF m
    <2> QED
      BY <1>11, <1>15, InvokeMeant
  <1>17. Continues(us, upto, k, r, done, v)
    <2>1. r = us[k].row
      BY <1>2, <1>7
    <2>2. us[k].values # <<>>
      BY <1>7, <1>13
    <2> QED
      BY <1>6, <2>1, <2>2, NextCall
  <1>18. /\ Append(upto[k - 1] \o CallsFor(r, done),
                   [row |-> r, sub |-> Len(done), text |-> v])
              = upto[k - 1] \o CallsFor(r, done \o <<v>>)
         /\ IsPrefix(upto[k - 1] \o CallsFor(r, done \o <<v>>), upto[Len(us)])
         /\ upto[k - 1] \o CallsFor(r, us[k].values) = upto[k]
    BY <1>17 DEF Continues
  <1>19. calls' = upto[k - 1] \o CallsFor(r, done \o <<v>>)
    BY <1>2, <1>7, <1>16, <1>18
  <1>20. Left(argv', idx') = rest \o from[k + 1]
    BY <1>7, <1>8, <1>10
  <1>21. CASE Stops
    <2>1. Ended(us, upto, calls', status')
      BY <1>18, <1>19, <1>21 DEF Ended, Stops
    <2> QED
      BY <1>21, <2>1 DEF Where, Stops
  <1>22. CASE mode' = m /\ rest = <<>>
    <2>1. Len(vals) = sub + 1
      BY <1>2, <1>13, <1>22
    <2>2. mode' = "args"
      BY <1>14, <1>22, <2>1
    <2>3. IsSeq(<<>>)
      BY Tuples
    <2>4. vals = done \o <<v>> /\ <<>> \o from[k + 1] = from[k + 1]
      BY <1>3, <1>13, <1>22, <2>3, JoinedAt
    <2>5. calls' = upto[k] /\ Left(argv', idx') = from[k + 1]
      BY <1>7, <1>18, <1>19, <1>20, <1>22, <2>4
    <2>6. Len(us) \in Nat
      BY UseFacts
    <2>7. k + 1 \in 1 .. Len(us) + 1 /\ (k + 1) - 1 = k
      BY <2>6
    <2>8. AtArgs(us, from, upto, Left(argv', idx'), calls')
      BY <2>5, <2>7 DEF AtArgs
    <2> QED
      BY <2>2, <2>8 DEF Where
  <1>23. CASE mode' = m /\ rest # <<>>
    <2>1. Len(rest) # 0
      BY <1>5, <1>23, EmptySeq, SeqParts
    <2>2. sub + 1 # n
      BY <1>2, <1>13, <1>14, <2>1
    <2>3. mode' = "values"
      BY <1>23, <2>2
    <2>4. PICK more : more = done \o <<v>>
      OBVIOUS
    <2>5. /\ ManyUse((table')[opt'], us[k]) /\ us[k].row = opt'
          /\ IsSeq(more) /\ IsSeq(rest) /\ us[k].values = more \o rest
          /\ Len(more) = sub' /\ rest # <<>>
          /\ Left(argv', idx') = rest \o from[k + 1]
          /\ calls' = upto[k - 1] \o CallsFor(opt', more)
      BY <1>2, <1>5, <1>7, <1>10, <1>13, <1>19, <1>20, <1>23, <2>4
    <2>6. AtValues(table', us, from, upto, opt', sub', Left(argv', idx'), calls')
      BY <2>5, Zenon DEF AtValues
    <2> QED
      BY <2>3, <2>6 DEF Where
  <1> QED
    BY <1>16, <1>21, <1>22, <1>23

LEMMA SomethingStands ==
    ASSUME NEW us, NEW from, NEW upto, Honouring(us, from, upto), NEW k \in 1 .. Len(us)
    PROVE  from[k] # <<>>
  <1>1. Stands(table[us[k].row], us[k], from[k], from[k + 1]) /\ IsSeq(from[k + 1])
    BY StandsAt
  <1>2. \A e, w : IsSeq(w) => <<e>> \o w # <<>>
    BY FirstAndRest
  <1>3. PICK e, w : IsSeq(w) /\ from[k] = <<e>> \o w
    <2>1. CASE PlainStands(table[us[k].row], us[k], from[k], from[k + 1])
      BY <1>1, <2>1, Zenon DEF PlainStands
    <2>2. CASE OptionStands(table[us[k].row], us[k], from[k], from[k + 1])
      BY <2>2, Zenon DEF OptionStands
    <2> QED
      BY <1>1, <2>1, <2>2, Zenon DEF Stands
  <1> QED
    BY <1>2, <1>3

\* When nothing is left of argv, all uses have been called.
LEMMA AllMeant ==
    ASSUME NEW us, NEW from, NEW upto, Honouring(us, from, upto), status = "NONE",
           AtArgs(us, from, upto, Left(argv, idx), calls), AllTaken
    PROVE  Where(us, from, upto)'
  <1>1. PICK k \in 1 .. Len(us) + 1 : Left(argv, idx) = from[k] /\ calls = upto[k - 1]
    BY DEF AtArgs
  <1>2. IsSeq(argv) /\ Len(argv) \in Nat /\ idx = Len(argv)
    BY SeqParts DEF Honouring, IsArgv, AllTaken
  <1>3. idx \in 0 .. Len(argv)
    BY <1>2
  <1>4. from[k] = <<>>
    BY <1>1, <1>2, <1>3, NoneLeft
  <1>5. /\ IsSeq(us) /\ Len(us) \in Nat /\ Calls(us, upto)
        /\ \A j \in 1 .. Len(us) : IsSeq(CallsOf(us[j]))
    BY UseFacts DEF Honouring
  <1>6. k \notin 1 .. Len(us)
    BY <1>4, SomethingStands
  <1>7. k - 1 = Len(us) /\ Len(us) \in 0 .. Len(us)
    BY <1>5, <1>6
  <1>8. IsPrefix(upto[Len(us)], upto[Len(us)])
    BY <1>5, <1>7, CallsPrefix
  <1>9. mode' = "over" /\ calls' = calls /\ status' = status
    BY Zenon DEF AllTaken
  <1>10. Ended(us, upto, calls', status')
    BY <1>1, <1>7, <1>8, <1>9 DEF Ended
  <1> QED
    BY <1>9, <1>10 DEF Where

LEMMA OutputMeant ==
    ASSUME NEW us, NEW from, NEW upto, Where(us, from, upto), Out \/ Flush
    PROVE  Where(us, from, upto)'
  <1>1. mode = "print" /\ calls' = calls
    BY Zenon DEF Out, Flush
  <1>2. \/ mode' = "over" /\ status' \in {"OUT", status}
        \/ mode' = "print" /\ status' = status
    <2>1. OutFails => mode' = "over" /\ status' \in {"OUT", status}
      BY DEF OutFails
    <2>2. ASSUME Out
          PROVE  OutFails \/ (mode' = mode /\ status' = status)
      BY <2>2, Zenon DEF Out
    <2>3. ASSUME Flush
          PROVE  OutFails \/ (mode' = "over" /\ status' = status)
      BY <2>3, Zenon DEF Flush
    <2> QED
      BY <1>1, <2>1, <2>2, <2>3
  <1>3. Ended(us, upto, calls, status)
    BY <1>1 DEF Where
  <1>4. Ended(us, upto, calls', status')
    BY <1>1, <1>2, <1>3 DEF Ended
  <1> QED
    BY <1>2, <1>4 DEF Where

\* Every step of the parser.
LEMMA StepMeant ==
    ASSUME CursorInv, OutputInv, ArgStep,
           NEW us, NEW from, NEW upto, Honouring(us, from, upto), Where(us, from, upto)
    PROVE  Where(us, from, upto)'
  <1>1. idx \in 0 .. Len(argv) /\ IsSeq(letters) /\ (mode = "letters" => letters # <<>>)
        /\ (mode = "args" => status = "NONE")
    BY DEF CursorInv, OutputInv
  <1>2. CASE Args
    <2>1. AtArgs(us, from, upto, Left(argv, idx), calls)
      BY <1>2 DEF Where, Args
    <2> QED
      BY <1>1, <1>2, <2>1, ArgsMeant
  <1>3. CASE Letters
    <2>1. AtLetters(us, from, upto, letters, Left(argv, idx), calls) /\ letters # <<>>
      BY <1>1, <1>3 DEF Where, Letters
    <2> QED
      BY <1>1, <1>3, <2>1, LettersMeant
  <1>4. CASE Values
    <2>1. AtValues(table, us, from, upto, opt, sub, Left(argv, idx), calls)
      BY <1>4 DEF Where, Values
    <2> QED
      BY <1>1, <1>4, <2>1, ValuesMeant
  <1>5. CASE AllTaken
    <2>1. AtArgs(us, from, upto, Left(argv, idx), calls) /\ status = "NONE"
      BY <1>1, <1>5 DEF Where, AllTaken
    <2> QED
      BY <1>5, <2>1, AllMeant
  <1>6. CASE Out \/ Flush
    BY <1>6, OutputMeant
  <1> QED
    BY <1>2, <1>3, <1>4, <1>5, <1>6 DEF ArgStep

-----------------------------------------------------------------------------
(* The table of mptest. *)

LEMMA RowParts ==
    ASSUME NEW short, NEW long, NEW n, NEW h, NEW v
    PROVE  /\ Option(short, long, n, h, v).type = "OPTIONAL"
           /\ Option(short, long, n, h, v).short = short
           /\ Option(short, long, n, h, v).long = long
  BY DEF Option

LEMMA RowsOfMptest ==
    /\ \A i \in 1 .. 7 : MptestTable[i].type = "OPTIONAL"
    /\ MptestTable[1].short = "t" /\ MptestTable[1].long = <<"test">>
    /\ MptestTable[2].short = "s" /\ MptestTable[2].long = <<"suite">>
    /\ MptestTable[3].short = NoLetter /\ MptestTable[3].long = <<"fault", "check">>
    /\ MptestTable[4].short = NoLetter /\ MptestTable[4].long = <<"leak", "check">>
    /\ MptestTable[5].short = NoLetter /\ MptestTable[5].long = <<"leak", "check", "pass">>
    /\ MptestTable[6].short = "h" /\ MptestTable[6].long = <<"help">>
    /\ MptestTable[7].short = NoLetter /\ MptestTable[7].long = <<"version">>
  <1>1. PICK r1, r2, r3, r4, r5, r6, r7 :
           /\ r1 = Option("t", <<"test">>, 1, "name", "NAME")
           /\ r2 = Option("s", <<"suite">>, 1, "name", "NAME")
           /\ r3 = BoolOption(<<"fault", "check">>) /\ r4 = BoolOption(<<"leak", "check">>)
           /\ r5 = BoolOption(<<"leak", "check", "pass">>)
           /\ r6 = HelpOption("h", <<"help">>) /\ r7 = VersionOption(<<"version">>)
    OBVIOUS
  <1>2. /\ r1.type = "OPTIONAL" /\ r1.short = "t" /\ r1.long = <<"test">>
        /\ r2.type = "OPTIONAL" /\ r2.short = "s" /\ r2.long = <<"suite">>
    BY <1>1, RowParts
  <1>3. /\ r3.type = "OPTIONAL" /\ r3.short = NoLetter /\ r3.long = <<"fault", "check">>
        /\ r4.type = "OPTIONAL" /\ r4.short = NoLetter /\ r4.long = <<"leak", "check">>
    BY <1>1, RowParts DEF BoolOption
  <1>4. r5.type = "OPTIONAL" /\ r5.short = NoLetter /\ r5.long = <<"leak", "check", "pass">>
    BY <1>1, RowParts DEF BoolOption
  <1>5. /\ r6.type = "OPTIONAL" /\ r6.short = "h" /\ r6.long = <<"help">>
        /\ r7.type = "OPTIONAL" /\ r7.short = NoLetter /\ r7.long = <<"version">>
    BY <1>1, RowParts DEF HelpOption, VersionOption
  <1>6. MptestTable = <<r1, r2, r3, r4, r5, r6, r7>>
    BY <1>1 DEF MptestTable
  <1>7. /\ MptestTable[1] = r1 /\ MptestTable[2] = r2 /\ MptestTable[3] = r3
        /\ MptestTable[4] = r4 /\ MptestTable[5] = r5 /\ MptestTable[6] = r6
        /\ MptestTable[7] = r7
    BY <1>6
  <1>8. \A i \in 1 .. 7 : i = 1 \/ i = 2 \/ i = 3 \/ i = 4 \/ i = 5 \/ i = 6 \/ i = 7
    OBVIOUS
  <1>9. \A i \in 1 .. 7 : MptestTable[i].type = "OPTIONAL"
    BY <1>2, <1>3, <1>4, <1>5, <1>7, <1>8
  <1> QED
    BY <1>2, <1>3, <1>4, <1>5, <1>7, <1>9

\* The names, told apart by their first symbol and their length.
LEMMA NamesOfMptest ==
    /\ \A i \in 1 .. 7 : "=" \notin ToSet(MptestTable[i].long) /\ MptestTable[i].short # "="
    /\ \A i, j \in 1 .. 7 : i # j => MptestTable[i].long # MptestTable[j].long
    /\ \A i, j \in 1 .. 7 : i # j =>
          (MptestTable[i].short = MptestTable[j].short => MptestTable[i].short = NoLetter)
  <1>1. \A i \in 1 .. 7 : i = 1 \/ i = 2 \/ i = 3 \/ i = 4 \/ i = 5 \/ i = 6 \/ i = 7
    OBVIOUS
  <1>2. \A a : "=" # a => "=" \notin ToSet(<<a>>)
    BY DEF ToSet
  <1>3. \A a, b : "=" # a /\ "=" # b => "=" \notin ToSet(<<a, b>>)
    BY DEF ToSet
  <1>4. \A a, b, c : "=" # a /\ "=" # b /\ "=" # c => "=" \notin ToSet(<<a, b, c>>)
    BY DEF ToSet
  <1>5. /\ "=" \notin ToSet(<<"test">>) /\ "=" \notin ToSet(<<"suite">>)
        /\ "=" \notin ToSet(<<"fault", "check">>) /\ "=" \notin ToSet(<<"leak", "check">>)
        /\ "=" \notin ToSet(<<"leak", "check", "pass">>)
        /\ "=" \notin ToSet(<<"help">>) /\ "=" \notin ToSet(<<"version">>)
    BY <1>2, <1>3, <1>4
  <1>6. \A i \in 1 .. 7 : "=" \notin ToSet(MptestTable[i].long)
    BY <1>1, <1>5, RowsOfMptest
  <1>7. \A i \in 1 .. 7 : MptestTable[i].short # "="
    BY <1>1, RowsOfMptest DEF NoLetter
  <1>8. \A i, j \in 1 .. 7 : i # j =>
          (MptestTable[i].short = MptestTable[j].short => MptestTable[i].short = NoLetter)
    BY <1>1, RowsOfMptest DEF NoLetter
  <1> DEFINE first == [i \in 1 .. 7 |-> MptestTable[i].long[1]]
             size == [i \in 1 .. 7 |-> Len(MptestTable[i].long)]
  <1>9. /\ first[1] = "test" /\ first[2] = "suite" /\ first[3] = "fault" /\ first[4] = "leak"
        /\ first[5] = "leak" /\ first[6] = "help" /\ first[7] = "version"
        /\ size[4] = 2 /\ size[5] = 3
    <2>1. /\ <<"test">>[1] = "test" /\ <<"suite">>[1] = "suite"
          /\ <<"fault", "check">>[1] = "fault" /\ <<"leak", "check">>[1] = "leak"
          /\ <<"leak", "check", "pass">>[1] = "leak" /\ <<"help">>[1] = "help"
          /\ <<"version">>[1] = "version"
          /\ Len(<<"leak", "check">>) = 2 /\ Len(<<"leak", "check", "pass">>) = 3
      OBVIOUS
    <2>2. /\ first[1] = MptestTable[1].long[1] /\ first[2] = MptestTable[2].long[1]
          /\ first[3] = MptestTable[3].long[1] /\ first[4] = MptestTable[4].long[1]
          /\ first[5] = MptestTable[5].long[1] /\ first[6] = MptestTable[6].long[1]
          /\ first[7] = MptestTable[7].long[1]
          /\ size[4] = Len(MptestTable[4].long) /\ size[5] = Len(MptestTable[5].long)
      OBVIOUS
    <2> HIDE DEF first, size
    <2>3. first[1] = "test" /\ first[2] = "suite" /\ first[3] = "fault" /\ first[4] = "leak"
      BY <2>1, <2>2, RowsOfMptest, Zenon
    <2>4. first[5] = "leak" /\ first[6] = "help" /\ first[7] = "version"
      BY <2>1, <2>2, RowsOfMptest, Zenon
    <2>5. size[4] = 2 /\ size[5] = 3
      BY <2>1, <2>2, RowsOfMptest, Zenon
    <2> QED
      BY <2>3, <2>4, <2>5
  <1>10. \A i, j \in 1 .. 7 : MptestTable[i].long = MptestTable[j].long =>
            first[i] = first[j] /\ size[i] = size[j]
    OBVIOUS
  <1>11. \A i, j \in 1 .. 7 : i # j => MptestTable[i].long # MptestTable[j].long
    <2> HIDE DEF first, size
    <2> QED
      BY <1>1, <1>9, <1>10
  <1> QED
    BY <1>6, <1>7, <1>8, <1>11

LEMMA MptestApart == Apart(MptestTable)
  <1>1. DOMAIN MptestTable = 1 .. 7
    BY MptestRows, SeqParts
  <1>2. \A i \in 1 .. 7 : MptestTable[i].type = "OPTIONAL"
    BY RowsOfMptest
  <1> QED
    BY <1>1, <1>2, NamesOfMptest, Zenon DEF Apart

-----------------------------------------------------------------------------
(* What the user means, from the beginning of a session on. *)

\* While what was meant is parsed, the parser is where it should be.
HonourInv ==
    intended /\ Complete /\ KeptOnly =>
       \E from, upto : Honouring(uses, from, upto) /\ Where(uses, from, upto)

\* A parser that begins with what is written for the uses us.
LEMMA MeantBegins ==
    ASSUME NEW t, IsTable(t), Apart(t), NEW us, Proper(t, us), IsArgv(Written(t, us)),
           ArgsBegin(t, Written(t, us)), uses' = us
    PROVE  HonourInv'
  <1> SUFFICES ASSUME KeptOnly'
               PROVE  \E from, upto : Honouring(us, from, upto)' /\ Where(us, from, upto)'
    BY DEF HonourInv
  <1>1. PICK from : Standing(t, us, from)
    BY UsesStand
  <1>2. IsSeq(us) /\ Len(us) \in Nat /\ DOMAIN us = 1 .. Len(us)
    BY SeqParts DEF Proper, IsSeq
  <1>3. \A k \in 1 .. Len(us) : IsSeq(us[k].values)
    BY UseShape, ValuesAreSeq
  <1>4. PICK upto : Calls(us, upto)
    BY <1>2, <1>3, MeantIs
  <1>5. table' = t /\ argv' = Written(t, us) /\ idx' = 0 /\ mode' = "args" /\ calls' = <<>>
    BY DEF ArgsBegin
  <1>6. \A k \in DOMAIN us : ~Unkept(t[us[k].row].nargs, us[k])
    BY <1>5 DEF KeptOnly
  <1>7. Honouring(us, from, upto)'
    BY <1>1, <1>4, <1>5, <1>6 DEF Honouring
  <1>8. Left(argv', idx') = from[1]
    <2>1. PICK a : a = argv'
      OBVIOUS
    <2>2. IsSeq(a) /\ a = from[1]
      BY <1>1, <1>5, <2>1 DEF IsArgv, Standing
    <2>3. Left(a, 0) = a
      BY <2>2, AllLeft
    <2> QED
      BY <1>5, <2>1, <2>2, <2>3
  <1>9. calls' = upto[0]
    BY <1>4, <1>5 DEF Calls
  <1>10. AtArgs(us, from, upto, Left(argv', idx'), calls')
    <2>1. 1 \in 1 .. Len(us) + 1 /\ 1 - 1 = 0
      BY <1>2
    <2> QED
      BY <1>8, <1>9, <2>1 DEF AtArgs
  <1>11. Where(us, from, upto)'
    BY <1>5, <1>10 DEF Where
  <1> QED
    BY <1>7, <1>11

\* With a table that memory ran out for, nothing is promised.
LEMMA PartBegins ==
    ASSUME NEW size \in 0 .. 7, size # 7, table' = SubSeq(MptestTable, 1, size)
    PROVE  HonourInv'
  <1>1. IsSeq(MptestTable) /\ Len(MptestTable) = 7
    BY MptestRows
  <1>2. Len(SubSeq(MptestTable, 1, size)) = size
    <2>1. PICK S, t : S = ToSet(MptestTable) /\ t = MptestTable
      OBVIOUS
    <2>2. t \in Seq(S) /\ Len(t) = 7
      BY <1>1, <2>1, SeqParts
    <2>3. \A i \in 1 .. size : t[i] \in S
      <3>1. \A i \in 1 .. size : i \in 1 .. Len(t)
        BY <2>2
      <3> QED
        BY <2>2, <3>1, ElementOfSeq
    <2>4. 1 \in Int /\ size \in Int
      OBVIOUS
    <2>5. Len(SubSeq(t, 1, size)) = IF 1 <= size THEN size - 1 + 1 ELSE 0
      BY <2>3, <2>4, SubSeqProperties
    <2> QED
      BY <2>1, <2>5
  <1>3. table' # MptestTable
    BY <1>1, <1>2
  <1>4. table' # OtherTable
    <2>1. size \in 0 .. Len(MptestTable) - 1
      BY <1>1
    <2>2. \A n \in 0 .. Len(MptestTable) - 1 : OtherTable # SubSeq(MptestTable, 1, n)
      BY MeaningAssumption, Zenon
    <2> QED
      BY <2>1, <2>2
  <1> QED
    BY <1>3, <1>4 DEF HonourInv, Complete

\* Arguments that nobody meant say nothing.
LEMMA NotIntended ==
    ASSUME intended' = FALSE
    PROVE  HonourInv'
  BY DEF HonourInv

LEMMA BeginsMeant ==
    ASSUME Begins
    PROVE  HonourInv'
  <1>1. ASSUME NEW us \in Given(MptestTable),
               MainBeginArgs(us, Written(MptestTable, us), TRUE)
        PROVE  HonourInv'
    <2>1. uses' = us
      BY <1>1 DEF MainBeginArgs
    <2>2. PICK lib \in Libraries : \E size \in Sizes(lib) :
             SetUp(lib, size, Written(MptestTable, us))
      BY <1>1, Zenon DEF MainBeginArgs
    <2>3. PICK size \in Sizes(lib) : SetUp(lib, size, Written(MptestTable, us))
      BY <2>2
    <2>4. ArgsBegin(SubSeq(MptestTable, 1, size), Written(MptestTable, us))
      BY <2>3, Zenon DEF SetUp
    <2>5. size \in 0 .. 7 /\ table' = SubSeq(MptestTable, 1, size)
      BY <2>4, MptestRows DEF Sizes, ArgsBegin
    <2>6. CASE size # 7
      BY <2>5, <2>6, PartBegins
    <2>7. CASE size = 7
      <3>1. IsSeq(MptestTable) /\ Len(MptestTable) = 7
        BY MptestRows
      <3>2. SubSeq(MptestTable, 1, size) = MptestTable
        <4>1. PICK S, t : S = ToSet(MptestTable) /\ t = MptestTable
          OBVIOUS
        <4>2. t \in Seq(S) /\ Len(t) = 7
          BY <3>1, <4>1, SeqParts
        <4>3. SubSeq(t, 1, Len(t)) = t
          BY <4>2, SubSeqFull
        <4> QED
          BY <2>7, <4>1, <4>2, <4>3
      <3>3. ArgsBegin(MptestTable, Written(MptestTable, us))
        BY <2>4, <3>2
      <3>4. IsTable(MptestTable)
        BY <2>3, <3>2, TablesOfSessions
      <3>5. IsArgv(Written(MptestTable, us)) /\ Proper(MptestTable, us)
        BY <1>1, ClientAssumption, MeaningAssumption, Zenon
      <3> QED
        BY <2>1, <3>3, <3>4, <3>5, MptestApart, MeantBegins
    <2> QED
      BY <2>6, <2>7
  <1>2. ASSUME NEW us \in Given(OtherTable), OtherBegins(us, Written(OtherTable, us), TRUE)
        PROVE  HonourInv'
    <2>1. uses' = us /\ ArgsBegin(OtherTable, Written(OtherTable, us))
      BY <1>2 DEF OtherBegins
    <2>2. IsArgv(Written(OtherTable, us)) /\ Proper(OtherTable, us)
      BY <1>2, ClientAssumption, MeaningAssumption, Zenon
    <2>3. IsTable(OtherTable) /\ Apart(OtherTable)
      BY ClientAssumption, MeaningAssumption, Zenon
    <2> QED
      BY <2>1, <2>2, <2>3, MeantBegins
  <1>3. ASSUME \/ MainBegin \/ MainBeginNoArgs
               \/ \E a \in Stray(MptestTable) : MainBeginArgs(<<>>, a, FALSE)
               \/ \E a \in Stray(OtherTable) : OtherBegins(<<>>, a, FALSE)
        PROVE  HonourInv'
    <2>1. intended' = FALSE
      BY <1>3, Zenon DEF MainBegin, MainBeginNoArgs, MainBeginArgs, OtherBegins
    <2> QED
      BY <2>1, NotIntended
  <1> QED
    BY <1>1, <1>2, <1>3, Zenon DEF Begins

LEMMA IntentStays ==
    ASSUME Parsing \/ Parsed \/ NotParsed \/ RunAll \/ MainEnd \/ UNCHANGED vars
    PROVE  UNCHANGED <<uses, intended>>
  <1>1. ASSUME NEW c, NEW s, Handle(c, s)
        PROVE  UNCHANGED stageVars
    BY <1>1, Zenon DEF Handle, Crash, AppendName
  <1>2. CASE Parsing
    <2>1. UNCHANGED stageVars
      BY <1>1, <1>2, Zenon DEF Parsing
    <2> QED
      BY <2>1 DEF stageVars
  <1>3. CASE Parsed
    BY <1>3 DEF Parsed
  <1>4. CASE NotParsed \/ UNCHANGED vars
    <2>1. UNCHANGED stageVars
      BY <1>4, Zenon DEF NotParsed, vars
    <2> QED
      BY <2>1 DEF stageVars
  <1>5. CASE RunAll
    BY <1>5 DEF RunAll, Crash, stageVars
  <1>6. CASE MainEnd
    BY <1>6 DEF MainEnd, Crash, stageVars
  <1> QED
    BY <1>2, <1>3, <1>4, <1>5, <1>6

LEMMA MeantStays ==
    ASSUME HonourInv, UNCHANGED argVars, UNCHANGED <<uses, intended>>
    PROVE  HonourInv'
  <1>1. /\ UNCHANGED <<table, argv, idx, mode, letters, opt, sub, calls, status>>
    BY DEF argVars
  <1> SUFFICES ASSUME intended', Complete', KeptOnly'
               PROVE  \E from, upto : Honouring(uses, from, upto)' /\ Where(uses, from, upto)'
    BY DEF HonourInv
  <1>2. intended /\ Complete /\ KeptOnly
    BY <1>1 DEF Complete, KeptOnly
  <1>3. PICK from, upto : Honouring(uses, from, upto) /\ Where(uses, from, upto)
    BY <1>2 DEF HonourInv
  <1>4. Honouring(uses, from, upto)'
    BY <1>1, <1>3 DEF Honouring
  <1>5. Where(uses, from, upto)'
    BY <1>1, <1>3 DEF Where
  <1> QED
    BY <1>4, <1>5

LEMMA ParsingMeant ==
    ASSUME CursorInv, OutputInv, HonourInv, Parsing
    PROVE  HonourInv'
  <1>1. UNCHANGED <<uses, intended>>
    BY IntentStays
  <1>2. ArgStep
    BY DEF Parsing
  <1>3. UNCHANGED <<table, argv>>
    BY <1>2, ArgStepKeeps
  <1> SUFFICES ASSUME intended', Complete', KeptOnly'
               PROVE  \E from, upto : Honouring(uses, from, upto)' /\ Where(uses, from, upto)'
    BY DEF HonourInv
  <1>4. intended /\ Complete /\ KeptOnly
    BY <1>1, <1>3 DEF Complete, KeptOnly
  <1>5. PICK from, upto : Honouring(uses, from, upto) /\ Where(uses, from, upto)
    BY <1>4 DEF HonourInv
  <1>6. PICK us : us = uses
    OBVIOUS
  <1>7. Where(us, from, upto)'
    BY <1>2, <1>5, <1>6, StepMeant
  <1>8. Honouring(us, from, upto)'
    BY <1>3, <1>5, <1>6 DEF Honouring
  <1>9. uses' = us
    BY <1>1, <1>6
  <1>10. Where(uses, from, upto)' /\ Honouring(uses, from, upto)'
    BY <1>7, <1>8, <1>9 DEF Where, Honouring
  <1> QED
    BY <1>10

-----------------------------------------------------------------------------
(* Of any arguments: no positional is left out. *)

\* A handler was called with e; each positional of the first j elements was taken.
Heard(e, cs) == \E k \in DOMAIN cs : cs[k].text = e
Taken(a, j, cs) == \A i \in 1 .. j : IsPositional(a[i]) => Heard(a[i], cs)
TakenInv ==
    status = "NONE" => Taken(argv, idx, calls) /\ (mode = "over" => idx = Len(argv))

HonouredInv == HonourInv /\ TakenInv

LEMMA HeardMore ==
    ASSUME NEW cs, IsSeq(cs), NEW c
    PROVE  /\ Heard(c.text, Append(cs, c))
           /\ \A e : Heard(e, cs) => Heard(e, Append(cs, c))
  <1>1. PICK ds : ds = Append(cs, c)
    OBVIOUS
  <1>2. ds = cs \o <<c>>
    BY <1>1, LastOne
  <1>3. /\ IsSeq(ds) /\ Len(ds) = Len(cs) + 1 /\ Len(cs) \in Nat
        /\ \A i \in 1 .. Len(cs) : ds[i] = cs[i]
        /\ ds[Len(cs) + 1] = c
    BY <1>2, JoinOne
  <1>4. DOMAIN cs = 1 .. Len(cs) /\ DOMAIN ds = 1 .. Len(cs) + 1
    BY <1>3, SeqParts
  <1>5. Heard(c.text, ds)
    <2>1. Len(cs) + 1 \in DOMAIN ds
      BY <1>3, <1>4
    <2> QED
      BY <1>3, <2>1 DEF Heard
  <1>6. ASSUME NEW e, Heard(e, cs)
        PROVE  Heard(e, ds)
    <2>1. PICK k \in DOMAIN cs : cs[k].text = e
      BY <1>6 DEF Heard
    <2>2. k \in DOMAIN ds /\ ds[k] = cs[k]
      BY <1>3, <1>4, <2>1
    <2> QED
      BY <2>1, <2>2 DEF Heard
  <1> QED
    BY <1>1, <1>5, <1>6

LEMMA InvokeHeard ==
    ASSUME IsSeq(calls), NEW r, NEW k, NEW text, NEW m, Invoke(r, k, text, m)
    PROVE  Heard(text, calls') /\ \A e : Heard(e, calls) => Heard(e, calls')
  <1>1. PICK c : c = [row |-> r, sub |-> k, text |-> text]
    OBVIOUS
  <1>2. calls' = Append(calls, c) /\ c.text = text
    BY <1>1 DEF Invoke
  <1> QED
    BY <1>2, HeardMore

\* Every call stays, and the values that are taken are called.
Grows == \A e : Heard(e, calls) => Heard(e, calls')

LEMMA InvokeGrows ==
    ASSUME IsSeq(calls), NEW r, NEW k, NEW text, NEW m, Invoke(r, k, text, m)
    PROVE  Grows /\ Heard(text, calls')
  BY InvokeHeard DEF Grows

LEMMA MetTakes ==
    ASSUME IsSeq(calls), NEW r, NEW rest, NEW next, Met(r, rest, next)
    PROVE  Grows /\ (idx' = next \/ (idx' = next + 1 /\ Heard(argv[next + 1], calls')))
  <1>1. calls' = calls => Grows
    BY DEF Grows
  <1>2. ASSUME NEW k, NEW text, NEW m, Invoke(r, k, text, m)
        PROVE  Grows /\ Heard(text, calls')
    BY <1>2, InvokeGrows
  <1>3. \A msg : Refuse(msg) => Grows
    BY <1>1 DEF Refuse
  <1>4. CASE WithEquals(r, rest, next)
    <2>1. Grows /\ idx' = next
      BY <1>3, <1>4, Zenon DEF WithEquals
    <2> QED
      BY <2>1
  <1>5. CASE WithEqualsValue(r, rest, next)
    <2>1. Grows /\ idx' = next
      BY <1>2, <1>5, Zenon DEF WithEqualsValue
    <2> QED
      BY <2>1
  <1>6. CASE WithRest(r, rest, next)
    <2>1. Grows /\ idx' = next
      BY <1>2, <1>3, <1>6, Zenon DEF WithRest
    <2> QED
      BY <2>1
  <1>7. CASE WithoutValue(r, rest, next)
    <2>1. Grows /\ idx' = next
      BY <1>2, <1>3, <1>7, Zenon DEF WithoutValue
    <2> QED
      BY <2>1
  <1>8. CASE WithValue(r, rest, next)
    <2>1. \/ Invoke(r, 0, argv[next + 1], "args") /\ idx' = next + 1
          \/ Invoke(r, 0, NoText, "args") /\ idx' = next
          \/ calls' = calls /\ idx' = next
      BY <1>8, Zenon DEF WithValue
    <2>2. CASE Invoke(r, 0, argv[next + 1], "args") /\ idx' = next + 1
      BY <1>2, <2>2
    <2>3. CASE Invoke(r, 0, NoText, "args") /\ idx' = next
      BY <1>2, <2>3
    <2>4. CASE calls' = calls /\ idx' = next
      BY <1>1, <2>4
    <2> QED
      BY <2>1, <2>2, <2>3, <2>4
  <1> QED
    BY <1>4, <1>5, <1>6, <1>7, <1>8 DEF Met

\* One element taken: it is no positional, or it is heard.
LEMMA TakenOne ==
    ASSUME Grows, idx \in Nat, Taken(argv, idx, calls), NEW j, j = idx + 1,
           IsPositional(argv[j]) => Heard(argv[j], calls')
    PROVE  Taken(argv, j, calls')
  <1>1. ASSUME NEW i \in 1 .. j, IsPositional(argv[i])
        PROVE  Heard(argv[i], calls')
    <2>1. CASE i = j
      BY <1>1, <2>1
    <2>2. CASE i # j
      <3>1. i \in 1 .. idx
        BY <2>2
      <3>2. Heard(argv[i], calls)
        BY <1>1, <3>1 DEF Taken
      <3> QED
        BY <3>2 DEF Grows
    <2> QED
      BY <2>1, <2>2
  <1> QED
    BY <1>1 DEF Taken

LEMMA TakenStill ==
    ASSUME Grows, Taken(argv, idx, calls)
    PROVE  Taken(argv, idx, calls')
  BY DEF Grows, Taken

\* The element after those of a Taken prefix.
LEMMA TakenNext ==
    ASSUME NEW a, NEW cs, NEW j \in Nat, Taken(a, j, cs), Heard(a[j + 1], cs)
    PROVE  Taken(a, j + 1, cs)
  <1>1. ASSUME NEW i \in 1 .. j + 1, IsPositional(a[i])
        PROVE  Heard(a[i], cs)
    <2>1. CASE i = j + 1
      BY <2>1
    <2>2. CASE i # j + 1
      <3>1. i \in 1 .. j
        BY <2>2
      <3> QED
        BY <1>1, <3>1 DEF Taken
    <2> QED
      BY <2>1, <2>2
  <1> QED
    BY <1>1 DEF Taken

LEMMA ElementTaken ==
    ASSUME CursorInv, Taken(argv, idx, calls), Args \/ Letters \/ Values, status' = "NONE"
    PROVE  Taken(argv, idx', calls')
  <1>1. idx \in Nat /\ IsSeq(calls)
    <2>1. Len(argv) \in Nat
      BY SeqParts DEF CursorInv, IsArgv
    <2> QED
      BY <2>1 DEF CursorInv
  <1>2. \A msg : ~Refuse(msg)
    BY DEF Refuse, Say
  <1>3. ASSUME NEW r, NEW k, NEW text, NEW m, Invoke(r, k, text, m)
        PROVE  Grows /\ Heard(text, calls')
    BY <1>1, <1>3, InvokeGrows
  <1>4. calls' = calls => Grows
    BY DEF Grows
  <1>5. ASSUME NEW r, NEW rest, NEW next \in Nat, Met(r, rest, next),
               Grows => Taken(argv, next, calls')
        PROVE  Taken(argv, idx', calls')
    <2>1. Grows /\ (idx' = next \/ (idx' = next + 1 /\ Heard(argv[next + 1], calls')))
      BY <1>1, <1>5, MetTakes
    <2>2. Taken(argv, next, calls')
      BY <1>5, <2>1
    <2>3. CASE idx' = next
      BY <2>2, <2>3
    <2>4. CASE idx' = next + 1 /\ Heard(argv[next + 1], calls')
      BY <2>2, <2>4, TakenNext
    <2> QED
      BY <2>1, <2>3, <2>4
  <1>6. CASE Args
    <2>1. PICK e, j : e = argv[idx + 1] /\ j = idx + 1
      OBVIOUS
    <2>2. Plain(e) \/ Short(e) \/ Long(e)
      BY <1>6, <2>1 DEF Args
    <2>3. j \in Nat
      BY <1>1, <2>1
    <2>4. CASE Plain(e)
      <3>1. Invoke(PositionalRow, 0, e, "args") /\ idx' = j
        BY <1>2, <2>1, <2>4 DEF Plain
      <3>2. Grows /\ Heard(e, calls')
        BY <1>3, <3>1
      <3>3. Taken(argv, j, calls')
        BY <1>1, <2>1, <3>2, TakenOne
      <3> QED
        BY <3>1, <3>3
    <2>5. ~IsPositional(e) => (Grows => Taken(argv, j, calls'))
      BY <1>1, <2>1, TakenOne
    <2>6. CASE Short(e)
      <3>1. ~IsPositional(e) /\ idx' = j /\ calls' = calls
        BY <2>1, <2>6 DEF Short
      <3> QED
        BY <1>4, <2>5, <3>1
    <2>7. CASE Long(e)
      <3>1. ~IsPositional(e)
        BY <2>7, Zenon DEF Long
      <3>2. PICK r, rest : Met(r, rest, j)
        BY <1>2, <2>1, <2>7, Zenon DEF Long
      <3> QED
        BY <1>5, <2>3, <2>5, <3>1, <3>2
    <2> QED
      BY <2>2, <2>4, <2>6, <2>7
  <1>7. CASE Letters
    <2>1. PICK r, rest : Met(r, rest, idx)
      BY <1>2, <1>7, Zenon DEF Letters
    <2>2. Grows => Taken(argv, idx, calls')
      BY TakenStill
    <2> QED
      BY <1>1, <1>5, <2>1, <2>2
  <1>8. CASE Values
    <2>1. PICK m : Invoke(opt, sub, argv[idx + 1], m) /\ idx' = idx + 1
      BY <1>2, <1>8, Zenon DEF Values
    <2>2. Grows /\ Heard(argv[idx + 1], calls')
      BY <1>3, <2>1
    <2> QED
      BY <1>1, <2>1, <2>2, TakenOne
  <1> QED
    BY <1>6, <1>7, <1>8

\* Every step of the parser takes what it passes.
LEMMA StepTaken ==
    ASSUME CursorInv, OutputInv, TakenInv, ArgStep
    PROVE  TakenInv'
  <1> SUFFICES ASSUME status' = "NONE"
               PROVE  Taken(argv', idx', calls') /\ (mode' = "over" => idx' = Len(argv'))
    BY DEF TakenInv
  <1>1. status = "NONE" /\ UNCHANGED <<table, argv>>
    BY ArgStepKeeps
  <1>2. Taken(argv, idx, calls)
    BY <1>1 DEF TakenInv
  <1>3. CASE Args \/ Letters \/ Values
    <2>1. Taken(argv, idx', calls')
      BY <1>2, <1>3, ElementTaken
    <2>2. mode' # "over"
      <3>1. mode \in {"args", "letters", "values"}
        BY <1>3 DEF Args, Letters, Values
      <3>2. PICK m : Moved(m)
        BY <1>3, ArgsMoves, LettersMoves, ValuesMoves
      <3>3. mode' = m \/ status' # "NONE"
        BY <3>2 DEF Moved, Outcome, Goes, GivesUp, Speaks, Say
      <3> QED
        BY <3>2, <3>3 DEF Moved
    <2> QED
      BY <1>1, <2>1, <2>2
  <1>4. CASE AllTaken
    <2>1. idx = Len(argv) /\ UNCHANGED <<argv, idx, calls>>
      BY <1>4, Zenon DEF AllTaken
    <2> QED
      BY <1>2, <2>1
  <1>5. CASE Out \/ Flush
    <2>1. mode = "print"
      BY <1>5, Zenon DEF Out, Flush
    <2> QED
      BY <1>1, <2>1 DEF OutputInv
  <1> QED
    BY <1>3, <1>4, <1>5 DEF ArgStep

LEMMA TakenBegins ==
    ASSUME NEW t, NEW a, ArgsBegin(t, a)
    PROVE  TakenInv'
  <1>1. idx' = 0 /\ mode' = "args"
    BY DEF ArgsBegin
  <1>2. 1 .. 0 = {}
    OBVIOUS
  <1> QED
    BY <1>1, <1>2 DEF TakenInv, Taken

LEMMA HonouredStep ==
    ASSUME CursorInv, OutputInv, HonouredInv, [Next]_vars
    PROVE  HonouredInv'
  <1>1. HonourInv /\ TakenInv
    BY DEF HonouredInv
  <1>2. CASE Begins
    <2>1. HonourInv'
      BY <1>2, BeginsMeant
    <2>2. TakenInv'
      BY <1>2, BeginsBegin, TakenBegins
    <2> QED
      BY <2>1, <2>2 DEF HonouredInv
  <1>3. CASE Parsing
    <2>1. HonourInv'
      BY <1>1, <1>3, ParsingMeant
    <2>2. TakenInv'
      BY <1>1, <1>3, StepTaken DEF Parsing
    <2> QED
      BY <2>1, <2>2 DEF HonouredInv
  <1>4. CASE Parsed \/ NotParsed \/ RunAll \/ MainEnd \/ UNCHANGED vars
    <2>1. UNCHANGED argVars
      BY <1>4, Zenon DEF Parsed, NotParsed, RunAll, MainEnd, vars
    <2>2. UNCHANGED <<uses, intended>>
      BY <1>4, IntentStays
    <2>3. HonourInv'
      BY <1>1, <2>1, <2>2, MeantStays
    <2>4. UNCHANGED <<argv, idx, calls, mode, status>>
      BY <2>1 DEF argVars
    <2>5. TakenInv'
      BY <1>1, <2>4 DEF TakenInv
    <2> QED
      BY <2>3, <2>5 DEF HonouredInv
  <1> QED
    BY <1>2, <1>3, <1>4 DEF Next

LEMMA HonouredInit ==
    ASSUME Init
    PROVE  HonouredInv
  <1>1. intended = FALSE /\ idx = 0 /\ mode = "idle"
    BY DEF Init, ArgInit
  <1>2. HonourInv
    BY <1>1 DEF HonourInv
  <1>3. TakenInv
    BY <1>1 DEF TakenInv, Taken
  <1> QED
    BY <1>2, <1>3 DEF HonouredInv

LEMMA HonouredInvImplies ==
    ASSUME CursorInv, HonouredInv
    PROVE  ArgumentsHonoured
  <1>1. HonourInv /\ TakenInv
    BY DEF HonouredInv
  <1> SUFFICES ASSUME mode = "over", Complete
               PROVE  /\ intended /\ KeptOnly =>
                            /\ IsPrefix(calls, Meant(uses))
                            /\ status = "NONE" => calls = Meant(uses)
                            /\ status # "PARSE"
                      /\ status = "NONE" =>
                            {e \in ToSet(argv) : IsPositional(e)} \subseteq
                            {calls[k].text : k \in DOMAIN calls}
    BY DEF ArgumentsHonoured
  <1>2. ASSUME intended, KeptOnly
        PROVE  /\ IsPrefix(calls, Meant(uses))
               /\ status = "NONE" => calls = Meant(uses)
               /\ status # "PARSE"
    <2>1. PICK from, upto : Honouring(uses, from, upto) /\ Where(uses, from, upto)
      BY <1>1, <1>2 DEF HonourInv
    <2>2. Ended(uses, upto, calls, status)
      BY <2>1 DEF Where
    <2>3. Meant(uses) = upto[Len(uses)]
      BY <2>1 DEF Honouring, Calls
    <2> QED
      BY <2>2, <2>3 DEF Ended
  <1>3. ASSUME status = "NONE", NEW e \in ToSet(argv), IsPositional(e)
        PROVE  e \in {calls[k].text : k \in DOMAIN calls}
    <2>1. Taken(argv, idx, calls) /\ idx = Len(argv)
      BY <1>1, <1>3 DEF TakenInv
    <2>2. IsSeq(argv)
      BY DEF CursorInv, IsArgv
    <2>3. PICK i \in 1 .. Len(argv) : argv[i] = e
      BY <1>3, <2>2, SeqParts DEF ToSet
    <2>4. Heard(e, calls)
      BY <1>3, <2>1, <2>3 DEF Taken
    <2> QED
      BY <2>4 DEF Heard
  <1> QED
    BY <1>2, <1>3

\* aparse__parse_argv calls the handlers with what the user means, once each and
\* in that order, in whatever way it is written (but for a list of values in
\* elements of their own, which the parser does not keep); a parse that ends
\* early has called the first of them, and is no PARSE error.  No positional of
\* arguments that parse is left out.
THEOREM ArgumentsHonouredThm == Spec => []ArgumentsHonoured
  <1>1. Init => CursorInv /\ OutputInv /\ HonouredInv
    BY ParserInit, HonouredInit
  <1>2. CursorInv /\ OutputInv /\ HonouredInv /\ [Next]_vars
           => (CursorInv /\ OutputInv /\ HonouredInv)'
    BY ParserStep, HonouredStep
  <1>3. CursorInv /\ OutputInv /\ HonouredInv => ArgumentsHonoured
    BY HonouredInvImplies
  <1> QED
    BY <1>1, <1>2, <1>3, PTL DEF Spec
=============================================================================
