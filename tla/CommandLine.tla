---------------------------- MODULE CommandLine ----------------------------
(***************************************************************************)
(* The command line of a test program (mptest_aparse.c): the table of its  *)
(* options is built when the runner is initialised, the arguments set the  *)
(* lists of names and the modes of the runner, and the lists choose what   *)
(* runs.  A program may run several sessions, from MAIN_BEGIN to MAIN_END; *)
(* the state of the runner is static, so what a session leaves is what the *)
(* next one finds.  Another client of the library, whose table has all the *)
(* kinds of arguments, takes the place of mptest in some behaviours.       *)
(***************************************************************************)
EXTENDS ArgParse, ArgUse, CStrings

CONSTANTS OtherTable,     \* the arguments of the other client
          Given(_),       \* what the user may mean, for a table
          Stray(_),       \* further argument lists, for a table
          TestNames, SuiteNames,    \* the tests and suites of the program
          MaxSessions,    \* bound: sessions of a program
          MaxLater        \* bound: elements of argv in a later session, or with
                          \* an incomplete table

VARIABLES phase,          \* where the program is: see Phases
          session,        \* the number of sessions begun
          uses,           \* what the user means, if intended
          intended,
          library,        \* what aparse_init has allocated
          nodes,          \* the name nodes in memory
          next_node,      \* nodes get the numbers 1, 2, ..., none twice
          head, tail,     \* opt_test_name_head and its three fellows
          opts,           \* opt_fault_check, opt_leak_check, opt_leak_check_pass
          modes,          \* fault_checking, test_leak_checking, fall_through
          ran             \* the tests and suites that were not filtered out

listVars == <<nodes, next_node, head, tail>>
clientVars == <<listVars, opts>>
stageVars == <<session, uses, intended, library, modes, ran>>
vars == <<argVars, phase, clientVars, stageVars>>

\* What makes a table, and an argv.
IsSeq(s) == s \in Seq(ToSet(s))
IsTable(t) ==
    /\ IsSeq(t)
    /\ \A row \in ToSet(t) :
          /\ row.type \in {"OPTIONAL", "POSITIONAL"} /\ IsSeq(row.long) /\ row.nargs \in Int
          /\ row.handler \in {"bool", "custom", "help", "name", "str", "version"}
IsArgv(a) == IsSeq(a) /\ \A e \in ToSet(a) : e.dash \in 0 .. 2 /\ IsSeq(e.syms)

Phases == {"off", "parse", "running", "ran", "exited", "crashed"}
Lists == {"test", "suite"}
Switches == {"fault", "leak", "pass"}
Null == 0

\* The table of mptest__aparse_init.
MptestTable == <<
    Option("t", <<"test">>, 1, "name", "NAME"),
    Option("s", <<"suite">>, 1, "name", "NAME"),
    BoolOption(<<"fault", "check">>),
    BoolOption(<<"leak", "check">>),
    BoolOption(<<"leak", "check", "pass">>),
    HelpOption("h", <<"help">>),
    VersionOption(<<"version">>)>>
ASSUME ClientAssumption ==
    /\ IsTable(OtherTable)
    /\ \A t \in {MptestTable, OtherTable} :
          /\ \A us \in Given(t) : IsArgv(Written(t, us))
          /\ \A a \in Stray(t) : IsArgv(a)
\* What is meant can be told from the table, and the other client's table is not
\* what is left of that of mptest when memory is refused.
ASSUME MeaningAssumption ==
    /\ Apart(OtherTable)
    /\ \A size \in 0 .. Len(MptestTable) - 1 : OtherTable # SubSeq(MptestTable, 1, size)
    /\ \A t \in {MptestTable, OtherTable} : \A us \in Given(t) : Proper(t, us)
ASSUME SessionsAssumption == MaxSessions \in Nat \ {0}

ListOf(row) == IF row.short = "t" THEN "test" ELSE "suite"
SwitchOf(row) == IF row.long = <<"fault", "check">> THEN "fault"
                 ELSE IF row.long = <<"leak", "check">> THEN "leak" ELSE "pass"

Crash == /\ phase' = "crashed"
         /\ UNCHANGED <<clientVars, stageVars>>

\* The nodes of a list from its head on, as long as they are there.
Reached(first) ==
    LET from[k \in 0 .. next_node] ==
            IF k \notin DOMAIN nodes THEN {} ELSE {k} \cup from[nodes[k].next]
    IN from[first]
Dangling(l) == head[l] # Null /\ head[l] \notin DOMAIN nodes

-----------------------------------------------------------------------------
(* Setting up. *)

Switch(name, on) == [opts EXCEPT ![name] = on]

\* aparse_init allocates the parser and then its root.
Libraries == {"none", "no root", "made"}

\* Each option is allocated when it is added, and the first that is refused is
\* the end of the table.
Sizes(lib) == IF lib = "made" THEN 0 .. Len(MptestTable) ELSE {0}

\* mptest__state_init, in which what the library made of its setup is ignored.
\* The head of the list of suites and two of the switches are left as they are.
SetUp(lib, size, a) ==
    /\ library' = lib /\ session' = session + 1
    /\ ArgsBegin(SubSeq(MptestTable, 1, size), a)
    /\ head' = [head EXCEPT !["test"] = Null]
    /\ tail' = [l \in Lists |-> Null]
    /\ opts' = Switch("leak", 0)
    /\ modes' = [s \in Switches |-> FALSE]
    /\ ran' = [l \in Lists |-> {}]
    /\ UNCHANGED <<nodes, next_node>>

\* MPTEST_MAIN_BEGIN.
MainBegin ==
    /\ phase = "off" /\ session < MaxSessions
    /\ \E lib \in Libraries : \E size \in Sizes(lib) : SetUp(lib, size, <<>>)
    /\ phase' = "running" /\ uses' = <<>> /\ intended' = FALSE

\* MPTEST_MAIN_BEGIN_ARGS up to the parser, which needs what aparse_init makes.
MainBeginArgs(us, a, meant) ==
    /\ phase = "off" /\ session < MaxSessions
    /\ uses' = us /\ intended' = meant
    /\ \E lib \in Libraries : \E size \in Sizes(lib) :
          /\ session > 0 \/ size < Len(MptestTable) => Len(a) <= MaxLater
          /\ SetUp(lib, size, a)
          /\ phase' = IF lib = "made" THEN "parse" ELSE "crashed"

\* argc is 0: aparse_parse returns APARSE_ERROR_INVALID, and main returns.
MainBeginNoArgs ==
    /\ phase = "off" /\ session < MaxSessions
    /\ \E lib \in Libraries : \E size \in Sizes(lib) : SetUp(lib, size, <<>>)
    /\ phase' = "exited" /\ uses' = <<>> /\ intended' = FALSE

\* The other client parses its arguments, and that is all it does.
OtherBegins(us, a, meant) ==
    /\ phase = "off" /\ session = 0
    /\ uses' = us /\ intended' = meant
    /\ ArgsBegin(OtherTable, a)
    /\ phase' = "parse" /\ session' = MaxSessions /\ library' = "made"
    /\ UNCHANGED <<clientVars, modes, ran>>

-----------------------------------------------------------------------------
(* Parsing. *)

\* A node behind the tail of list l, or as its first.
LinkName(l, name) ==
    /\ nodes' = [k \in DOMAIN nodes \cup {next_node} |->
                    IF k = next_node THEN [name |-> name, next |-> Null]
                    ELSE IF k = tail[l] THEN [nodes[k] EXCEPT !.next = next_node]
                    ELSE nodes[k]]
    /\ next_node' = next_node + 1
    /\ head' = IF head[l] = Null THEN [head EXCEPT ![l] = next_node] ELSE head

\* Mutant: the tail stays where it is.
AppendNameHead(l, name) ==
    /\ LinkName(l, name)
    /\ tail' = IF head[l] = Null THEN [tail EXCEPT ![l] = next_node] ELSE tail
    /\ UNCHANGED <<phase, opts, stageVars>>

\* mptest__aparse_opt_test_cb and _suite_cb.
AppendName(l, name) ==
    /\ LinkName(l, name)
    /\ tail' = [tail EXCEPT ![l] = next_node]
    /\ UNCHANGED <<phase, opts, stageVars>>

\* What the handler of the call c does to the program, when it returned s.
Handle(c, s) ==
    LET row == table[c.row] IN
    \/ /\ row.handler = "name" /\ s # "NOMEM"
       /\ IF head[ListOf(row)] # Null /\ tail[ListOf(row)] = Null THEN Crash
          ELSE AppendName(ListOf(row), c.text)
    \/ /\ row.handler = "bool" /\ s = "NONE"
       /\ opts' = Switch(SwitchOf(row), IF c.text = Text(<<"0">>) THEN 0 ELSE 1)
       /\ UNCHANGED <<phase, listVars, stageVars>>
    \/ /\ row.handler \notin {"name", "bool"} \/ s \notin {"NONE"}
       /\ UNCHANGED <<phase, clientVars, stageVars>>

Parsing ==
    /\ phase = "parse"
    /\ ArgStep
    /\ \/ calls' = calls /\ UNCHANGED <<phase, clientVars, stageVars>>
       \/ calls' # calls /\ Handle(Last(calls'), status')

\* mptest__state_init_argv after a parse without errors.
Parsed ==
    /\ phase = "parse" /\ mode = "over" /\ status = "NONE"
    /\ modes' = [s \in Switches |-> opts[s] = 1]
    /\ phase' = "running"
    /\ UNCHANGED <<argVars, clientVars, session, uses, intended, library, ran>>

\* Any other outcome: MPTEST_MAIN_BEGIN_ARGS returns from main, and nothing is
\* destroyed.
NotParsed ==
    /\ phase = "parse" /\ mode = "over" /\ status # "NONE"
    /\ phase' = "exited"
    /\ UNCHANGED <<argVars, clientVars, stageVars>>

-----------------------------------------------------------------------------
(* Running, and the end of a session. *)

\* mptest__aparse_match_test_name and _suite_name.
Matches(l, name) ==
    head[l] = Null
    \/ \E k \in Reached(head[l]) : StrStr(name, Spelled(nodes[k].name))

RunAll ==
    /\ phase = "running"
    /\ IF \E l \in Lists : Dangling(l) THEN Crash /\ UNCHANGED argVars
       ELSE /\ ran' = [l \in Lists |->
                 {n \in IF l = "test" THEN TestNames ELSE SuiteNames : Matches(l, n)}]
            /\ phase' = "ran"
            /\ UNCHANGED <<argVars, clientVars, session, uses, intended, library, modes>>

\* Mutant: the suites' names are not freed.
MainEndTests ==
    /\ phase = "ran"
    /\ nodes' = [k \in DOMAIN nodes \ Reached(head["test"]) |-> nodes[k]]
    /\ phase' = "off"
    /\ UNCHANGED <<argVars, next_node, head, tail, opts, stageVars>>

\* aparse_destroy reads the parser it is to free.
DestroyDefined == library # "none"

\* mptest__aparse_destroy.  The heads keep pointing where they did.
MainEnd ==
    /\ phase = "ran"
    /\ IF ~DestroyDefined \/ \E l \in Lists : Dangling(l)
       THEN Crash
       ELSE /\ nodes' = [k \in DOMAIN nodes \ UNION {Reached(head[l]) : l \in Lists}
                            |-> nodes[k]]
            /\ phase' = "off"
            /\ UNCHANGED <<next_node, head, tail, opts, stageVars>>
    /\ UNCHANGED argVars

Init ==
    /\ ArgInit
    /\ phase = "off" /\ session = 0 /\ uses = <<>> /\ intended = FALSE
    /\ library = "none"
    /\ nodes = <<>> /\ next_node = 1
    /\ head = [l \in Lists |-> Null] /\ tail = [l \in Lists |-> Null]
    /\ opts = [s \in Switches |-> 0] /\ modes = [s \in Switches |-> FALSE]
    /\ ran = [l \in Lists |-> {}]

Begins ==
    \/ MainBegin \/ MainBeginNoArgs
    \/ \E us \in Given(MptestTable) : MainBeginArgs(us, Written(MptestTable, us), TRUE)
    \/ \E a \in Stray(MptestTable) : MainBeginArgs(<<>>, a, FALSE)
    \/ \E us \in Given(OtherTable) : OtherBegins(us, Written(OtherTable, us), TRUE)
    \/ \E a \in Stray(OtherTable) : OtherBegins(<<>>, a, FALSE)

Next == Begins \/ Parsing \/ Parsed \/ NotParsed \/ RunAll \/ MainEnd
Spec == Init /\ [][Next]_vars

-----------------------------------------------------------------------------
(* Properties. *)

\* The table is one of the two, the cursors stay inside what they point into,
\* and the lists of names are ended, apart and the only nodes there are.
TypeOK ==
    /\ phase \in Phases /\ mode \in Modes /\ status \in Statuses
    /\ idx \in 0 .. Len(argv) /\ Len(out_buf) <= BufSize
    /\ mode = "letters" => letters # <<>> /\ idx > 0
    /\ mode = "values" => opt \in Options /\ (sub > 0 => sub # table[opt].nargs)
    /\ phase # "crashed" => DOMAIN nodes \subseteq 1 .. next_node - 1
    /\ session = 1 /\ phase \notin {"off", "crashed"} =>
          /\ DOMAIN nodes = UNION {Reached(head[l]) : l \in Lists}
          /\ Reached(head["test"]) \cap Reached(head["suite"]) = {}
          /\ \A l \in Lists : head[l] # Null <=> tail[l] # Null
    /\ session = 1 /\ phase = "off" => nodes = <<>>

\* Whatever a user means, written in any way the validity table allows but for
\* the two of Unkept, is what the handlers are called with: each value whole, in
\* order, for its own option.  And of any arguments that parse, no element is
\* left out.
Complete == table \in {MptestTable, OtherTable}
KeptOnly == \A k \in DOMAIN uses : ~Unkept(table[uses[k].row].nargs, uses[k])
ArgumentsHonoured ==
    mode = "over" /\ Complete =>
       /\ intended /\ KeptOnly =>
             /\ IsPrefix(calls, Meant(uses))
             /\ status = "NONE" => calls = Meant(uses)
             /\ status # "PARSE"
       /\ status = "NONE" =>
             {e \in ToSet(argv) : IsPositional(e)} \subseteq
             {calls[k].text : k \in DOMAIN calls}

\* Every message reaches out_cb whole and once, however it falls on the buffer;
\* if out_cb fails, what it had taken before is the beginning of the message.
MessageWhole ==
    mode = "over" =>
       IF status = "OUT" THEN IsPrefix(delivered, said)
       ELSE delivered = said /\ out_buf = <<>>

\* In the first session of a program whose table could be built: the modes are
\* what the last switch of each kind says, and a test or suite runs if and only
\* if no name was given for its kind or one given is part of its name.
NameCalls(l) == {i \in DOMAIN calls : LET row == table[calls[i].row]
                                      IN row.handler = "name" /\ ListOf(row) = l}
BoolCalls(s) == {i \in DOMAIN calls : LET row == table[calls[i].row]
                                      IN row.handler = "bool" /\ SwitchOf(row) = s}
TextsOf(l) == {calls[i].text : i \in NameCalls(l)}
LastSays(s) == \E i \in BoolCalls(s) : /\ \A j \in BoolCalls(s) : j <= i
                                       /\ calls[i].text # Text(<<"0">>)
Chosen(l, n) == TextsOf(l) = {} \/ \E t \in TextsOf(l) : StrStr(n, Spelled(t))
SessionFollowsArguments ==
    session = 1 /\ library = "made" =>
       /\ phase # "crashed"
       /\ phase = "running" => \A s \in Switches : modes[s] = LastSays(s)
       /\ phase = "ran" => /\ ran["test"] = {n \in TestNames : Chosen("test", n)}
                           /\ ran["suite"] = {n \in SuiteNames : Chosen("suite", n)}

\* The validity table (_cpack/api.h:96): every way it allows is parsed.
TableKept == mode = "over" /\ Complete /\ intended => status # "PARSE"
=============================================================================
