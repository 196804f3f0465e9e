------------------------------ MODULE ArgParse ------------------------------
(***************************************************************************)
(* The argument library (aparse in _cpack/impl.c): a table of arguments, a *)
(* parser that calls the handler of each argument it meets, and a buffer   *)
(* through which its messages are written.                                 *)
(*                                                                         *)
(* A message is a sequence of the pieces it is put together from, and      *)
(* out_buf holds BufSize pieces.                                           *)
(***************************************************************************)
EXTENDS ArgTable

CONSTANTS BufSize       \* APARSE__STATE_OUT_BUF_SIZE: 128 characters

ASSUME BufAssumption == BufSize \in Nat \ {0}

VARIABLES table,        \* the arguments, in the order they were added
          argv,         \* without the program's name
          idx,          \* argc_idx: the elements taken
          mode,         \* the loop the parser is in: see Modes
          letters,      \* of a cluster of short options, those still to come
          opt, sub,     \* the option whose values are read, and how many were
          calls,        \* the calls of handlers so far
          out_buf,
          said,         \* the message of the parser
          pending,      \* the part of it not yet handed to aparse__state_out
          delivered,    \* what out_cb has been given
          status        \* what aparse_parse returns

outVars == <<out_buf, said, pending, delivered>>
argVars == <<table, argv, idx, mode, letters, opt, sub, calls, outVars, status>>

Modes == {"idle", "args", "letters", "values", "print", "over"}
Statuses == {"NONE", "NOMEM", "PARSE", "OUT", "INVALID", "SHOULD_EXIT"}

NoRow == 0
FirstRow(rows) == IF rows = {} THEN NoRow ELSE Min(rows)
Options == {r \in DOMAIN table : table[r].type = "OPTIONAL"}
PositionalRow == FirstRow(DOMAIN table \ Options)   \* APARSE__NEXT_POSITIONAL
ShortRow(c) == FirstRow({r \in Options : table[r].short = c})

\* Mutant: a name matches when it is how the element begins.
LongRowPrefix(syms) ==
    FirstRow({r \in Options : table[r].long # NoName /\ IsPrefix(table[r].long, syms)})

\* A name matches when it is all there is, or "=" comes next.
LongRow(syms) ==
    FirstRow({r \in Options :
        LET name == table[r].long
        IN /\ name # NoName /\ IsPrefix(name, syms)
           /\ Len(syms) > Len(name) => syms[Len(name) + 1] = "="})

-----------------------------------------------------------------------------
(* Messages. *)

ErrorBegin == <<"prog", ": ", "error: ">>
ShortOf(row) == IF row.short = NoLetter THEN <<>> ELSE <<"-", row.short>>
LongOf(row) == IF row.long = NoName THEN <<>> ELSE <<"--">> \o row.long

\* Both names of an option, or the one it has.
NamesOf(row) ==
    ShortOf(row) \o (IF row.short # NoLetter /\ row.long # NoName THEN <<", ">> ELSE <<>>)
    \o LongOf(row)

\* aparse__error_begin_arg.
BeginArg(row) ==
    IF row.type = "OPTIONAL"
    THEN ErrorBegin \o <<"option ">> \o NamesOf(row) \o <<": ">>
    ELSE ErrorBegin \o <<"argument ", row.var, ": ">>

Spelled(e) == [i \in 1 .. e.dash |-> "-"] \o e.syms
Unrecognized(e) ==
    ErrorBegin \o <<"unrecognized argument: ">> \o Spelled(e) \o <<"\n">>
Quote(e) == <<"quote">> \o Spelled(e) \o <<"quote">>
BadBool(row, text) ==
    BeginArg(row) \o <<"invalid value for boolean flag: ">> \o Quote(text) \o <<"\n">>
CannotParseEquals(row) == BeginArg(row) \o <<"cannot parse '='\n">>
CannotParse(row, rest) == BeginArg(row) \o <<"cannot parse '">> \o rest \o <<"\n">>
ExpectedArgument(row) == BeginArg(row) \o <<"expected an argument\n">>

\* aparse__error_print_sub_args.  The bracket that opens the list of 1_OR_MORE
\* is missing.
SubArgs(row) ==
    LET v == row.var
    IN IF row.nargs = Nargs1OrMore THEN <<v, " [", v, " ...]]">>
       ELSE IF row.nargs = Nargs0OrMore THEN <<"[", v, " [", v, " ...]]">>
       ELSE IF row.nargs = Nargs0Or1 THEN <<"[", v, "]">>
       ELSE FlattenSeq([i \in 1 .. row.nargs |-> IF i = 1 THEN <<v>> ELSE <<" ", v>>])

\* What is said of each row of the table, in order.
Each(Says(_)) == FlattenSeq([i \in DOMAIN table |-> Says(table[i])])

Blank(row) == IF row.nargs \in {Nargs0Or1Eq, 0} THEN <<>> ELSE <<" ">>

\* aparse__error_usage: first the letters that can stand together in one
\* cluster, then each other argument in brackets.
Coalesces(row) == /\ row.type = "OPTIONAL" /\ row.short # NoLetter
                  /\ row.nargs \in {Nargs0Or1Eq, 0}
UsageOf(row) ==
    <<" ", "[">>
    \o (IF row.type = "OPTIONAL"
        THEN (IF row.short # NoLetter THEN ShortOf(row) ELSE LongOf(row)) \o Blank(row)
        ELSE <<>>)
    \o SubArgs(row) \o <<"]">>
Usage ==
    LET flags == Each(LAMBDA row : IF Coalesces(row) THEN <<row.short>> ELSE <<>>)
        others == Each(LAMBDA row : IF Coalesces(row) THEN <<>> ELSE UsageOf(row))
    IN <<"usage: ", "prog">>
       \o (IF flags = <<>> THEN <<>> ELSE <<" [-">> \o flags \o <<"]">>)
       \o others \o <<"\n">>

\* aparse__arg_help_cb: the usage, then the arguments by kind.
HelpOf(row) ==
    <<"  ">>
    \o (IF row.type = "POSITIONAL" THEN <<row.var>>
        ELSE (IF row.short = NoLetter THEN <<>>
              ELSE ShortOf(row) \o Blank(row) \o SubArgs(row))
             \o (IF row.long = NoName THEN <<>>
                 ELSE (IF row.short = NoLetter THEN <<>> ELSE <<", ">>)
                      \o LongOf(row) \o Blank(row) \o SubArgs(row)))
    \o <<"\n", "    ", "help", "\n">>
Section(title, type) ==
    LET rows == Each(LAMBDA row : IF row.type = type THEN HelpOf(row) ELSE <<>>)
    IN IF rows = <<>> THEN <<>> ELSE <<title>> \o rows
Help ==
    Usage
    \o Section("\npositional arguments:\n", "POSITIONAL")
    \o Section("\noptional arguments:\n", "OPTIONAL")

Version == <<"version\n">>

-----------------------------------------------------------------------------
(* Output. *)

\* The parser is to return s once the message m is written.
Say(m, s) ==
    /\ mode' = "print" /\ status' = s
    /\ said' = m /\ pending' = m
    /\ UNCHANGED <<out_buf, delivered>>

\* out_cb takes the buffer.
Delivering == delivered' = delivered \o out_buf

\* out_cb does not: aparse_parse returns its error, and says no more.
OutFails ==
    /\ mode' = "over" /\ status' = "OUT"
    /\ UNCHANGED outVars

\* aparse__state_out.
Out ==
    /\ mode = "print" /\ pending # <<>>
    /\ \/ /\ Len(out_buf) < BufSize
          /\ out_buf' = Append(out_buf, Head(pending)) /\ pending' = Tail(pending)
          /\ UNCHANGED <<mode, status, said, delivered>>
       \/ /\ Len(out_buf) = BufSize
          /\ Delivering
          /\ out_buf' = <<Head(pending)>> /\ pending' = Tail(pending)
          /\ UNCHANGED <<mode, status, said>>
       \/ Len(out_buf) = BufSize /\ OutFails
    /\ UNCHANGED <<table, argv, idx, letters, opt, sub, calls>>

\* Mutant: a buffer that fills up with the last piece is forgotten.
FlushSome ==
    /\ mode = "print" /\ pending = <<>>
    /\ IF Len(out_buf) = BufSize THEN UNCHANGED delivered ELSE Delivering
    /\ out_buf' = <<>> /\ mode' = "over" /\ UNCHANGED <<said, pending, status>>
    /\ UNCHANGED <<table, argv, idx, letters, opt, sub, calls>>

\* The flush of aparse_parse, after the parser has returned.
Flush ==
    /\ mode = "print" /\ pending = <<>>
    /\ \/ /\ Delivering
          /\ out_buf' = <<>> /\ mode' = "over" /\ UNCHANGED <<said, pending, status>>
       \/ out_buf # <<>> /\ OutFails
    /\ UNCHANGED <<table, argv, idx, letters, opt, sub, calls>>

-----------------------------------------------------------------------------
(* The parser. *)

\* A handler of the client's own ends the parse when it runs out of memory for
\* a name; else the parser goes on in mode m.
Custom(handler, m) ==
    \/ mode' = m /\ UNCHANGED <<outVars, status>>
    \/ /\ handler = "name"
       /\ mode' = "over" /\ status' = "NOMEM"
       /\ UNCHANGED outVars

\* The handler of row r is called with the k-th value.  Unless it ends the
\* parse, the parser goes on in mode m.
Invoke(r, k, text, m) ==
    LET handler == table[r].handler
        Goes == mode' = m /\ UNCHANGED <<outVars, status>>
    IN /\ calls' = Append(calls, [row |-> r, sub |-> k, text |-> text])
       /\ \/ handler = "str" /\ Goes
          \/ handler \in {"custom", "name"} /\ Custom(handler, m)
          \/ handler = "bool" /\ text \in Bools /\ Goes
          \/ handler = "bool" /\ text \notin Bools /\ Say(BadBool(table[r], text), "PARSE")
          \/ handler = "help" /\ Say(Help, "SHOULD_EXIT")
          \/ handler = "version" /\ Say(Version, "SHOULD_EXIT")

Refuse(m) == Say(m, "PARSE") /\ UNCHANGED calls

TakesOne == {1, Nargs0Or1}
TakesNone == {0, Nargs0Or1Eq}
MustTake(n) == n >= 1 \/ n = Nargs1OrMore

\* The element e, of which the option r has been read and rest is left; next
\* elements have been taken, e included.  bundle: rest may hold more letters.
WithEquals(r, rest, next) ==
    /\ rest # <<>> /\ Head(rest) = "="
    /\ \/ table[r].nargs = 0 \/ table[r].nargs > 1
    /\ Refuse(CannotParseEquals(table[r]))
    /\ idx' = next /\ UNCHANGED <<letters, opt, sub>>

WithEqualsValue(r, rest, next) ==
    /\ rest # <<>> /\ Head(rest) = "="
    /\ table[r].nargs # 0 /\ table[r].nargs <= 1
    /\ Invoke(r, 0, Text(Tail(rest)), "args")
    /\ idx' = next /\ UNCHANGED <<letters, opt, sub>>

\* Letters are left behind a short option: its value, or more options.
WithRest(r, rest, next) ==
    /\ rest # <<>> /\ Head(rest) # "="
    /\ \/ /\ table[r].nargs > 1
          /\ Refuse(CannotParse(table[r], rest)) /\ UNCHANGED letters
       \/ /\ table[r].nargs <= 1 /\ table[r].nargs \notin TakesNone
          /\ Invoke(r, 0, Text(rest), "args") /\ UNCHANGED letters
       \/ /\ table[r].nargs \in TakesNone
          /\ Invoke(r, 0, NoText, "letters") /\ letters' = rest
    /\ idx' = next /\ UNCHANGED <<opt, sub>>

NoValueFollows(next) == next < Len(argv) => ~IsPositional(argv[next + 1])

WithoutValue(r, rest, next) ==
    /\ rest = <<>> /\ NoValueFollows(next)
    /\ \/ MustTake(table[r].nargs) /\ Refuse(ExpectedArgument(table[r]))
       \/ ~MustTake(table[r].nargs) /\ Invoke(r, 0, NoText, "args")
    /\ idx' = next /\ UNCHANGED <<letters, opt, sub>>

WithValue(r, rest, next) ==
    /\ rest = <<>> /\ ~NoValueFollows(next)
    /\ \/ /\ table[r].nargs \in TakesOne
          /\ Invoke(r, 0, argv[next + 1], "args")
          /\ idx' = next + 1 /\ UNCHANGED <<opt, sub>>
       \/ /\ table[r].nargs \in TakesNone
          /\ Invoke(r, 0, NoText, "args")
          /\ idx' = next /\ UNCHANGED <<opt, sub>>
       \/ /\ table[r].nargs \notin TakesOne \cup TakesNone
          /\ mode' = "values" /\ idx' = next /\ opt' = r /\ sub' = 0
          /\ UNCHANGED <<calls, outVars, status>>
    /\ UNCHANGED letters

Met(r, rest, next) ==
    WithEquals(r, rest, next) \/ WithEqualsValue(r, rest, next)
    \/ WithRest(r, rest, next) \/ WithoutValue(r, rest, next)
    \/ WithValue(r, rest, next)

\* One element of argv.
Plain(e) ==
    /\ IsPositional(e)
    /\ IF PositionalRow = NoRow THEN Refuse(Unrecognized(e))
       ELSE Invoke(PositionalRow, 0, e, "args")
    /\ idx' = idx + 1 /\ UNCHANGED <<letters, opt, sub>>

Short(e) ==
    /\ ~IsPositional(e) /\ e.dash = 1
    /\ mode' = "letters" /\ letters' = e.syms /\ idx' = idx + 1
    /\ UNCHANGED <<opt, sub, calls, outVars, status>>

Long(e) ==
    /\ ~IsPositional(e) /\ e.dash = 2
    /\ LET r == LongRow(e.syms)
       IN \/ /\ r = NoRow /\ Refuse(Unrecognized(e))
             /\ idx' = idx + 1 /\ UNCHANGED <<letters, opt, sub>>
          \/ /\ r # NoRow
             /\ Met(r, SubSeq(e.syms, Len(table[r].long) + 1, Len(e.syms)), idx + 1)

Args ==
    /\ mode = "args" /\ idx < Len(argv)
    /\ LET e == argv[idx + 1] IN Plain(e) \/ Short(e) \/ Long(e)
    /\ UNCHANGED <<table, argv>>

\* One letter of a cluster; argv[idx] is the element it stands in.
Letters ==
    /\ mode = "letters"
    /\ LET r == ShortRow(Head(letters))
       IN \/ /\ r = NoRow /\ Refuse(Unrecognized(argv[idx]))
             /\ UNCHANGED <<idx, letters, opt, sub>>
          \/ r # NoRow /\ Met(r, Tail(letters), idx)
    /\ UNCHANGED <<table, argv>>

\* Values of an option that takes several, until it has as many as nargs says:
\* never, for 0_OR_MORE and 1_OR_MORE, which are negative.
Values ==
    /\ mode = "values"
    /\ \/ /\ idx < Len(argv)
          /\ Invoke(opt, sub, argv[idx + 1],
                    IF sub + 1 = table[opt].nargs THEN "args" ELSE "values")
          /\ idx' = idx + 1 /\ sub' = sub + 1 /\ UNCHANGED <<letters, opt>>
       \/ /\ idx = Len(argv) /\ Refuse(ExpectedArgument(table[opt]))
          /\ UNCHANGED <<idx, letters, opt, sub>>
    /\ UNCHANGED <<table, argv>>

AllTaken ==
    /\ mode = "args" /\ idx = Len(argv)
    /\ mode' = "over"
    /\ UNCHANGED <<table, argv, idx, letters, opt, sub, calls, outVars, status>>

ArgStep == Args \/ Letters \/ Values \/ AllTaken \/ Out \/ Flush

ArgsBegin(t, a) ==
    /\ table' = t /\ argv' = a
    /\ idx' = 0 /\ mode' = "args" /\ letters' = <<>> /\ opt' = NoRow /\ sub' = 0
    /\ calls' = <<>>
    /\ out_buf' = <<>> /\ said' = <<>> /\ pending' = <<>> /\ delivered' = <<>>
    /\ status' = "NONE"

ArgInit ==
    /\ table = <<>> /\ argv = <<>>
    /\ idx = 0 /\ mode = "idle" /\ letters = <<>> /\ opt = NoRow /\ sub = 0
    /\ calls = <<>>
    /\ out_buf = <<>> /\ said = <<>> /\ pending = <<>> /\ delivered = <<>>
    /\ status = "NONE"
=============================================================================
