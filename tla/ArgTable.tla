------------------------------ MODULE ArgTable ------------------------------
(***************************************************************************)
(* What the argument library is given: the elements of argv, and a table   *)
(* of arguments.  An element is its leading dashes, at most two, and the   *)
(* symbols that follow.  A symbol is a letter, or a stretch of a long      *)
(* name; "=" is one of them.                                               *)
(***************************************************************************)
EXTENDS Integers, Sequences, FiniteSets, SequencesExt

Element(dash, syms) == [dash |-> dash, syms |-> syms]
Text(syms) == Element(0, syms)
NoText == Element(-1, <<>>)        \* NULL

\* aparse__is_positional: no dashes, or nothing else.
IsPositional(e) == e.dash = 0 \/ e.syms = <<>>

\* What the handler of a bool understands.
Bools == {Text(<<"0">>), Text(<<"1">>), NoText}

\* aparse_nargs; a number of values from 0 on is that number.
Nargs0Or1 == -1
Nargs0Or1Eq == -2
Nargs0OrMore == -3
Nargs1OrMore == -4

\* A row of the table: an option with a letter, a name or both, or a
\* positional, and what handles it.
NoLetter == ""
NoName == <<>>
Option(short, long, nargs, handler, var) ==
    [type |-> "OPTIONAL", short |-> short, long |-> long, nargs |-> nargs,
     handler |-> handler, var |-> var]
BoolOption(long) == Option(NoLetter, long, Nargs0Or1Eq, "bool", "ARG")
HelpOption(short, long) == Option(short, long, 0, "help", "ARG")
VersionOption(long) == Option(NoLetter, long, 0, "version", "ARG")
Positional(name) ==
    [type |-> "POSITIONAL", short |-> NoLetter, long |-> NoName, nargs |-> 1,
     handler |-> "str", var |-> name]
=============================================================================
