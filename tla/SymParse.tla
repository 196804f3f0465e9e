------------------------------ MODULE SymParse ------------------------------
(***************************************************************************)
(* The S-expression parser (mptest__sym_parse_do).  One call reads the     *)
(* text once, a character or an escape digit a step; mode says which loop  *)
(* of the code is reading.  Characters are signed, so a byte above 127 is  *)
(* negative and 0xFF, read as -1, is taken for the end of the text.  The   *)
(* node it emits goes to the builder on top of stk, or to base.            *)
(***************************************************************************)
EXTENDS SymTree, Str, Vec

CONSTANTS HexLimit,     \* digits that make a hex literal too long: 8
          DecLimit      \* digits that make a decimal one too long: 10

ASSUME LimitAssumption == HexLimit \in Nat \ {0} /\ DecLimit \in Nat \ {0, 1}

VARIABLES text,         \* the bytes given to the parser
          pos,          \* str_pos
          mode,         \* the loop that reads, or how the call ended
          num, digits,  \* the number being read; digits seen, or to come
          within,       \* what an escape is part of: "str" or "chr"
          build_str,    \* the string being read
          stk, stkAlloc,       \* the builders of the open expressions
          base,         \* build_in
          nodes, nodesAlloc,   \* the storage of the tree being built
          err, msg,     \* what the call returns, and parse.error
          stray         \* whether the block of a string was left to no record

numVars == <<num, digits, within>>
treeVars == <<stk, stkAlloc, base, nodes, nodesAlloc>>
endVars == <<err, msg, stray>>
parseVars == <<text, pos, mode, numVars, build_str, treeVars, endVars>>

Reading == {"top", "zero", "hex", "dec", "str", "chr", "chrEnd", "atom",
            "esc", "escHex"}
ParseError == -1        \* MPTEST__SYM_PARSE_ERROR, and running out of memory
Quiet == "NULL"         \* parse.error while there is no message

\* mptest__sym_parse_next returns the character at pos, signed, or -1.
Eof == -1
Signed(b) == IF b > 127 THEN b - 256 ELSE b
Ch == IF pos >= Len(text) THEN Eof ELSE Signed(text[pos + 1])

Letter == [lparen |-> 40, rparen |-> 41, quote |-> 34, tick |-> 39,
           backslash |-> 92, zero |-> 48, x |-> 120, u |-> 117]
IsBlank(c) == c \in {10, 9, 13, 32}
IsPunc(c) == c \in {Letter.lparen, Letter.rparen}
Delimits(c) == IsBlank(c) \/ IsPunc(c) \/ c = Eof
IsDigit(c) == c \in 48 .. 57

NotHex == -1
HexDig(c) == IF IsDigit(c) THEN c - 48
             ELSE IF c \in 65 .. 70 THEN c - 55
             ELSE IF c \in 97 .. 102 THEN c - 87
             ELSE NotHex

\* \t \r \0 \n \" and the characters they stand for.
Escapes == [c \in {116, 114, 48, 110, 34} |->
            CASE c = 116 -> 9 [] c = 114 -> 13 [] c = 48 -> 0
              [] c = 110 -> 10 [] c = 34 -> 34]

\* Mutant: the two-byte form is used up to 0xFFF.
Utf8Wide(r) ==
    LET low(n) == ((r \div n) % 64) + 128
        bytes == IF r <= 127 THEN <<r>>
                 ELSE IF r <= 4095 THEN <<((r \div 64) % 32) + 192, low(1)>>
                 ELSE <<r \div 4096 + 224, low(64), low(1)>>
    IN [i \in DOMAIN bytes |-> Signed(bytes[i])]

\* mptest__sym_parse_gen_utf8, as signed characters.
Utf8(r) ==
    LET low(n) == ((r \div n) % 64) + 128
        bytes == IF r <= 127 THEN <<r>>
                 ELSE IF r <= 2047 THEN <<r \div 64 + 192, low(1)>>
                 ELSE IF r <= 65535 THEN <<r \div 4096 + 224, low(64), low(1)>>
                 ELSE <<r \div 262144 + 240, low(4096), low(64), low(1)>>
    IN [i \in DOMAIN bytes |-> Signed(bytes[i])]

-----------------------------------------------------------------------------
(* Steps the modes have in common. *)

\* goto error, having read up to p.
Stop(e, m, p) ==
    /\ mode' = "failed" /\ err' = e /\ msg' = m /\ pos' = p
    /\ UNCHANGED <<text, numVars, build_str, treeVars>>

Fail(e, m, p) == Stop(e, m, p) /\ UNCHANGED stray

Syntax(m) == Fail(ParseError, m, pos + 1)

\* One character is read, and m reads the next.
Read(m) == mode' = m /\ pos' = pos + 1 /\ UNCHANGED <<text, treeVars, endVars>>

\* The characters cs go to build_str, emptied before at the head of the loop.
Gather(s, cs, m) ==
    \/ Read(m) /\ build_str' = CatN(s, cs) /\ UNCHANGED numVars
    \/ NeedsBlock(s, s.size + Len(cs)) /\ Fail(ParseError, Quiet, pos + 1)

\* The innermost open expression gets the record, which moves its builder on.
Builder == IF stk = <<>> THEN base ELSE Last(stk)
Moved == IF stk = <<>> THEN stk ELSE Append(Front(stk), Advanced(nodes, Last(stk)))
AddNode(tok) ==
    /\ nodes' = SymNew(nodes, Builder, tok)
    /\ nodesAlloc' = GrowOne(Len(nodes), nodesAlloc)
    /\ base' = IF stk = <<>> THEN Advanced(nodes, base) ELSE base

TreeIsFull == GrowOne(Len(nodes), nodesAlloc) # nodesAlloc

\* A string is copied first: the copy can be refused, or the record it was made
\* for, and then nobody gives the copy back.
Refused(tok, p) ==
    LET copied == NeedsBlock(EmptyStr, Len(tok.str))
    IN \/ copied /\ Fail(ParseError, Quiet, p)
       \/ TreeIsFull /\ Stop(ParseError, Quiet, p) /\ stray' = copied

\* Mutant: the delimiter that ended the token is lost.
EmitPast(tok, p) ==
    \/ /\ AddNode(tok)
       /\ stk' = Moved
       /\ mode' = "top" /\ pos' = pos + 1
       /\ UNCHANGED <<text, numVars, build_str, stkAlloc, endVars>>
    \/ Refused(tok, p)

\* mptest_sym_build_num and mptest_sym_build_str.  The text has been read up
\* to p; a delimiter that ended the token is read again.
Emit(tok, p) ==
    \/ /\ AddNode(tok)
       /\ stk' = Moved
       /\ mode' = "top" /\ pos' = p
       /\ UNCHANGED <<text, numVars, build_str, stkAlloc, endVars>>
    \/ Refused(tok, p)

-----------------------------------------------------------------------------
(* The main loop. *)

Fresh == Cleared(build_str)      \* mn__str_clear, at the head of the loop

AtEnd ==
    /\ Ch = Eof
    /\ \/ stk # <<>> /\ Syntax("unmatched '('")
       \/ stk = <<>> /\ Read("done") /\ build_str' = Fresh /\ UNCHANGED numVars

\* mptest__sym_parse_expr_begin: the record, then its builder on the stack.
ExprBegin ==
    /\ Ch = Letter.lparen
    /\ \/ /\ AddNode(ExprToken)
          /\ stk' = Append(Moved, Inside(nodes))
          /\ stkAlloc' = GrowOne(Len(stk), stkAlloc)
          /\ mode' = "top" /\ pos' = pos + 1 /\ build_str' = Fresh
          /\ UNCHANGED <<text, numVars, endVars>>
       \/ TreeIsFull /\ Fail(ParseError, Quiet, pos + 1)
       \/ /\ GrowOne(Len(stk), stkAlloc) # stkAlloc
          /\ Fail(ParseError, Quiet, pos + 1)

\* mptest__sym_parse_expr_end.
ExprEnd ==
    /\ Ch = Letter.rparen
    /\ \/ stk = <<>> /\ Syntax("unmatched ')'")
       \/ /\ stk # <<>>
          /\ stk' = Front(stk)
          /\ mode' = "top" /\ pos' = pos + 1 /\ build_str' = Fresh
          /\ UNCHANGED <<text, numVars, stkAlloc, base, nodes, nodesAlloc, endVars>>

\* Mutant: the blank is given back.
BlankAgain == IsBlank(Ch) /\ mode' = "top" /\ build_str' = Fresh
              /\ UNCHANGED <<text, pos, numVars, treeVars, endVars>>

Blank == IsBlank(Ch) /\ Read("top") /\ build_str' = Fresh /\ UNCHANGED numVars

\* 0: a hex literal, or just a zero.  1-9: a decimal literal.
Number ==
    /\ IsDigit(Ch)
    /\ num' = Ch - 48 /\ UNCHANGED within
    /\ \/ Ch = Letter.zero /\ digits' = 0 /\ Read("zero")
       \/ Ch # Letter.zero /\ digits' = 1 /\ Read("dec")
    /\ build_str' = Fresh

Literal ==
    /\ \/ Ch = Letter.quote /\ Read("str")
       \/ Ch = Letter.tick /\ Read("chr")
    /\ build_str' = Fresh /\ UNCHANGED numVars

AtomBegin ==
    /\ ~Delimits(Ch) /\ ~IsDigit(Ch) /\ Ch \notin {Letter.quote, Letter.tick}
    /\ Gather(Fresh, <<Ch>>, "atom")

Top == mode = "top" /\ (AtEnd \/ ExprBegin \/ ExprEnd \/ Blank \/ Number
                        \/ Literal \/ AtomBegin)

-----------------------------------------------------------------------------
(* The loops inside. *)

Atom ==
    /\ mode = "atom"
    /\ \/ Delimits(Ch) /\ Emit(StrToken(Body(build_str)), pos)
       \/ ~Delimits(Ch) /\ Gather(build_str, <<Ch>>, "atom")

Zero ==
    /\ mode = "zero"
    /\ \/ Delimits(Ch) /\ Emit(NumToken(0), pos)
       \/ Ch = Letter.x /\ Read("hex") /\ UNCHANGED <<numVars, build_str>>
       \/ /\ ~Delimits(Ch) /\ Ch # Letter.x
          /\ Syntax("invalid hex literal")

\* A digit more, unless there are too many: that is found one character late.
Digit(radix, dig, m) ==
    /\ Read(m)
    /\ num' = num * radix + dig /\ digits' = digits + 1
    /\ UNCHANGED <<within, build_str>>

Hex ==
    /\ mode = "hex"
    /\ \/ digits = HexLimit /\ Syntax("hex literal too long")
       \/ /\ digits # HexLimit
          /\ \/ HexDig(Ch) # NotHex /\ Digit(16, HexDig(Ch), "hex")
             \/ Delimits(Ch) /\ digits # 0 /\ Emit(NumToken(num), pos)
             \/ /\ HexDig(Ch) = NotHex /\ (Delimits(Ch) => digits = 0)
                /\ Syntax("expected hex digits for hex literal")

Dec ==
    /\ mode = "dec"
    /\ \/ digits = DecLimit /\ Syntax("decimal literal too long")
       \/ /\ digits # DecLimit
          /\ \/ IsDigit(Ch) /\ Digit(10, Ch - 48, "dec")
             \/ Delimits(Ch) /\ Emit(NumToken(num), pos)
             \/ /\ ~IsDigit(Ch) /\ ~Delimits(Ch)
                /\ Syntax("expected decimal digits for decimal literal")

\* Mutant: the end of the text is a character like others.
QuotedOpen ==
    /\ mode = "str"
    /\ \/ Ch = Letter.quote /\ Emit(StrToken(Body(build_str)), pos + 1)
       \/ Ch # Letter.quote /\ Gather(build_str, <<Ch>>, "str")

Quoted ==
    /\ mode = "str"
    /\ \/ Ch = Eof /\ Syntax("unfinished string literal")
       \/ /\ Ch = Letter.backslash
          /\ Read("esc") /\ within' = "str" /\ UNCHANGED <<num, digits, build_str>>
       \/ Ch = Letter.quote /\ Emit(StrToken(Body(build_str)), pos + 1)
       \/ /\ Ch \notin {Eof, Letter.backslash, Letter.quote}
          /\ Gather(build_str, <<Ch>>, "str")

\* A character above 127 is negative, and is returned as if it were an error.
Chr ==
    /\ mode = "chr"
    /\ \/ Ch = Eof /\ Syntax("expected character for character literal")
       \/ Ch < Eof /\ Fail(Ch, Quiet, pos + 1)
       \/ /\ Ch = Letter.backslash
          /\ Read("esc") /\ within' = "chr" /\ UNCHANGED <<num, digits, build_str>>
       \/ /\ Ch >= 0 /\ Ch # Letter.backslash
          /\ Read("chrEnd") /\ num' = Ch /\ UNCHANGED <<digits, within, build_str>>

ChrEnd ==
    /\ mode = "chrEnd"
    /\ \/ Ch = Letter.tick /\ Emit(NumToken(num), pos + 1)
       \/ Ch # Letter.tick /\ Syntax("expected ' to close character literal")

\* An escape is complete: its rune is the character, or joins the string.
Rune(r) ==
    \/ /\ within = "chr" /\ Read("chrEnd")
       /\ num' = r /\ UNCHANGED <<digits, within, build_str>>
    \/ within = "str" /\ Gather(build_str, Utf8(r), "str")

Esc ==
    /\ mode = "esc"
    /\ \/ Ch = Eof /\ Syntax("unfinished escape sequence")
       \/ Ch \in DOMAIN Escapes /\ Rune(Escapes[Ch])
       \/ /\ Ch \in {Letter.x, Letter.u}
          /\ Read("escHex") /\ num' = 0
          /\ digits' = IF Ch = Letter.x THEN 2 ELSE 4
          /\ UNCHANGED <<within, build_str>>
       \/ /\ Ch \notin DOMAIN Escapes \cup {Eof, Letter.x, Letter.u}
          /\ Syntax("invalid escape character")

EscHex ==
    /\ mode = "escHex"
    /\ \/ HexDig(Ch) = NotHex /\ Syntax("invalid hex or unicode escape")
       \/ HexDig(Ch) # NotHex /\ digits = 1 /\ Rune(num * 16 + HexDig(Ch))
       \/ /\ HexDig(Ch) # NotHex /\ digits > 1
          /\ Read("escHex")
          /\ num' = num * 16 + HexDig(Ch) /\ digits' = digits - 1
          /\ UNCHANGED <<within, build_str>>

ParseStep == Top \/ Atom \/ Zero \/ Hex \/ Dec \/ Quoted \/ Chr \/ ChrEnd
             \/ Esc \/ EscHex

\* mptest__sym_parse_init, on the text t.
ParseBegin(t) ==
    /\ text' = t /\ pos' = 0 /\ mode' = "top"
    /\ num' = 0 /\ digits' = 0 /\ within' = "str"
    /\ build_str' = EmptyStr
    /\ stk' = <<>> /\ stkAlloc' = 0
    /\ base' = TopPlace
    /\ nodes' = <<>> /\ nodesAlloc' = 0
    /\ err' = 0 /\ msg' = Quiet /\ stray' = FALSE

ParseInit ==
    /\ text = <<>> /\ pos = 0 /\ mode = "idle"
    /\ num = 0 /\ digits = 0 /\ within = "str"
    /\ build_str = EmptyStr
    /\ stk = <<>> /\ stkAlloc = 0
    /\ base = TopPlace
    /\ nodes = <<>> /\ nodesAlloc = 0
    /\ err = 0 /\ msg = Quiet /\ stray = FALSE
=============================================================================
