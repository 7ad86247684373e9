-------------------------------- MODULE Source --------------------------------
(***************************************************************************)
(* From source text to nodes to IR: zown-lexer, zown-parser, zown-ast and  *)
(* zown-ir.                                                                *)
(*                                                                         *)
(* A text is a sequence of one-character strings.  Positions are character *)
(* offsets from 0; the line and column the lexer also counts are left out. *)
(***************************************************************************)
EXTENDS Naturals, Sequences, SequencesExt, TLC

CONSTANTS IntMax          \* i64::MAX

Digits == {"0", "1", "2", "3", "4", "5", "6", "7", "8", "9"}
Letters == {"a", "b", "c", "d", "e", "f", "g", "h", "i", "j", "k", "l", "m",
            "n", "o", "p", "q", "r", "s", "t", "u", "v", "w", "x", "y", "z"}
is_ident_start(c) == c \in Letters
is_ident_cont(c) == c \in Letters \cup Digits
TWO_CHAR_OPS == {"==", "!=", "<=", ">=", "&&", "||", "??"}
ONE_CHAR_OPS == {"@", ".", ",", "=", "\\", "&", "+", "-", "*", "/", "%", "<", ">",
                 "!", "?", ";", "_", "|", "^"}
Backquote == "bq"        \* no TLA+ string holds the character itself
Blank == {" ", "\t", "\r", "\n"}

Joined(s) == FoldLeft(LAMBDA a, c : a \o c, "", s)
Value_(c) == CHOOSE d \in 0 .. 9 : ToString(d) = c
Number(s) == FoldLeft(LAMBDA n, c : IF n > IntMax THEN n ELSE 10 * n + Value_(c), 0, s)

-----------------------------------------------------------------------------
\* A token is [kind, val, at, len]: its kind, what it carries, and its span.
Token(k, v, at, len) == [kind |-> k, val |-> v, at |-> at, len |-> len]
LexError(code, at) == [code |-> code, at |-> at]
IsError(t) == "code" \in DOMAIN t

\* The character k places after offset i, or "" at the end of the text.
peek(src, i, k) == IF i + k < Len(src) THEN src[i + k + 1] ELSE ""
\* The first offset from i on whose character is not in the class.
RECURSIVE SkipWhile(_, _, _)
SkipWhile(src, i, class) ==
    IF peek(src, i, 0) \in class THEN SkipWhile(src, i + 1, class) ELSE i
Cut_(src, a, b) == SubSeq(src, a + 1, b)
Cont == Letters \cup Digits

Escapes == [n |-> "\n", t |-> "\t", r |-> "\r"]
escape(c) == IF c \in DOMAIN Escapes THEN Escapes[c] ELSE c
\* <<the string, the offset after the closing $>>, or <<>> if it never closes.
RECURSIVE Sweep(_, _, _)
Sweep(src, i, buf) ==
    LET c == peek(src, i, 0)
    IN  IF c = "" THEN <<>>
        ELSE IF c = "$" THEN <<buf, i + 1>>
        ELSE IF c = "\\" THEN Sweep(src, IF i + 1 < Len(src) THEN i + 2 ELSE i + 1,
                                    Append(buf, escape(peek(src, i, 1))))
        ELSE Sweep(src, i + 1, Append(buf, c))
read_string(src, i) ==
    LET s == Sweep(src, i + 1, <<>>)
    IN  IF s = <<>> THEN LexError("REPAIR_SYNTAX", Len(src))
        ELSE Token("str", Joined(s[1]), i, s[2] - i)

\* `:name`, `'name`, `` `name `` and `~name`: a sigil and an identifier.
read_named(src, i, k) ==
    LET end == SkipWhile(src, i + 1, Cont)
        name == Joined(Cut_(src, i + 1, end))
    IN  IF ~is_ident_start(peek(src, i, 1)) THEN LexError("REPAIR_SYNTAX", i + 1)
        ELSE Token(k, IF k = "op" THEN "~" \o name ELSE name, i, end - i)

\* Mutant of read_number: a dot always starts a fraction.
ReadNumberDot(src, i) ==
    LET whole == SkipWhile(src, i, Digits)
        end == SkipWhile(src, whole + 1, Digits)
    IN  IF peek(src, whole, 0) = "." THEN Token("float", Joined(Cut_(src, i, end)), i, end - i)
        ELSE Token("int", Number(Cut_(src, i, whole)), i, whole - i)
\* `.` is the print operator: a decimal point only if a digit follows.
read_number(src, i) ==
    LET whole == SkipWhile(src, i, Digits)
        is_float == peek(src, whole, 0) = "." /\ peek(src, whole, 1) \in Digits
        end == SkipWhile(src, whole + 1, Digits)
        n == Number(Cut_(src, i, whole))
    IN  IF is_float THEN Token("float", Joined(Cut_(src, i, end)), i, end - i)
        ELSE IF n > IntMax THEN LexError("OVERFLOW", whole)
        ELSE Token("int", n, i, whole - i)
read_ident(src, i) ==
    LET end == SkipWhile(src, i, Cont)
    IN  Token("name", Joined(Cut_(src, i, end)), i, end - i)
read_op(src, i) ==
    LET two == peek(src, i, 0) \o peek(src, i, 1)
    IN  IF two \in TWO_CHAR_OPS THEN Token("op", two, i, 2)
        ELSE IF peek(src, i, 0) \in ONE_CHAR_OPS THEN Token("op", peek(src, i, 0), i, 1)
        ELSE LexError("REPAIR_SYNTAX", i)

Read(src, i) ==
    LET c == peek(src, i, 0)
    IN  CASE c = "$" -> read_string(src, i)
          [] c = "[" -> Token("lbrack", "[", i, 1)
          [] c = "]" -> Token("rbrack", "]", i, 1)
          [] c = ":" -> read_named(src, i, "bind")
          [] c = "'" -> read_named(src, i, "move")
          [] c = Backquote -> read_named(src, i, "cap")
          [] c = "~" -> read_named(src, i, "op")
          [] c \in Digits -> read_number(src, i)
          [] is_ident_start(c) -> read_ident(src, i)
          [] OTHER -> read_op(src, i)
Line(src) == {c \in ToSet(src) : c # "\n"}
RECURSIVE TokensFrom(_, _, _)
AfterToken(src, t, out) ==
    IF IsError(t) THEN Append(out, t) ELSE TokensFrom(src, t.at + t.len, Append(out, t))
TokensFrom(src, i, out) ==
    IF i >= Len(src) THEN Append(out, Token("eof", "", i, 0))
    ELSE IF src[i + 1] \in Blank THEN TokensFrom(src, i + 1, out)
    ELSE IF src[i + 1] = "#" THEN TokensFrom(src, SkipWhile(src, i, Line(src)), out)
    ELSE AfterToken(src, Read(src, i), out)
\* The tokens of a text and eof, or those before the error and the error.
lex(src) == TokensFrom(src, 0, <<>>)

-----------------------------------------------------------------------------
\* A node is its kind, what it carries (a block: its nodes) and its position.
Node(k, v, p) == <<k, v, p>>
kind(n) == n[1]
val(n) == n[2]
pos(n) == n[3]
Parsed(nodes, next) == [nodes |-> nodes, next |-> next]
ParseError(at) == [code |-> "REPAIR_SYNTAX", at |-> at]

\* sequence(top), from the token at place k; node() is its last two branches.
RECURSIVE sequence(_, _, _, _)
sequence(toks, k, top, nodes) ==
    LET t == toks[k]
    IN  CASE t.kind = "eof" -> IF top THEN Parsed(nodes, k) ELSE ParseError(t.at)
          [] t.kind = "rbrack" -> IF top THEN ParseError(t.at) ELSE Parsed(nodes, k + 1)
          [] t.kind = "lbrack" ->
                LET inner == sequence(toks, k + 1, FALSE, <<>>)
                IN  IF IsError(inner) THEN inner
                    ELSE sequence(toks, inner.next, top,
                                  Append(nodes, Node("blk", inner.nodes, t.at)))
          [] OTHER -> sequence(toks, k + 1, top, Append(nodes, Node(t.kind, t.val, t.at)))
\* The nodes of a text, or the lex or parse error.
ParseTokens(toks) == IF IsError(Last(toks)) THEN Last(toks) ELSE sequence(toks, 1, TRUE, <<>>)
parse(src) == ParseTokens(lex(src))

-----------------------------------------------------------------------------
\* An instruction is [ins, val]; a program is its blocks, the last one main.
Instr(ins, v) == [ins |-> ins, val |-> v]
OpInstr(s) ==
    CASE s = "@" -> Instr("invoke", s) [] s = "?" -> Instr("select", s)
      [] s = ";" -> Instr("while", s) [] s = "??" -> Instr("match", s)
      [] OTHER -> Instr("op", s)
InstrOf(n) ==
    CASE kind(n) = "name" -> IF val(n) = "ty" THEN Instr("attempt", "ty") ELSE Instr("load", val(n))
      [] kind(n) = "op" -> OpInstr(val(n))
      [] OTHER -> Instr(kind(n), val(n))
\* Mutant of lower_seq: a block is numbered before the blocks inside it.
RECURSIVE LowerSeqEarly(_, _, _)
LowerSeqEarly(nodes, instrs, blocks) ==
    IF nodes = <<>> THEN Append(blocks, instrs)
    ELSE IF kind(Head(nodes)) # "blk"
         THEN LowerSeqEarly(Tail(nodes), Append(instrs, InstrOf(Head(nodes))), blocks)
    ELSE LET inner == LowerSeqEarly(val(Head(nodes)), <<>>, blocks)
         IN  LowerSeqEarly(Tail(nodes), Append(instrs, Instr("blk", Len(blocks) + 1)), inner)
\* The blocks so far, with the one these nodes become last.
RECURSIVE lower_seq(_, _, _)
lower_seq(nodes, instrs, blocks) ==
    IF nodes = <<>> THEN Append(blocks, instrs)
    ELSE IF kind(Head(nodes)) # "blk"
         THEN lower_seq(Tail(nodes), Append(instrs, InstrOf(Head(nodes))), blocks)
    ELSE LET inner == lower_seq(val(Head(nodes)), <<>>, blocks)
         IN  lower_seq(Tail(nodes), Append(instrs, Instr("blk", Len(inner))), inner)
lower(nodes) == lower_seq(nodes, <<>>, <<>>)

NodeOf(i) ==
    CASE i.ins \in {"load", "attempt"} -> Node("name", i.val, 0)
      [] i.ins \in {"invoke", "select", "while", "match"} -> Node("op", i.val, 0)
      [] OTHER -> Node(i.ins, i.val, 0)
RECURSIVE unlower_block(_, _)
unlower_block(prog, id) ==
    [k \in 1 .. Len(prog[id]) |->
        LET i == prog[id][k]
        IN  IF i.ins = "blk" THEN Node("blk", unlower_block(prog, i.val), 0) ELSE NodeOf(i)]
unlower(prog) == unlower_block(prog, Len(prog))
=============================================================================
