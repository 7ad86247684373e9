------------------------------- MODULE Language -------------------------------
(***************************************************************************)
(* zownc on every program somebody types: the text is lexed, parsed,       *)
(* checked, run by the tree-walker (--unchecked) and run as compiled code. *)
(* zown-cli/src/main.rs cmd_check, cmd_run, cmd_native.                    *)
(***************************************************************************)
EXTENDS NativeCode, WasmCode, Checker

CONSTANTS Keyboards      \* what is typed: [chunks (texts), length (of them)]

VARIABLES keyboard, typed,    \* the keyboard in use, and the chunks typed so far
          text,               \* the program
          diags,              \* the findings of the checker
          vm, native, llvm,   \* what the executions did: [out, err, done]
          wasm                \* the same of the WebAssembly module: [out, err, odd]

langVars == <<keyboard, typed, text, diags, vm, native, llvm, wasm>>

Nothing == [out |-> <<>>, err |-> "none", done |-> {}]
Summary(m) == [out |-> m.out, err |-> m.err, done |-> m.done]
\* The commands, given the parsed program or the error it has.
cmd_check(program) == IF IsError(program) THEN <<>> ELSE check(program.nodes)
cmd_run(program) == IF IsError(program) THEN Nothing ELSE Summary(run(program.nodes))
cmd_native(program) ==
    IF IsError(program) THEN Nothing ELSE Summary(run_jit(lower(program.nodes)))
cmd_llvm(program) ==
    IF IsError(program) THEN Nothing ELSE Summary(run_llvm(lower(program.nodes)))
NoModule == [out |-> <<>>, err |-> "none", odd |-> {}]
WatSummary(m) == [out |-> m.out, err |-> m.err, odd |-> m.odd]
cmd_wat(program) ==
    IF IsError(program) THEN NoModule ELSE WatSummary(run_wasm(lower(program.nodes)))

Init == /\ keyboard \in Keyboards /\ typed = 0 /\ text = <<>>
        /\ diags = <<>> /\ vm = Nothing /\ native = Nothing /\ llvm = Nothing
        /\ wasm = NoModule

\* A program whose run ended in a fault ends in it whatever is typed after, and
\* a stray ] stays one.
Stray(program) == IsError(program) /\ program.at < Len(text) /\ text[program.at + 1] = "]"
Ended == vm.err # "none" \/ Stray(parse(text))
Type(chunk) ==
    \E program \in {parse(text \o chunk)} :
        /\ text' = text \o chunk /\ typed' = typed + 1
        /\ diags' = cmd_check(program) /\ vm' = cmd_run(program)
        /\ native' = cmd_native(program) /\ llvm' = cmd_llvm(program)
        /\ wasm' = cmd_wat(program)
        /\ UNCHANGED keyboard
Next == typed < keyboard.length /\ ~Ended /\ \E chunk \in keyboard.chunks : Type(chunk)
Spec == Init /\ [][Next]_langVars

-----------------------------------------------------------------------------
\* What a token looks like, said of its characters alone.
AllIn(s, class) == \A i \in 1 .. Len(s) : s[i] \in class
IsIdent(s) == s # <<>> /\ is_ident_start(s[1]) /\ AllIn(s, Cont)
IsNumber(s) == s # <<>> /\ AllIn(s, Digits)
\* A character is escaped when an odd number of backslashes stand before it.
EscapedAt(s, i) ==
    LET run_ == {j \in 2 .. i - 1 : \A k \in j .. i - 1 : s[k] = "\\"} IN Cardinality(run_) % 2 = 1
IsString(s) ==
    /\ Len(s) > 1 /\ s[1] = "$" /\ Last(s) = "$" /\ ~EscapedAt(s, Len(s))
    /\ \A i \in 2 .. Len(s) - 1 : s[i] = "$" => EscapedAt(s, i)
IsFloat(s) == \E i \in 2 .. Len(s) - 1 :
                  s[i] = "." /\ IsNumber(SubSeq(s, 1, i - 1)) /\ IsNumber(SubSeq(s, i + 1, Len(s)))
IsLexeme(s) ==
    \/ IsString(s) \/ IsIdent(s) \/ IsNumber(s) \/ IsFloat(s)
    \/ s # <<>> /\ s[1] \in {":", "'", "~", Backquote} /\ IsIdent(Tail(s))
    \/ Joined(s) \in ONE_CHAR_OPS \cup TWO_CHAR_OPS \cup {"[", "]"}
InComment(src, from, i) ==
    \E j \in from .. i : src[j] = "#" /\ \A k \in j .. i : src[k] # "\n"

ByCharacter == \A chunk \in keyboard.chunks : Len(chunk) = 1

End(toks, k) == IF k = 0 THEN 0 ELSE toks[k].at + toks[k].len
From(i, n) == SubSeq(text, i + 1, i + n)
LongestToken(t, before) ==
    /\ IsLexeme(From(t.at, t.len))
    /\ \A n \in t.len + 1 .. Len(text) - t.at : ~IsLexeme(From(t.at, n))
    /\ ~InComment(text, before + 1, t.at + 1)
    /\ \A i \in before + 1 .. t.at : text[i] \in Blank \/ InComment(text, before + 1, i)
\* Where the first lexeme after this offset must start.
NextStart(from) ==
    Min({i \in from + 1 .. Len(text) : text[i] \notin Blank /\ ~InComment(text, from + 1, i)})
ErrorAt(t, i) ==
    IF t.code = "OVERFLOW" THEN text[i] \in Digits
    ELSE \A n \in 1 .. Len(text) - i + 1 : ~IsLexeme(From(i - 1, n))
LongestMatch(toks) ==
    /\ \A k \in 1 .. Len(toks) :
          ~IsError(toks[k]) /\ toks[k].kind # "eof" => LongestToken(toks[k], End(toks, k - 1))
    /\ IsError(Last(toks)) => ErrorAt(Last(toks), NextStart(End(toks, Len(toks) - 1)))

\* Every token is the longest lexeme that starts where it starts, an error
\* stands where no lexeme starts (or an int too large does), and between two
\* tokens there are only blanks and comments: no character is lost, and none is
\* read twice (zown-lexer lex, read_string, read_number, read_named, read_op).
LexIsLongestMatch == ByCharacter => LongestMatch(lex(text))

\* The program in tokens again.
RECURSIVE Flat(_)
Flat(nodes) ==
    IF nodes = <<>> THEN <<>>
    ELSE LET n == Head(nodes)
         IN  (IF kind(n) = "blk" THEN <<<<"lbrack", "[">>>> \o Flat(val(n)) \o <<<<"rbrack", "]">>>>
              ELSE <<<<kind(n), val(n)>>>>) \o Flat(Tail(nodes))
Nesting(toks, k) ==
    Cardinality({i \in 1 .. k : toks[i].kind = "lbrack"})
        - Cardinality({i \in 1 .. k : toks[i].kind = "rbrack"})

Nests(body) == Nesting(body, Len(body)) = 0 /\ \A k \in 1 .. Len(body) : Nesting(body, k) >= 0
RoundTrips(toks, program) ==
    ~IsError(Last(toks)) =>
        /\ IsError(program) <=> ~Nests(Front(toks))
        /\ ~IsError(program) =>
              Flat(unlower(lower(program.nodes)))
                  = [k \in 1 .. Len(toks) - 1 |-> <<toks[k].kind, toks[k].val>>]

\* Nothing of a program changes on its way to the code generators: its blocks,
\* put back together from the IR, are its tokens in their order, and exactly the
\* texts whose brackets do not nest are refused (zown-parser sequence, zown-ir
\* lower_seq, unlower).
SourceRoundTrips == RoundTrips(lex(text), parse(text))

\* The places that a finding of a missing name or capability names.
Flagged == {d \in ToSet(diags) : d[1] \in {"NAME_UNRESOLVED", "CAP_DENIED"}}
\* The words a program defines, and whether it runs blocks by words that are not
\* in INVOKING_WORDS: the checker reads a program top to bottom and does not see
\* what those do to names.
WordsOf(nodes) ==
    UNION {{val(b[i - 1]) : i \in {j \in 2 .. Len(b) :
                is_word(collect_binds(nodes), b[j], "wd") /\ kind(b[j - 1]) = "str"}} :
           b \in AllBlocks(nodes)}
Overtaken(nodes) ==
    \E n \in AllNodes(nodes) : kind(n) = "name" /\ val(n) \in {"ts", "pp"} \cup WordsOf(nodes)

\* A name the checker says is never there, or a capability it says is never
\* held, at some place of the program: that place never ends well in the run,
\* but for names in programs that run blocks by ts, pp or words of their own
\* (zown-check walk, walk_block, check_require, against zown-vm exec).
FindingIsFault ==
    \A d \in Flagged :
        d[2] \in vm.done => d[1] = "NAME_UNRESOLVED" /\ Overtaken(parse(text).nodes)

\* The compiled programs and the tree-walker print the same and end in the same
\* fault or none (zown-codegen emit, llvm_ir, zown-rt, native.rs, zown-vm exec).
\* Of programs the keyboards can type: they leave out what is known to differ, the
\* identity of a block literal that is evaluated twice, wd of a builtin's name,
\* mx, mn and cl at the depth limit, the order of the checks of "1 1 wd" and the
\* text of large floats.
NativeAgrees ==
    \A n \in {native, llvm} :
        vm.err \notin Stopped /\ n.err \notin Stopped => vm.out = n.out /\ vm.err = n.err

\* So does the WebAssembly module of every program it is built for, unless the
\* run met one of the things odd names: operands of the wrong type on a short
\* stack (order), loops or mx at the depth limit, == and mx of ints no float
\* holds, == of results, a printed block, a string as a pattern, ?? inside ty
\* without a subject, a binding called ty (zown-wasm emit_instr, emit_word,
\* $do_ty, $do_gr, $do_match, $iadd, $imul).
WasmAgrees ==
    vm.err \notin Stopped /\ wasm.err \notin Stopped /\ wasm.odd = {}
        => vm.out = wasm.out /\ vm.err = wasm.err
=============================================================================
