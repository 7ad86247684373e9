------------------------------- MODULE WasmCode -------------------------------
(***************************************************************************)
(* A program built for WebAssembly: the functions zown-wasm emits for the  *)
(* blocks of the IR (lib.rs, v2.rs) and the runtime text they call (the    *)
(* module template of lib.rs, v2.wat, v2_num.wat), for ints, strings,      *)
(* blocks, capabilities and results.  Where this code does not do what the *)
(* tree-walker does, the run says so in odd.                               *)
(***************************************************************************)
EXTENDS Machine

CONSTANTS FloatBits      \* digits of a float's significand: 53 in the code

\* Compiling one of these is refused.
refused == {"wd", "tm", "gd", "cs", "sw", "rn"}
RefusedOps == {"|", "^"} \cup DOMAIN NetCap
emits(prog) ==
    \A b \in 1 .. Len(prog) : \A k \in 1 .. Len(prog[b]) :
        /\ prog[b][k].ins = "load" => prog[b][k].val \notin refused
        /\ prog[b][k].ins = "op" => prog[b][k].val \notin RefusedOps

\* catch is set inside ty: a fault is then left in err, else it ends the
\* process.  levels is the history of the depth the tree-walker would be at.
NewWasm ==
    [stack |-> <<>>, env |-> <<>>, caps |-> {}, depth |-> 0, levels |-> 0, out |-> <<>>,
     err |-> "none", catch |-> FALSE, fresh |-> 1, fuel |-> Fuel, odd |-> {}]
Odd(m, what, when) == IF when THEN [m EXCEPT !.odd = @ \cup {what}] ELSE m
\* A payload is used without a look at its tag: the model does not follow it.
Untagged(m) == Fault(m, "OUTSIDE")

\* Words pop all their operands and look at the tags after that; the
\* tree-walker looks at each operand as it pops it.
PoppedFault(m, types) ==
    IF Has(m, Len(types)) THEN PopFault(m, types) ELSE "STACK_UNDERFLOW"
FaultOf(m, types) ==
    Odd(Fault(m, PoppedFault(m, types)), "order", PoppedFault(m, types) # PopFault(m, types))

-----------------------------------------------------------------------------
\* Ints: {} is an overflow.
Wrap(n) == ((n + IntMax + 1) % (2 * (IntMax + 1))) - (IntMax + 1)
Quot(a, b) ==
    LET abs(n) == IF n < 0 THEN -n ELSE n
        q == abs(a) \div abs(b)
    IN  IF (a < 0) = (b < 0) THEN q ELSE -q
iadd(a, b) ==
    LET r == Wrap(a + b) IN IF (a < 0) = (b < 0) /\ (r < 0) # (a < 0) THEN {} ELSE {r}
isub(a, b) ==
    LET r == Wrap(a - b) IN IF (a < 0) # (b < 0) /\ (r < 0) # (a < 0) THEN {} ELSE {r}
imul(a, b) ==
    LET r == Wrap(a * b)
        least == -(IntMax + 1)
    IN  IF a = 0 \/ b = 0 THEN {0}
        ELSE IF <<a, b>> \in {<<least, -1>>, <<-1, least>>} THEN {}
        ELSE IF a # Quot(r, b) THEN {} ELSE {r}
ineg(a) == IF a = -(IntMax + 1) THEN {} ELSE {0 - a}
PushInt(m, r) == IF r = {} THEN Fault(m, "OVERFLOW") ELSE push(m, Int_(CHOOSE n \in r : TRUE))
IntResult(op, a, b) == CASE op = "+" -> iadd(a, b) [] op = "-" -> isub(a, b) [] op = "*" -> imul(a, b)
do_arith(m, op) ==
    IF PoppedFault(m, <<"int", "int">>) # "none" THEN FaultOf(m, <<"int", "int">>)
    ELSE PushInt(Drop(m, 2), IntResult(op, Top(m, 1)[2], Top(m, 0)[2]))

\* f64.convert_i64_s: the nearest float, the even one of two.
to_f(n) ==
    LET a == IF n < 0 THEN -n ELSE n
        k == CHOOSE e \in 0 .. 8 : /\ a < 2 ^ (FloatBits + e)
                                   /\ e = 0 \/ a >= 2 ^ (FloatBits + e - 1)
        q == a \div 2 ^ k
        r == 2 * (a % 2 ^ k)
        up == r > 2 ^ k \/ (r = 2 ^ k /\ q % 2 = 1)
        v == (IF up THEN q + 1 ELSE q) * 2 ^ k
    IN  IF n < 0 THEN -v ELSE v
Inexact(a, b) == to_f(a[2]) # a[2] \/ to_f(b[2]) # b[2]

\* Ints compare as floats, results by their address, blocks by their number.
vals_eq(a, b) ==
    /\ a[1] = b[1]
    /\ CASE a[1] = "int" -> to_f(a[2]) = to_f(b[2])
         [] a[1] = "res" -> a[4] = b[4]
         [] OTHER -> a[2] = b[2]
Differs(m, a, b) ==
    Odd(Odd(m, "result", a[1] = "res" /\ b[1] = "res"), "float", a[1] = "int" /\ b[1] = "int" /\ Inexact(a, b))
PushEq(m, op, a, b) == push(Drop(Differs(m, a, b), 2), Bit(vals_eq(a, b) = (op = "==")))
do_eq(m, op) ==
    IF ~Has(m, 2) THEN Fault(m, "STACK_UNDERFLOW") ELSE PushEq(m, op, Top(m, 1), Top(m, 0))
do_rel(m, op) ==
    IF ~Has(m, 2) THEN Fault(m, "STACK_UNDERFLOW")
    ELSE IF ~(Is(m, 1, "int") /\ Is(m, 2, "int")) THEN Untagged(m)
    ELSE push(Drop(m, 2), Bit(rel_bool(op, Top(m, 1), Top(m, 0))))
\* mx and mn compare as floats, and run no block.
FirstOf(name, a, b) == IF name = "mx" THEN to_f(a[2]) >= to_f(b[2]) ELSE to_f(a[2]) <= to_f(b[2])
PushMax(m, name, a, b) ==
    push(Drop(Odd(Odd(m, "float", Inexact(a, b)), "depth", m.levels + 2 > MaxDepth), 2),
         IF FirstOf(name, a, b) THEN a ELSE b)
emit_max(m, name) ==
    IF ~Has(m, 2) THEN Odd(Fault(m, "STACK_UNDERFLOW"), "depth", m.levels >= MaxDepth)
    ELSE IF ~(Is(m, 1, "int") /\ Is(m, 2, "int")) THEN Untagged(m)
    ELSE PushMax(m, name, Top(m, 1), Top(m, 0))

\* A block prints as its number.
RECURSIVE print_raw(_), HoldsBlock(_)
print_raw(v) ==
    CASE v[1] = "func" -> ToString(v[2] - 1)
      [] v[1] = "res" -> (IF v[2] THEN "ok " ELSE "err ") \o print_raw(v[3])
      [] OTHER -> display(v)
HoldsBlock(v) == IF v[1] = "res" THEN HoldsBlock(v[3]) ELSE v[1] = "func"
print_value(m) ==
    IF ~Has(m, 1) THEN Fault(m, "STACK_UNDERFLOW")
    ELSE [Odd(Drop(m, 1), "block", HoldsBlock(Top(m, 0)))
            EXCEPT !.out = Append(@, print_raw(Top(m, 0)))]

wasm_op(m, op) ==
    CASE op \in {"+", "-", "*"} -> do_arith(m, op)
      [] op = "_" -> Unless(m, PopFault(m, <<"int">>), PushInt(Drop(m, 1), ineg(Top(m, 0)[2])))
      [] op \in {"==", "!="} -> do_eq(m, op)
      [] op \in {"<", ">", "<=", ">="} -> do_rel(m, op)
      [] op = "." -> print_value(m)
      [] OTHER -> plain_op(m, op)

-----------------------------------------------------------------------------
RECURSIVE RunFn(_, _, _)
\* $invoke.  Only this counts the depth: a loop does not.
Below(m) == Odd(m, "depth", m.levels >= MaxDepth)
LeaveInvoke(m) == [m EXCEPT !.depth = @ - 1, !.levels = @ - 1]
LeaveTurn(m) == [m EXCEPT !.levels = @ - 1]
wasm_invoke(m, prog, id) ==
    IF m.depth >= MaxDepth THEN Odd(Fault(m, "STACK_OVERFLOW"), "depth", m.levels > m.depth)
    ELSE IF Failed(m) THEN m
    ELSE LeaveInvoke(RunFn([Below(m) EXCEPT !.depth = @ + 1, !.levels = @ + 1], prog, prog[id]))
Turn(m, prog, id) == LeaveTurn(RunFn([Below(m) EXCEPT !.levels = @ + 1], prog, prog[id]))
RECURSIVE Turns(_, _, _, _)
TurnBody(b, prog, cond, body) == IF Failed(b) THEN b ELSE Turns(b, prog, cond, body)
TurnCond(c, prog, cond, body) ==
    IF Failed(c) THEN c
    ELSE IF ~Has(c, 1) THEN Fault(c, "STACK_UNDERFLOW")
    ELSE IF ~truthy(Top(c, 0)) THEN Drop(c, 1)
    ELSE TurnBody(Turn(Drop(c, 1), prog, body), prog, cond, body)
Turns(m, prog, cond, body) == TurnCond(Turn(m, prog, cond), prog, cond, body)
\* Neither ; nor ? nor ?? looks at the tag of its blocks.
wasm_while(m, prog) ==
    IF ~Has(m, 2) THEN FaultOf(m, <<"block", "block">>)
    ELSE IF ~(Is(m, 1, "block") /\ Is(m, 2, "block")) THEN Untagged(m)
    ELSE Turns(Drop(m, 2), prog, Top(m, 1)[2], Top(m, 0)[2])
wasm_select(m) ==
    IF ~Has(m, 3) THEN FaultOf(m, <<"block", "block", "any">>)
    ELSE IF ~(Is(m, 1, "block") /\ Is(m, 2, "block")) THEN Untagged(m)
    ELSE push(Drop(m, 3), IF truthy(Top(m, 2)) THEN Top(m, 1) ELSE Top(m, 0))

\* Mutant of do_ty: the outer catch is not put back.
Attempted(m, prog) ==
    wasm_invoke([Drop(m, 1) EXCEPT !.stack = <<>>, !.catch = TRUE, !.err = "none"], prog, Top(m, 0)[2])
\* A result is a new object: == of two looks at that.
NewResult(s, bound) ==
    IF Failed(s) THEN s
    ELSE [Odd(s, "attempt", bound)
            EXCEPT !.stack = Append(Front(@), Append(Last(@), s.fresh)), !.fresh = @ + 1]
DoTyCatches(m, prog) ==
    Unless(m, PopFault(m, <<"block">>),
           NewResult(seal_attempt(Attempted(m, prog), Drop(m, 1).stack), "ty" \in DOMAIN m.env))
\* ty is met before a binding of that name.
do_ty(m, prog) ==
    Unless(m, PopFault(m, <<"block">>),
           NewResult(seal_attempt([Attempted(m, prog) EXCEPT !.catch = m.catch], Drop(m, 1).stack),
                     "ty" \in DOMAIN m.env))

\* The record of a pattern holds ints and names; a string is not looked at.
wasm_pattern(subject, instrs) ==
    IF Len(instrs) = 1 /\ instrs[1].ins \in {"int", "load"}
    THEN pattern_matches(subject, <<NodeOf(instrs[1])>>) ELSE <<"bad">>
StringPattern(instrs) == Len(instrs) = 1 /\ instrs[1].ins = "str"
RECURSIVE WasmArm(_, _, _, _)
WasmTry(m, prog, subject, arms, hit) ==
    CASE hit[1] = "bad" -> Odd(Fault(m, "BAD_PATTERN"), "string", StringPattern(prog[arms[1].val]))
      [] hit[1] = "hit" -> wasm_invoke(push(m, hit[2]), prog, arms[2].val)
      [] hit[1] = "miss" -> WasmArm(m, prog, subject, SubSeq(arms, 3, Len(arms)))
WasmArm(m, prog, subject, arms) ==
    IF arms = <<>> THEN Fault(m, "NO_MATCH")
    ELSE IF arms[1].ins # "blk" \/ arms[2].ins # "blk" THEN Fault(m, "BAD_PATTERN")
    ELSE WasmTry(m, prog, subject, arms, wasm_pattern(subject, prog[arms[1].val]))
\* Without a subject a caught fault is noted and the arms are tried on 0.
MatchArms(m, prog, subject, arms) ==
    IF Len(arms) % 2 # 0 THEN Fault(m, "BAD_PATTERN") ELSE WasmArm(m, prog, subject, arms)
Bare(m) == Odd(Fault(Drop(m, 1), "STACK_UNDERFLOW"), "subject", m.catch)
do_match(m, prog) ==
    IF ~Has(m, 1) THEN Fault(m, "STACK_UNDERFLOW")
    ELSE IF ~Is(m, 1, "block") THEN Untagged(m)
    ELSE IF ~Has(m, 2) /\ ~m.catch THEN Bare(m)
    ELSE MatchArms(IF Has(m, 2) THEN Drop(m, 2) ELSE Bare(m), prog,
                   IF Has(m, 2) THEN Top(m, 1) ELSE Int_(0), prog[Top(m, 0)[2]])

do_gr(m, prog) ==
    IF PoppedFault(m, <<"block", "cap">>) # "none" THEN FaultOf(m, <<"block", "cap">>)
    ELSE Ungrant(wasm_invoke(Granted(Drop(m, 2), Top(m, 1)[2]), prog, Top(m, 0)[2]), Top(m, 1)[2], m.caps)
do_ts(m, prog) ==
    Unless(m, PopFault(m, <<"block">>),
           finish_test(wasm_invoke(Drop(m, 1), prog, Top(m, 0)[2]), Len(m.stack) - 1))
RECURSIVE TestTimes(_, _, _, _)
TestTimes(m, prog, k, id) ==
    IF k = 0 \/ Failed(m) THEN m
    ELSE TestTimes(finish_test(wasm_invoke(m, prog, id), Len(m.stack)), prog, k - 1, id)
do_pp(m, prog) ==
    IF PoppedFault(m, <<"block", "int">>) # "none" THEN FaultOf(m, <<"block", "int">>)
    ELSE IF Top(m, 1)[2] < 0 THEN Fault(m, "BOUNDS")
    ELSE TestTimes(Drop(m, 2), prog, Top(m, 1)[2], Top(m, 0)[2])

emit_word(m, prog, name) ==
    CASE name = "gr" -> do_gr(m, prog) [] name = "ts" -> do_ts(m, prog)
      [] name = "pp" -> do_pp(m, prog) [] name \in {"mx", "mn"} -> emit_max(m, name)
      [] OTHER -> plain_word(m, name)
\* A name that is bound somewhere in the program has a flag that says whether it
\* is bound now; without it the word runs.
emit_load(m, prog, name) ==
    IF name \in DOMAIN m.env THEN push(m, m.env[name]) ELSE emit_word(m, prog, name)
emit_instr(m, prog, i) ==
    CASE i.ins = "int" -> push(m, Int_(i.val))
      [] i.ins = "float" -> Fault(m, "OUTSIDE")
      [] i.ins = "str" -> push(m, Str(i.val))
      [] i.ins = "cap" -> push(m, Cap(i.val))
      [] i.ins = "blk" -> push(m, Func(i.val, Len(prog[i.val])))
      [] i.ins = "bind" -> bind(m, i.val)
      [] i.ins = "move" -> exec_move(m, i.val)
      [] i.ins = "load" -> emit_load(m, prog, i.val)
      [] i.ins = "op" -> wasm_op(m, i.val)
      [] i.ins = "select" -> wasm_select(m)
      [] i.ins = "invoke" -> Unless(m, PopFault(m, <<"block">>), wasm_invoke(Drop(m, 1), prog, Top(m, 0)[2]))
      [] i.ins = "while" -> wasm_while(m, prog)
      [] i.ins = "match" -> do_match(m, prog)
      [] i.ins = "attempt" -> do_ty(m, prog)
\* emit_block: err is looked at before every instruction.
RunFn(m, prog, instrs) ==
    IF instrs = <<>> \/ Failed(m) THEN m
    ELSE IF m.fuel = 0 THEN Fault(m, "FUEL")
    ELSE RunFn(emit_instr([m EXCEPT !.fuel = @ - 1], prog, Head(instrs)), prog, Tail(instrs))

\* What the module prints and ends with: _start returns, or a fault has ended
\* the process.
AtEnd(m) == IF m.catch THEN [m EXCEPT !.err = "none"] ELSE m
run_wasm(prog) ==
    IF ~emits(prog) THEN Fault(NewWasm, "OUTSIDE") ELSE AtEnd(RunFn(NewWasm, prog, prog[Len(prog)]))
=============================================================================
