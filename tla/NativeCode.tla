------------------------------ MODULE NativeCode ------------------------------
(***************************************************************************)
(* A compiled program: the functions zown-codegen emits for the blocks of  *)
(* the IR, with Cranelift (lib.rs) or as LLVM text (llvm_ir.rs), and the   *)
(* runtime they call (zown-rt/src/lib.rs, zown-vm/src/native.rs).          *)
(* Values, bindings and words stay on the VM of Machine; a block is the    *)
(* number of its function and the depth of calls is counted in rt.         *)
(***************************************************************************)
EXTENDS Machine

\* + - * _ and the comparisons of plain ints run inline; everything else, and
\* a stack that is too short, goes to the VM's operator.
AreInts(m, k) == Has(m, k) /\ \A i \in 1 .. k : Top(m, i - 1)[1] = "int"
finish_int(m, n) ==
    IF n > IntMax \/ n < -(IntMax + 1) THEN Fault(m, "OVERFLOW") ELSE push(m, Int_(n))
emit_int_binop(m, op) ==
    IF AreInts(m, 2) THEN finish_int(Drop(m, 2), Arith(op, Top(m, 1)[2], Top(m, 0)[2]))
    ELSE plain_op(m, op)
emit_int_neg(m) ==
    IF AreInts(m, 1) THEN finish_int(Drop(m, 1), 0 - Top(m, 0)[2]) ELSE plain_op(m, "_")
emit_int_cmp(m, op) ==
    LET a == Top(m, 1)[2]
        b == Top(m, 0)[2]
        bit == CASE op = "==" -> a = b [] op = "!=" -> a # b [] op = "<" -> a < b
                 [] op = ">" -> a > b [] op = "<=" -> a <= b [] op = ">=" -> a >= b
    IN  IF AreInts(m, 2) THEN push(Drop(m, 2), Bit(bit)) ELSE plain_op(m, op)
emit_op(m, op) ==
    CASE ~m.inline -> plain_op(m, op)
      [] op \in {"+", "-", "*"} -> emit_int_binop(m, op)
      [] op = "_" -> emit_int_neg(m)
      [] op \in {"==", "!=", "<", ">", "<=", ">="} -> emit_int_cmp(m, op)
      [] OTHER -> plain_op(m, op)

-----------------------------------------------------------------------------
\* pop_func_id takes a compiled block only.
FuncFault(m, below) ==
    IF ~Has(m, 1) THEN "STACK_UNDERFLOW"
    ELSE IF Top(m, 0)[1] # "func" THEN "NOT_CALLABLE"
    ELSE PopFault(m, <<"any">> \o below)
FuncId(m) == Top(m, 0)[2]

RECURSIVE RunBlock(_, _, _)
Back(m) == [m EXCEPT !.rt = @ - 1]
call_block(m, prog, id) ==
    IF m.rt >= MaxDepth THEN Fault(m, "STACK_OVERFLOW")
    ELSE Back(RunBlock([m EXCEPT !.rt = @ + 1], prog, prog[id]))

emit_invoke(m, prog) == Unless(m, FuncFault(m, <<>>), call_block(Drop(m, 1), prog, FuncId(m)))

RECURSIVE Loop(_, _, _, _)
LoopBody(b, prog, cond, body) == IF Failed(b) THEN b ELSE Loop(b, prog, cond, body)
LoopCond(c, prog, cond, body) ==
    IF Failed(c) THEN c
    ELSE IF ~Has(c, 1) THEN Fault(c, "STACK_UNDERFLOW")
    ELSE IF ~truthy(Top(c, 0)) THEN Drop(c, 1)
    ELSE LoopBody(call_block(Drop(c, 1), prog, body), prog, cond, body)
Loop(m, prog, cond, body) == LoopCond(call_block(m, prog, cond), prog, cond, body)
emit_while(m, prog) ==
    Unless(m, FuncFault(m, <<>>),
           Unless(m, FuncFault(Drop(m, 1), <<>>),
                  Loop(Drop(m, 2), prog, FuncId(Drop(m, 1)), FuncId(m))))

\* Mutant of rt_attempt: the recorded error is looked at and left there.
SealKept(r, saved) == Fault(seal_attempt(r, saved), r.err)
RtAttemptKeeps(m, prog) ==
    IF "ty" \in DOMAIN m.env THEN push(m, m.env["ty"])
    ELSE Unless(m, FuncFault(m, <<>>),
                SealKept(call_block([m EXCEPT !.stack = <<>>], prog, FuncId(m)), Drop(m, 1).stack))
rt_attempt(m, prog) ==
    IF "ty" \in DOMAIN m.env THEN push(m, m.env["ty"])
    ELSE Unless(m, FuncFault(m, <<>>),
                seal_attempt(call_block([m EXCEPT !.stack = <<>>], prog, FuncId(m)), Drop(m, 1).stack))

\* ?? reads the shape of the arms and of the pattern from the registered blocks.
match_native(subject, instrs) ==
    pattern_matches(subject, [k \in 1 .. Len(instrs) |->
                                IF instrs[k].ins = "blk" THEN Node("blk", <<>>, 0) ELSE NodeOf(instrs[k])])
RECURSIVE ArmFrom(_, _, _, _)
ArmIf(m, prog, subject, arms, hit) ==
    CASE hit[1] = "bad" -> Fault(m, "BAD_PATTERN")
      [] hit[1] = "hit" -> call_block(push(m, hit[2]), prog, arms[2].val)
      [] hit[1] = "miss" -> ArmFrom(m, prog, subject, SubSeq(arms, 3, Len(arms)))
ArmFrom(m, prog, subject, arms) ==
    IF arms = <<>> THEN Fault(m, "NO_MATCH")
    ELSE IF arms[1].ins # "blk" \/ arms[2].ins # "blk" THEN Fault(m, "BAD_PATTERN")
    ELSE ArmIf(m, prog, subject, arms, match_native(subject, prog[arms[1].val]))
rt_match(m, prog) ==
    Unless(m, FuncFault(m, <<"any">>),
           IF Len(prog[FuncId(m)]) % 2 # 0 THEN Fault(m, "BAD_PATTERN")
           ELSE ArmFrom(Drop(m, 2), prog, Top(m, 1), prog[FuncId(m)]))

grant(m, prog) ==
    Unless(m, FuncFault(m, <<"cap">>),
           Ungrant(call_block(Granted(Drop(m, 2), Top(m, 1)[2]), prog, FuncId(m)), Top(m, 1)[2], m.caps))
exec_ts(m, prog) ==
    Unless(m, FuncFault(m, <<>>),
           finish_test(call_block(Drop(m, 1), prog, FuncId(m)), Len(m.stack) - 1))
RECURSIVE Again(_, _, _, _)
Again(m, prog, k, id) ==
    IF k = 0 \/ Failed(m) THEN m
    ELSE Again(finish_test(call_block(m, prog, id), Len(m.stack)), prog, k - 1, id)
exec_pp(m, prog) ==
    Unless(m, FuncFault(m, <<"int">>),
           IF Top(m, 1)[2] < 0 THEN Fault(m, "BOUNDS")
           ELSE Again(Drop(m, 2), prog, Top(m, 1)[2], FuncId(m)))
\* The name is popped, then the block; only then is the name looked at.
exec_wd(m) ==
    Unless(m, PopFault(m, <<"any">>),
           Unless(m, FuncFault(Drop(m, 1), <<>>),
                  IF ~is_word_name(Top(m, 0)) THEN Fault(m, "TYPE_MISMATCH")
                  ELSE [Drop(m, 2) EXCEPT
                          !.words = SetName(@, Top(m, 0)[2], <<"func", FuncId(Drop(m, 1))>>)]))
\* The words that run blocks are met before the words a program defined.
rt_load(m, prog, name) ==
    IF name \in DOMAIN m.env THEN push(m, m.env[name])
    ELSE CASE name = "gr" -> grant(m, prog)
           [] name = "ts" -> exec_ts(m, prog)
           [] name = "pp" -> exec_pp(m, prog)
           [] name = "wd" -> exec_wd(m)
           [] name \in DOMAIN m.words /\ m.words[name][1] = "func" ->
                 call_block(m, prog, m.words[name][2])
           [] OTHER -> exec_name(m, name)

emit(m, prog, i) ==
    CASE i.ins = "int" -> push(m, Int_(i.val))
      [] i.ins = "float" -> Fault(m, "OUTSIDE")
      [] i.ins = "str" -> push(m, Str(i.val))
      [] i.ins = "cap" -> push(m, Cap(i.val))
      [] i.ins = "blk" -> push(m, Func(i.val, Len(prog[i.val])))
      [] i.ins = "bind" -> bind(m, i.val)
      [] i.ins = "move" -> exec_move(m, i.val)
      [] i.ins = "load" -> rt_load(m, prog, i.val)
      [] i.ins = "op" -> emit_op(m, i.val)
      [] i.ins = "select" -> op_select(m)
      [] i.ins = "invoke" -> emit_invoke(m, prog)
      [] i.ins = "while" -> emit_while(m, prog)
      [] i.ins = "match" -> rt_match(m, prog)
      [] i.ins = "attempt" -> rt_attempt(m, prog)
\* compile_block: each instruction is followed by a test of its status.
RunBlock(m, prog, instrs) ==
    IF instrs = <<>> \/ Failed(m) THEN m
    ELSE IF m.fuel = 0 THEN Fault(m, "FUEL")
    ELSE RunBlock(emit([m EXCEPT !.fuel = @ - 1], prog, Head(instrs)), prog, Tail(instrs))

\* Main is called without a level of its own.  LLVM text has every operator call
\* the runtime.
run_jit(prog) == RunBlock([NewVm EXCEPT !.inline = TRUE], prog, prog[Len(prog)])
run_llvm(prog) == RunBlock(NewVm, prog, prog[Len(prog)])
=============================================================================
