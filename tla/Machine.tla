------------------------------- MODULE Machine -------------------------------
(***************************************************************************)
(* The tree-walker: Vm::exec and the words that run blocks, bind names and *)
(* hold capabilities (zown-vm/src/lib.rs, stdwords.rs), on the nodes of    *)
(* Source.  One run of a program is a function of it.                      *)
(***************************************************************************)
EXTENDS Source, FiniteSets, Functions, Integers

CONSTANTS MaxDepth,      \* MAX_INVOKE_DEPTH, and MAX_DEPTH of zown-rt
          Fuel           \* nodes a run may execute: bounds loops

\* Values.  A block has the identity of the Rc its literal made; a compiled
\* block has the number of its function.
Int_(n) == <<"int", n>>
Str(s) == <<"str", s>>
Cap(c) == <<"cap", c>>
Block(id, nodes) == <<"block", id, nodes>>
Func(id, nodes) == <<"func", id, nodes>>
Res(ok, v) == <<"res", ok, v>>

type_name(v) == IF v[1] = "func" THEN "block" ELSE v[1]
TypeNames == {"int", "float", "str", "block", "cap", "res"}
truthy(v) ==
    CASE v[1] = "int" -> v[2] # 0
      [] v[1] = "str" -> v[2] # ""
      [] v[1] = "block" -> v[3] # <<>>
      [] v[1] = "func" -> v[3] # 0
      [] v[1] = "res" -> v[2]
      [] OTHER -> TRUE
RECURSIVE display(_)
display(v) ==
    CASE v[1] = "int" -> ToString(v[2])
      [] v[1] = "block" -> "blk:" \o ToString(Len(v[3]))
      [] v[1] = "func" -> "blk:" \o ToString(v[3])
      [] v[1] = "res" -> (IF v[2] THEN "ok " ELSE "err ") \o display(v[3])
      [] OTHER -> v[2]
\* Blocks compare by identity.
RECURSIVE zown_eq(_, _)
zown_eq(a, b) ==
    /\ a[1] = b[1]
    /\ IF a[1] = "res" THEN a[2] = b[2] /\ zown_eq(a[3], b[3]) ELSE a[2] = b[2]

-----------------------------------------------------------------------------
\* The state of a VM.  err is "none", or the code of the fault that is on its
\* way out; done is the history of the positions whose node ended well.
\* FUEL and OUTSIDE end a run the model does not follow further.  rt counts the
\* calls of compiled code, inline says whether that code does ints itself.
StdPos == 999
Ops(syms) == [k \in 1 .. Len(syms) |-> Node("op", syms[k], StdPos)]
Chosen(less) ==
    Ops(<<"&", "&", "\\", less>>) \o <<Node("blk", Ops(<<"\\", ",">>), StdPos),
                                       Node("blk", Ops(<<",">>), StdPos)>> \o Ops(<<"?", "@">>)
\* std/core.zn.
StdWords == [mx |-> <<"ast", Chosen(">")>>, mn |-> <<"ast", Chosen("<")>>]
NewVm ==
    [stack |-> <<>>, env |-> <<>>, words |-> StdWords, caps |-> {}, depth |-> 0, rt |-> 0,
     out |-> <<>>, err |-> "none", fresh |-> 1, fuel |-> Fuel, done |-> {}, inline |-> FALSE]

Stopped == {"FUEL", "OUTSIDE"}
Fault(m, code) == [m EXCEPT !.err = code]
Failed(m) == m.err # "none"
push(m, v) == [m EXCEPT !.stack = Append(@, v)]
Top(m, k) == m.stack[Len(m.stack) - k]
Drop(m, k) == [m EXCEPT !.stack = SubSeq(@, 1, Len(@) - k)]
Has(m, k) == Len(m.stack) >= k
Bit(b) == Int_(IF b THEN 1 ELSE 0)
IsBlock(v) == type_name(v) = "block"
SetName(f, k, v) == (k :> v) @@ f

\* The fault of popping values of these types, top first: a fault ends the
\* run or is sealed by ty on a fresh stack, so what was popped never shows.
Is(m, k, type) == type = "any" \/ type_name(Top(m, k - 1)) = type
PopFault(m, types) ==
    LET bad == {k \in 1 .. Len(types) : IF Has(m, k) THEN ~Is(m, k, types[k]) ELSE TRUE}
        first == CHOOSE k \in bad : \A j \in bad : k <= j
    IN  IF bad = {} THEN "none"
        ELSE IF ~Has(m, first) THEN "STACK_UNDERFLOW"
        ELSE IF types[first] = "block" THEN "NOT_CALLABLE" ELSE "TYPE_MISMATCH"

fit_int(m, n) ==
    IF n \in (-(IntMax + 1)) .. IntMax THEN push(m, Int_(n)) ELSE Fault(m, "OVERFLOW")
Arith(op, a, b) == CASE op = "+" -> a + b [] op = "-" -> a - b [] op = "*" -> a * b
\* What an operator does when popping its operands does not fault.
Unless(m, fault, done) == IF fault # "none" THEN Fault(m, fault) ELSE done
op_arith(m, op) ==
    Unless(m, PopFault(m, <<"int", "int">>), fit_int(Drop(m, 2), Arith(op, Top(m, 1)[2], Top(m, 0)[2])))
op_neg(m) == Unless(m, PopFault(m, <<"int">>), fit_int(Drop(m, 1), -Top(m, 0)[2]))
rel_bool(op, a, b) ==
    CASE op = "==" -> zown_eq(a, b) [] op = "!=" -> ~zown_eq(a, b)
      [] op = "<" -> a[2] < b[2] [] op = ">" -> a[2] > b[2]
      [] op = "<=" -> a[2] <= b[2] [] op = ">=" -> a[2] >= b[2]
op_rel(m, op) ==
    IF ~Has(m, 2) THEN Fault(m, "STACK_UNDERFLOW")
    ELSE IF op \notin {"==", "!="} /\ Is(m, 1, "str") /\ Is(m, 2, "str") THEN Fault(m, "OUTSIDE")
    ELSE IF op \notin {"==", "!="} /\ ~(Is(m, 1, "int") /\ Is(m, 2, "int")) THEN Fault(m, "TYPE_MISMATCH")
    ELSE push(Drop(m, 2), Bit(rel_bool(op, Top(m, 1), Top(m, 0))))

\* The operators that run no block.  ~o ~s ~c ~l ~r need their capability and
\* then leave this model.
NetCap == "~o" :> "t" @@ "~s" :> "t" @@ "~c" :> "t" @@ "~l" :> "r" @@ "~r" :> "r"
plain_op(m, op) ==
    CASE op \in {"+", "-", "*"} -> op_arith(m, op)
      [] op = "_" -> op_neg(m)
      [] op \in {"==", "!=", "<", ">", "<=", ">="} -> op_rel(m, op)
      [] op \in {"&&", "||", "\\", "&"} /\ ~Has(m, 2) -> Fault(m, "STACK_UNDERFLOW")
      [] op \in {"!", "=", ",", "."} /\ ~Has(m, 1) -> Fault(m, "STACK_UNDERFLOW")
      [] op = "&&" -> push(Drop(m, 2), Bit(truthy(Top(m, 1)) /\ truthy(Top(m, 0))))
      [] op = "||" -> push(Drop(m, 2), Bit(truthy(Top(m, 1)) \/ truthy(Top(m, 0))))
      [] op = "!" -> push(Drop(m, 1), Bit(~truthy(Top(m, 0))))
      [] op = "=" -> push(m, Top(m, 0))
      [] op = "," -> Drop(m, 1)
      [] op = "\\" -> push(push(Drop(m, 2), Top(m, 0)), Top(m, 1))
      [] op = "&" -> push(m, Top(m, 1))
      [] op = "." -> [Drop(m, 1) EXCEPT !.out = Append(@, display(Top(m, 0)))]
      [] op \in DOMAIN NetCap -> Fault(m, IF NetCap[op] \in m.caps THEN "OUTSIDE" ELSE "CAP_DENIED")
      [] OTHER -> Fault(m, "UNSUPPORTED")
op_select(m) ==
    Unless(m, PopFault(m, <<"block", "block", "any">>),
           push(Drop(m, 3), IF truthy(Top(m, 2)) THEN Top(m, 1) ELSE Top(m, 0)))

\* rq, hv, tm and dp.
require(m) ==
    Unless(m, PopFault(m, <<"cap">>),
           IF Top(m, 0)[2] \in m.caps THEN Drop(m, 1) ELSE Fault(m, "CAP_DENIED"))
have(m) == Unless(m, PopFault(m, <<"cap">>), push(Drop(m, 1), Bit(Top(m, 0)[2] \in m.caps)))
plain_word(m, name) ==
    CASE name = "rq" -> require(m)
      [] name = "hv" -> have(m)
      [] name = "tm" -> IF "c" \in m.caps THEN push(push(m, Int_(0)), Int_(0)) ELSE Fault(m, "CAP_DENIED")
      [] name = "dp" -> fit_int(m, Len(m.stack))
      [] OTHER -> Fault(m, "NAME_UNRESOLVED")

exec_move(m, name) ==
    IF name \notin DOMAIN m.env THEN Fault(m, "NAME_UNRESOLVED")
    ELSE push([m EXCEPT !.env = Restrict(@, DOMAIN @ \ {name})], m.env[name])
bind(m, name) ==
    IF ~Has(m, 1) THEN Fault(m, "STACK_UNDERFLOW")
    ELSE [Drop(m, 1) EXCEPT !.env = SetName(@, name, Top(m, 0))]

\* ty: the body ran on a stack of its own; `saved` is the outer one.
seal_attempt(m, saved) ==
    LET back == [m EXCEPT !.stack = saved]
    IN  IF m.err \in Stopped THEN back
        ELSE IF Failed(m) THEN push([back EXCEPT !.err = "none"], Res(FALSE, Str(m.err)))
        ELSE IF Len(m.stack) = 1 THEN push(back, Res(TRUE, m.stack[1]))
        ELSE Fault(back, "BOUNDS")
\* ts and pp: exactly one new value, and it is truthy.
finish_test(m, depth) ==
    IF Failed(m) THEN m
    ELSE IF Len(m.stack) # depth + 1 THEN Fault(m, "BOUNDS")
    ELSE IF truthy(Top(m, 0)) THEN Drop(m, 1) ELSE Fault(m, "TEST_FAIL")
is_word_name(v) == v[1] = "str" /\ v[2] # ""

\* One pattern of ??: BAD_PATTERN, a miss, or the value the body starts with.
pattern_matches(subject, pat) ==
    LET n == pat[1]
        hit(b) == IF b THEN <<"hit", subject>> ELSE <<"miss">>
    IN  IF Len(pat) # 1 THEN <<"bad">>
        ELSE CASE n[1] = "name" /\ n[2] = "any" -> hit(TRUE)
               [] n[1] = "int" -> hit(subject[1] = "int" /\ zown_eq(subject, Int_(n[2])))
               [] n[1] = "str" -> hit(subject[1] = "str" /\ zown_eq(subject, Str(n[2])))
               [] n[1] = "name" /\ n[2] \in {"ok", "err"} ->
                     IF subject[1] = "res" /\ subject[2] = (n[2] = "ok")
                     THEN <<"hit", subject[3]>> ELSE <<"miss">>
               [] n[1] = "name" /\ n[2] \in TypeNames -> hit(type_name(subject) = n[2])
               [] OTHER -> <<"bad">>

-----------------------------------------------------------------------------
\* Every value in a run of the tree-walker that is a block has its nodes.
RECURSIVE exec(_, _)
\* Entered at the limit or not, the depth is what it was when this returns.
Return(m) == [m EXCEPT !.depth = @ - 1]
invoke(m, nodes) ==
    IF m.depth >= MaxDepth THEN Fault(m, "STACK_OVERFLOW")
    ELSE Return(exec([m EXCEPT !.depth = @ + 1], nodes))

RECURSIVE While(_, _, _)
AfterBody(b, cond, body) == IF Failed(b) THEN b ELSE While(b, cond, body)
AfterCond(c, cond, body) ==
    IF Failed(c) THEN c
    ELSE IF ~Has(c, 1) THEN Fault(c, "STACK_UNDERFLOW")
    ELSE IF ~truthy(Top(c, 0)) THEN Drop(c, 1)
    ELSE AfterBody(invoke(Drop(c, 1), body), cond, body)
While(m, cond, body) == AfterCond(invoke(m, cond), cond, body)
op_while(m) ==
    Unless(m, PopFault(m, <<"block", "block">>), While(Drop(m, 2), Top(m, 1)[3], Top(m, 0)[3]))

RECURSIVE FirstArm(_, _, _)
TryArm(m, subject, arms, hit) ==
    CASE hit[1] = "bad" -> Fault(m, "BAD_PATTERN")
      [] hit[1] = "hit" -> invoke(push(m, hit[2]), val(arms[2]))
      [] hit[1] = "miss" -> FirstArm(m, subject, SubSeq(arms, 3, Len(arms)))
FirstArm(m, subject, arms) ==
    IF arms = <<>> THEN Fault(m, "NO_MATCH")
    ELSE IF kind(arms[1]) # "blk" \/ kind(arms[2]) # "blk" THEN Fault(m, "BAD_PATTERN")
    ELSE TryArm(m, subject, arms, pattern_matches(subject, val(arms[1])))
op_match(m) ==
    Unless(m, PopFault(m, <<"block", "any">>),
           IF Len(Top(m, 0)[3]) % 2 # 0 THEN Fault(m, "BAD_PATTERN")
           ELSE FirstArm(Drop(m, 2), Top(m, 1), Top(m, 0)[3]))

exec_op(m, op) ==
    CASE op = "@" -> Unless(m, PopFault(m, <<"block">>), invoke(Drop(m, 1), Top(m, 0)[3]))
      [] op = "?" -> op_select(m)
      [] op = ";" -> op_while(m)
      [] op = "??" -> op_match(m)
      [] OTHER -> plain_op(m, op)

b_attempt(m) ==
    Unless(m, PopFault(m, <<"block">>),
           seal_attempt(invoke([m EXCEPT !.stack = <<>>], Top(m, 0)[3]), Drop(m, 1).stack))
\* Only a capability that was not held before is taken away again.
Granted(m, cap) == [m EXCEPT !.caps = @ \cup {cap}]
Ungrant(m, cap, held) == IF cap \in held THEN m ELSE [m EXCEPT !.caps = @ \ {cap}]
b_grant(m) ==
    Unless(m, PopFault(m, <<"block", "cap">>),
           Ungrant(invoke(Granted(Drop(m, 2), Top(m, 1)[2]), Top(m, 0)[3]), Top(m, 1)[2], m.caps))
b_wd(m) ==
    Unless(m, PopFault(m, <<"any">>),
           IF ~is_word_name(Top(m, 0)) THEN Fault(m, "TYPE_MISMATCH")
           ELSE Unless(m, PopFault(m, <<"any", "block">>),
                       [Drop(m, 2) EXCEPT !.words = SetName(@, Top(m, 0)[2], <<"ast", Top(m, 1)[3]>>)]))
b_ts(m) ==
    Unless(m, PopFault(m, <<"block">>),
           finish_test(invoke(Drop(m, 1), Top(m, 0)[3]), Len(m.stack) - 1))
RECURSIVE Repeat(_, _, _)
Repeat(m, k, body) ==
    IF k = 0 \/ Failed(m) THEN m
    ELSE Repeat(finish_test(invoke(m, body), Len(m.stack)), k - 1, body)
b_pp(m) ==
    Unless(m, PopFault(m, <<"block", "int">>),
           IF Top(m, 1)[2] < 0 THEN Fault(m, "BOUNDS")
           ELSE Repeat(Drop(m, 2), Top(m, 1)[2], Top(m, 0)[3]))

try_builtin(m, name) ==
    CASE name = "ty" -> b_attempt(m) [] name = "gr" -> b_grant(m) [] name = "wd" -> b_wd(m)
      [] name = "ts" -> b_ts(m) [] name = "pp" -> b_pp(m)
      [] OTHER -> plain_word(m, name)
\* A binding hides a word, and a word hides a builtin.
exec_name(m, name) ==
    IF name \in DOMAIN m.env THEN push(m, m.env[name])
    ELSE IF name \notin DOMAIN m.words THEN try_builtin(m, name)
    ELSE IF m.words[name][1] = "ast" THEN invoke(m, m.words[name][2]) ELSE Fault(m, "UNSUPPORTED")

exec_node(m, n) ==
    CASE kind(n) = "int" -> push(m, Int_(val(n)))
      [] kind(n) = "float" -> Fault(m, "OUTSIDE")
      [] kind(n) = "str" -> push(m, Str(val(n)))
      [] kind(n) = "cap" -> push(m, Cap(val(n)))
      [] kind(n) = "blk" -> push([m EXCEPT !.fresh = @ + 1], Block(m.fresh, val(n)))
      [] kind(n) = "name" -> exec_name(m, val(n))
      [] kind(n) = "bind" -> bind(m, val(n))
      [] kind(n) = "move" -> exec_move(m, val(n))
      [] kind(n) = "op" -> exec_op(m, val(n))
Done(m, n) == IF Failed(m) THEN m ELSE [m EXCEPT !.done = @ \cup {pos(n)}]
exec(m, nodes) ==
    IF nodes = <<>> \/ Failed(m) THEN m
    ELSE IF m.fuel = 0 THEN Fault(m, "FUEL")
    ELSE exec(Done(exec_node([m EXCEPT !.fuel = @ - 1], Head(nodes)), Head(nodes)), Tail(nodes))

\* zownc run --unchecked: what it prints, and the code it ends with.
run(nodes) == exec(NewVm, nodes)
=============================================================================
