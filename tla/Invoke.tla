------------------------------- MODULE Invoke -------------------------------
(***************************************************************************)
(* Block invocation in the Zown tree-walker (zown-vm/src/lib.rs): the      *)
(* words that run a block, what each of them sets up before the block and  *)
(* takes down after it, and how a fault travels through them.              *)
(*                                                                         *)
(* A program is whatever sequence of tokens exec_node meets, so in mode    *)
(* "run" any token may come next.  The literal operands of a word (its     *)
(* blocks, capability, path, word name) are pushed by the tokens in front  *)
(* of it and popped by it again, so they are parameters of its action;     *)
(* a word that finds a wrong or missing operand is the action Trap.  Of a  *)
(* value on the stack only its truthiness is kept: that is all the words   *)
(* that run blocks look at.                                                *)
(***************************************************************************)
EXTENDS Naturals, Sequences

CONSTANTS
  Cap,        \* capability names
  Disk,       \* the capability `d, which `gd` grants
  Path,       \* resolved paths
  Allows,     \* <<root, candidate>> pairs for which `allowed` is true
  Word,       \* names `wd` can define
  Body,       \* word bodies
  None,       \* no value
  MaxDepth,   \* MAX_INVOKE_DEPTH (128 in the code)
  MaxStack,   \* bound: the stacks explored hold at most this many values
  MaxRepeat   \* bound: repeat counts of `pp` and lane counts of `vec`

ASSUME DiskAssumption   == Disk \in Cap
ASSUME AllowsAssumption == /\ Allows \subseteq Path \X Path
                           /\ \A p \in Path : <<p, p>> \in Allows
ASSUME NoneAssumption   == None \notin Cap \cup Path \cup Word \cup Body
ASSUME BoundAssumption  == /\ MaxDepth \in Nat /\ MaxStack \in Nat
                           /\ MaxRepeat \in Nat

VARIABLES
  mode,    \* "run": executing tokens; "call": a word is about to `invoke`;
           \* "over": that `invoke` refused; "fault": a RunError is travelling
           \* up; "idle": between two `run_str` calls on the same VM
  stack,   \* truthiness of the values, top last
  frames,  \* the active words that run a block, innermost last
  depth,   \* Vm.depth
  caps,    \* Vm.caps
  roots,   \* Vm.roots
  words,   \* Vm.words
  undo     \* Vm.swap_undo

vars == <<mode, stack, frames, depth, caps, roots, words, undo>>

-----------------------------------------------------------------------------
Top(s) == s[Len(s)]
Pop(s) == SubSeq(s, 1, Len(s) - 1)

(* What a handler keeps in its locals while its block runs.  "old" and     *)
(* "snap" are history: the word `sw` replaced, and the authority and the   *)
(* pending swaps when the handler started.  No action reads them.          *)
Snapshot == [caps |-> caps, roots |-> roots, undo |-> undo]

Frame(op, arg, fresh, saved, base, left, old) ==
  [op |-> op, arg |-> arg, fresh |-> fresh, saved |-> saved, base |-> base,
   left |-> left, old |-> old, snap |-> Snapshot]

(* A handler that grants and installs nothing. *)
PlainFrame(op, saved, base, left) == Frame(op, None, FALSE, saved, base, left, None)

Ops == {"plain", "cond", "body", "ty", "vec", "gr", "gd", "ts", "pp", "sw"}

Undo == [word : Word, old : Body]

FrameType ==
  [op : Ops, arg : Cap \cup Path \cup Word \cup {None}, fresh : BOOLEAN,
   saved : Seq(BOOLEAN), base : Nat, left : Nat, old : Body \cup {None},
   snap : [caps : SUBSET Cap, roots : Seq(Path), undo : Seq(Undo)]]

(* One type invariant for the module. *)
TypeOK ==
  /\ mode \in {"run", "call", "over", "fault", "idle"}
  /\ stack \in Seq(BOOLEAN)
  /\ frames \in Seq(FrameType)
  /\ depth \in Nat
  /\ caps \in SUBSET Cap
  /\ roots \in Seq(Path)
  /\ words \in [Word -> Body \cup {None}]
  /\ undo \in Seq(Undo)

Init ==
  /\ mode = "run" /\ stack = <<>> /\ frames = <<>> /\ depth = 0
  /\ caps = {} /\ roots = <<>> /\ undo = <<>>
  /\ words = [w \in Word |-> None]

-----------------------------------------------------------------------------
(* Tokens that run no block. *)

Push(v) ==
  /\ mode = "run" /\ Len(stack) < MaxStack
  /\ stack' = Append(stack, v)
  /\ UNCHANGED <<mode, frames, depth, caps, roots, words, undo>>

Drop ==
  /\ mode = "run" /\ stack # <<>>
  /\ stack' = Pop(stack)
  /\ UNCHANGED <<mode, frames, depth, caps, roots, words, undo>>

(* Any word whose operands are missing or wrong: it has popped k of them   *)
(* when it returns the RunError.                                           *)
Trap(k) ==
  /\ mode = "run" /\ k <= Len(stack)
  /\ stack' = SubSeq(stack, 1, Len(stack) - k)
  /\ mode' = "fault"
  /\ UNCHANGED <<frames, depth, caps, roots, words, undo>>

Have(c) ==
  /\ mode = "run" /\ Len(stack) < MaxStack
  /\ stack' = Append(stack, c \in caps)
  /\ UNCHANGED <<mode, frames, depth, caps, roots, words, undo>>

Require(c) ==
  /\ mode = "run"
  /\ mode' = IF c \in caps THEN "run" ELSE "fault"
  /\ UNCHANGED <<stack, frames, depth, caps, roots, words, undo>>

(* under_disk: both the capability and a root that allows the candidate.   *)
UnderDisk(p) ==
  /\ Disk \in caps
  /\ \E i \in 1..Len(roots) : <<roots[i], p>> \in Allows

DiskWord(p) ==
  /\ mode = "run"
  /\ mode' = IF UnderDisk(p) THEN "run" ELSE "fault"
  /\ UNCHANGED <<stack, frames, depth, caps, roots, words, undo>>

DefineWord(w, b) ==
  /\ mode = "run"
  /\ words' = [words EXCEPT ![w] = b]
  /\ UNCHANGED <<mode, stack, frames, depth, caps, roots, undo>>

-----------------------------------------------------------------------------
(* Words that run a block: what they do up to the call of `invoke`. *)

Call(f) ==
  /\ mode = "run"
  /\ frames' = Append(frames, f)
  /\ mode' = "call"
  /\ UNCHANGED depth

(* `@`, an arm of `??`, a fired UI handler. *)
CallBlock ==
  Call(PlainFrame("plain", <<>>, 0, 0)) /\ UNCHANGED <<stack, caps, roots, words, undo>>

(* A name that is a defined word. *)
CallWord(w) ==
  /\ words[w] # None
  /\ Call(PlainFrame("plain", <<>>, 0, 0)) /\ UNCHANGED <<stack, caps, roots, words, undo>>

While ==
  Call(PlainFrame("cond", <<>>, 0, 0)) /\ UNCHANGED <<stack, caps, roots, words, undo>>

(* `ty` runs its block on an empty stack. *)
Attempt ==
  /\ Len(stack) < MaxStack
  /\ Call(PlainFrame("ty", stack, 0, 0))
  /\ stack' = <<>>
  /\ UNCHANGED <<caps, roots, words, undo>>

(* The vector constructors, `rw`, `cm` and `gp` collect what their block   *)
(* leaves; n is the count they require.                                    *)
Collect(n) ==
  /\ Len(stack) < MaxStack
  /\ Call(PlainFrame("vec", stack, 0, n))
  /\ stack' = <<>>
  /\ UNCHANGED <<caps, roots, words, undo>>

\* Mutated form of Grant: a nested grant believes it added the capability.
GrantAlwaysFresh(c) ==
  /\ Call(Frame("gr", c, TRUE, <<>>, 0, 0, None))
  /\ caps' = caps \cup {c}
  /\ UNCHANGED <<stack, roots, words, undo>>

Grant(c) ==
  /\ Call(Frame("gr", c, c \notin caps, <<>>, 0, 0, None))
  /\ caps' = caps \cup {c}
  /\ UNCHANGED <<stack, roots, words, undo>>

(* begin_disk.  A path that does not resolve is a Trap: nothing is pushed. *)
GrantDisk(p) ==
  /\ Call(Frame("gd", p, Disk \notin caps, <<>>, 0, 0, None))
  /\ roots' = Append(roots, p)
  /\ caps' = caps \cup {Disk}
  /\ UNCHANGED <<stack, words, undo>>

Test ==
  /\ Call(PlainFrame("ts", <<>>, Len(stack), 0))
  /\ UNCHANGED <<stack, caps, roots, words, undo>>

(* `pp` with a count k > 0; with 0 it does nothing. *)
Repeat(k) ==
  /\ Call(PlainFrame("pp", <<>>, Len(stack), k))
  /\ UNCHANGED <<stack, caps, roots, words, undo>>

(* begin_swap accepted the name and the signature: install_ast. *)
Swap(w, b) ==
  /\ words[w] # None
  /\ Call(Frame("sw", w, FALSE, <<>>, Len(stack), 0, words[w]))
  /\ undo' = Append(undo, [word |-> w, old |-> words[w]])
  /\ words' = [words EXCEPT ![w] = b]
  /\ UNCHANGED <<stack, caps, roots>>

-----------------------------------------------------------------------------
Enter ==
  /\ mode = "call"
  /\ \/ depth >= MaxDepth /\ mode' = "over" /\ UNCHANGED depth
     \/ depth < MaxDepth  /\ mode' = "run"  /\ depth' = depth + 1
  /\ UNCHANGED <<stack, frames, caps, roots, words, undo>>

-----------------------------------------------------------------------------
(* What a handler takes down when it ends, with a fault or without. *)

Dropped(f) == IF f.op = "gd" THEN Disk ELSE f.arg

\* Mutated form of RestoreCaps: the fresh flag is not looked at.
AlwaysDropCap(f) == IF f.op \in {"gr", "gd"} THEN caps \ {Dropped(f)} ELSE caps

RestoreCaps(f)  == IF f.fresh THEN caps \ {Dropped(f)} ELSE caps

\* Mutated form of RestoreRoots: end_disk leaves the root.
KeepRoots(f) == roots

RestoreRoots(f) == IF f.op = "gd" THEN Pop(roots) ELSE roots

\* Mutated form of RestoreWords: a failed test does not roll the word back.
NoRollback(f, ok) == words

(* rollback_swap, and commit_swap which only forgets the old word. *)
RestoreWords(f, ok) ==
  IF f.op = "sw" /\ ~ok
  THEN [words EXCEPT ![Top(undo).word] = Top(undo).old]
  ELSE words

RestoreUndo(f) == IF f.op = "sw" THEN Pop(undo) ELSE undo

Leave(f, ok) ==
  /\ frames' = Pop(frames)
  /\ caps' = RestoreCaps(f)
  /\ roots' = RestoreRoots(f)
  /\ words' = RestoreWords(f, ok)
  /\ undo' = RestoreUndo(f)

(* The same handler, with other locals, calls `invoke` again. *)
Rerun(f, op, base, left) ==
  [op |-> op, arg |-> f.arg, fresh |-> f.fresh, saved |-> f.saved, base |-> base,
   left |-> left, old |-> f.old, snap |-> f.snap]

Again(f) ==
  /\ frames' = Append(Pop(frames), f)
  /\ mode' = "call"
  /\ UNCHANGED <<caps, roots, words, undo>>

Ended(ops) ==
  /\ mode = "run" /\ frames # <<>> /\ Top(frames).op \in ops
  /\ depth' = depth - 1

(* A block ended and the handler has nothing to check. *)
ReturnPlain ==
  /\ Ended({"plain", "gr", "gd"})
  /\ Leave(Top(frames), TRUE)
  /\ mode' = "run" /\ UNCHANGED stack

(* The condition of `;` leaves its answer on top of the stack. *)
ReturnCond ==
  /\ Ended({"cond"})
  /\ \/ /\ stack = <<>>
        /\ Leave(Top(frames), FALSE) /\ mode' = "fault" /\ UNCHANGED stack
     \/ /\ stack # <<>> /\ ~Top(stack)
        /\ Leave(Top(frames), TRUE) /\ mode' = "run" /\ stack' = Pop(stack)
     \/ /\ stack # <<>> /\ Top(stack)
        /\ Again(Rerun(Top(frames), "body", 0, 0)) /\ stack' = Pop(stack)

ReturnBody ==
  /\ Ended({"body"})
  /\ Again(Rerun(Top(frames), "cond", 0, 0)) /\ UNCHANGED stack

(* seal_attempt without a fault. *)
ReturnAttempt ==
  /\ Ended({"ty"})
  /\ LET f == Top(frames) IN
       \/ /\ Len(stack) = 1
          /\ Leave(f, TRUE) /\ mode' = "run" /\ stack' = Append(f.saved, TRUE)
       \/ /\ Len(stack) # 1
          /\ Leave(f, FALSE) /\ mode' = "fault" /\ stack' = f.saved

(* build_vec, finish_box, finish_gpu: the right count of values, each of   *)
(* which may still be refused.                                             *)
ReturnCollect ==
  /\ Ended({"vec"})
  /\ LET f == Top(frames) IN
       \/ /\ Len(stack) = f.left
          /\ Leave(f, TRUE) /\ mode' = "run" /\ stack' = Append(f.saved, TRUE)
       \/ Leave(f, FALSE) /\ mode' = "fault" /\ stack' = f.saved

(* finish_test: exactly one new value, and it is true. *)
OneLeft(f) == Len(stack) = f.base + 1
Passed(f)  == OneLeft(f) /\ Top(stack)

ReturnTest ==
  /\ Ended({"ts", "pp", "sw"})
  /\ LET f == Top(frames) IN
     /\ stack' = IF OneLeft(f) THEN Pop(stack) ELSE stack
     /\ \/ /\ ~Passed(f)
           /\ Leave(f, FALSE) /\ mode' = "fault"
        \/ /\ Passed(f) /\ f.left > 1
           /\ Again(Rerun(f, f.op, Len(stack) - 1, f.left - 1))
        \/ /\ Passed(f) /\ f.left <= 1
           /\ Leave(f, TRUE) /\ mode' = "run"

(* A fault leaves the innermost handler; an `invoke` that refused has not  *)
(* counted.  Only `ty` keeps the fault from its caller.                    *)
UnwoundDepth == IF mode = "over" THEN depth ELSE depth - 1

\* Mutated form of UnwoundMode: `ty` does not catch its own invoke's
\* STACK_OVERFLOW.
OverflowNotCaught(f) == IF f.op = "ty" /\ mode = "fault" THEN "run" ELSE "fault"
UnwoundMode(f) == IF f.op = "ty" THEN "run" ELSE "fault"

Unwind ==
  /\ mode \in {"over", "fault"} /\ frames # <<>>
  /\ depth' = UnwoundDepth
  /\ LET f == Top(frames) IN
     /\ Leave(f, FALSE)
     /\ mode' = UnwoundMode(f)
     /\ stack' = CASE f.op = "ty"  -> Append(f.saved, FALSE)
                   [] f.op = "vec" -> f.saved
                   [] OTHER        -> stack

(* The program ends, or its fault reaches run_str. *)
EndProgram ==
  /\ mode \in {"run", "fault"} /\ frames = <<>>
  /\ mode' = "idle"
  /\ UNCHANGED <<stack, frames, depth, caps, roots, words, undo>>

(* The next line of the repl on the same VM. *)
NextLine ==
  /\ mode = "idle"
  /\ mode' = "run"
  /\ UNCHANGED <<stack, frames, depth, caps, roots, words, undo>>

-----------------------------------------------------------------------------
Token ==
  \/ \E v \in BOOLEAN : Push(v)
  \/ Drop
  \/ \E k \in 0..MaxStack : Trap(k)
  \/ \E c \in Cap : Have(c) \/ Require(c)
  \/ \E p \in Path : DiskWord(p)
  \/ \E w \in Word, b \in Body : DefineWord(w, b)

StartCall ==
  \/ CallBlock
  \/ \E w \in Word : CallWord(w)
  \/ While
  \/ Attempt
  \/ \E n \in 0..MaxRepeat : Collect(n)
  \/ \E c \in Cap : Grant(c)
  \/ \E p \in Path : GrantDisk(p)
  \/ Test
  \/ \E k \in 1..MaxRepeat : Repeat(k)
  \/ \E w \in Word, b \in Body : Swap(w, b)

Return ==
  \/ ReturnPlain \/ ReturnCond \/ ReturnBody \/ ReturnAttempt
  \/ ReturnCollect \/ ReturnTest

Next == Token \/ StartCall \/ Enter \/ Return \/ Unwind \/ EndProgram \/ NextLine

Spec == Init /\ [][Next]_vars

(* The interpreter does not stop in the middle of handling a fault: each   *)
(* Err is returned to the caller at once.  Nothing is assumed of programs. *)
EndFaulted == mode = "fault" /\ EndProgram
FairSpec == Spec /\ WF_vars(Unwind) /\ WF_vars(EndFaulted)

-----------------------------------------------------------------------------
(* Properties. *)

Nothing == [caps |-> {}, roots |-> <<>>, undo |-> <<>>]

(* The authority and the pending swaps while the block of f runs. *)
After(f) ==
  [caps  |-> f.snap.caps \cup (CASE f.op = "gr" -> {f.arg}
                               [] f.op = "gd" -> {Disk}
                               [] OTHER       -> {}),
   roots |-> IF f.op = "gd" THEN Append(f.snap.roots, f.arg) ELSE f.snap.roots,
   undo  |-> IF f.op = "sw"
             THEN Append(f.snap.undo, [word |-> f.arg, old |-> f.old])
             ELSE f.snap.undo]

(* The capabilities and roots in force, and the swaps that can be rolled   *)
(* back, are exactly what the handlers now active have granted and         *)
(* installed, each on top of what it found, whatever faulted before.       *)
AuthorityIsScoped ==
  /\ \A i \in 1..Len(frames) :
       frames[i].snap = IF i = 1 THEN Nothing ELSE After(frames[i - 1])
  /\ Snapshot = IF frames = <<>> THEN Nothing ELSE After(Top(frames))

(* Vm.depth counts the blocks being executed, also after an invocation was *)
(* refused or unwound, and never passes the limit.                         *)
DepthIsNesting ==
  /\ depth + (IF mode \in {"call", "over"} THEN 1 ELSE 0) = Len(frames)
  /\ depth <= MaxDepth

(* A VM that is reused after a program ended or faulted (the repl) holds   *)
(* no capability, no disk root, no pending swap and no call depth.         *)
CleanWhenIdle ==
  mode = "idle" => Snapshot = Nothing /\ depth = 0

(* A loop whose condition could be invoked can invoke its body: the depth  *)
(* check of `invoke` never stops `;` half-way through an iteration.        *)
BodyAlwaysEnters ==
  mode = "over" => Top(frames).op # "body"

(* A handler that ends, by returning or by a fault passing through it,     *)
(* leaves the capabilities, the roots and the pending swaps it found.      *)
HandlerRestores ==
  [][Len(frames') < Len(frames) => Snapshot' = Top(frames).snap]_vars

(* `sw` either ends without a fault or leaves its word as it was before,   *)
(* whatever its test defined, swapped or faulted on.                       *)
SwapAllOrNothing ==
  [][LET f == Top(frames) IN
     (Len(frames') < Len(frames) /\ f.op = "sw" /\ mode' # "run")
        => words'[f.arg] = f.old]_vars

(* The innermost `ty` around a fault catches it, with nothing else run in  *)
(* between: i is its place among the active handlers.                      *)
Catches(i) ==
  /\ i <= Len(frames) /\ frames[i].op = "ty"
  /\ \A j \in i + 1..Len(frames) : frames[j].op # "ty"

Faulting == mode \in {"fault", "over"}

InnermostCatches ==
  \A i \in 1..MaxDepth + 1 :
    (Faulting /\ Catches(i)) ~> (mode = "run" /\ Len(frames) = i - 1)

(* The VM's grant flags and its stack of roots implement save-and-restore  *)
(* scoping of authority.                                                   *)
Scoping == INSTANCE Authority WITH
  now    <- [caps |-> caps, roots |-> roots],
  before <- [i \in 1..Len(frames) |->
               [caps |-> frames[i].snap.caps, roots |-> frames[i].snap.roots]]

ImplementsScoping == Scoping!Spec
=============================================================================
