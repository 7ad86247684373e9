---------------------------- MODULE InvokeProofs ----------------------------
(***************************************************************************)
(* Theorems about Invoke for every set of capabilities, paths, words and   *)
(* bodies and every bound.                                                 *)
(***************************************************************************)
EXTENDS Invoke, SequenceTheorems, TLAPS

-----------------------------------------------------------------------------
(* Sequences used as stacks. *)

LEMMA PopType ==
  ASSUME NEW S, NEW s \in Seq(S), s # <<>>
  PROVE  /\ Pop(s) \in Seq(S) /\ Len(Pop(s)) = Len(s) - 1
         /\ Top(s) \in S /\ Len(s) \in Nat \ {0}
         /\ \A i \in 1..Len(s) - 1 : Pop(s)[i] = s[i]
<1>1. Len(s) \in Nat /\ Len(s) >= 1
  BY EmptySeq
<1>2. PICK n \in Nat : Len(s) = n + 1
  BY <1>1
<1>3. \A i \in 1..n : s[i] \in S
  BY <1>2
<1>4. Pop(s) = SubSeq(s, 1, n)
  BY <1>2 DEF Pop
<1>5. /\ SubSeq(s, 1, n) \in Seq(S)
      /\ Len(SubSeq(s, 1, n)) = IF 1 <= n THEN n - 1 + 1 ELSE 0
      /\ \A i \in 1..n - 1 + 1 : SubSeq(s, 1, n)[i] = s[1 + i - 1]
  BY <1>3, SubSeqProperties
<1>6. Len(Pop(s)) = n
  BY <1>4, <1>5
<1>7. ASSUME NEW i \in 1..n PROVE Pop(s)[i] = s[i]
  <2>1. i \in 1..n - 1 + 1 /\ 1 + i - 1 = i
    OBVIOUS
  <2>. QED
    BY <2>1, <1>4, <1>5
<1>8. Top(s) \in S
  BY <1>1 DEF Top
<1>. QED
  BY <1>2, <1>4, <1>5, <1>6, <1>7, <1>8

LEMMA AppendType ==
  ASSUME NEW S, NEW s \in Seq(S), NEW x \in S
  PROVE  /\ Append(s, x) \in Seq(S) /\ Len(Append(s, x)) = Len(s) + 1
         /\ Append(s, x) # <<>> /\ Top(Append(s, x)) = x
         /\ \A i \in 1..Len(s) : Append(s, x)[i] = s[i]
BY DEF Top

LEMMA PopAppend ==
  ASSUME NEW S, NEW s \in Seq(S), NEW x \in S
  PROVE  Pop(Append(s, x)) = s
BY DEF Pop

-----------------------------------------------------------------------------
(* The inductive invariant. *)

(* Locals of the handlers: an operand of the right kind, and a flag that   *)
(* says whether the capability was new.                                    *)
FrameOK(f) ==
  /\ f.op = "gr" => f.arg \in Cap
  /\ f.op = "gd" => f.arg \in Path
  /\ f.op = "sw" => f.arg \in Word /\ f.old \in Body
  /\ f.fresh = (f.op \in {"gr", "gd"} /\ Dropped(f) \notin f.snap.caps)

FramesOK == \A i \in 1..Len(frames) : FrameOK(frames[i])

IdleIsTop == mode = "idle" => frames = <<>>

(* A loop body is only invoked where its condition was. *)
BodyReady == mode = "call" /\ Top(frames).op = "body" => depth < MaxDepth

IInv ==
  /\ TypeOK /\ FramesOK /\ AuthorityIsScoped /\ DepthIsNesting
  /\ IdleIsTop /\ BodyReady /\ BodyAlwaysEnters

LEMMA InitIInv == Init => IInv
BY BoundAssumption
   DEF Init, IInv, TypeOK, FramesOK, AuthorityIsScoped, DepthIsNesting,
       IdleIsTop, BodyReady, BodyAlwaysEnters, Snapshot, Nothing

(* The three ways in which a step changes the handlers keep the chain of   *)
(* snapshots: a new handler, the same handler once more, one handler less. *)
LEMMA PushScoped ==
  ASSUME TypeOK, AuthorityIsScoped, NEW f \in FrameType,
         frames' = Append(frames, f), f.snap = Snapshot, Snapshot' = After(f)
  PROVE  AuthorityIsScoped'
<1>1. /\ frames' \in Seq(FrameType) /\ Len(frames') = Len(frames) + 1
      /\ frames' # <<>> /\ Top(frames') = f
      /\ \A i \in 1..Len(frames) : frames'[i] = frames[i]
  BY AppendType DEF TypeOK
<1>2. Len(frames) \in Nat /\ frames'[Len(frames) + 1] = f
  BY <1>1 DEF TypeOK, Top
<1>3. ASSUME NEW i \in 1..Len(frames')
      PROVE  frames'[i].snap = IF i = 1 THEN Nothing ELSE After(frames'[i - 1])
  <2>1. CASE i \in 1..Len(frames)
    <3>1. frames[i].snap = IF i = 1 THEN Nothing ELSE After(frames[i - 1])
      BY <2>1 DEF AuthorityIsScoped
    <3>2. i # 1 => i - 1 \in 1..Len(frames)
      BY <2>1, <1>2
    <3>. QED
      BY <1>1, <2>1, <3>1, <3>2
  <2>2. CASE i = Len(frames) + 1
    <3>1. frames = <<>> <=> Len(frames) = 0
      BY EmptySeq DEF TypeOK
    <3>2. f.snap = IF frames = <<>> THEN Nothing ELSE After(Top(frames))
      BY DEF AuthorityIsScoped
    <3>3. frames # <<>> => frames'[i - 1] = Top(frames)
      BY <1>1, <1>2, <2>2, <3>1 DEF Top
    <3>. QED
      BY <1>2, <2>2, <3>1, <3>2, <3>3
  <2>. QED
    BY <1>1, <1>2, <2>1, <2>2
<1>. QED
  BY <1>1, <1>3 DEF AuthorityIsScoped

LEMMA PopScoped ==
  ASSUME TypeOK, AuthorityIsScoped, frames # <<>>,
         frames' = Pop(frames), Snapshot' = Top(frames).snap
  PROVE  AuthorityIsScoped'
<1>1. /\ frames' \in Seq(FrameType) /\ Len(frames') = Len(frames) - 1
      /\ Len(frames) \in Nat \ {0}
      /\ \A i \in 1..Len(frames) - 1 : frames'[i] = frames[i]
  BY PopType DEF TypeOK
<1>2. ASSUME NEW i \in 1..Len(frames')
      PROVE  frames'[i].snap = IF i = 1 THEN Nothing ELSE After(frames'[i - 1])
  <2>1. frames[i].snap = IF i = 1 THEN Nothing ELSE After(frames[i - 1])
    BY <1>1 DEF AuthorityIsScoped
  <2>2. i # 1 => i - 1 \in 1..Len(frames) - 1
    BY <1>1
  <2>. QED
    BY <1>1, <2>1, <2>2
<1>3. Snapshot' = IF frames' = <<>> THEN Nothing ELSE After(Top(frames'))
  <2>1. Top(frames).snap =
          IF Len(frames) = 1 THEN Nothing ELSE After(frames[Len(frames) - 1])
    BY <1>1 DEF AuthorityIsScoped, Top
  <2>2. frames' = <<>> <=> Len(frames) = 1
    BY <1>1, EmptySeq
  <2>3. Len(frames) # 1 => Top(frames') = frames[Len(frames) - 1]
    BY <1>1 DEF Top
  <2>. QED
    BY <2>1, <2>2, <2>3
<1>. QED
  BY <1>2, <1>3 DEF AuthorityIsScoped

(* The same handler calls `invoke` again, with other locals. *)
LEMMA AgainScoped ==
  ASSUME TypeOK, AuthorityIsScoped, frames # <<>>, NEW f \in FrameType,
         frames' = Append(Pop(frames), f), f.snap = Top(frames).snap,
         After(f) = After(Top(frames)), Snapshot' = Snapshot
  PROVE  AuthorityIsScoped'
<1>1. /\ Pop(frames) \in Seq(FrameType) /\ Len(Pop(frames)) = Len(frames) - 1
      /\ Len(frames) \in Nat \ {0}
      /\ \A i \in 1..Len(frames) - 1 : Pop(frames)[i] = frames[i]
  BY PopType DEF TypeOK
<1>2. /\ Len(frames') = Len(frames)
      /\ frames' # <<>> /\ Top(frames') = f
      /\ \A i \in 1..Len(frames) - 1 : frames'[i] = frames[i]
  BY <1>1, AppendType
<1>3. frames'[Len(frames)] = f
  BY <1>2 DEF Top
<1>4. ASSUME NEW i \in 1..Len(frames')
      PROVE  frames'[i].snap = IF i = 1 THEN Nothing ELSE After(frames'[i - 1])
  <2>1. frames[i].snap = IF i = 1 THEN Nothing ELSE After(frames[i - 1])
    BY <1>2 DEF AuthorityIsScoped
  <2>2. i # 1 => i - 1 \in 1..Len(frames) - 1
    BY <1>1, <1>2
  <2>3. frames'[i].snap = frames[i].snap
    BY <1>1, <1>2, <1>3 DEF Top
  <2>. QED
    BY <1>2, <2>1, <2>2, <2>3
<1>. QED
  BY <1>2, <1>4 DEF AuthorityIsScoped

(* What a handler takes down is what it set up. *)
LEMMA LeaveRestores ==
  ASSUME IInv, frames # <<>>, NEW ok \in BOOLEAN, Leave(Top(frames), ok)
  PROVE  Snapshot' = Top(frames).snap
<1> DEFINE f == Top(frames)
<1>1. f \in FrameType /\ Len(frames) \in 1..Len(frames) /\ f = frames[Len(frames)]
  BY PopType DEF IInv, TypeOK, Top
<1>2. FrameOK(f)
  BY <1>1 DEF IInv, FramesOK
<1>3. Snapshot = After(f)
  BY DEF IInv, AuthorityIsScoped
<1>4. caps = After(f).caps /\ roots = After(f).roots /\ undo = After(f).undo
  BY <1>3 DEF Snapshot
<1>5. caps' = f.snap.caps
  <2>1. caps' = IF f.fresh THEN caps \ {Dropped(f)} ELSE caps
    BY DEF Leave, RestoreCaps
  <2>2. CASE f.op \in {"gr", "gd"}
    <3>1. caps = f.snap.caps \cup {Dropped(f)}
      BY <1>4, <2>2 DEF After, Dropped
    <3>2. f.fresh = (Dropped(f) \notin f.snap.caps)
      BY <1>2, <2>2 DEF FrameOK
    <3>. QED
      BY <2>1, <3>1, <3>2
  <2>3. CASE f.op \notin {"gr", "gd"}
    <3>1. caps = f.snap.caps
      BY <1>4, <2>3 DEF After
    <3>2. f.fresh = FALSE
      BY <1>2, <2>3 DEF FrameOK
    <3>. QED
      BY <2>1, <3>1, <3>2
  <2>. QED
    BY <2>2, <2>3
<1>6. roots' = f.snap.roots
  <2>1. CASE f.op = "gd"
    BY <1>1, <1>2, <1>4, <2>1, PopAppend
       DEF Leave, RestoreRoots, After, FrameType, FrameOK
  <2>. QED
    BY <1>4, <2>1 DEF Leave, RestoreRoots, After
<1>7. undo' = f.snap.undo
  <2>1. CASE f.op = "sw"
    <3>1. [word |-> f.arg, old |-> f.old] \in Undo
      BY <1>2, <2>1 DEF Undo, FrameOK
    <3>. QED
      BY <1>1, <1>4, <2>1, <3>1, PopAppend DEF Leave, RestoreUndo, After, FrameType
  <2>. QED
    BY <1>4, <2>1 DEF Leave, RestoreUndo, After
<1>8. f.snap = [caps |-> f.snap.caps, roots |-> f.snap.roots, undo |-> f.snap.undo]
  BY <1>1 DEF FrameType
<1>. QED
  BY <1>5, <1>6, <1>7, <1>8 DEF Snapshot

-----------------------------------------------------------------------------
(* Each kind of step keeps the invariant. *)

(* A step that leaves the handlers and what they set up alone. *)
LEMMA QuietStep ==
  ASSUME IInv, UNCHANGED <<frames, caps, roots, undo>>
  PROVE  FramesOK' /\ AuthorityIsScoped'
BY DEF IInv, FramesOK, AuthorityIsScoped, Snapshot

(* A word starts and is about to call `invoke`. *)
LEMMA CallStep ==
  ASSUME IInv, NEW f \in FrameType, FrameOK(f), f.op # "body",
         f.snap = Snapshot, Snapshot' = After(f),
         frames' = Append(frames, f), mode = "run", mode' = "call",
         depth' = depth, stack' \in Seq(BOOLEAN), caps' \in SUBSET Cap,
         roots' \in Seq(Path), undo' \in Seq(Undo),
         words' \in [Word -> Body \cup {None}]
  PROVE  IInv'
<1>1. /\ frames' \in Seq(FrameType) /\ Len(frames') = Len(frames) + 1
      /\ \A i \in 1..Len(frames) : frames'[i] = frames[i]
      /\ Top(frames') = f /\ Len(frames) \in Nat
  BY AppendType DEF IInv, TypeOK
<1>2. TypeOK'
  BY <1>1 DEF IInv, TypeOK
<1>3. AuthorityIsScoped'
  BY PushScoped DEF IInv
<1>4. FramesOK'
  <2>1. frames'[Len(frames) + 1] = f
    BY <1>1 DEF Top
  <2>. QED
    BY <1>1, <2>1 DEF IInv, FramesOK
<1>5. DepthIsNesting'
  BY <1>1 DEF IInv, DepthIsNesting, TypeOK
<1>. QED
  BY <1>1, <1>2, <1>3, <1>4, <1>5 DEF IInv, IdleIsTop, BodyReady, BodyAlwaysEnters

(* A word ends, with or without a fault. *)
LEMMA LeaveStep ==
  ASSUME IInv, frames # <<>>, NEW ok \in BOOLEAN, Leave(Top(frames), ok),
         mode \in {"run", "fault", "over"},
         depth' = IF mode = "over" THEN depth ELSE depth - 1,
         mode' \in {"run", "fault"}, stack' \in Seq(BOOLEAN)
  PROVE  IInv'
<1> DEFINE f == Top(frames)
<1>1. /\ frames' \in Seq(FrameType) /\ Len(frames') = Len(frames) - 1
      /\ Len(frames) \in Nat \ {0} /\ f \in FrameType
      /\ \A i \in 1..Len(frames) - 1 : frames'[i] = frames[i]
  BY PopType DEF IInv, TypeOK, Leave
<1>2. Snapshot' = f.snap
  BY LeaveRestores
<1>3. caps' = f.snap.caps /\ roots' = f.snap.roots /\ undo' = f.snap.undo
  BY <1>2 DEF Snapshot
<1>4. caps' \in SUBSET Cap /\ roots' \in Seq(Path) /\ undo' \in Seq(Undo)
  BY <1>1, <1>3 DEF FrameType
<1>5. words' \in [Word -> Body \cup {None}]
  <2>1. CASE f.op = "sw"
    <3>1. undo = Append(f.snap.undo, [word |-> f.arg, old |-> f.old])
      BY <2>1 DEF IInv, AuthorityIsScoped, Snapshot, After
    <3>2. FrameOK(f)
      BY <1>1 DEF IInv, FramesOK, Top
    <3>3. Top(undo) = [word |-> f.arg, old |-> f.old] /\ f.arg \in Word /\ f.old \in Body
      <4>1. [word |-> f.arg, old |-> f.old] \in Undo /\ f.snap.undo \in Seq(Undo)
        BY <1>1, <2>1, <3>2 DEF FrameOK, Undo, FrameType
      <4>. QED
        BY <2>1, <3>1, <3>2, <4>1, AppendType DEF FrameOK
    <3>. QED
      BY <3>3 DEF Leave, RestoreWords, IInv, TypeOK
  <2>. QED
    BY <2>1 DEF Leave, RestoreWords, IInv, TypeOK
<1>6. depth' \in Nat /\ depth' = Len(frames') /\ depth' <= MaxDepth
  BY <1>1, BoundAssumption DEF IInv, DepthIsNesting, TypeOK
<1>7. TypeOK'
  BY <1>1, <1>4, <1>5, <1>6 DEF TypeOK
<1>8. AuthorityIsScoped'
  BY <1>2, PopScoped DEF IInv, Leave
<1>9. FramesOK'
  BY <1>1 DEF IInv, FramesOK
<1>. QED
  BY <1>6, <1>7, <1>8, <1>9
     DEF IInv, DepthIsNesting, IdleIsTop, BodyReady, BodyAlwaysEnters

(* A word runs its next block. *)
LEMMA AgainStep ==
  ASSUME IInv, mode = "run", frames # <<>>, NEW f \in FrameType, Again(f),
         FrameOK(f), f.snap = Top(frames).snap, After(f) = After(Top(frames)),
         depth' = depth - 1, stack' \in Seq(BOOLEAN)
  PROVE  IInv'
<1>1. /\ Pop(frames) \in Seq(FrameType) /\ Len(Pop(frames)) = Len(frames) - 1
      /\ Len(frames) \in Nat \ {0}
      /\ \A i \in 1..Len(frames) - 1 : Pop(frames)[i] = frames[i]
  BY PopType DEF IInv, TypeOK
<1>2. /\ frames' \in Seq(FrameType) /\ Len(frames') = Len(frames)
      /\ \A i \in 1..Len(frames) - 1 : frames'[i] = frames[i]
      /\ Top(frames') = f
  BY <1>1, AppendType DEF Again
<1>3. depth' \in Nat /\ depth' + 1 = Len(frames') /\ depth' < MaxDepth
  BY <1>1, <1>2, BoundAssumption DEF IInv, DepthIsNesting, TypeOK
<1>4. TypeOK'
  BY <1>2, <1>3 DEF IInv, TypeOK, Again
<1>5. AuthorityIsScoped'
  BY AgainScoped DEF IInv, Again, Snapshot
<1>6. FramesOK'
  <2>1. frames'[Len(frames)] = f
    BY <1>2 DEF Top
  <2>. QED
    BY <1>1, <1>2, <2>1 DEF IInv, FramesOK
<1>. QED
  BY <1>3, <1>4, <1>5, <1>6, BoundAssumption
     DEF IInv, DepthIsNesting, IdleIsTop, BodyReady, BodyAlwaysEnters, Again

-----------------------------------------------------------------------------
(* The frames that the words that run a block build. *)
LEMMA FrameFacts ==
  ASSUME TypeOK, NEW op \in Ops, NEW a \in Cap \cup Path \cup Word \cup {None},
         NEW fr \in BOOLEAN, NEW sv \in Seq(BOOLEAN), NEW bs \in Nat,
         NEW lf \in Nat, NEW od \in Body \cup {None}
  PROVE  Frame(op, a, fr, sv, bs, lf, od) \in FrameType
BY DEF TypeOK, Frame, FrameType, Snapshot

(* A word that grants and installs nothing starts its block. *)
LEMMA PlainCall ==
  ASSUME IInv, NEW op \in Ops \ {"gr", "gd", "sw", "body"},
         NEW sv \in Seq(BOOLEAN), NEW bs \in Nat, NEW lf \in Nat,
         Call(PlainFrame(op, sv, bs, lf)),
         UNCHANGED <<caps, roots, words, undo>>, stack' \in Seq(BOOLEAN)
  PROVE  IInv'
<1> DEFINE f == PlainFrame(op, sv, bs, lf)
<1>1. f \in FrameType
  BY FrameFacts DEF IInv, Ops, PlainFrame
<1>2. FrameOK(f)
  BY DEF FrameOK, Ops, PlainFrame, Frame
<1>3. Snapshot' = After(f) /\ f.snap = Snapshot /\ f.op # "body"
  BY DEF Snapshot, After, Ops, PlainFrame, Frame
<1>. QED
  BY <1>1, <1>2, <1>3, CallStep DEF Call, IInv, TypeOK

LEMMA StackPop ==
  ASSUME TypeOK, NEW k \in Nat, k <= Len(stack)
  PROVE  SubSeq(stack, 1, Len(stack) - k) \in Seq(BOOLEAN)
<1> DEFINE n == Len(stack) - k
<1>1. n \in Nat /\ n <= Len(stack) /\ Len(stack) \in Nat
  BY DEF TypeOK
<1>2. \A i \in 1..n : stack[i] \in BOOLEAN
  BY <1>1 DEF TypeOK
<1>. QED
  BY <1>1, <1>2, SubSeqProperties

(* Tokens that run no block. *)
LEMMA TokenStep == ASSUME IInv, Token PROVE IInv'
<1>1. /\ UNCHANGED <<frames, depth, caps, roots, undo>>
      /\ mode = "run" /\ mode' \in {"run", "fault"}
  BY DEF Token, Push, Drop, Trap, Have, Require, DiskWord, DefineWord
<1>2. stack' \in Seq(BOOLEAN)
  <2>1. ASSUME NEW v \in BOOLEAN, Push(v) PROVE stack' \in Seq(BOOLEAN)
    BY <2>1, AppendType DEF Push, IInv, TypeOK
  <2>2. ASSUME Drop PROVE stack' \in Seq(BOOLEAN)
    BY <2>2, PopType DEF Drop, IInv, TypeOK
  <2>3. ASSUME NEW k \in 0..MaxStack, Trap(k) PROVE stack' \in Seq(BOOLEAN)
    BY <2>3, StackPop, BoundAssumption DEF Trap, IInv
  <2>4. ASSUME NEW c \in Cap, Have(c) PROVE stack' \in Seq(BOOLEAN)
    BY <2>4, AppendType DEF Have, IInv, TypeOK
  <2>. QED
    BY <2>1, <2>2, <2>3, <2>4
       DEF Token, Require, DiskWord, DefineWord, IInv, TypeOK
<1>3. words' \in [Word -> Body \cup {None}]
  BY DEF Token, Push, Drop, Trap, Have, Require, DiskWord, DefineWord, IInv, TypeOK
<1>4. FramesOK' /\ AuthorityIsScoped'
  BY <1>1, QuietStep
<1>. QED
  BY <1>1, <1>2, <1>3, <1>4
     DEF IInv, TypeOK, DepthIsNesting, IdleIsTop, BodyReady, BodyAlwaysEnters

(* Words that run a block, up to the call. *)
LEMMA StartStep == ASSUME IInv, StartCall PROVE IInv'
<1>1. stack \in Seq(BOOLEAN) /\ Len(stack) \in Nat /\ <<>> \in Seq(BOOLEAN)
  BY EmptySeq DEF IInv, TypeOK
<1>2. ASSUME CallBlock PROVE IInv'
  BY <1>1, <1>2, PlainCall DEF CallBlock, Ops
<1>3. ASSUME NEW w \in Word, CallWord(w) PROVE IInv'
  BY <1>1, <1>3, PlainCall DEF CallWord, Ops
<1>4. ASSUME While PROVE IInv'
  BY <1>1, <1>4, PlainCall DEF While, Ops
<1>5. ASSUME Attempt PROVE IInv'
  BY <1>1, <1>5, PlainCall DEF Attempt, Ops
<1>6. ASSUME NEW n \in 0..MaxRepeat, Collect(n) PROVE IInv'
  BY <1>1, <1>6, PlainCall, BoundAssumption DEF Collect, Ops
<1>7. ASSUME NEW c \in Cap, Grant(c) PROVE IInv'
  <2> DEFINE f == Frame("gr", c, c \notin caps, <<>>, 0, 0, None)
  <2>1. f \in FrameType
    BY <1>1, FrameFacts DEF IInv, Ops
  <2>2. FrameOK(f) /\ f.snap = Snapshot /\ Snapshot' = After(f) /\ f.op # "body"
    BY <1>7 DEF FrameOK, Dropped, Snapshot, After, Grant, Frame
  <2>. QED
    BY <1>1, <1>7, <2>1, <2>2, CallStep DEF Grant, Call, IInv, TypeOK
<1>8. ASSUME NEW p \in Path, GrantDisk(p) PROVE IInv'
  <2> DEFINE f == Frame("gd", p, Disk \notin caps, <<>>, 0, 0, None)
  <2>1. f \in FrameType
    BY <1>1, FrameFacts DEF IInv, Ops
  <2>2. FrameOK(f) /\ f.snap = Snapshot /\ Snapshot' = After(f) /\ f.op # "body"
    BY <1>8 DEF FrameOK, Dropped, Snapshot, After, GrantDisk, Frame
  <2>3. roots' \in Seq(Path) /\ caps' \in SUBSET Cap
    BY <1>8, AppendType, DiskAssumption DEF GrantDisk, IInv, TypeOK
  <2>. QED
    BY <1>1, <1>8, <2>1, <2>2, <2>3, CallStep DEF GrantDisk, Call, IInv, TypeOK
<1>9. ASSUME Test PROVE IInv'
  BY <1>1, <1>9, PlainCall DEF Test, Ops
<1>10. ASSUME NEW k \in 1..MaxRepeat, Repeat(k) PROVE IInv'
  <2>1. k \in Nat
    BY BoundAssumption
  <2>. QED
    BY <1>1, <1>10, <2>1, PlainCall DEF Repeat, Ops
<1>11. ASSUME NEW w \in Word, NEW b \in Body, Swap(w, b) PROVE IInv'
  <2> DEFINE f == Frame("sw", w, FALSE, <<>>, Len(stack), 0, words[w])
  <2>1. words[w] \in Body
    BY <1>11 DEF Swap, IInv, TypeOK
  <2>2. f \in FrameType
    BY <1>1, <2>1, FrameFacts DEF IInv, Ops
  <2>3. FrameOK(f) /\ f.snap = Snapshot /\ Snapshot' = After(f) /\ f.op # "body"
    BY <1>11, <2>1 DEF FrameOK, Dropped, Snapshot, After, Swap, Frame
  <2>4. undo' \in Seq(Undo) /\ words' \in [Word -> Body \cup {None}]
    <3>1. [word |-> w, old |-> words[w]] \in Undo
      BY <2>1 DEF Undo
    <3>. QED
      BY <1>11, <3>1, AppendType DEF Swap, IInv, TypeOK
  <2>. QED
    BY <1>1, <1>11, <2>2, <2>3, <2>4, CallStep DEF Swap, Call, IInv, TypeOK
<1>. QED
  BY <1>2, <1>3, <1>4, <1>5, <1>6, <1>7, <1>8, <1>9, <1>10, <1>11 DEF StartCall

(* `;` and `pp` run their next block. *)
LEMMA RerunStep ==
  ASSUME IInv, mode = "run", frames # <<>>, NEW op \in Ops, NEW bs \in Nat,
         NEW lf \in Nat, Again(Rerun(Top(frames), op, bs, lf)),
         op = Top(frames).op \/ {op, Top(frames).op} = {"cond", "body"},
         depth' = depth - 1, stack' \in Seq(BOOLEAN)
  PROVE  IInv'
<1> DEFINE t == Top(frames)
           f == Rerun(t, op, bs, lf)
<1>1. t \in FrameType /\ t = frames[Len(frames)] /\ Len(frames) \in 1..Len(frames)
  BY PopType DEF IInv, TypeOK, Top
<1>2. FrameOK(t)
  BY <1>1 DEF IInv, FramesOK
<1>3. f \in FrameType
  BY <1>1 DEF Rerun, FrameType
<1>4. op = t.op \/ (op \in {"cond", "body"} /\ t.op \in {"cond", "body"})
  OBVIOUS
<1>5. FrameOK(f)
  BY <1>2, <1>4 DEF FrameOK, Rerun, Dropped
<1>6. f.snap = t.snap /\ After(f) = After(t)
  BY <1>4 DEF After, Rerun
<1>. QED
  BY <1>3, <1>5, <1>6, AgainStep

(* A block ended and its word goes on. *)
LEMMA ReturnStep == ASSUME IInv, Return PROVE IInv'
<1> DEFINE f == Top(frames)
<1>1. mode = "run" /\ frames # <<>> /\ depth' = depth - 1
  BY DEF Return, ReturnPlain, ReturnCond, ReturnBody, ReturnAttempt,
         ReturnCollect, ReturnTest, Ended
<1>2. f \in FrameType
  BY <1>1, PopType DEF IInv, TypeOK
<1>3. /\ stack \in Seq(BOOLEAN) /\ f.saved \in Seq(BOOLEAN)
      /\ Append(f.saved, TRUE) \in Seq(BOOLEAN)
      /\ stack # <<>> => Pop(stack) \in Seq(BOOLEAN)
  BY <1>2, PopType, AppendType DEF IInv, TypeOK, FrameType
<1>4. ASSUME NEW ok \in BOOLEAN, Leave(f, ok), mode' \in {"run", "fault"},
             stack' \in Seq(BOOLEAN)
      PROVE  IInv'
  BY <1>1, <1>4, LeaveStep
<1>5. CASE ReturnPlain
  BY <1>3, <1>4, <1>5 DEF ReturnPlain
<1>6. CASE ReturnCond
  <2>1. CASE Again(Rerun(f, "body", 0, 0))
    BY <1>1, <1>3, <1>6, <2>1, RerunStep DEF ReturnCond, Ended, Ops
  <2>2. CASE Leave(f, FALSE) /\ mode' = "fault" /\ UNCHANGED stack
    BY <1>3, <1>4, <2>2
  <2>3. CASE stack # <<>> /\ Leave(f, TRUE) /\ mode' = "run" /\ stack' = Pop(stack)
    BY <1>3, <1>4, <2>3
  <2>. QED
    BY <1>6, <2>1, <2>2, <2>3 DEF ReturnCond
<1>7. CASE ReturnBody
  BY <1>1, <1>3, <1>7, RerunStep DEF ReturnBody, Ended, Ops
<1>8. CASE ReturnAttempt
  BY <1>3, <1>4, <1>8 DEF ReturnAttempt
<1>9. CASE ReturnCollect
  BY <1>3, <1>4, <1>9 DEF ReturnCollect
<1>10. CASE ReturnTest
  <2>1. stack' \in Seq(BOOLEAN)
    <3>1. OneLeft(f) => stack # <<>>
      BY <1>2, EmptySeq DEF OneLeft, FrameType
    <3>. QED
      BY <1>3, <1>10, <3>1 DEF ReturnTest
  <2>2. CASE Passed(f) /\ f.left > 1 /\ Again(Rerun(f, f.op, Len(stack) - 1, f.left - 1))
    <3>1. Len(stack) - 1 \in Nat /\ f.left - 1 \in Nat /\ f.op \in Ops
      BY <1>2, <1>3, <2>2 DEF FrameType, Passed, OneLeft
    <3>. QED
      BY <1>1, <2>1, <2>2, <3>1, RerunStep
  <2>3. CASE \E ok \in BOOLEAN : Leave(f, ok) /\ mode' \in {"run", "fault"}
    BY <1>4, <2>1, <2>3
  <2>. QED
    BY <1>10, <2>2, <2>3 DEF ReturnTest
<1>. QED
  BY <1>5, <1>6, <1>7, <1>8, <1>9, <1>10 DEF Return

(* A fault leaves the innermost word. *)
LEMMA UnwindStep == ASSUME IInv, Unwind PROVE IInv'
<1> DEFINE f == Top(frames)
<1>1. frames # <<>> /\ f \in FrameType
  BY PopType DEF Unwind, IInv, TypeOK
<1>2. f.saved \in Seq(BOOLEAN) /\ Append(f.saved, FALSE) \in Seq(BOOLEAN)
  BY <1>1, AppendType DEF FrameType
<1>3. stack' \in Seq(BOOLEAN)
  BY <1>2 DEF Unwind, IInv, TypeOK
<1>. QED
  BY <1>1, <1>3, LeaveStep DEF Unwind, UnwoundDepth, UnwoundMode

(* `invoke`, and the ends of a program. *)
LEMMA OtherStep ==
  ASSUME IInv, Enter \/ EndProgram \/ NextLine \/ UNCHANGED vars
  PROVE  IInv'
<1>1. UNCHANGED <<stack, frames, caps, roots, words, undo>>
  BY DEF Enter, EndProgram, NextLine, vars
<1>2. FramesOK' /\ AuthorityIsScoped'
  BY <1>1, QuietStep
<1>3. CASE Enter
  BY <1>1, <1>2, <1>3, BoundAssumption
     DEF Enter, IInv, TypeOK, DepthIsNesting, IdleIsTop, BodyReady, BodyAlwaysEnters
<1>4. CASE EndProgram \/ NextLine \/ UNCHANGED vars
  BY <1>1, <1>2, <1>4
     DEF EndProgram, NextLine, vars, IInv, TypeOK, DepthIsNesting, IdleIsTop,
         BodyReady, BodyAlwaysEnters
<1>. QED
  BY <1>3, <1>4

LEMMA NextIInv == IInv /\ [Next]_vars => IInv'
BY TokenStep, StartStep, ReturnStep, UnwindStep, OtherStep DEF Next

THEOREM InductiveInvariant == Spec => []IInv
BY InitIInv, NextIInv, PTL DEF Spec

-----------------------------------------------------------------------------
(* The properties. *)

(* The variables keep their types: a handler is always found on the stack  *)
(* of handlers, and an undo entry for every handler that pops one.         *)
THEOREM TypeCorrect == Spec => []TypeOK
BY InductiveInvariant, PTL DEF IInv

(* Capabilities, disk roots and pending swaps are always those of the      *)
(* active handlers of `gr`, `gd` and `sw`, on every path through every     *)
(* program.                                                                *)
THEOREM AuthorityTheorem == Spec => []AuthorityIsScoped
BY InductiveInvariant, PTL DEF IInv

(* The depth check of `invoke` bounds the nesting of blocks, and counts it *)
(* exactly, for every limit.                                               *)
THEOREM DepthTheorem == Spec => []DepthIsNesting
BY InductiveInvariant, PTL DEF IInv

(* A loop is never stopped by the depth check between its condition and    *)
(* its body.                                                               *)
THEOREM BodyTheorem == Spec => []BodyAlwaysEnters
BY InductiveInvariant, PTL DEF IInv

(* A VM that is reused after a fault starts its next program without any   *)
(* authority.                                                              *)
THEOREM CleanTheorem == Spec => []CleanWhenIdle
<1>1. IInv => CleanWhenIdle
  BY DEF IInv, CleanWhenIdle, IdleIsTop, AuthorityIsScoped, DepthIsNesting, TypeOK
<1>. QED
  BY <1>1, InductiveInvariant, PTL

(* Only the end of a handler shortens the stack of handlers. *)
LEMMA ShorterIsLeave ==
  ASSUME IInv, [Next]_vars, Len(frames') < Len(frames)
  PROVE  /\ frames # <<>>
         /\ \E ok \in BOOLEAN : Leave(Top(frames), ok) /\ (mode' # "run" => ~ok)
<1>1. frames \in Seq(FrameType) /\ Len(frames) \in Nat
  BY DEF IInv, TypeOK
<1>2. ~Token /\ ~Enter /\ ~EndProgram /\ ~NextLine /\ ~UNCHANGED vars
  BY <1>1 DEF Token, Push, Drop, Trap, Have, Require, DiskWord, DefineWord,
              Enter, EndProgram, NextLine, vars
<1>3. ASSUME NEW f, Call(f) PROVE FALSE
  BY <1>1, <1>3 DEF Call
<1>4. ~StartCall
  BY <1>3 DEF StartCall, CallBlock, CallWord, While, Attempt, Collect, Grant,
              GrantDisk, Test, Repeat, Swap
<1>5. ASSUME NEW f, frames # <<>>, Again(f) PROVE FALSE
  <2>1. Pop(frames) \in Seq(FrameType) /\ Len(Pop(frames)) = Len(frames) - 1
    BY <1>1, <1>5, PopType
  <2>2. Len(frames') = Len(Pop(frames)) + 1
    BY <1>5, <2>1 DEF Again
  <2>. QED
    BY <1>1, <2>1, <2>2
<1>6. CASE Unwind
  BY <1>6 DEF Unwind
<1>7. CASE Return
  <2>1. frames # <<>>
    BY <1>7 DEF Return, ReturnPlain, ReturnCond, ReturnBody, ReturnAttempt,
                ReturnCollect, ReturnTest, Ended
  <2>2. CASE ReturnPlain \/ ReturnAttempt \/ ReturnCollect
    BY <2>1, <2>2 DEF ReturnPlain, ReturnAttempt, ReturnCollect
  <2>3. CASE ReturnCond
    BY <1>5, <2>1, <2>3 DEF ReturnCond
  <2>4. CASE ReturnBody
    BY <1>5, <2>1, <2>4 DEF ReturnBody
  <2>5. CASE ReturnTest
    BY <1>5, <2>1, <2>5 DEF ReturnTest
  <2>. QED
    BY <1>7, <2>2, <2>3, <2>4, <2>5 DEF Return
<1>. QED
  BY <1>2, <1>4, <1>6, <1>7 DEF Next

(* However a handler ends, it leaves the authority and the pending swaps   *)
(* it found.                                                               *)
THEOREM RestoreTheorem == Spec => HandlerRestores
<1>1. IInv /\ [Next]_vars
        => [Len(frames') < Len(frames) => Snapshot' = Top(frames).snap]_vars
  BY ShorterIsLeave, LeaveRestores
<1>. QED
  BY <1>1, InductiveInvariant, PTL DEF Spec, HandlerRestores

(* A swap that does not succeed leaves its word as it was. *)
THEOREM SwapTheorem == Spec => SwapAllOrNothing
<1> DEFINE f == Top(frames)
           Undone == Len(frames') < Len(frames) /\ f.op = "sw" /\ mode' # "run"
                       => words'[f.arg] = f.old
<1>1. ASSUME IInv, [Next]_vars PROVE Undone
  <2>1. SUFFICES ASSUME Len(frames') < Len(frames), f.op = "sw", mode' # "run"
                 PROVE  words'[f.arg] = f.old
    OBVIOUS
  <2>2. frames # <<>> /\ Leave(f, FALSE)
    BY <1>1, <2>1, ShorterIsLeave
  <2>3. f \in FrameType /\ FrameOK(f)
    BY <1>1, <2>2, PopType DEF IInv, TypeOK, FramesOK, Top
  <2>4. undo = Append(f.snap.undo, [word |-> f.arg, old |-> f.old])
    BY <1>1, <2>1, <2>2 DEF IInv, AuthorityIsScoped, Snapshot, After
  <2>5. [word |-> f.arg, old |-> f.old] \in Undo /\ f.snap.undo \in Seq(Undo)
    BY <2>1, <2>3 DEF FrameOK, Undo, FrameType
  <2>6. Top(undo) = [word |-> f.arg, old |-> f.old] /\ f.arg \in Word
    BY <2>1, <2>3, <2>4, <2>5, AppendType DEF FrameOK
  <2>. QED
    BY <1>1, <2>1, <2>2, <2>6 DEF Leave, RestoreWords, IInv, TypeOK
<1>2. IInv /\ [Next]_vars => [Undone]_vars
  BY <1>1
<1>. QED
  BY <1>2, InductiveInvariant, PTL DEF Spec, SwapAllOrNothing

-----------------------------------------------------------------------------
(* Refinement. *)

Auth(r) == [caps |-> r.caps, roots |-> r.roots]
Before  == [i \in 1..Len(frames) |-> Auth(frames[i].snap)]
Now     == [caps |-> caps, roots |-> roots]

LEMMA NewHandlerExtends ==
  ASSUME TypeOK, NEW f \in FrameType, frames' = Append(frames, f), f.snap = Snapshot
  PROVE  Before' = Append(Before, Now)
<1>1. /\ Len(frames') = Len(frames) + 1 /\ Len(frames) \in Nat
      /\ \A i \in 1..Len(frames) : frames'[i] = frames[i]
      /\ frames'[Len(frames) + 1] = f
  BY DEF TypeOK
<1>2. Auth(f.snap) = Now
  BY DEF Auth, Now, Snapshot
<1>3. Len(Before) = Len(frames) /\ Before \in Seq({Auth(frames[i].snap) : i \in 1..Len(frames)})
  BY <1>1, IsASeq DEF Before
<1>. QED
  BY <1>1, <1>2, <1>3 DEF Before

LEMMA HandlerEndPops ==
  ASSUME IInv, frames # <<>>, frames' = Pop(frames), Snapshot' = Top(frames).snap
  PROVE  /\ Before # <<>> /\ Now' = Before[Len(Before)]
         /\ Before' = SubSeq(Before, 1, Len(Before) - 1)
<1>1. /\ Len(frames') = Len(frames) - 1 /\ Len(frames) \in Nat \ {0}
      /\ \A i \in 1..Len(frames) - 1 : frames'[i] = frames[i]
  BY PopType DEF IInv, TypeOK
<1>2. Len(Before) = Len(frames) /\ Before \in Seq({Auth(frames[i].snap) : i \in 1..Len(frames)})
  BY <1>1, IsASeq DEF Before
<1>3. Before[Len(Before)] = Auth(Top(frames).snap)
  BY <1>1, <1>2 DEF Before, Top
<1>4. Now' = Auth(Top(frames).snap)
  BY DEF Now, Snapshot, Auth
<1>5. Before' = SubSeq(Before, 1, Len(Before) - 1)
  BY <1>1, <1>2 DEF Before
<1>. QED
  BY <1>1, <1>2, <1>3, <1>4, <1>5

LEMMA AgainKeeps ==
  ASSUME IInv, frames # <<>>, NEW f \in FrameType, Again(f),
         f.snap = Top(frames).snap
  PROVE  Before' = Before /\ Now' = Now
<1>1. /\ Pop(frames) \in Seq(FrameType) /\ Len(Pop(frames)) = Len(frames) - 1
      /\ Len(frames) \in Nat \ {0}
      /\ \A i \in 1..Len(frames) - 1 : Pop(frames)[i] = frames[i]
  BY PopType DEF IInv, TypeOK
<1>2. /\ Len(frames') = Len(frames) /\ frames'[Len(frames)] = f
      /\ \A i \in 1..Len(frames) - 1 : frames'[i] = frames[i]
  BY <1>1, AppendType DEF Again, Top
<1>3. \A i \in 1..Len(frames) : frames'[i].snap = frames[i].snap
  BY <1>1, <1>2 DEF Top
<1>. QED
  BY <1>2, <1>3 DEF Before, Now, Again

(* The words that call a block extend the authority in one of three ways.  *)
LEMMA CallExtends ==
  ASSUME IInv, StartCall
  PROVE  Scoping!Next
<1>1. stack \in Seq(BOOLEAN) /\ Len(stack) \in Nat /\ <<>> \in Seq(BOOLEAN)
  BY EmptySeq DEF IInv, TypeOK
<1>2. ASSUME NEW op \in Ops, NEW a \in Cap \cup Path \cup Word \cup {None},
             NEW fr \in BOOLEAN, NEW sv \in Seq(BOOLEAN), NEW bs \in Nat,
             NEW lf \in Nat, NEW od \in Body \cup {None},
             Call(Frame(op, a, fr, sv, bs, lf, od))
      PROVE  Before' = Append(Before, Now)
  <2> DEFINE f == Frame(op, a, fr, sv, bs, lf, od)
  <2>1. f \in FrameType
    BY FrameFacts DEF IInv
  <2>2. f.snap = Snapshot
    BY DEF Frame
  <2>. QED
    BY <1>2, <2>1, <2>2, NewHandlerExtends DEF Call, IInv
<1>3. ASSUME NEW op \in Ops, NEW sv \in Seq(BOOLEAN), NEW bs \in Nat, NEW lf \in Nat,
             Call(PlainFrame(op, sv, bs, lf)), UNCHANGED <<caps, roots>>
      PROVE  Scoping!Run
  <2>1. Before' = Append(Before, Now)
    BY <1>2, <1>3 DEF PlainFrame
  <2>. QED
    BY <1>3, <2>1 DEF Scoping!Run, Scoping!Extend, Before, Now, Auth
<1>4. CASE CallBlock \/ While \/ Attempt \/ Test \/ \E w \in Word : CallWord(w)
  BY <1>1, <1>3, <1>4
     DEF CallBlock, While, Attempt, Test, CallWord, Ops, Scoping!Next
<1>5. ASSUME NEW n \in 0..MaxRepeat, Collect(n) PROVE Scoping!Next
  BY <1>1, <1>3, <1>5, BoundAssumption DEF Collect, Ops, Scoping!Next
<1>6. ASSUME NEW k \in 1..MaxRepeat, Repeat(k) PROVE Scoping!Next
  <2>1. k \in Nat
    BY BoundAssumption
  <2>. QED
    BY <1>1, <1>3, <1>6, <2>1 DEF Repeat, Ops, Scoping!Next
<1>7. ASSUME NEW c \in Cap, Grant(c) PROVE Scoping!Next
  <2>1. Before' = Append(Before, Now)
    BY <1>1, <1>2, <1>7 DEF Grant, Ops
  <2>2. Now' = [caps |-> Now.caps \cup {c}, roots |-> Now.roots]
    BY <1>7 DEF Now, Grant
  <2>. QED
    BY <2>1, <2>2 DEF Scoping!Next, Scoping!GrantCap, Scoping!Extend, Before, Now, Auth
<1>8. ASSUME NEW p \in Path, GrantDisk(p) PROVE Scoping!Next
  <2>1. Before' = Append(Before, Now)
    BY <1>1, <1>2, <1>8 DEF GrantDisk, Ops
  <2>2. Now' = [caps |-> Now.caps \cup {Disk}, roots |-> Append(Now.roots, p)]
    BY <1>8 DEF Now, GrantDisk
  <2>. QED
    BY <2>1, <2>2 DEF Scoping!Next, Scoping!GrantPath, Scoping!Extend, Before, Now, Auth
<1>9. ASSUME NEW w \in Word, NEW b \in Body, Swap(w, b) PROVE Scoping!Next
  <2>1. words[w] \in Body
    BY <1>9 DEF Swap, IInv, TypeOK
  <2>2. Before' = Append(Before, Now)
    BY <1>1, <1>2, <1>9, <2>1 DEF Swap, Ops
  <2>. QED
    BY <1>9, <2>2 DEF Swap, Scoping!Next, Scoping!Run, Scoping!Extend, Before, Now, Auth
<1>. QED
  BY <1>4, <1>5, <1>6, <1>7, <1>8, <1>9 DEF StartCall

(* The VM's capability handling implements save-and-restore scoping.       *)
THEOREM ScopingTheorem == Spec => ImplementsScoping
<1>1. Init => Scoping!Init
  BY DEF Init, Scoping!Init, Scoping!NoAuthority
<1>2. ASSUME IInv, [Next]_vars PROVE [Scoping!Next]_(Scoping!vars)
  <2>1. CASE UNCHANGED <<frames, caps, roots>>
    BY <2>1 DEF Scoping!vars
  <2>2. CASE StartCall
    BY <1>2, <2>2, CallExtends
  <2>3. ASSUME NEW ok \in BOOLEAN, frames # <<>>, Leave(Top(frames), ok)
        PROVE  Scoping!PutBack
    <3>1. Snapshot' = Top(frames).snap
      BY <1>2, <2>3, LeaveRestores
    <3>2. /\ Before # <<>> /\ Now' = Before[Len(Before)]
          /\ Before' = SubSeq(Before, 1, Len(Before) - 1)
      BY <1>2, <2>3, <3>1, HandlerEndPops DEF Leave
    <3>. QED
      BY <3>2 DEF Scoping!PutBack, Before, Now, Auth
  <2>4. ASSUME NEW op \in Ops, NEW bs \in Nat, NEW lf \in Nat, frames # <<>>,
               Again(Rerun(Top(frames), op, bs, lf))
        PROVE  UNCHANGED Scoping!vars
    <3> DEFINE f == Rerun(Top(frames), op, bs, lf)
    <3>1. Top(frames) \in FrameType
      BY <1>2, <2>4, PopType DEF IInv, TypeOK
    <3>2. f \in FrameType /\ f.snap = Top(frames).snap
      BY <3>1 DEF Rerun, FrameType
    <3>3. Before' = Before /\ Now' = Now
      BY <1>2, <2>4, <3>2, AgainKeeps
    <3>. QED
      BY <3>3 DEF Scoping!vars, Before, Now, Auth
  <2>5. CASE Unwind
    BY <2>3, <2>5 DEF Unwind, Scoping!Next
  <2>6. CASE Return
    <3>1. frames # <<>> /\ Top(frames) \in FrameType /\ stack \in Seq(BOOLEAN)
      BY <1>2, <2>6, PopType
         DEF Return, ReturnPlain, ReturnCond, ReturnBody, ReturnAttempt,
             ReturnCollect, ReturnTest, Ended, IInv, TypeOK
    <3>2. CASE ReturnPlain \/ ReturnAttempt \/ ReturnCollect
      BY <2>3, <3>1, <3>2 DEF ReturnPlain, ReturnAttempt, ReturnCollect, Scoping!Next
    <3>3. CASE ReturnCond
      BY <2>3, <2>4, <3>1, <3>3 DEF ReturnCond, Scoping!Next, Ops
    <3>4. CASE ReturnBody
      BY <2>4, <3>1, <3>4 DEF ReturnBody, Ops
    <3>5. CASE ReturnTest
      <4> DEFINE f == Top(frames)
      <4>1. CASE Passed(f) /\ f.left > 1 /\ Again(Rerun(f, f.op, Len(stack) - 1, f.left - 1))
        <5>1. Len(stack) - 1 \in Nat /\ f.left - 1 \in Nat /\ f.op \in Ops
          BY <3>1, <4>1 DEF FrameType, Passed, OneLeft
        <5>. QED
          BY <2>4, <3>1, <4>1, <5>1
      <4>2. CASE Leave(f, TRUE) \/ Leave(f, FALSE)
        BY <2>3, <3>1, <4>2 DEF Scoping!Next
      <4>. QED
        BY <3>5, <4>1, <4>2 DEF ReturnTest
    <3>. QED
      BY <2>6, <3>2, <3>3, <3>4, <3>5 DEF Return
  <2>7. CASE Token \/ Enter \/ EndProgram \/ NextLine \/ UNCHANGED vars
    BY <2>1, <2>7 DEF Token, Push, Drop, Trap, Have, Require, DiskWord, DefineWord,
                      Enter, EndProgram, NextLine, vars
  <2>. QED
    BY <1>2, <2>2, <2>5, <2>6, <2>7 DEF Next
<1>. QED
  BY <1>1, <1>2, InductiveInvariant, PTL DEF Spec, ImplementsScoping, Scoping!Spec
=============================================================================
