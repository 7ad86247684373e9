--------------------------- MODULE OwnershipProofs ---------------------------
(***************************************************************************)
(* Proofs about Ownership.  OneOwner is inductive only together with what  *)
(* makes a new exclusive handle fresh (an owned allocation is not unused)  *)
(* and the type invariant.  Most operations only lose exclusive handles or *)
(* keep them in place (lemma Losing); the others move one (Swap, Rot, Bind,*)
(* Move), make one (Allocate) or consume one (Release, Length).            *)
(***************************************************************************)
EXTENDS Ownership, SequenceTheorems, TLAPS

\* An allocation some value owns has been made.
OwnedIsAllocated == \A a \in Alloc : Owned(a) => heap[a] # "unused"

\* A result holds an owner only if a `ty` body returned that owner.
Recorded(v) == v.kind = "own" /\ v.wrap > 0 => v.alloc \in wrapped
WrapIsRecorded ==
    /\ \A i \in DOMAIN stack : Recorded(stack[i])
    /\ \A x \in Name : env[x] # None => Recorded(env[x])

\* The inductive invariant.
IInv == TypeOK /\ OneOwner /\ FreedHasNoOwner /\ OwnedIsAllocated /\ WrapIsRecorded

\* What is shown of every step: the ownership part of the invariant and the
\* two action properties.
Reowns == \E a \in Alloc : heap[a] # "unused" /\ ~Owned(a) /\ Owned(a)'
FreesOther ==
    \E a \in Alloc : /\ heap[a] = "live" /\ heap'[a] = "freed"
                     /\ ~(Reach(1) /\ Top = Own(a))
Good ==
    /\ OneOwner' /\ FreedHasNoOwner' /\ OwnedIsAllocated' /\ WrapIsRecorded'
    /\ ~Reowns /\ ~FreesOther

\* A value that owns nothing, or an allocation that is owned already and whose
\* owner a `ty` body returned.
Harmless(v) ==
    v.kind = "own" => v.alloc \in wrapped' /\ Owned(v.alloc)

\* A step whose new stack holds at each index what the old one held there or a
\* harmless value keeps the ownership invariant.
LEMMA Losing ==
    ASSUME IInv,
           \A i \in DOMAIN stack' :
                \/ i \in DOMAIN stack /\ stack'[i] = stack[i]
                \/ Harmless(stack'[i]),
           env' = env, heap' = heap, wrapped \subseteq wrapped'
    PROVE  Good
<1>1. OneOwner'
  BY DEF IInv, OneOwner, SoleOwner, StackOwns, NameOwns, Owns, Harmless
<1>2. \A a \in Alloc : Owned(a)' => Owned(a)
  BY DEF Owned, StackOwns, NameOwns, Owns, Harmless
<1>3. FreedHasNoOwner' /\ OwnedIsAllocated' /\ ~Reowns /\ ~FreesOther
  BY <1>2 DEF IInv, FreedHasNoOwner, OwnedIsAllocated, Reowns, FreesOther
<1>4. WrapIsRecorded'
  BY DEF IInv, WrapIsRecorded, Recorded, Harmless
<1> QED
  BY <1>1, <1>3, <1>4 DEF Good

\* A prefix of a sequence keeps its elements.
LEMMA Prefix ==
    ASSUME NEW S, NEW s \in Seq(S), NEW n \in 0 .. Len(s)
    PROVE  /\ SubSeq(s, 1, n) \in Seq(S)
           /\ Len(SubSeq(s, 1, n)) = n
           /\ DOMAIN SubSeq(s, 1, n) = 1 .. n
           /\ \A i \in 1 .. n : SubSeq(s, 1, n)[i] = s[i]
OBVIOUS

\* A sequence one element longer than a prefix of s.
LEMMA PrefixAppend ==
    ASSUME NEW S, NEW s \in Seq(S), NEW n \in 0 .. Len(s), NEW v \in S
    PROVE  LET t == Append(SubSeq(s, 1, n), v)
           IN  /\ t \in Seq(S)
               /\ Len(t) = n + 1
               /\ DOMAIN t = 1 .. n + 1
               /\ \A i \in 1 .. n : t[i] = s[i]
               /\ t[n + 1] = v
BY Prefix

\* What is known of the reachable part of the stack.
LEMMA Shape ==
    ASSUME TypeOK
    PROVE  /\ Base \in 0 .. Len(stack)
           /\ Len(stack) \in Nat /\ Len(stack) <= MaxStack
           /\ DOMAIN stack = 1 .. Len(stack)
           /\ \A i \in 1 .. Len(stack) : stack[i] \in Value
BY EmptySeq DEF TypeOK, Base

\* The values the operations build are values.
LEMMA Values ==
    /\ Plain \in Value /\ Plain.kind = "plain"
    /\ MaxWrap > 0 => Wrapped(Plain) \in Value /\ Wrapped(Plain).kind = "plain"
    /\ \A a \in Alloc : Own(a) \in Value /\ Borrow(a) \in Value
    /\ \A v \in Value :
        /\ v.wrap < MaxWrap => Wrapped(v) \in Value
        /\ v.wrap > 0 => Unwrapped(v) \in Value
        /\ Copy(v) \in Value
        /\ v.wrap \in 0 .. MaxWrap
BY OwnershipAssumption
   DEF Plain, Wrapped, Unwrapped, Own, Borrow, Value, Handle, Copy, IsHandle

\* Type correctness of the two ways of building the next stack, and what they
\* own: nothing new.  The new value v, if it owns, owned the same slot before.
LEMMA Pushed ==
    ASSUME TypeOK, NEW v \in Value, Pushes(stack, v)
    PROVE  /\ stack' \in Seq(Value) /\ Len(stack') <= MaxStack
           /\ Len(stack') = Len(stack) + 1
           /\ DOMAIN stack' = 1 .. Len(stack) + 1
           /\ \A i \in 1 .. Len(stack) : stack'[i] = stack[i]
           /\ stack'[Len(stack) + 1] = v
BY OwnershipAssumption DEF TypeOK, Pushes

LEMMA Faulted ==
    ASSUME TypeOK, NEW n \in 0 .. Len(stack), NEW m \in 0 .. Len(bases),
           \A i \in 1 .. m : bases[i] <= n,
           FaultOver(SubSeq(stack, 1, n), SubSeq(bases, 1, m))
    PROVE  /\ stack' \in Seq(Value) /\ Len(stack') <= MaxStack
           /\ bases' \in Seq(Nat) /\ Len(bases') <= MaxNest
           /\ \A i \in DOMAIN bases' :
                bases'[i] <= Len(stack') /\ bases'[i] < MaxStack
           /\ \A i, j \in DOMAIN bases' : i <= j => bases'[i] <= bases'[j]
           /\ \A i \in DOMAIN stack' :
                \/ i \in DOMAIN stack /\ stack'[i] = stack[i]
                \/ Harmless(stack'[i])
<1> DEFINE kept == SubSeq(stack, 1, n)
           cuts == SubSeq(bases, 1, m)
<1>1. /\ kept \in Seq(Value) /\ Len(kept) = n /\ DOMAIN kept = 1 .. n
      /\ \A i \in 1 .. n : kept[i] = stack[i]
  BY Prefix DEF TypeOK
<1>2. /\ cuts \in Seq(Nat) /\ Len(cuts) = m /\ DOMAIN cuts = 1 .. m
      /\ \A i \in 1 .. m : cuts[i] = bases[i]
  BY Prefix DEF TypeOK
<1>3. n \in Nat /\ m \in Nat /\ n <= Len(stack) /\ m <= Len(bases)
      /\ DOMAIN stack = 1 .. Len(stack) /\ DOMAIN bases = 1 .. Len(bases)
      /\ Len(stack) \in Nat /\ Len(bases) \in Nat
  BY DEF TypeOK
<1>4. CASE cuts = <<>>
  <2>1. stack' = kept /\ bases' = <<>>
    BY <1>4 DEF FaultOver
  <2>2. bases' \in Seq(Nat) /\ Len(bases') = 0 /\ DOMAIN bases' = {}
    BY <2>1, EmptySeq
  <2>3. Len(stack') <= MaxStack
    BY <2>1, <1>1, <1>3, OwnershipAssumption DEF TypeOK
  <2> QED
    BY <2>1, <2>2, <2>3, <1>1, <1>3, OwnershipAssumption
<1>5. CASE cuts # <<>>
  <2> DEFINE b == bases[m]
  <2>1. m \in 1 .. Len(bases) /\ cuts[Len(cuts)] = b /\ b \in 0 .. n
        /\ b < MaxStack
    BY <1>2, <1>3, <1>5, EmptySeq DEF TypeOK
  <2>2. /\ MaxWrap > 0
        /\ stack' = Append(SubSeq(kept, 1, b), Wrapped(Plain))
        /\ bases' = SubSeq(cuts, 1, m - 1)
    BY <1>2, <1>5, <2>1 DEF FaultOver
  <2>3. /\ stack' \in Seq(Value) /\ Len(stack') = b + 1
        /\ DOMAIN stack' = 1 .. b + 1
        /\ \A i \in 1 .. b : stack'[i] = kept[i]
        /\ stack'[b + 1] = Wrapped(Plain)
    BY <2>1, <2>2, <1>1, Values, PrefixAppend
  <2>4. /\ bases' \in Seq(Nat) /\ Len(bases') = m - 1
        /\ DOMAIN bases' = 1 .. m - 1
        /\ \A i \in 1 .. m - 1 : bases'[i] = cuts[i]
    <3>1. m - 1 \in 0 .. Len(cuts)
      BY <2>1, <1>2, <1>3
    <3> HIDE DEF cuts
    <3> QED
      BY <3>1, <2>2, <1>2, Prefix, SMTT(30)
  <2>5. ASSUME NEW i \in 1 .. m - 1
        PROVE  bases'[i] = bases[i] /\ bases[i] <= b /\ bases[i] < MaxStack
               /\ bases[i] \in Nat
    <3>1. i \in DOMAIN bases /\ m \in DOMAIN bases /\ i <= m /\ i \in 1 .. m
      BY <2>1, <1>3
    <3>2. bases'[i] = bases[i]
      BY <3>1, <2>4, <1>2
    <3> QED
      BY <3>1, <3>2 DEF TypeOK
  <2>6. \A i, j \in DOMAIN bases' : i <= j => bases'[i] <= bases'[j]
    BY <2>1, <2>4, <2>5, <1>3, SMTT(30) DEF TypeOK
  <2>7. \A i \in DOMAIN bases' :
            bases'[i] <= Len(stack') /\ bases'[i] < MaxStack
    BY <2>1, <2>3, <2>4, <2>5, <1>3, SMTT(30)
  <2>8. \A i \in DOMAIN stack' :
            \/ i \in DOMAIN stack /\ stack'[i] = stack[i]
            \/ Harmless(stack'[i])
    BY <2>1, <2>2, <2>3, <1>1, <1>3, Values, SMTT(30) DEF Harmless
  <2>9. Len(stack') <= MaxStack /\ Len(bases') <= MaxNest
    BY <2>1, <2>3, <2>4, <1>3, OwnershipAssumption DEF TypeOK
  <2> QED
    BY <2>3, <2>4, <2>6, <2>7, <2>8, <2>9
<1> QED
  BY <1>4, <1>5

\* Pushing a harmless value.
LEMMA PushHarmless ==
    ASSUME IInv, NEW v \in Value, Harmless(v),
           Pushes(stack, v), UNCHANGED <<bases, env, heap, wrapped>>
    PROVE  TypeOK' /\ Good
<1>1. TypeOK /\ DOMAIN stack = 1 .. Len(stack) /\ Len(stack) \in Nat
  BY DEF IInv, TypeOK
<1>2. /\ stack' \in Seq(Value) /\ Len(stack') <= MaxStack
      /\ Len(stack') = Len(stack) + 1
      /\ DOMAIN stack' = 1 .. Len(stack) + 1
      /\ \A i \in 1 .. Len(stack) : stack'[i] = stack[i]
      /\ stack'[Len(stack) + 1] = v
  BY <1>1, Pushed
<1>3. TypeOK'
  BY <1>1, <1>2, OwnershipAssumption DEF TypeOK
<1>4. \A i \in DOMAIN stack' :
            \/ i \in DOMAIN stack /\ stack'[i] = stack[i]
            \/ Harmless(stack'[i])
  BY <1>1, <1>2
<1> QED
  BY <1>3, <1>4, Losing

\* A copy of a value on the stack or in a binding is harmless: a handle is
\* copied as a borrow, and a result that owns is recorded.
LEMMA CopyHarmless ==
    ASSUME IInv, UNCHANGED wrapped, NEW v \in Value,
           \/ \E i \in DOMAIN stack : v = stack[i]
           \/ \E x \in Name : env[x] # None /\ v = env[x]
    PROVE  Copy(v) \in Value /\ Harmless(Copy(v))
<1>1. Copy(v) \in Value
  BY Values
<1>2. ASSUME Copy(v).kind = "own"
      PROVE  Copy(v) = v /\ v.wrap > 0 /\ v.kind = "own" /\ v.alloc \in Alloc
  BY <1>2 DEF Copy, IsHandle, Borrow, Value, Handle
<1> QED
  BY <1>1, <1>2 DEF Harmless, IInv, WrapIsRecorded, Recorded, Owned, StackOwns,
                    NameOwns, Owns

\* Arithmetic used where the context is too large for the SMT solver.
LEMMA Between == \A l, m, n \in Nat : l <= m /\ m <= n => l <= n
OBVIOUS

LEMMA OneMore ==
    \A i, l, n \in Nat : (l = n \/ l = n + 1) /\ i \in 1 .. l /\ i \notin 1 .. n
                            => i = n + 1 /\ l = n + 1
OBVIOUS

LEMMA AtLeast == \A l, n \in Nat : l = n \/ l = n + 1 => n <= l
OBVIOUS

LEMMA IndexIsNat == \A l \in Nat : \A i \in 1 .. l : i \in Nat
OBVIOUS

\* Cutting the stack to its first n values, with one harmless value pushed or
\* not, above the last cut.
LEMMA CutHarmless ==
    ASSUME IInv, NEW n \in Base .. Len(stack), NEW v \in Value, Harmless(v),
           wrapped \subseteq wrapped', wrapped' \subseteq Alloc,
           \/ stack' = SubSeq(stack, 1, n)
           \/ n < Len(stack) /\ stack' = Append(SubSeq(stack, 1, n), v),
           UNCHANGED <<bases, env, heap>>
    PROVE  TypeOK' /\ Good
<1>1. TypeOK /\ DOMAIN stack = 1 .. Len(stack) /\ Len(stack) \in Nat
      /\ n \in 0 .. Len(stack) /\ Base \in 0 .. Len(stack)
      /\ Len(stack) <= MaxStack /\ n \in Nat /\ Base \in Nat /\ Base <= n
  BY Shape DEF IInv, TypeOK
<1>2. /\ stack' \in Seq(Value) /\ Len(stack') \in Nat
      /\ Len(stack') = n \/ Len(stack') = n + 1
      /\ Len(stack') <= Len(stack)
      /\ DOMAIN stack' = 1 .. Len(stack')
      /\ \A i \in 1 .. n : stack'[i] = stack[i]
      /\ Len(stack') = n + 1 => stack'[n + 1] = v
  <2>1. CASE stack' = SubSeq(stack, 1, n)
    BY <2>1, <1>1, Prefix DEF TypeOK
  <2>2. CASE n < Len(stack) /\ stack' = Append(SubSeq(stack, 1, n), v)
    BY <2>2, <1>1, PrefixAppend DEF TypeOK
  <2> QED
    BY <2>1, <2>2
<1>3. \A i \in DOMAIN bases : bases[i] \in Nat /\ bases[i] <= Base
  <2>1. bases \in Seq(Nat) /\ DOMAIN bases = 1 .. Len(bases)
    BY <1>1 DEF TypeOK
  <2>2. ASSUME NEW i \in DOMAIN bases PROVE bases[i] <= bases[Len(bases)]
    BY <1>1, <2>1, <2>2 DEF TypeOK
  <2>3. ASSUME NEW i \in DOMAIN bases PROVE bases # <<>>
    BY <2>1
  <2> QED
    BY <2>1, <2>2, <2>3 DEF Base
<1>4. Len(stack') <= MaxStack
  BY <1>1, <1>2, OwnershipAssumption, Between, Zenon
<1>5. ASSUME NEW i \in DOMAIN bases PROVE bases[i] <= Len(stack')
  <2>1. bases[i] \in Nat /\ bases[i] <= n
    BY <1>1, <1>3, Between, Zenon
  <2>2. n <= Len(stack')
    BY <1>1, <1>2, AtLeast, Zenon
  <2> QED
    BY <1>1, <1>2, <2>1, <2>2, Between, Zenon
<1>6. TypeOK'
  BY <1>1, <1>2, <1>4, <1>5 DEF TypeOK
<1>7. ASSUME NEW i \in DOMAIN stack'
      PROVE  \/ i \in DOMAIN stack /\ stack'[i] = stack[i]
             \/ Harmless(stack'[i])
  <2>1. CASE i \in 1 .. n
    BY <2>1, <1>1, <1>2
  <2>2. CASE i \notin 1 .. n
    <3>0. i \in 1 .. Len(stack') /\ i \in Nat
      BY <1>2, IndexIsNat, Zenon
    <3>1. i = n + 1 /\ Len(stack') = n + 1
      BY <2>2, <3>0, <1>1, <1>2, OneMore, Zenon
    <3> QED
      BY <3>1, <1>2
  <2> QED
    BY <2>1, <2>2
<1> QED
  BY <1>6, <1>7, Losing

\* A whole sequence is its own prefix.
LEMMA WholeSeq == ASSUME NEW S, NEW s \in Seq(S) PROVE SubSeq(s, 1, Len(s)) = s
OBVIOUS

\* The cuts lie below the reachable part of the stack.
LEMMA CutsBelow ==
    ASSUME TypeOK
    PROVE  /\ bases \in Seq(Nat) /\ DOMAIN bases = 1 .. Len(bases)
           /\ Len(bases) \in Nat
           /\ \A i \in 1 .. Len(bases) : bases[i] \in Nat /\ bases[i] <= Base
<1>1. bases \in Seq(Nat) /\ DOMAIN bases = 1 .. Len(bases) /\ Len(bases) \in Nat
  BY DEF TypeOK
<1>2. ASSUME NEW i \in 1 .. Len(bases)
      PROVE  bases[i] <= bases[Len(bases)] /\ bases # <<>>
  BY <1>1, <1>2 DEF TypeOK
<1> QED
  BY <1>1, <1>2 DEF Base

\* A fault over the stack cut to its first n values.
LEMMA FaultStep ==
    ASSUME IInv, NEW n \in Base .. Len(stack),
           FaultOver(SubSeq(stack, 1, n), bases),
           UNCHANGED <<env, heap, wrapped>>
    PROVE  TypeOK' /\ Good
<1>1. TypeOK /\ n \in 0 .. Len(stack) /\ n \in Nat /\ Base \in Nat /\ Base <= n
  BY Shape DEF IInv
<1>2. \A i \in 1 .. Len(bases) : bases[i] <= n
  BY <1>1, CutsBelow, Between, Zenon
<1>3. SubSeq(bases, 1, Len(bases)) = bases /\ Len(bases) \in 0 .. Len(bases)
  BY <1>1, CutsBelow, WholeSeq
<1>4. FaultOver(SubSeq(stack, 1, n), SubSeq(bases, 1, Len(bases)))
  BY <1>3
<1>5. /\ stack' \in Seq(Value) /\ Len(stack') <= MaxStack
      /\ bases' \in Seq(Nat) /\ Len(bases') <= MaxNest
      /\ \A i \in DOMAIN bases' :
            bases'[i] <= Len(stack') /\ bases'[i] < MaxStack
      /\ \A i, j \in DOMAIN bases' : i <= j => bases'[i] <= bases'[j]
      /\ \A i \in DOMAIN stack' :
            \/ i \in DOMAIN stack /\ stack'[i] = stack[i]
            \/ Harmless(stack'[i])
  BY <1>1, <1>2, <1>3, <1>4, Faulted
<1>6. TypeOK'
  BY <1>1, <1>5 DEF TypeOK
<1> QED
  BY <1>5, <1>6, Losing

\* The actions that make and move no exclusive handle.
LEMMA LiteralStep == IInv /\ Literal => TypeOK' /\ Good
BY Values, PushHarmless DEF Literal, Harmless

LEMMA DupStep == IInv /\ Dup => TypeOK' /\ Good
<1> SUFFICES ASSUME IInv, Dup PROVE TypeOK' /\ Good
  OBVIOUS
<1>1. TypeOK
  BY DEF IInv
<1>2. Len(stack) \in DOMAIN stack /\ Top \in Value
  BY <1>1, Shape DEF Dup, Reach, Top
<1>3. Copy(Top) \in Value /\ Harmless(Copy(Top))
  BY <1>2, CopyHarmless DEF Dup, Top
<1> QED
  BY <1>3, PushHarmless DEF Dup

LEMMA OverStep == IInv /\ Over => TypeOK' /\ Good
<1> SUFFICES ASSUME IInv, Over PROVE TypeOK' /\ Good
  OBVIOUS
<1> DEFINE v == stack[Len(stack) - 1]
<1>1. TypeOK
  BY DEF IInv
<1>2. Len(stack) - 1 \in DOMAIN stack /\ v \in Value
  BY <1>1, Shape DEF Over, Reach
<1>3. Copy(v) \in Value /\ Harmless(Copy(v))
  BY <1>2, CopyHarmless DEF Over
<1> QED
  BY <1>3, PushHarmless DEF Over

LEMMA BareNameStep == ASSUME NEW x \in Name, IInv, BareName(x)
                      PROVE  TypeOK' /\ Good
<1>1. env[x] \in Value
  BY DEF BareName, IInv, TypeOK
<1>2. Copy(env[x]) \in Value /\ Harmless(Copy(env[x]))
  BY <1>1, CopyHarmless DEF BareName
<1> QED
  BY <1>2, PushHarmless DEF BareName

LEMMA ForgetStep == IInv /\ Forget => TypeOK' /\ Good
<1> SUFFICES ASSUME IInv, Forget PROVE TypeOK' /\ Good
  OBVIOUS
<1>1. TypeOK
  BY DEF IInv
<1>2. Len(stack) - 1 \in Base .. Len(stack)
  BY <1>1, Shape DEF Forget, Reach
<1>3. Harmless(Plain) /\ Plain \in Value /\ wrapped' \subseteq Alloc
  BY <1>1, Values DEF Harmless, Forget, TypeOK
<1>4. stack' = SubSeq(stack, 1, Len(stack) - 1)
  BY DEF Forget, Under
<1> QED
  BY <1>2, <1>3, <1>4, CutHarmless DEF Forget

LEMMA FaultsStep == IInv /\ Fault => TypeOK' /\ Good
<1> SUFFICES ASSUME IInv, Fault PROVE TypeOK' /\ Good
  OBVIOUS
<1>1. TypeOK
  BY DEF IInv
<1>2. Len(stack) \in Base .. Len(stack) /\ SubSeq(stack, 1, Len(stack)) = stack
  BY <1>1, Shape, WholeSeq DEF TypeOK
<1>3. FaultOver(SubSeq(stack, 1, Len(stack)), bases)
  BY <1>2 DEF Fault
<1> QED
  BY <1>2, <1>3, FaultStep DEF Fault

LEMMA GetByteStep == IInv /\ GetByte => TypeOK' /\ Good
<1> SUFFICES ASSUME IInv, GetByte PROVE TypeOK' /\ Good
  OBVIOUS
<1>1. TypeOK
  BY DEF IInv
<1>2. Len(stack) - 1 \in Base .. Len(stack) /\ Len(stack) - 1 < Len(stack)
  BY <1>1, Shape DEF GetByte, Reach
<1>3. Harmless(Plain) /\ Plain \in Value /\ wrapped' \subseteq Alloc
  BY <1>1, Values DEF Harmless, GetByte, TypeOK
<1>4. CASE stack' = Append(SubSeq(stack, 1, Len(stack) - 1), Plain)
           /\ UNCHANGED bases
  BY <1>2, <1>3, <1>4, CutHarmless DEF GetByte
<1>5. CASE FaultOver(SubSeq(stack, 1, Len(stack) - 1), bases)
  BY <1>2, <1>5, FaultStep DEF GetByte
<1> QED
  BY <1>4, <1>5 DEF GetByte, Under

LEMMA PutByteStep == IInv /\ PutByte => TypeOK' /\ Good
<1> SUFFICES ASSUME IInv, PutByte PROVE TypeOK' /\ Good
  OBVIOUS
<1>1. TypeOK
  BY DEF IInv
<1>2. Len(stack) - 2 \in Base .. Len(stack)
  BY <1>1, Shape DEF PutByte, Reach
<1>3. Harmless(Plain) /\ Plain \in Value /\ wrapped' \subseteq Alloc
  BY <1>1, Values DEF Harmless, PutByte, TypeOK
<1>4. CASE stack' = SubSeq(stack, 1, Len(stack) - 2) /\ UNCHANGED bases
  BY <1>2, <1>3, <1>4, CutHarmless DEF PutByte
<1>5. CASE FaultOver(SubSeq(stack, 1, Len(stack) - 2), bases)
  BY <1>2, <1>5, FaultStep DEF PutByte
<1> QED
  BY <1>4, <1>5 DEF PutByte, Under

LEMMA AttemptStep == IInv /\ Attempt => TypeOK' /\ Good
<1> SUFFICES ASSUME IInv, Attempt PROVE TypeOK' /\ Good
  OBVIOUS
<1>1. TypeOK
  BY DEF IInv
<1>2. /\ bases' \in Seq(Nat) /\ Len(bases') = Len(bases) + 1
      /\ DOMAIN bases' = 1 .. Len(bases) + 1
      /\ \A i \in 1 .. Len(bases) : bases'[i] = bases[i]
      /\ bases'[Len(bases) + 1] = Len(stack)
  BY <1>1, Shape, CutsBelow DEF Attempt
<1>3. \A i \in DOMAIN bases' : bases'[i] <= Len(stack) /\ bases'[i] < MaxStack
  BY <1>1, <1>2, Shape, CutsBelow DEF Attempt, TypeOK
<1>4. \A i, j \in DOMAIN bases' : i <= j => bases'[i] <= bases'[j]
  <2> SUFFICES ASSUME NEW i \in DOMAIN bases', NEW j \in DOMAIN bases', i <= j
               PROVE  bases'[i] <= bases'[j]
    OBVIOUS
  <2>1. CASE j = Len(bases) + 1
    BY <1>2, <1>3, <2>1
  <2>2. CASE j # Len(bases) + 1
    <3>1. i \in 1 .. Len(bases) /\ j \in 1 .. Len(bases)
      BY <1>1, <1>2, <2>2, CutsBelow
    <3>2. bases[i] <= bases[j]
      BY <1>1, <3>1, CutsBelow DEF TypeOK
    <3> QED
      BY <3>1, <3>2, <1>2
  <2> QED
    BY <2>1, <2>2
<1>5. TypeOK'
  BY <1>1, <1>2, <1>3, <1>4, CutsBelow, OwnershipAssumption DEF TypeOK, Attempt
<1>6. Good
  BY Losing DEF Attempt
<1> QED
  BY <1>5, <1>6

LEMMA UnwrapStep == IInv /\ Unwrap => TypeOK' /\ Good
<1> SUFFICES ASSUME IInv, Unwrap PROVE TypeOK' /\ Good
  OBVIOUS
<1>1. TypeOK
  BY DEF IInv
<1>2. Len(stack) - 1 \in Base .. Len(stack) /\ Len(stack) - 1 < Len(stack)
      /\ Len(stack) \in DOMAIN stack /\ Top \in Value
  BY <1>1, Shape DEF Unwrap, Reach, Top
<1>3. Unwrapped(Top) \in Value
  BY <1>2, Values DEF Unwrap
<1>4. Harmless(Unwrapped(Top))
  <2>1. Unwrapped(Top).kind = Top.kind /\ Unwrapped(Top).alloc = Top.alloc
    BY DEF Unwrapped
  <2> QED
    BY <2>1, <1>2 DEF Harmless, Unwrap, Top, IInv, WrapIsRecorded, Recorded,
                      Owned, StackOwns, Owns
<1>5. stack' = Append(SubSeq(stack, 1, Len(stack) - 1), Unwrapped(Top))
      /\ wrapped' \subseteq Alloc
  BY <1>1 DEF Unwrap, Under, TypeOK
<1> QED
  BY <1>2, <1>3, <1>4, <1>5, CutHarmless DEF Unwrap

LEMMA EndAttemptStep == IInv /\ EndAttempt => TypeOK' /\ Good
<1> SUFFICES ASSUME IInv, EndAttempt PROVE TypeOK' /\ Good
  OBVIOUS
<1> DEFINE m == Len(bases) - 1
           cuts == SubSeq(bases, 1, m)
<1>1. TypeOK /\ bases # <<>> /\ env' = env /\ heap' = heap
  BY DEF IInv, EndAttempt
<1>2. Len(bases) \in 1 .. Len(bases) /\ m \in 0 .. Len(bases) /\ m \in Nat
      /\ Base = bases[Len(bases)] /\ m < Len(bases) /\ Len(bases) \in Nat
  BY <1>1, CutsBelow, EmptySeq DEF Base
<1>3. Base \in 0 .. Len(stack)
  BY <1>1, Shape
<1>4. CASE /\ Len(stack) = Base + 1 /\ Top.wrap < MaxWrap
           /\ stack' = Append(Under(1), Wrapped(Top)) /\ bases' = cuts
           /\ wrapped' = IF Top.kind = "own" THEN wrapped \cup {Top.alloc}
                                             ELSE wrapped
  <2>1. Len(stack) - 1 = Base /\ Len(stack) \in DOMAIN stack /\ Top \in Value
        /\ Len(stack) \in Nat
    BY <1>1, <1>3, <1>4, Shape DEF Top
  <2>2. Wrapped(Top) \in Value /\ Wrapped(Top).kind = Top.kind
        /\ Wrapped(Top).alloc = Top.alloc
    BY <2>1, <1>4, Values DEF Wrapped
  <2>3. /\ stack' \in Seq(Value) /\ Len(stack') = Len(stack)
        /\ DOMAIN stack' = DOMAIN stack
        /\ \A i \in 1 .. Base : stack'[i] = stack[i]
        /\ stack'[Base + 1] = Wrapped(Top)
    <3>1. stack' = Append(SubSeq(stack, 1, Base), Wrapped(Top))
      BY <2>1, <1>4 DEF Under
    <3> QED
      BY <3>1, <2>1, <2>2, <1>1, <1>3, <1>4, PrefixAppend, Shape DEF TypeOK
  <2>4. /\ bases' \in Seq(Nat) /\ Len(bases') = m /\ DOMAIN bases' = 1 .. m
        /\ \A i \in 1 .. m : bases'[i] = bases[i]
    BY <1>1, <1>2, <1>4, CutsBelow, Prefix
  <2>5. Top.kind = "own" => Top.alloc \in Alloc /\ Owned(Top.alloc)
    BY <2>1 DEF Value, Handle, Owned, StackOwns, Owns, Top
  <2>6. wrapped \subseteq wrapped' /\ wrapped' \subseteq Alloc
    BY <1>1, <1>4, <2>5 DEF TypeOK
  <2>7. Harmless(Wrapped(Top))
    BY <1>4, <2>2, <2>5 DEF Harmless
  <2>8. ASSUME NEW i \in DOMAIN stack'
        PROVE  \/ i \in DOMAIN stack /\ stack'[i] = stack[i]
               \/ Harmless(stack'[i])
    <3>1. i \in 1 .. Base \/ i = Base + 1
      BY <1>1, <1>3, <1>4, <2>3, Shape
    <3> QED
      BY <3>1, <2>3, <2>7
  <2>9. Good
    BY <1>1, <2>6, <2>8, Losing
  <2>10. \A i \in 1 .. m : i \in DOMAIN bases
    BY <1>1, <1>2, CutsBelow
  <2>11. Len(bases') <= MaxNest
    BY <1>1, <1>2, <2>4, OwnershipAssumption DEF TypeOK
  <2>12. \A i \in DOMAIN bases' :
            bases'[i] <= Len(stack') /\ bases'[i] < MaxStack
    BY <1>1, <2>3, <2>4, <2>10 DEF TypeOK
  <2>13. \A i, j \in DOMAIN bases' : i <= j => bases'[i] <= bases'[j]
    BY <1>1, <2>4, <2>10 DEF TypeOK
  <2>14. TypeOK'
    BY <1>1, <2>3, <2>4, <2>6, <2>11, <2>12, <2>13 DEF TypeOK
  <2> QED
    BY <2>9, <2>14
<1>5. CASE FaultOver(SubSeq(stack, 1, Base), cuts) /\ UNCHANGED wrapped
  <2>1. \A i \in 1 .. m : bases[i] <= Base
    BY <1>1, <1>2, CutsBelow
  <2>2. /\ stack' \in Seq(Value) /\ Len(stack') <= MaxStack
        /\ bases' \in Seq(Nat) /\ Len(bases') <= MaxNest
        /\ \A i \in DOMAIN bases' :
              bases'[i] <= Len(stack') /\ bases'[i] < MaxStack
        /\ \A i, j \in DOMAIN bases' : i <= j => bases'[i] <= bases'[j]
        /\ \A i \in DOMAIN stack' :
              \/ i \in DOMAIN stack /\ stack'[i] = stack[i]
              \/ Harmless(stack'[i])
    BY <1>1, <1>2, <1>3, <1>5, <2>1, Faulted
  <2>3. TypeOK'
    BY <1>1, <1>5, <2>2 DEF TypeOK
  <2>4. Good
    BY <1>1, <1>5, <2>2, Losing
  <2> QED
    BY <2>3, <2>4
<1> QED
  BY <1>4, <1>5 DEF EndAttempt

\* A step that only reorders the stack.
LEMMA Permuting ==
    ASSUME IInv, NEW p \in [DOMAIN stack' -> DOMAIN stack],
           \A i, j \in DOMAIN stack' : p[i] = p[j] => i = j,
           \A i \in DOMAIN stack' : stack'[i] = stack[p[i]],
           UNCHANGED <<env, heap, wrapped>>
    PROVE  Good
<1>1. OneOwner'
  BY DEF IInv, OneOwner, SoleOwner, StackOwns, NameOwns, Owns
<1>2. \A a \in Alloc : Owned(a)' => Owned(a)
  BY DEF Owned, StackOwns, NameOwns, Owns
<1>3. FreedHasNoOwner' /\ OwnedIsAllocated' /\ ~Reowns /\ ~FreesOther
  BY <1>2 DEF IInv, FreedHasNoOwner, OwnedIsAllocated, Reowns, FreesOther
<1>4. WrapIsRecorded'
  BY DEF IInv, WrapIsRecorded, Recorded
<1> QED
  BY <1>1, <1>3, <1>4 DEF Good

\* The index permutations of `\` and rt.
LEMMA SwapInjective ==
    ASSUME NEW n \in Nat
    PROVE  LET p == [i \in 1 .. n + 2 |-> IF i = n + 1 THEN n + 2
                                     ELSE IF i = n + 2 THEN n + 1 ELSE i]
           IN  /\ p \in [1 .. n + 2 -> 1 .. n + 2]
               /\ \A i, j \in 1 .. n + 2 : p[i] = p[j] => i = j
OBVIOUS

LEMMA RotInjective ==
    ASSUME NEW n \in Nat
    PROVE  LET p == [i \in 1 .. n + 3 |-> IF i = n + 1 THEN n + 2
                                     ELSE IF i = n + 2 THEN n + 3
                                     ELSE IF i = n + 3 THEN n + 1 ELSE i]
           IN  /\ p \in [1 .. n + 3 -> 1 .. n + 3]
               /\ \A i, j \in 1 .. n + 3 : p[i] = p[j] => i = j
OBVIOUS

LEMMA SwapStep == IInv /\ Swap => TypeOK' /\ Good
<1> SUFFICES ASSUME IInv, Swap PROVE TypeOK' /\ Good
  OBVIOUS
<1>1. TypeOK
  BY DEF IInv
<1>2. PICK n \in Nat : Len(stack) = n + 2
  <2>1. Len(stack) - 2 \in Nat /\ Len(stack) = (Len(stack) - 2) + 2
    BY <1>1, Shape DEF Swap, Reach
  <2> QED
    BY <2>1
<1>3. stack' = SubSeq(stack, 1, n) \o <<stack[n + 2], stack[n + 1]>>
  <2>1. Len(stack) - 2 = n /\ Len(stack) - 1 = n + 1
    BY <1>2
  <2> QED
    BY <2>1, <1>2 DEF Swap, Under, Top
<1>4. /\ stack[n + 1] \in Value /\ stack[n + 2] \in Value
      /\ DOMAIN stack = 1 .. n + 2 /\ n \in 0 .. Len(stack) /\ stack \in Seq(Value)
  BY <1>1, <1>2, Shape DEF TypeOK
<1>5. /\ stack' \in Seq(Value) /\ Len(stack') = n + 2 /\ DOMAIN stack' = 1 .. n + 2
      /\ \A i \in 1 .. n : stack'[i] = stack[i]
      /\ stack'[n + 1] = stack[n + 2] /\ stack'[n + 2] = stack[n + 1]
  BY <1>3, <1>4, Prefix
<1>6. TypeOK'
  BY <1>1, <1>2, <1>5 DEF TypeOK, Swap
<1> DEFINE p == [i \in 1 .. n + 2 |-> IF i = n + 1 THEN n + 2
                                     ELSE IF i = n + 2 THEN n + 1 ELSE i]
<1>7. /\ p \in [DOMAIN stack' -> DOMAIN stack]
      /\ \A i, j \in DOMAIN stack' : p[i] = p[j] => i = j
  BY <1>4, <1>5, SwapInjective
<1>8. ASSUME NEW i \in DOMAIN stack' PROVE stack'[i] = stack[p[i]]
  <2>1. CASE i \in 1 .. n
    <3>1. p[i] = i
      BY <2>1
    <3> QED
      BY <3>1, <2>1, <1>5
  <2>2. CASE i \notin 1 .. n
    <3>1. i = n + 1 \/ i = n + 2
      BY <2>2, <1>5
    <3>2. p[n + 1] = n + 2 /\ p[n + 2] = n + 1
      OBVIOUS
    <3> QED
      BY <3>1, <3>2, <1>5
  <2> QED
    BY <2>1, <2>2
<1> QED
  BY <1>6, <1>7, <1>8, Permuting DEF Swap

LEMMA RotStep == IInv /\ Rot => TypeOK' /\ Good
<1> SUFFICES ASSUME IInv, Rot PROVE TypeOK' /\ Good
  OBVIOUS
<1>1. TypeOK
  BY DEF IInv
<1>2. PICK n \in Nat : Len(stack) = n + 3
  <2>1. Len(stack) - 3 \in Nat /\ Len(stack) = (Len(stack) - 3) + 3
    BY <1>1, Shape DEF Rot, Reach
  <2> QED
    BY <2>1
<1>3. stack' = SubSeq(stack, 1, n) \o <<stack[n + 2], stack[n + 3], stack[n + 1]>>
  <2>1. Len(stack) - 3 = n /\ Len(stack) - 1 = n + 2 /\ Len(stack) - 2 = n + 1
    BY <1>2
  <2> QED
    BY <2>1, <1>2 DEF Rot, Under, Top
<1>4. /\ stack[n + 1] \in Value /\ stack[n + 2] \in Value /\ stack[n + 3] \in Value
      /\ DOMAIN stack = 1 .. n + 3 /\ n \in 0 .. Len(stack) /\ stack \in Seq(Value)
  BY <1>1, <1>2, Shape DEF TypeOK
<1>5. /\ stack' \in Seq(Value) /\ Len(stack') = n + 3 /\ DOMAIN stack' = 1 .. n + 3
      /\ \A i \in 1 .. n : stack'[i] = stack[i]
      /\ stack'[n + 1] = stack[n + 2] /\ stack'[n + 2] = stack[n + 3]
      /\ stack'[n + 3] = stack[n + 1]
  BY <1>3, <1>4, Prefix
<1>6. TypeOK'
  BY <1>1, <1>2, <1>5 DEF TypeOK, Rot
<1> DEFINE p == [i \in 1 .. n + 3 |-> IF i = n + 1 THEN n + 2
                                     ELSE IF i = n + 2 THEN n + 3
                                     ELSE IF i = n + 3 THEN n + 1 ELSE i]
<1>7. /\ p \in [DOMAIN stack' -> DOMAIN stack]
      /\ \A i, j \in DOMAIN stack' : p[i] = p[j] => i = j
  BY <1>4, <1>5, RotInjective
<1>8. ASSUME NEW i \in DOMAIN stack' PROVE stack'[i] = stack[p[i]]
  <2>1. CASE i \in 1 .. n
    <3>1. p[i] = i
      BY <2>1
    <3> QED
      BY <3>1, <2>1, <1>5
  <2>2. CASE i \notin 1 .. n
    <3>1. i = n + 1 \/ i = n + 2 \/ i = n + 3
      BY <2>2, <1>5
    <3>2. p[n + 1] = n + 2 /\ p[n + 2] = n + 3 /\ p[n + 3] = n + 1
      OBVIOUS
    <3> QED
      BY <3>1, <3>2, <1>5
  <2> QED
    BY <2>1, <2>2
<1> QED
  BY <1>6, <1>7, <1>8, Permuting DEF Rot

LEMMA AllocateStep == ASSUME NEW a \in Alloc, IInv, Allocate(a)
                      PROVE  TypeOK' /\ Good
<1>1. TypeOK /\ heap[a] = "unused" /\ ~Owned(a) /\ Pushes(stack, Own(a))
      /\ env' = env /\ bases' = bases /\ wrapped' = wrapped
  BY DEF IInv, Allocate, OwnedIsAllocated
<1>2. /\ stack' \in Seq(Value) /\ Len(stack') <= MaxStack
      /\ Len(stack') = Len(stack) + 1
      /\ DOMAIN stack' = 1 .. Len(stack) + 1
      /\ \A i \in 1 .. Len(stack) : stack'[i] = stack[i]
      /\ stack'[Len(stack) + 1] = Own(a)
  BY <1>1, Values, Pushed
<1>3. heap' \in [Alloc -> {"unused", "live", "freed"}] /\ heap'[a] = "live"
      /\ \A b \in Alloc \ {a} : heap'[b] = heap[b]
  BY <1>1 DEF Allocate, TypeOK
<1>4. TypeOK'
  BY <1>1, <1>2, <1>3, Shape, CutsBelow, OwnershipAssumption DEF TypeOK
<1>5. ASSUME NEW i \in DOMAIN stack'
      PROVE  \/ i \in DOMAIN stack /\ stack'[i] = stack[i]
             \/ i = Len(stack) + 1 /\ stack'[i] = Own(a)
  BY <1>1, <1>2, Shape
<1>6. \A b \in Alloc \ {a} : ~Owns(Own(a), b)
  BY DEF Owns, Own
<1>7. \A b \in Alloc \ {a} : Owned(b)' => Owned(b)
  BY <1>1, <1>5, <1>6 DEF Owned, StackOwns, NameOwns
<1>8. OneOwner'
  BY <1>1, <1>5, <1>6 DEF IInv, OneOwner, SoleOwner, StackOwns, NameOwns, Owned
<1>9. FreedHasNoOwner' /\ OwnedIsAllocated' /\ ~Reowns /\ ~FreesOther
  BY <1>1, <1>3, <1>7
     DEF IInv, FreedHasNoOwner, OwnedIsAllocated, Reowns, FreesOther
<1>10. WrapIsRecorded'
  <2>1. Own(a).wrap = 0
    BY DEF Own
  <2> QED
    BY <2>1, <1>1, <1>5 DEF IInv, WrapIsRecorded, Recorded
<1> QED
  BY <1>4, <1>8, <1>9, <1>10 DEF Good

\* A step that consumes the exclusive handle on top and frees its allocation.
LEMMA Consuming ==
    ASSUME IInv, NEW a \in Alloc, Reach(1), Top = Own(a),
           heap' = [heap EXCEPT ![a] = "freed"], UNCHANGED <<env, wrapped>>,
           \A i \in DOMAIN stack' :
                \/ i \in DOMAIN stack \ {Len(stack)} /\ stack'[i] = stack[i]
                \/ stack'[i] = Plain
    PROVE  Good
<1>1. TypeOK /\ Plain.kind = "plain" /\ Owns(Top, a) /\ Len(stack) \in DOMAIN stack
      /\ \A b \in Alloc \ {a} : ~Owns(Top, b)
  BY Shape DEF IInv, Plain, Owns, Own, Reach
<1>2. heap'[a] = "freed" /\ \A b \in Alloc \ {a} : heap'[b] = heap[b]
  BY <1>1 DEF TypeOK
<1>3. OneOwner'
  BY <1>1 DEF IInv, OneOwner, SoleOwner, StackOwns, NameOwns, Owns
<1>4. \A b \in Alloc : Owned(b)' => Owned(b)
  BY <1>1 DEF Owned, StackOwns, NameOwns, Owns
<1>5. ASSUME a \notin wrapped PROVE ~Owned(a)'
  <2>1. SoleOwner(a)
    BY <1>5 DEF IInv, OneOwner
  <2>2. StackOwns(Len(stack), a)
    BY <1>1 DEF StackOwns, Top
  <2> QED
    BY <1>1, <2>1, <2>2 DEF SoleOwner, Owned, StackOwns, NameOwns, Owns
<1>6. FreedHasNoOwner'
  BY <1>2, <1>4, <1>5 DEF IInv, FreedHasNoOwner
<1>7. OwnedIsAllocated' /\ ~Reowns /\ ~FreesOther
  BY <1>2, <1>4 DEF IInv, OwnedIsAllocated, Reowns, FreesOther
<1>8. WrapIsRecorded'
  BY <1>1 DEF IInv, WrapIsRecorded, Recorded
<1> QED
  BY <1>3, <1>6, <1>7, <1>8 DEF Good

LEMMA Pred ==
    \A l \in Nat : l - 1 \in 0 .. l => \E n \in Nat : n = l - 1 /\ l = n + 1
<1> TAKE l \in Nat
<1> HAVE l - 1 \in 0 .. l
<1>1. l - 1 \in Nat /\ l = (l - 1) + 1
  OBVIOUS
<1> QED
  BY <1>1

\* A sequence with its last element taken off, or replaced by v.
LEMMA LastGone ==
    ASSUME NEW S, NEW s \in Seq(S), NEW n \in Nat, Len(s) = n + 1, NEW v \in S,
           NEW t, \/ t = SubSeq(s, 1, n)
                  \/ t = Append(SubSeq(s, 1, n), v)
    PROVE  \A i \in DOMAIN t :
                \/ i \in DOMAIN s \ {n + 1} /\ t[i] = s[i]
                \/ t[i] = v
<1>1. n \in 0 .. Len(s) /\ DOMAIN s = 1 .. n + 1
  OBVIOUS
<1>2. CASE t = SubSeq(s, 1, n)
  <2>1. DOMAIN t = 1 .. n /\ \A i \in 1 .. n : t[i] = s[i]
    BY <1>1, <1>2, Prefix
  <2> QED
    BY <1>1, <2>1
<1>3. CASE t = Append(SubSeq(s, 1, n), v)
  <2>1. DOMAIN t = 1 .. n + 1 /\ t[n + 1] = v /\ \A i \in 1 .. n : t[i] = s[i]
    BY <1>1, <1>3, PrefixAppend
  <2> QED
    BY <1>1, <2>1
<1> QED
  BY <1>2, <1>3

\* Popping the top value, with or without pushing a plain one, and freeing what
\* the popped value owns.
LEMMA ReleaseTop ==
    ASSUME IInv, Reach(1), heap' = Freed(Top), UNCHANGED <<bases, env, wrapped>>,
           stack' = Under(1) \/ stack' = Append(Under(1), Plain)
    PROVE  TypeOK' /\ Good
<1>1. TypeOK
  BY DEF IInv
<1>2. Len(stack) - 1 \in Base .. Len(stack) /\ Len(stack) - 1 < Len(stack)
      /\ Len(stack) \in DOMAIN stack /\ Top \in Value
      /\ Len(stack) - 1 \in 0 .. Len(stack)
  BY <1>1, Shape DEF Reach, Top
<1>3. Harmless(Plain) /\ Plain \in Value /\ wrapped' \subseteq Alloc
  BY <1>1, Values DEF Harmless, TypeOK
<1>4. CASE ~Frees(Top)
  <2>1. heap' = heap
    BY <1>4 DEF Freed
  <2> QED
    BY <2>1, <1>2, <1>3, CutHarmless DEF Under
<1>5. CASE Frees(Top)
  <2>1. PICK a \in Alloc : Top = Own(a)
    BY <1>2, <1>5 DEF Frees, Value, Handle, Own
  <2>2. heap' = [heap EXCEPT ![a] = "freed"]
    <3>1. Top.alloc = a
      BY <2>1 DEF Own
    <3> QED
      BY <3>1, <1>5 DEF Freed
  <2>3. ASSUME NEW i \in DOMAIN stack'
        PROVE  \/ i \in DOMAIN stack \ {Len(stack)} /\ stack'[i] = stack[i]
               \/ stack'[i] = Plain
    <3>1. PICK n \in Nat : n = Len(stack) - 1 /\ Len(stack) = n + 1
      <4>1. Len(stack) \in Nat /\ Len(stack) - 1 \in 0 .. Len(stack)
        BY <1>1, <1>2, Shape, Zenon
      <4> QED
        BY <4>1, Pred, Zenon
    <3>2. stack' = SubSeq(stack, 1, n) \/ stack' = Append(SubSeq(stack, 1, n), Plain)
      BY <3>1, Zenon DEF Under
    <3>3. stack \in Seq(Value)
      BY <1>1, Zenon DEF TypeOK
    <3>4. \A j \in DOMAIN stack' :
            \/ j \in DOMAIN stack \ {n + 1} /\ stack'[j] = stack[j]
            \/ stack'[j] = Plain
      BY <3>1, <3>2, <3>3, <1>3, LastGone, SMTT(30)
    <3> QED
      BY <3>1, <3>4, Zenon
  <2>4. Good
    BY <2>1, <2>2, <2>3, Consuming
  <2>5. heap' \in [Alloc -> {"unused", "live", "freed"}]
    BY <1>1, <2>2 DEF TypeOK
  <2>6. stack' \in Seq(Value) /\ Len(stack') \in Nat /\ Len(stack') <= Len(stack)
        /\ Base <= Len(stack')
    <3>1. CASE stack' = Under(1)
      BY <1>1, <1>2, <3>1, Prefix, Shape DEF TypeOK, Under
    <3>2. CASE stack' = Append(Under(1), Plain)
      BY <1>1, <1>2, <1>3, <3>2, PrefixAppend, Shape DEF TypeOK, Under
    <3> QED
      BY <3>1, <3>2
  <2>7. Len(stack') <= MaxStack
    <3>1. Len(stack) \in Nat /\ Len(stack) <= MaxStack
      BY <1>1, Shape, Zenon
    <3> QED
      BY <3>1, <2>6, Between, OwnershipAssumption, Zenon
  <2>9. ASSUME NEW i \in DOMAIN bases PROVE bases[i] <= Len(stack')
    <3>1. bases[i] \in Nat /\ bases[i] <= Base
      BY <1>1, CutsBelow, Zenon
    <3>2. Base \in Nat
      BY <1>1, Shape
    <3> QED
      BY <3>1, <3>2, <2>6, Between, Zenon
  <2>8. TypeOK'
    BY <1>1, <2>5, <2>6, <2>7, <2>9 DEF TypeOK
  <2> QED
    BY <2>4, <2>8
<1> QED
  BY <1>4, <1>5

LEMMA ReleaseStep == IInv /\ Release => TypeOK' /\ Good
BY ReleaseTop DEF Release

LEMMA LengthStep == IInv /\ Length => TypeOK' /\ Good
<1> SUFFICES ASSUME IInv, Length PROVE TypeOK' /\ Good
  OBVIOUS
<1>1. Len(stack) - 1 \in Base .. Len(stack)
  BY Shape DEF IInv, Length, Reach
<1>2. CASE stack' = Append(Under(1), Plain) /\ heap' = Freed(Top) /\ UNCHANGED bases
  BY <1>2, ReleaseTop DEF Length
<1>3. CASE FaultOver(Under(1), bases) /\ UNCHANGED heap
  BY <1>1, <1>3, FaultStep DEF Length, Under
<1> QED
  BY <1>2, <1>3 DEF Length

\* The value on top goes into a binding; what the name held before is gone.
LEMMA BindStep == ASSUME NEW x \in Name, IInv, Bind(x)
                  PROVE  TypeOK' /\ Good
<1>1. TypeOK /\ bases' = bases /\ heap' = heap /\ wrapped' = wrapped /\ Reach(1)
      /\ env' = [env EXCEPT ![x] = Top] /\ stack' = Under(1)
  BY DEF IInv, Bind
<1>2. Len(stack) - 1 \in Base .. Len(stack) /\ Len(stack) - 1 < Len(stack)
      /\ Len(stack) \in DOMAIN stack /\ Top \in Value
      /\ Len(stack) - 1 \in 0 .. Len(stack) /\ DOMAIN stack = 1 .. Len(stack)
      /\ Len(stack) \in Nat /\ Base \in Nat
  BY <1>1, Shape DEF Reach, Top
<1>3. /\ stack' \in Seq(Value) /\ Len(stack') = Len(stack) - 1
      /\ DOMAIN stack' = 1 .. Len(stack) - 1
      /\ \A i \in 1 .. Len(stack) - 1 : stack'[i] = stack[i]
  BY <1>1, <1>2, Prefix DEF TypeOK, Under
<1>4. \A i \in DOMAIN stack' : /\ i \in DOMAIN stack /\ i # Len(stack)
                               /\ stack'[i] = stack[i]
  BY <1>2, <1>3
<1>5. env'[x] = stack[Len(stack)] /\ \A y \in Name \ {x} : env'[y] = env[y]
      /\ env' \in [Name -> Value \cup {None}]
  BY <1>1, <1>2 DEF TypeOK, Top
<1>6. \A i \in DOMAIN bases : bases[i] <= Len(stack')
  BY <1>1, <1>2, <1>3, CutsBelow
<1>7. TypeOK'
  BY <1>1, <1>2, <1>3, <1>5, <1>6, OwnershipAssumption DEF TypeOK
<1>8. OneOwner'
  BY <1>1, <1>2, <1>4, <1>5
     DEF IInv, OneOwner, SoleOwner, StackOwns, NameOwns, Owns
<1>9. \A a \in Alloc : Owned(a)' => Owned(a)
  BY <1>2, <1>4, <1>5 DEF Owned, StackOwns, NameOwns, Owns
<1>10. FreedHasNoOwner' /\ OwnedIsAllocated' /\ ~Reowns /\ ~FreesOther
  BY <1>1, <1>9 DEF IInv, FreedHasNoOwner, OwnedIsAllocated, Reowns, FreesOther
<1>11. WrapIsRecorded'
  BY <1>1, <1>2, <1>4, <1>5 DEF IInv, WrapIsRecorded, Recorded
<1> QED
  BY <1>7, <1>8, <1>10, <1>11 DEF Good

\* The bound value goes onto the stack and the name is unbound.
LEMMA MoveStep == ASSUME NEW x \in Name, IInv, Move(x)
                  PROVE  TypeOK' /\ Good
<1>1. TypeOK /\ bases' = bases /\ heap' = heap /\ wrapped' = wrapped
      /\ env' = [env EXCEPT ![x] = None] /\ env[x] # None /\ env[x] \in Value
      /\ Pushes(stack, env[x])
  BY DEF IInv, Move, TypeOK
<1>2. /\ stack' \in Seq(Value) /\ Len(stack') <= MaxStack
      /\ Len(stack') = Len(stack) + 1
      /\ DOMAIN stack' = 1 .. Len(stack) + 1
      /\ \A i \in 1 .. Len(stack) : stack'[i] = stack[i]
      /\ stack'[Len(stack) + 1] = env[x]
  BY <1>1, Pushed
<1>3. env' \in [Name -> Value \cup {None}] /\ env'[x] = None
      /\ \A y \in Name \ {x} : env'[y] = env[y]
  BY <1>1 DEF TypeOK
<1>4. TypeOK'
  BY <1>1, <1>2, <1>3, Shape, CutsBelow DEF TypeOK
<1>5. ASSUME NEW i \in DOMAIN stack'
      PROVE  \/ i \in DOMAIN stack /\ stack'[i] = stack[i]
             \/ i = Len(stack) + 1 /\ stack'[i] = env[x]
  BY <1>1, <1>2, Shape
<1>6. OneOwner'
  BY <1>1, <1>3, <1>5 DEF IInv, OneOwner, SoleOwner, StackOwns, NameOwns
<1>7. \A a \in Alloc : Owned(a)' => Owned(a)
  BY <1>1, <1>3, <1>5 DEF Owned, StackOwns, NameOwns
<1>8. FreedHasNoOwner' /\ OwnedIsAllocated' /\ ~Reowns /\ ~FreesOther
  BY <1>1, <1>7 DEF IInv, FreedHasNoOwner, OwnedIsAllocated, Reowns, FreesOther
<1>9. WrapIsRecorded'
  BY <1>1, <1>3, <1>5 DEF IInv, WrapIsRecorded, Recorded
<1> QED
  BY <1>4, <1>6, <1>8, <1>9 DEF Good

-----------------------------------------------------------------------------
\* Every step keeps the invariant and has the two action properties.
LEMMA EveryStep == IInv /\ [Next]_vars => IInv' /\ ~Reowns /\ ~FreesOther
<1> SUFFICES ASSUME IInv, [Next]_vars PROVE IInv' /\ ~Reowns /\ ~FreesOther
  OBVIOUS
<1>1. TypeOK' /\ Good => IInv' /\ ~Reowns /\ ~FreesOther
  BY DEF Good, IInv
<1>2. ASSUME NEW a \in Alloc, Allocate(a) PROVE TypeOK' /\ Good
  BY <1>2, AllocateStep
<1>3. ASSUME NEW x \in Name, Bind(x) \/ BareName(x) \/ Move(x)
      PROVE  TypeOK' /\ Good
  BY <1>3, BindStep, BareNameStep, MoveStep
<1>4. CASE UNCHANGED vars
  <2>1. UNCHANGED <<stack, bases, env, heap, wrapped>>
    BY <1>4 DEF vars
  <2>2. Good
    BY <2>1, Losing
  <2>3. TypeOK'
    BY <2>1 DEF IInv, TypeOK
  <2> QED
    BY <1>1, <2>2, <2>3
<1> QED
  BY <1>1, <1>2, <1>3, <1>4, LiteralStep, DupStep, OverStep, SwapStep, RotStep,
     ReleaseStep, LengthStep, GetByteStep, PutByteStep, ForgetStep, FaultsStep,
     AttemptStep, EndAttemptStep, UnwrapStep
     DEF Next

\* The inductive invariant holds of every reachable state.
THEOREM InductiveInvariant == Spec => []IInv
<1>1. Init => IInv
  <2> SUFFICES ASSUME Init PROVE IInv
    OBVIOUS
  <2>1. /\ stack \in Seq(Value) /\ Len(stack) = 0 /\ DOMAIN stack = {}
        /\ bases \in Seq(Nat) /\ Len(bases) = 0 /\ DOMAIN bases = {}
    BY EmptySeq DEF Init
  <2>2. TypeOK
    BY <2>1, OwnershipAssumption DEF Init, TypeOK
  <2>3. \A a \in Alloc : ~Owned(a)
    BY <2>1 DEF Init, Owned, NameOwns
  <2> QED
    BY <2>1, <2>2, <2>3 DEF Init, IInv, OneOwner, SoleOwner, NameOwns,
       FreedHasNoOwner, OwnedIsAllocated, WrapIsRecorded
<1>2. IInv /\ [Next]_vars => IInv'
  BY EveryStep
<1> QED
  BY <1>1, <1>2, PTL DEF Spec

\* Type correctness of the stacks, cuts, bindings and heap of the Vm.
THEOREM TypeCorrect == Spec => []TypeOK
<1>1. IInv => TypeOK
  BY DEF IInv
<1> QED
  BY <1>1, InductiveInvariant, PTL

\* At most one exclusive handle per allocation no `ty` body returned (Vm::op_dup,
\* op_over, exec_name, exec_move, Bind, b_attempt), for any number of allocations,
\* names and values.
THEOREM OneOwnerTheorem == Spec => []OneOwner
<1>1. IInv => OneOwner
  BY DEF IInv
<1> QED
  BY <1>1, InductiveInvariant, PTL

\* A freed allocation no `ty` body returned has no exclusive handle left, so it
\* is neither written through nor freed twice (release_buf, b_len, take_buf).
THEOREM FreedTheorem == Spec => []FreedHasNoOwner
<1>1. IInv => FreedHasNoOwner
  BY DEF IInv
<1> QED
  BY <1>1, InductiveInvariant, PTL

\* Only the exclusive handle on top of the stack frees (release_buf).
THEOREM OnlyOwnerFreesTheorem == Spec => OnlyOwnerFrees
<1>1. IInv /\ [Next]_vars =>
        [\A a \in Alloc : heap[a] = "live" /\ heap'[a] = "freed"
            => Reach(1) /\ Top = Own(a)]_vars
  BY EveryStep DEF FreesOther
<1> QED
  BY <1>1, InductiveInvariant, PTL DEF Spec, OnlyOwnerFrees

\* An allocation without an exclusive handle never gets one again.
THEOREM NeverReownedTheorem == Spec => NeverReowned
<1>1. IInv /\ [Next]_vars =>
        [\A a \in Alloc : heap[a] # "unused" /\ ~Owned(a) => ~Owned(a)']_vars
  BY EveryStep DEF Reowns
<1> QED
  BY <1>1, InductiveInvariant, PTL DEF Spec, NeverReowned
=============================================================================
