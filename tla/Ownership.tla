------------------------------ MODULE Ownership ------------------------------
(***************************************************************************)
(* Exclusive handles and borrows of heap values (docs/SPEC.md sections 20  *)
(* and 21): byte buffers, collections and streams.  A handle is exclusive  *)
(* or a borrow of an allocation; dup, over and a bare name make borrows, a *)
(* move keeps the handle as it is, and consuming an exclusive handle frees *)
(* the allocation.  `ty` runs its body on an empty stack and wraps the one *)
(* value it leaves in a result.                                            *)
(*                                                                         *)
(* The stacks that pending `ty` bodies put aside and the current one are   *)
(* one sequence, cut at the positions in bases: the program only reaches   *)
(* what is above the last cut.                                             *)
(***************************************************************************)
EXTENDS Naturals, Sequences

CONSTANTS
    Alloc,      \* allocations the program may make
    Name,       \* names a program binds
    None,       \* no allocation / no binding
    MaxStack,   \* bound: values on all the stacks together
    MaxNest,    \* bound: pending `ty` bodies
    MaxWrap     \* bound: results wrapped in results

ASSUME OwnershipAssumption ==
    /\ None \notin Alloc
    /\ MaxStack \in Nat /\ MaxNest \in Nat /\ MaxWrap \in Nat

VARIABLES
    stack,      \* the stacks of pending `ty` bodies and the current one
    bases,      \* where each pending `ty` body's stack begins
    env,        \* Vm.env: the value each name is bound to
    heap,       \* what has become of each allocation
    wrapped     \* history: allocations whose owner a `ty` body returned

vars == <<stack, bases, env, heap, wrapped>>

-----------------------------------------------------------------------------
(* Values: an exclusive handle, a borrow, or something without a handle,   *)
(* inside wrap layers of result.                                           *)

Own(a) == [kind |-> "own", alloc |-> a, wrap |-> 0]
Borrow(a) == [kind |-> "borrow", alloc |-> a, wrap |-> 0]
Plain == [kind |-> "plain", alloc |-> None, wrap |-> 0]
Wrapped(v) == [kind |-> v.kind, alloc |-> v.alloc, wrap |-> v.wrap + 1]
Unwrapped(v) == [kind |-> v.kind, alloc |-> v.alloc, wrap |-> v.wrap - 1]

Handle(k) == [kind : {k}, alloc : Alloc, wrap : 0 .. MaxWrap]
Value == Handle("own") \cup Handle("borrow")
            \cup [kind : {"plain"}, alloc : {None}, wrap : 0 .. MaxWrap]

Owns(v, a) == v.kind = "own" /\ v.alloc = a
IsHandle(v) == v.kind # "plain" /\ v.wrap = 0

Base == IF bases = <<>> THEN 0 ELSE bases[Len(bases)]

Reach(n) == Len(stack) >= Base + n
Top == stack[Len(stack)]
Under(n) == SubSeq(stack, 1, Len(stack) - n)

Init ==
    /\ stack = <<>>
    /\ bases = <<>>
    /\ env = [x \in Name |-> None]
    /\ heap = [a \in Alloc |-> "unused"]
    /\ wrapped = {}

-----------------------------------------------------------------------------
(* What a fault does to the values: the innermost pending `ty` drops its   *)
(* body's stack, without freeing what the values on it own, and pushes     *)
(* err(code); with no `ty` pending the session keeps its stack.            *)

FaultOver(kept, cuts) ==
    IF cuts = <<>>
    THEN stack' = kept /\ bases' = <<>>
    ELSE /\ MaxWrap > 0
         /\ stack' = Append(SubSeq(kept, 1, cuts[Len(cuts)]), Wrapped(Plain))
         /\ bases' = SubSeq(cuts, 1, Len(cuts) - 1)

Pushes(kept, v) ==
    /\ Len(kept) < MaxStack
    /\ stack' = Append(kept, v)

\* Mutated form of Copy: dup of an exclusive handle keeps the permission.
CopyKeepsOwner(v) == v

\* Mutated form of Copy: the exclusive flag is negated, not cleared.
CopyExclusive(v) ==
    IF ~IsHandle(v) THEN v ELSE IF v.kind = "own" THEN Borrow(v.alloc) ELSE Own(v.alloc)

\* What `=`, `&` and a bare name push: a borrow of a handle, and a clone of
\* every other value, a result that holds a handle included.
Copy(v) == IF IsHandle(v) THEN Borrow(v.alloc) ELSE v

-----------------------------------------------------------------------------
(* The operations.                                                         *)

Literal ==
    /\ Pushes(stack, Plain)
    /\ UNCHANGED <<bases, env, heap, wrapped>>

\* bf (and every word that makes a fresh buffer, collection or stream)
Allocate(a) ==
    /\ heap[a] = "unused"
    /\ Pushes(stack, Own(a))
    /\ heap' = [heap EXCEPT ![a] = "live"]
    /\ UNCHANGED <<bases, env, wrapped>>

Dup ==
    /\ Reach(1)
    /\ Pushes(stack, Copy(Top))
    /\ UNCHANGED <<bases, env, heap, wrapped>>

Over ==
    /\ Reach(2)
    /\ Pushes(stack, Copy(stack[Len(stack) - 1]))
    /\ UNCHANGED <<bases, env, heap, wrapped>>

Swap ==
    /\ Reach(2)
    /\ stack' = Under(2) \o <<Top, stack[Len(stack) - 1]>>
    /\ UNCHANGED <<bases, env, heap, wrapped>>

Rot ==
    /\ Reach(3)
    /\ stack' = Under(3) \o <<stack[Len(stack) - 1], Top, stack[Len(stack) - 2]>>
    /\ UNCHANGED <<bases, env, heap, wrapped>>

\* release_buf: only the exclusive handle itself frees; a result holding it
\* does not match the pattern and frees nothing.
Frees(v) == v.kind = "own" /\ v.wrap = 0

Freed(v) == IF Frees(v) THEN [heap EXCEPT ![v.alloc] = "freed"] ELSE heap

\* `,` and `.` pop a value and release it.
Release ==
    /\ Reach(1)
    /\ stack' = Under(1)
    /\ heap' = Freed(Top)
    /\ UNCHANGED <<bases, env, wrapped>>

\* ln, and the words that take their buffer operand: BOUNDS on a freed one.
Length ==
    /\ Reach(1)
    /\ IsHandle(Top)
    /\ \/ /\ heap[Top.alloc] = "live"
          /\ stack' = Append(Under(1), Plain)
          /\ heap' = Freed(Top)
          /\ UNCHANGED bases
       \/ /\ heap[Top.alloc] = "freed"
          /\ FaultOver(Under(1), bases)
          /\ UNCHANGED heap
    /\ UNCHANGED <<env, wrapped>>

\* bg: the index is popped, the buffer stays; BOUNDS on a freed one.
GetByte ==
    /\ Reach(2)
    /\ Top.kind = "plain"
    /\ IsHandle(stack[Len(stack) - 1])
    /\ \/ /\ heap[stack[Len(stack) - 1].alloc] = "live"
          /\ stack' = Append(Under(1), Plain)
          /\ UNCHANGED bases
       \/ FaultOver(Under(1), bases)
    /\ UNCHANGED <<env, heap, wrapped>>

\* bp: index and byte are popped, the buffer stays; a borrow is a mismatch,
\* a freed buffer and an index or byte out of range are BOUNDS.
PutByte ==
    /\ Reach(3)
    /\ Top.kind = "plain" /\ stack[Len(stack) - 1].kind = "plain"
    /\ IsHandle(stack[Len(stack) - 2])
    /\ \/ /\ stack[Len(stack) - 2].kind = "own"
          /\ heap[stack[Len(stack) - 2].alloc] = "live"
          /\ stack' = Under(2)
          /\ UNCHANGED bases
       \/ FaultOver(Under(2), bases)
    /\ UNCHANGED <<env, heap, wrapped>>

\* A word that consumes a value without releasing it: ? ! && || ; and others.
Forget ==
    /\ Reach(1)
    /\ stack' = Under(1)
    /\ UNCHANGED <<bases, env, heap, wrapped>>

\* Any other trap: a type mismatch, an index out of bounds, no capability.
Fault ==
    /\ bases # <<>>
    /\ FaultOver(stack, bases)
    /\ UNCHANGED <<env, heap, wrapped>>

-----------------------------------------------------------------------------
(* Bindings.                                                               *)

\* `:x`: the value the name held before is dropped and frees nothing.
Bind(x) ==
    /\ Reach(1)
    /\ env' = [env EXCEPT ![x] = Top]
    /\ stack' = Under(1)
    /\ UNCHANGED <<bases, heap, wrapped>>

BareName(x) ==
    /\ env[x] # None
    /\ Pushes(stack, Copy(env[x]))
    /\ UNCHANGED <<bases, env, heap, wrapped>>

\* Mutated form of Move: the binding is read and not removed.
MoveKeepsBinding(x) ==
    /\ env[x] # None
    /\ Pushes(stack, env[x])
    /\ UNCHANGED <<bases, env, heap, wrapped>>

Move(x) ==
    /\ env[x] # None
    /\ Pushes(stack, env[x])
    /\ env' = [env EXCEPT ![x] = None]
    /\ UNCHANGED <<bases, heap, wrapped>>

-----------------------------------------------------------------------------
(* ty and ??.                                                              *)

Attempt ==
    /\ Len(bases) < MaxNest
    /\ Len(stack) < MaxStack
    /\ bases' = Append(bases, Len(stack))
    /\ UNCHANGED <<stack, env, heap, wrapped>>

\* The body ended and left one value: ok(value).  Otherwise BOUNDS, after
\* the outer stack is back, so the fault goes to the next `ty` out.
EndAttempt ==
    /\ bases # <<>>
    /\ LET cuts == SubSeq(bases, 1, Len(bases) - 1)
       IN \/ /\ Len(stack) = Base + 1
             /\ Top.wrap < MaxWrap
             /\ stack' = Append(Under(1), Wrapped(Top))
             /\ bases' = cuts
             /\ wrapped' = IF Top.kind = "own" THEN wrapped \cup {Top.alloc}
                                               ELSE wrapped
          \/ /\ Len(stack) # Base + 1
             /\ FaultOver(SubSeq(stack, 1, Base), cuts)
             /\ UNCHANGED wrapped
    /\ UNCHANGED <<env, heap>>

\* `??` with an ok or err arm pushes the value inside the result.
Unwrap ==
    /\ Reach(1)
    /\ Top.wrap > 0
    /\ stack' = Append(Under(1), Unwrapped(Top))
    /\ UNCHANGED <<bases, env, heap, wrapped>>

Next ==
    \/ Literal \/ Dup \/ Over \/ Swap \/ Rot
    \/ Release \/ Length \/ GetByte \/ PutByte \/ Forget \/ Fault
    \/ Attempt \/ EndAttempt \/ Unwrap
    \/ \E a \in Alloc : Allocate(a)
    \/ \E x \in Name : Bind(x) \/ BareName(x) \/ Move(x)

Spec == Init /\ [][Next]_vars

-----------------------------------------------------------------------------
(* Properties.                                                             *)

\* Type invariant: the Vm's values are handles of allocated storage or plain,
\* and the cuts lie within the stack.
TypeOK ==
    /\ stack \in Seq(Value)
    /\ Len(stack) <= MaxStack
    /\ bases \in Seq(Nat)
    /\ Len(bases) <= MaxNest
    /\ \A i \in DOMAIN bases :
            bases[i] <= Len(stack) /\ bases[i] < MaxStack
    /\ \A i, j \in DOMAIN bases : i <= j => bases[i] <= bases[j]
    /\ env \in [Name -> Value \cup {None}]
    /\ heap \in [Alloc -> {"unused", "live", "freed"}]
    /\ wrapped \subseteq Alloc

StackOwns(i, a) == Owns(stack[i], a)
NameOwns(x, a) == env[x] # None /\ Owns(env[x], a)
Owned(a) ==
    \/ \E i \in DOMAIN stack : StackOwns(i, a)
    \/ \E x \in Name : NameOwns(x, a)

\* No two values, on the stacks or in bindings, own the same allocation.
SoleOwner(a) ==
    /\ \A i, j \in DOMAIN stack : StackOwns(i, a) /\ StackOwns(j, a) => i = j
    /\ \A x, y \in Name : NameOwns(x, a) /\ NameOwns(y, a) => x = y
    /\ \A i \in DOMAIN stack, x \in Name : ~(StackOwns(i, a) /\ NameOwns(x, a))

\* At every moment an allocation has at most one exclusive handle over all
\* stacks and bindings, unless a `ty` body returned its owner: whatever dup,
\* over, names, moves, rotations, faults and rebinding do in between.
OneOwner == \A a \in Alloc \ wrapped : SoleOwner(a)

\* No two exclusive handles of one allocation are on the stacks, results not
\* counted (docs/SPEC.md:886-887, "dup/over is a borrow, and values on the
\* stack have exactly one owner").  op_dup clones a result as a whole, so a
\* program that dups ok(buf) and unwraps both copies holds two.
OneExclusive ==
    \A i, j \in DOMAIN stack, a \in Alloc :
        stack[i] = Own(a) /\ stack[j] = Own(a) => i = j

\* Once freed (by `,`, `.` or ln) no exclusive handle is left to write through
\* or free again, for the same allocations.
FreedHasNoOwner ==
    \A a \in Alloc \ wrapped : heap[a] = "freed" => ~Owned(a)

\* Only the exclusive handle on top of the current stack frees; a borrow's
\* consumption, a fault or a dropped stack never does.
OnlyOwnerFrees ==
    [][\A a \in Alloc : heap[a] = "live" /\ heap'[a] = "freed"
            => Reach(1) /\ Top = Own(a)]_vars

\* An allocation that lost its exclusive handle never gets one again: no
\* sequence of borrows, moves and faults makes a borrow exclusive.
NeverReowned ==
    [][\A a \in Alloc : heap[a] # "unused" /\ ~Owned(a) => ~Owned(a)']_vars
=============================================================================
