----------------------------- MODULE CollWords -----------------------------
(***************************************************************************)
(* What the collection words (zown-vm/src/coll.rs) ask of their operands   *)
(* before they touch the collection: the kind, the exclusive handle, the   *)
(* live store, the type of the operand, the limit.  Shared by the contract *)
(* and by the data structures, which differ only in what they do next.     *)
(*                                                                         *)
(* An int is an integer, a string a sequence of characters.  A character   *)
(* is an integer too, in the order of its code point: a newline, a blank,  *)
(* or a letter.                                                            *)
(***************************************************************************)
EXTENDS Integers, Sequences, SequencesExt, FiniteSets

CONSTANT
    BufMax      \* BUF_MAX, the most elements a collection of a kind holds

Kinds == {"ls", "qu", "rg", "pq", "sc", "mp", "te", "ti", "bm", "bv"}
PUSH == {"ls", "qu", "rg", "pq", "sc", "bm"}
POP == {"ls", "qu", "rg", "pq"}

ASSUME CollAssumption == BufMax \in [Kinds -> Nat \ {0}]

Newline == -2
Blank == -1
White == {Newline, Blank}

Int_(n) == <<"int", n>>
Str(s) == <<"str", s>>
Other == <<"other", 0>>     \* a value that is no element: a block, a buf, ...
\* What a program can pass to a word.
Operand == {Other} \cup ({"int"} \X Int) \cup ({"str"} \X Seq(Int))
IsInt(v) == v[1] = "int"
IsStr(v) == v[1] = "str"

Fine == "fine"
None == "none"                      \* a word that pushes nothing

\* What a word leaves: its fault, or the value it pushes.
Reply(fault, value) == IF fault = Fine THEN <<Fine, value>> ELSE <<fault, None>>
BOUNDS == "BOUNDS"
TYPE_MISMATCH == "TYPE_MISMATCH"

\* One check after another: the first that fails is the fault of the word.
f ?? g == IF f # Fine THEN f ELSE g
Unless(fault, holds) == IF holds THEN Fine ELSE fault

IsWord(v) == IsStr(v) /\ v[2] # <<>> /\ White \cap ToSet(v[2]) = {}

\* elem, key_str, plain
elem(v) == Unless(TYPE_MISMATCH, IsInt(v) \/ (IsStr(v) /\ Newline \notin ToSet(v[2])))
key_str(v) == Unless(TYPE_MISMATCH, IsWord(v))
plain(v) == Unless(TYPE_MISMATCH, IsInt(v))

room(kind, n) == Unless(BOUNDS, n <= BufMax[kind])
coll_live(freed) == Unless(BOUNDS, ~freed)
excl(exclusive, freed) == Unless(TYPE_MISMATCH, exclusive) ?? coll_live(freed)
Index(v, n) == plain(v) ?? Unless(BOUNDS, v[2] \in 0 .. n - 1)

\* Byte order of strings, and the order of the tuples (n, seq) in the heap.
LexLess(a, b) ==
    \E i \in 1 .. Len(b) :
        /\ i - 1 <= Len(a)
        /\ \A j \in 1 .. i - 1 : a[j] = b[j]
        /\ i > Len(a) \/ a[i] < b[i]
TupleLess(p, q) == p[1] < q[1] \/ (p[1] = q[1] /\ p[2] < q[2])
\* The elements of a set, each less than the next.
InOrder(S, Less(_, _)) ==
    [i \in 1 .. Cardinality(S) |->
        CHOOSE x \in S : Cardinality({y \in S : Less(y, x)}) = i - 1]
=============================================================================
