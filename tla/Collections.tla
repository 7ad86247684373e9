---------------------------- MODULE Collections ----------------------------
(***************************************************************************)
(* The collections of zown-vm/src/coll.rs as they are stored: lists,       *)
(* queues and rings as vectors, sets, maps that remember insertion order,  *)
(* a B-tree of minimum degree 2, a trie, a binary heap, and bit arrays     *)
(* packed into bytes.  One collection, its owner and any number of         *)
(* borrows of it; every word is one step.                                  *)
(***************************************************************************)
EXTENDS CollWords, FiniteSets, FiniteSetsExt

CONSTANTS Operands, Values, Sizes, Hash(_),
    ByteBits,   \* bits in a byte of a bit array (8 in the code)
    MaxSeq      \* bound of the model: pushes a heap counts

ASSUME StoreAssumption == ByteBits \in Nat \ {0} /\ MaxSeq \in Nat /\ Sizes \subseteq Int
\* Programs push ints, strings and values that are no element; a hash is a number.
ASSUME OperandAssumption ==
    /\ \A k \in Kinds : Operands[k] \cup Values[k] \subseteq Operand
    /\ \A v \in Operands["bm"] : IsStr(v) => Hash(v[2]) \in Nat

VARIABLES
    kind,       \* CollStore.kind
    size,       \* CollStore.cap of a ring, .nbits of a filter or bit vector
    freed,      \* CollStore.freed
    body,       \* the fields of CollStore this kind uses
    out,        \* what the last word pushed, or its fault
    pushed      \* history: the words pushed onto a filter

vars == <<kind, size, freed, body, out, pushed>>

-----------------------------------------------------------------------------
\* Sums and concatenations over a sequence.
Total(ns) ==
    LET upto[i \in 0 .. Len(ns)] == IF i = 0 THEN 0 ELSE upto[i - 1] + ns[i]
    IN  upto[Len(ns)]
Joined(rows) ==
    LET upto[i \in 0 .. Len(rows)] == IF i = 0 THEN <<>> ELSE upto[i - 1] \o rows[i]
    IN  upto[Len(rows)]

-----------------------------------------------------------------------------
\* The B-tree (te): a node holds up to three pairs in key order.

BNode(leaf, keys, kids) == [leaf |-> leaf, keys |-> keys, kids |-> kids]

\* Nodes with at most h levels below them, each with a kid on either side of each
\* of its keys, or with none.  A tree has no more levels than keys, so that these
\* are all the trees a collection can hold.
Top == BufMax["te"]
Pair == Seq(Int) \X (({"int"} \X Int) \cup ({"str"} \X Seq(Int)))
Level[h \in 0 .. Top] ==
    {n \in [leaf : BOOLEAN, keys : Seq(Pair), kids : Seq(IF h = 0 THEN {} ELSE Level[h - 1])] :
        IF n.leaf THEN n.kids = <<>> ELSE Len(n.kids) = Len(n.keys) + 1}
Trees == Level[Top]

tree_count[node \in Trees] ==
    Len(node.keys) + Total([i \in DOMAIN node.kids |-> tree_count[node.kids[i]]])

\* The first slot whose key is not below the one looked for.
SlotFromLeft(node, key) ==
    Min({i \in 1 .. Len(node.keys) + 1 :
            i > Len(node.keys) \/ ~LexLess(node.keys[i][1], key)})

Absent == <<"absent">>

tree_get(root, key) ==
    LET get[node \in Trees] ==
          LET i == SlotFromLeft(node, key)
          IN  IF i <= Len(node.keys) /\ node.keys[i][1] = key THEN node.keys[i][2]
              ELSE IF node.leaf THEN Absent
              ELSE get[node.kids[i]]
    IN  get[root]

tree_walk[node \in Trees] ==
    IF node.leaf THEN node.keys
    ELSE Joined([i \in DOMAIN node.keys |-> Append(tree_walk[node.kids[i]], node.keys[i])])
            \o tree_walk[Last(node.kids)]

split_child(parent, i) ==
    LET y == parent.kids[i]
        Part(s, a, b) == IF y.leaf THEN <<>> ELSE SubSeq(s, a, b)
        left == BNode(y.leaf, SubSeq(y.keys, 1, 1), Part(y.kids, 1, 2))
        z == BNode(y.leaf, SubSeq(y.keys, 3, Len(y.keys)), Part(y.kids, 3, Len(y.kids)))
    IN  BNode(parent.leaf, InsertAt(parent.keys, i, y.keys[2]),
              InsertAt(ReplaceAt(parent.kids, i, left), i + 1, z))

SetSlot(node, i, pair) == BNode(node.leaf, ReplaceAt(node.keys, i, pair), node.kids)
SetKid(node, i, kid) == BNode(node.leaf, node.keys, ReplaceAt(node.kids, i, kid))

\* The last slot whose key is not above the new one; 0 if all are.
SlotFromRight(node, key) ==
    Max({0} \cup {i \in DOMAIN node.keys : ~LexLess(key, node.keys[i][1])})

\* Sorting a leaf by key puts the pair that was pushed in its slot.
IntoLeaf(node, pair) ==
    LET same == {i \in DOMAIN node.keys : node.keys[i][1] = pair[1]}
    IN  IF same # {} THEN SetSlot(node, Min(same), pair)
        ELSE BNode(TRUE, InsertAt(node.keys, SlotFromLeft(node, pair[1]), pair), <<>>)

insert_nonfull(root, pair) ==
    LET key == pair[1]
        put[node \in Trees] ==
          LET i == SlotFromRight(node, key)
              full == Len(node.kids[i + 1].keys) = 3
              down == IF full THEN split_child(node, i + 1) ELSE node
              j == IF full /\ LexLess(down.keys[i + 1][1], key) THEN i + 2 ELSE i + 1
          IN  IF node.leaf THEN IntoLeaf(node, pair)
              ELSE IF i > 0 /\ node.keys[i][1] = key THEN SetSlot(node, i, pair)
              ELSE IF full /\ down.keys[i + 1][1] = key THEN SetSlot(down, i + 1, pair)
              ELSE SetKid(down, j, put[down.kids[j]])
    IN  put[root]

\* Mutant of tree_put: a full root is not split.
TreePutUnsplit(root, pair) == insert_nonfull(root, pair)

tree_put(root, pair) ==
    IF Len(root.keys) = 3
    THEN insert_nonfull(split_child(BNode(FALSE, <<>>, <<root>>), 1), pair)
    ELSE insert_nonfull(root, pair)

-----------------------------------------------------------------------------
\* The trie (ti): its nodes, each named by the characters that lead to it, with
\* the flag that a word ends there.

TNode == [p \in {<<>>} |-> FALSE]

trie_put(trie, key) ==
    [p \in DOMAIN trie \cup Prefixes(key) |-> p = key \/ (p \in DOMAIN trie /\ trie[p])]

\* Mutant of trie_has: a word is there as soon as its characters are.
TrieHasPrefix(trie, key) == key \in DOMAIN trie

trie_has(trie, key) == key \in DOMAIN trie /\ trie[key]

\* The characters that continue a node.
NextChars(trie, p) == {Last(q) : q \in {r \in DOMAIN trie : r # <<>> /\ Front(r) = p}}

trie_walk(trie, prefix) ==
    LET walk[p \in DOMAIN trie] ==
          LET chars == InOrder(NextChars(trie, p), LAMBDA a, b : a < b)
          IN  (IF trie[p] THEN <<p>> ELSE <<>>)
                \o Joined([i \in DOMAIN chars |-> walk[Append(p, chars[i])]])
    IN  walk[prefix]

-----------------------------------------------------------------------------
\* The heap (pq) of pairs (int, push number), the root at index 1.

Heaps == Seq(Int \X Nat)
Swapped(s, i, j) == [s EXCEPT ![i] = s[j], ![j] = s[i]]

\* A heap and the place in it where a pair is being sifted.
Places == {p \in Heaps \X Nat : p[2] \in DOMAIN p[1]}

SiftUp[p \in Places] ==
    LET heap == p[1]
        i == p[2]
    IN  IF i = 1 \/ ~TupleLess(heap[i], heap[i \div 2]) THEN heap
        ELSE SiftUp[<<Swapped(heap, i, i \div 2), i \div 2>>]

heap_push(b, n) ==
    [seq |-> b.seq + 1,
     heap |-> SiftUp[<<Append(b.heap, <<n, b.seq + 1>>), Len(b.heap) + 1>>]]

\* The smaller of two places; the second may be past the end.
Smaller(heap, a, c) == IF c <= Len(heap) /\ TupleLess(heap[c], heap[a]) THEN c ELSE a

SiftDown[p \in Places] ==
    LET heap == p[1]
        i == p[2]
        small == Smaller(heap, Smaller(heap, i, 2 * i), 2 * i + 1)
    IN  IF small = i THEN heap ELSE SiftDown[<<Swapped(heap, i, small), small>>]

\* Mutant of heap_pop: the last pair moves to the root and stays there.
HeapPopUnsifted(heap) == IF Len(heap) = 1 THEN <<>> ELSE <<Last(heap)>> \o Tail(Front(heap))

heap_pop(heap) ==
    IF Len(heap) = 1 THEN <<>>
    ELSE SiftDown[<<<<Last(heap)>> \o Tail(Front(heap)), 1>>]

Drained[heap \in Heaps] ==
    IF heap = <<>> THEN <<>> ELSE <<heap[1][1]>> \o Drained[heap_pop(heap)]

-----------------------------------------------------------------------------
\* Bits packed into bytes: a byte is the set of its bits.

Bytes(n) == [i \in 0 .. (n + ByteBits - 1) \div ByteBits - 1 |-> {}]
Bit(bits, i) == IF i % ByteBits \in bits[i \div ByteBits] THEN 1 ELSE 0
\* Mutant of SetBit: the byte is overwritten.
SetBitAlone(bits, i) == [bits EXCEPT ![i \div ByteBits] = {i % ByteBits}]
SetBit(bits, i) == [bits EXCEPT ![i \div ByteBits] = @ \cup {i % ByteBits}]
ClearBit(bits, i) == [bits EXCEPT ![i \div ByteBits] = @ \ {i % ByteBits}]

-----------------------------------------------------------------------------
\* fresh, and the words that make a collection
fresh(k, n) ==
    CASE k \in {"ls", "qu", "rg"} -> <<>>
      [] k = "sc" -> {}
      [] k = "mp" -> [order |-> <<>>, pairs |-> <<>>]
      [] k = "te" -> BNode(TRUE, <<>>, <<>>)
      [] k = "ti" -> [trie |-> TNode, trie_n |-> 0]
      [] k = "pq" -> [seq |-> 0, heap |-> <<>>]
      [] k \in {"bm", "bv"} -> Bytes(n)

Count ==
    CASE kind \in {"ls", "qu", "rg"} -> Len(body)
      [] kind = "sc" -> Cardinality(body)
      [] kind = "mp" -> Len(body.order)
      [] kind = "te" -> tree_count[body]
      [] kind = "ti" -> body.trie_n
      [] kind = "pq" -> Len(body.heap)
      [] OTHER -> size

\* rg, bm and bv take a count of at least one and within the limit.
Init ==
    /\ kind \in Kinds
    /\ size \in IF kind \in {"rg", "bm", "bv"}
                THEN {n \in Sizes : n >= 1 /\ n <= BufMax[kind]} ELSE {0}
    /\ freed = FALSE
    /\ body = fresh(kind, size)
    /\ out = <<"", Reply(Fine, None)>>
    /\ pushed = {}

-----------------------------------------------------------------------------
\* The words that only look: what each answers, and nothing changes.
b_gt(k) ==
    Reply(coll_live(freed) ??
                CASE kind = "ls" -> Index(k, Len(body))
                  [] kind = "bv" -> Index(k, size)
                  [] kind = "mp" -> key_str(k) ?? Unless(BOUNDS, k[2] \in DOMAIN body.pairs)
                  [] kind = "te" -> key_str(k) ?? Unless(BOUNDS, tree_get(body, k[2]) # Absent)
                  [] OTHER -> TYPE_MISMATCH,
              CASE kind = "ls" -> body[k[2] + 1]
                [] kind = "bv" -> Int_(Bit(body, k[2]))
                [] kind = "mp" -> body.pairs[k[2]]
                [] kind = "te" -> tree_get(body, k[2]))

b_hs(v) ==
    LET found == CASE kind = "sc" -> v \in body
                   [] kind = "ti" -> trie_has(body.trie, v[2])
                   [] kind = "bm" -> Bit(body, Hash(v[2]) % size) = 1
    IN  Reply(coll_live(freed) ??
                    CASE kind = "sc" -> elem(v)
                      [] kind \in {"ti", "bm"} -> key_str(v)
                      [] OTHER -> TYPE_MISMATCH, Int_(IF found THEN 1 ELSE 0))

\* The ints of a set in order, then its strings in order.
SortedSet(set) ==
    LET strs == InOrder({e[2] : e \in {x \in set : IsStr(x)}}, LexLess)
    IN  InOrder({e \in set : IsInt(e)}, LAMBDA a, b : a[2] < b[2])
            \o [i \in DOMAIN strs |-> Str(strs[i])]

b_sk ==
    Reply(coll_live(freed) ?? Unless(TYPE_MISMATCH, kind # "bm"),
              CASE kind \in {"ls", "qu", "rg"} -> body
                [] kind = "sc" -> SortedSet(body)
                [] kind = "mp" -> [i \in DOMAIN body.order |->
                                     <<body.order[i], body.pairs[body.order[i]]>>]
                [] kind = "te" -> tree_walk[body]
                [] kind = "ti" -> trie_walk(body.trie, <<>>)
                [] kind = "pq" -> Drained[body.heap]
                [] kind = "bv" -> [i \in 1 .. size |-> Bit(body, i - 1)])

b_px(p) ==
    Reply(coll_live(freed) ?? Unless(TYPE_MISMATCH, kind = "ti") ??
                  Unless(TYPE_MISMATCH, IsStr(p) /\ White \cap ToSet(p[2]) = {}),
              IF p[2] \in DOMAIN body.trie THEN trie_walk(body.trie, p[2]) ELSE <<>>)

-----------------------------------------------------------------------------
Answer(word, fault, changed, value) ==
    /\ body' = IF fault = Fine THEN changed ELSE body
    /\ out' = <<word, Reply(fault, value)>>

Keep == UNCHANGED <<kind, size, freed, pushed>>

-----------------------------------------------------------------------------
b_ps(v, exclusive) ==
    LET fault == Unless(TYPE_MISMATCH, kind \in PUSH) ?? excl(exclusive, freed) ??
                 CASE kind = "bm" -> key_str(v)
                   [] kind = "pq" -> plain(v) ?? room(kind, Len(body.heap) + 1)
                   [] kind = "sc" -> elem(v) ?? room(kind, Cardinality(body \cup {v}))
                   [] kind = "rg" -> elem(v)
                   [] OTHER -> elem(v) ?? room(kind, Len(body) + 1)
    IN  /\ kind = "pq" => body.seq < MaxSeq
        /\ Answer("ps", fault,
                  CASE kind = "bm" -> SetBit(body, Hash(v[2]) % size)
                    [] kind = "pq" -> heap_push(body, v[2])
                    [] kind = "sc" -> body \cup {v}
                    [] kind = "rg" /\ Len(body) = size -> Tail(Append(body, v))
                    [] OTHER -> Append(body, v),
                  None)
        /\ pushed' = IF fault = Fine /\ kind = "bm" THEN pushed \cup {v[2]} ELSE pushed
        /\ UNCHANGED <<kind, size, freed>>

b_po(exclusive) ==
    /\ Answer("po", Unless(TYPE_MISMATCH, kind \in POP) ?? excl(exclusive, freed) ??
                  Unless(BOUNDS, IF kind = "pq" THEN body.heap # <<>> ELSE body # <<>>),
              CASE kind = "pq" -> [body EXCEPT !.heap = heap_pop(@)]
                [] kind = "ls" -> Front(body)
                [] OTHER -> Tail(body),
              CASE kind = "pq" -> Int_(body.heap[1][1])
                [] kind = "ls" -> Last(body)
                [] OTHER -> Head(body))
    /\ Keep

\* pt on a trie takes one operand.
PutTrie(k, exclusive) ==
    LET there == trie_has(body.trie, k[2])
    IN  /\ kind = "ti"
        /\ Answer("pt", excl(exclusive, freed) ?? key_str(k) ??
                      Unless(BOUNDS, there \/ body.trie_n + 1 <= BufMax[kind]),
                  IF there THEN body
                  ELSE [trie |-> trie_put(body.trie, k[2]), trie_n |-> body.trie_n + 1],
                  None)
        /\ Keep

MapPut(b, k, v) ==
    [order |-> IF k \in DOMAIN b.pairs THEN b.order ELSE Append(b.order, k),
     pairs |-> [d \in DOMAIN b.pairs \cup {k} |-> IF d = k THEN v ELSE b.pairs[d]]]

b_pt(k, v, exclusive) ==
    /\ kind # "ti"
    /\ Answer("pt", excl(exclusive, freed) ??
                CASE kind = "bv" -> plain(k) ?? Index(v, 2) ?? Index(k, size)
                  [] kind = "mp" -> key_str(k) ?? elem(v) ??
                        Unless(BOUNDS, k[2] \in DOMAIN body.pairs
                                         \/ Len(body.order) + 1 <= BufMax[kind])
                  [] kind = "te" -> key_str(k) ?? elem(v) ??
                        Unless(BOUNDS, tree_get(body, k[2]) # Absent
                                         \/ tree_count[body] + 1 <= BufMax[kind])
                  [] OTHER -> TYPE_MISMATCH,
              CASE kind = "bv" /\ v[2] = 1 -> SetBit(body, k[2])
                [] kind = "bv" /\ v[2] = 0 -> ClearBit(body, k[2])
                [] kind = "mp" -> MapPut(body, k[2], v)
                [] kind = "te" -> tree_put(body, <<k[2], v>>),
              None)
    /\ Keep

\* ln, which consumes the handle it is given (b_len, coll_len)
b_len(exclusive) ==
    /\ Answer("ln", coll_live(freed), body, Int_(Count))
    /\ freed' = (freed \/ exclusive)
    /\ UNCHANGED <<kind, size, pushed>>

\* The exclusive handle is dropped: borrows stay behind.
DropOwner ==
    /\ ~freed
    /\ freed' = TRUE
    /\ out' = <<",", Reply(Fine, None)>>
    /\ UNCHANGED <<kind, size, body, pushed>>

\* Once the collection is freed only borrows of it are left.
Handles == IF freed THEN {FALSE} ELSE BOOLEAN

Next ==
    \/ \E v \in Operands[kind], x \in Handles : b_ps(v, x) \/ PutTrie(v, x)
    \/ \E x \in Handles : b_po(x) \/ b_len(x)
    \/ \E k \in Operands[kind], v \in Values[kind], x \in Handles : b_pt(k, v, x)
    \/ DropOwner

Spec == Init /\ [][Next]_vars

-----------------------------------------------------------------------------
\* The mathematical value a stored collection stands for.
Held ==
    CASE kind \in {"ls", "qu", "rg", "sc"} -> body
      [] kind = "mp" -> [i \in DOMAIN body.order |->
                            <<body.order[i], body.pairs[body.order[i]]>>]
      [] kind = "te" -> ToSet(tree_walk[body])
      [] kind = "ti" -> ToSet(trie_walk(body.trie, <<>>))
      [] kind = "pq" -> LET ints == {p[1] : p \in ToSet(body.heap)}
                        IN  [n \in ints |->
                               Cardinality({i \in DOMAIN body.heap : body.heap[i][1] = n})]
      [] kind = "bv" -> [i \in 0 .. size - 1 |-> Bit(body, i)]
      [] kind = "bm" -> {i \in 0 .. size - 1 : Bit(body, i) = 1}

Contract == INSTANCE CollContract WITH held <- Held

\* Every word that changes a collection (ps, po, pt, ln, the drop of its owner)
\* changes what it holds, and answers, as the contract says: at the limit, with
\* operands of the wrong type and after the owner is gone too.
KeepsContract == Contract!Spec

\* Every word that looks (gt, hs, sk, px) answers what the contract says of the
\* value held: the B-tree, the trie, the heap and the packed bits are the map,
\* the set, the bag and the vector they stand for.
LooksAgree ==
    /\ b_sk = Contract!Scan
    /\ \A v \in Operands[kind] :
         b_gt(v) = Contract!Get(v) /\ b_hs(v) = Contract!Has(v) /\ b_px(v) = Contract!Prefixed(v)

Depths[node \in Trees] ==
    IF node.leaf THEN {0}
    ELSE {d + 1 : d \in UNION {Depths[node.kids[i]] : i \in DOMAIN node.kids}}

Sized(node, least) == Len(node.keys) \in least .. 3
Shaped[node \in Trees] ==
    \A i \in DOMAIN node.kids : Sized(node.kids[i], 1) /\ Shaped[node.kids[i]]

\* However keys arrive, every leaf of the B-tree is at one depth and no node
\* but the root is empty or overfull: the split on the way down never leaves a
\* node insert_nonfull cannot use.
TreeBalanced ==
    kind = "te" => Sized(body, 0) /\ Shaped[body] /\ Cardinality(Depths[body]) = 1

\* A filter never denies a word that was pushed, whatever else was pushed.
NoFalseNegative ==
    kind = "bm" => \A w \in pushed : Bit(body, Hash(w) % size) = 1
=============================================================================
