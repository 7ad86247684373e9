--------------------------- MODULE CollContract ---------------------------
(***************************************************************************)
(* What a collection promises: the answer of every word in terms of the    *)
(* mathematical value the collection holds.                                *)
(*   ls, qu, rg  a sequence            sc, ti  a set                       *)
(*   mp          the pairs, in the order the keys were first put           *)
(*   te          the set of pairs      pq      a bag of ints               *)
(*   bv          a function to 0..1    bm      the set of cells hit        *)
(***************************************************************************)
EXTENDS CollWords, FiniteSets, Bags

CONSTANTS
    Operands,   \* [Kinds -> set of operands the program pushes]
    Values,     \* [Kinds -> set of values it puts under a key]
    Sizes,      \* counts given to rg, bm and bv
    Hash(_)     \* the cell of a word before it is reduced to the filter's size

VARIABLES
    kind, size, freed, held, out

vars == <<kind, size, freed, held, out>>

Empty(k, n) ==
    CASE k \in {"ls", "qu", "rg", "mp"} -> <<>>
      [] k \in {"sc", "ti", "te", "bm"} -> {}
      [] k = "pq" -> EmptyBag
      [] k = "bv" -> [i \in 0 .. n - 1 |-> 0]

\* The elements of a bag, each copy of one told from the others.
Copies(bag) == UNION {{n} \X (1 .. bag[n]) : n \in BagToSet(bag)}

Count ==
    CASE kind \in {"ls", "qu", "rg", "mp"} -> Len(held)
      [] kind \in {"sc", "ti", "te"} -> Cardinality(held)
      [] kind = "pq" -> Cardinality(Copies(held))
      [] OTHER -> size

Init ==
    /\ kind \in Kinds
    /\ size \in IF kind \in {"rg", "bm", "bv"} THEN Sizes ELSE {0}
    /\ freed = FALSE
    /\ held = Empty(kind, size)
    /\ out = <<"", Reply(Fine, None)>>

-----------------------------------------------------------------------------
Answer(word, fault, changed, value) ==
    /\ out' = <<word, Reply(fault, value)>>
    /\ held' = IF fault = Fine THEN changed ELSE held

Keys(pairs) == {p[1] : p \in pairs}
ValueOf(pairs, k) == (CHOOSE p \in pairs : p[1] = k)[2]
Least(bag) == CHOOSE n \in BagToSet(bag) : \A m \in BagToSet(bag) : n <= m
Ascending(bag) ==
    LET copies == InOrder(Copies(bag), TupleLess)
    IN  [i \in DOMAIN copies |-> copies[i][1]]
Sorted(words) == InOrder(words, LexLess)
SortedElems(S) ==
    LET texts == Sorted({e[2] : e \in {x \in S : IsStr(x)}})
    IN  InOrder({e \in S : IsInt(e)}, LAMBDA a, b : a[2] < b[2])
            \o [i \in DOMAIN texts |-> Str(texts[i])]
SortedPairs(pairs) == InOrder(pairs, LAMBDA p, q : LexLess(p[1], q[1]))

Pairs == IF kind = "mp" THEN ToSet(held) ELSE held

\* What a word that only looks answers.
Get(k) ==
    Reply(coll_live(freed) ??
              CASE kind \in {"ls", "bv"} -> Index(k, Count)
                [] kind \in {"mp", "te"} -> key_str(k) ?? Unless(BOUNDS, k[2] \in Keys(Pairs))
                [] OTHER -> TYPE_MISMATCH,
           CASE kind = "ls" -> held[k[2] + 1]
             [] kind = "bv" -> Int_(held[k[2]])
             [] OTHER -> ValueOf(Pairs, k[2]))

Has(v) ==
    Reply(coll_live(freed) ??
              CASE kind = "sc" -> elem(v)
                [] kind \in {"ti", "bm"} -> key_str(v)
                [] OTHER -> TYPE_MISMATCH,
           LET in == CASE kind = "sc" -> v \in held
                       [] kind = "ti" -> v[2] \in held
                       [] OTHER -> Hash(v[2]) % size \in held
           IN  Int_(IF in THEN 1 ELSE 0))

Scan ==
    Reply(coll_live(freed) ?? Unless(TYPE_MISMATCH, kind # "bm"),
           CASE kind \in {"ls", "qu", "rg", "mp"} -> held
             [] kind = "sc" -> SortedElems(held)
             [] kind = "te" -> SortedPairs(held)
             [] kind = "ti" -> Sorted(held)
             [] kind = "pq" -> Ascending(held)
             [] kind = "bv" -> [i \in 1 .. size |-> held[i - 1]])

Prefixed(p) ==
    Reply(coll_live(freed) ??
              Unless(TYPE_MISMATCH, kind = "ti" /\ IsStr(p) /\ White \cap ToSet(p[2]) = {}),
           Sorted({w \in held : IsPrefix(p[2], w)}))

-----------------------------------------------------------------------------
Pushed(v) ==
    CASE kind \in {"ls", "qu"} -> Append(held, v)
      [] kind = "rg" -> LET s == Append(held, v)
                        IN  IF Len(s) > size THEN Tail(s) ELSE s
      [] kind = "sc" -> held \cup {v}
      [] kind = "pq" -> held (+) SetToBag({v[2]})
      [] kind = "bm" -> held \cup {Hash(v[2]) % size}

PushFault(v) ==
    CASE kind = "bm" -> key_str(v)
      [] kind = "pq" -> plain(v) ?? room(kind, Count + 1)
      [] kind = "rg" -> elem(v)
      [] kind = "sc" -> elem(v) ?? room(kind, Cardinality(held \cup {v}))
      [] OTHER -> elem(v) ?? room(kind, Count + 1)

Push(v, exclusive) ==
    Answer("ps", Unless(TYPE_MISMATCH, kind \in PUSH) ?? excl(exclusive, freed) ?? PushFault(v),
           Pushed(v), None)

Pop(exclusive) ==
    Answer("po", Unless(TYPE_MISMATCH, kind \in POP) ?? excl(exclusive, freed)
               ?? Unless(BOUNDS, Count > 0),
           CASE kind = "pq" -> held (-) SetToBag({Least(held)})
             [] kind = "ls" -> Front(held)
             [] OTHER -> Tail(held),
           CASE kind = "pq" -> Int_(Least(held))
             [] kind = "ls" -> Last(held)
             [] OTHER -> Head(held))

\* A key keeps the place it was first put at.
MapPut(k, v) ==
    IF k \in Keys(Pairs)
    THEN [i \in DOMAIN held |-> IF held[i][1] = k THEN <<k, v>> ELSE held[i]]
    ELSE Append(held, <<k, v>>)

Put(k, v, exclusive) ==
    /\ kind # "ti"
    /\ Answer("pt", excl(exclusive, freed) ??
                 CASE kind = "bv" -> plain(k) ?? Index(v, 2) ?? Index(k, size)
                   [] kind \in {"mp", "te"} ->
                        key_str(k) ?? elem(v) ??
                            room(kind, Cardinality(Keys(Pairs) \cup {k[2]}))
                   [] OTHER -> TYPE_MISMATCH,
              CASE kind = "bv" -> [held EXCEPT ![k[2]] = v[2]]
                [] kind = "te" -> {p \in held : p[1] # k[2]} \cup {<<k[2], v>>}
                [] kind = "mp" -> MapPut(k[2], v),
              None)

PutWord(k, exclusive) ==
    /\ kind = "ti"
    /\ Answer("pt", excl(exclusive, freed) ?? key_str(k)
                  ?? room(kind, Cardinality(held \cup {k[2]})),
              held \cup {k[2]}, None)

\* ln consumes its operand: the exclusive handle takes the collection with it.
Length(exclusive) ==
    /\ Answer("ln", coll_live(freed), held, Int_(Count))
    /\ freed' = (freed \/ exclusive)

Drop == freed' = TRUE /\ out' = <<",", Reply(Fine, None)>> /\ UNCHANGED held

\* Once the collection is freed only borrows of it are left.
Handles == IF freed THEN {FALSE} ELSE BOOLEAN

Next ==
    /\ UNCHANGED <<kind, size>>
    /\ \/ /\ UNCHANGED freed
          /\ \/ \E v \in Operands[kind], x \in Handles : Push(v, x)
             \/ \E x \in Handles : Pop(x)
             \/ \E k \in Operands[kind], v \in Values[kind], x \in Handles : Put(k, v, x)
             \/ \E k \in Operands[kind], x \in Handles : PutWord(k, x)
       \/ \E x \in Handles : Length(x)
       \/ ~freed /\ Drop

Spec == Init /\ [][Next]_vars
=============================================================================
