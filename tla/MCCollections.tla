--------------------------- MODULE MCCollections ---------------------------
\* Instance of Collections for TLC.  Enough keys for a B-tree of three levels,
\* words that are prefixes of each other, colliding hashes, and operands of
\* every type a word refuses.
EXTENDS Collections

Words3 == {<<a, b, c>> : a, b, c \in 1 .. 2}
Refused == {Other, Str(<<>>), Str(<<1, Blank>>), Str(<<Newline>>)}

MCOperands ==
    [k \in Kinds |->
       CASE k \in {"ls", "qu", "rg", "sc", "pq"} ->
                {Int_(1), Int_(2), Int_(-1), Str(<<1>>), Str(<<1, Blank>>), Str(<<Newline>>), Other}
         [] k = "te" -> {Str(w) : w \in Words3} \cup {Int_(0)}
         [] k = "ti" -> {Str(w) : w \in {<<1>>, <<1, 1>>, <<1, 2>>, <<2, 1, 1>>}}
                            \cup Refused \cup {Int_(0)}
         [] k = "mp" -> {Str(w) : w \in {<<1>>, <<2>>, <<1, 1>>}} \cup Refused \cup {Int_(0)}
         [] k = "bm" -> {Str(w) : w \in {<<1>>, <<2>>, <<1, 1>>, <<2, 1>>}} \cup Refused
         [] k = "bv" -> {Int_(i) : i \in -1 .. 5} \cup {Other}]

MCValues ==
    [k \in Kinds |->
       CASE k = "te" -> {Int_(0), Int_(1)}
         [] k = "mp" -> {Int_(0), Str(<<1>>), Str(<<Newline>>)}
         [] OTHER -> {Int_(i) : i \in 0 .. 2} \cup {Other}]

MCBufMax ==
    [k \in Kinds |-> CASE k = "te" -> 7 [] k \in {"bm", "bv"} -> 5 [] OTHER -> 3]

\* One key of the tree is updated to a second value, which is enough to tell a
\* lost update from a kept one wherever that key is when a node splits.
OneUpdated ==
    kind = "te" => \A p \in ToSet(tree_walk[body]) : p[2] = Int_(1) => p[1] = <<1, 2, 1>>

\* Any function of the word serves: the code reduces FNV-1a modulo the size.
MCHash(w) == FoldSeq(LAMBDA c, h : 3 * h + c, 1, w)
=============================================================================
