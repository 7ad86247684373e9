-------------------------------- MODULE Store --------------------------------
(***************************************************************************)
(* The graph, the sealed bundle, the transparency log and the column table *)
(* of zown-vm/src/store.rs, with the content store of mesh.rs, on several  *)
(* VMs that hand each other the texts they made.                           *)
(*                                                                         *)
(* A text is the sequence of its lines; a program may join two texts (ct), *)
(* and what it reads back may be cut short, at a line or inside one.       *)
(* Hashes and signatures are free constructors: equal only when made from  *)
(* the same things.                                                        *)
(***************************************************************************)
EXTENDS Naturals, Sequences, SequencesExt, FiniteSets

CONSTANTS
    VMs, Seeds,
    Words,          \* single words: names of vertices, labels, columns, cells
    NoWord,         \* a string that is not one word
    WordLess(_, _), \* the order of strings
    EdgeInputs,     \* what programs pass to ge: <<src, label, dst>>
    Programs        \* what the programs of an instance do: [words, vms, strings
                    \* (texts they write out themselves)] and the bounds of it
                    \* [texts (they may hold), lines (of a text), log, rows]

\* The fields of an edge line and of a proof line are as many as they should be.
Line(l) ==
    /\ l[1] = "e" => l[2] = <<l[2][1], l[2][2], l[2][3]>>
    /\ l[1] = "include" => l[2] \in Nat /\ l[3] \in Nat /\ l[4] \in Seq(Range(l[4]))
HEADER == <<"zown-sync">>
ASSUME ProgramsAssumption ==
    \A s \in Programs :
        /\ s.vms \subseteq VMs
        /\ \A t \in s.strings : t \in Seq(Range(t)) /\ \A l \in Range(t) : Line(l)
\* The strings programs write out themselves hold no seal and no signature of a
\* bundle: only sb and sl make those.
ASSUME SealsAssumption ==
    \A s \in Programs : \A t \in s.strings : \A l \in Range(t) :
        /\ l[1] = "blake3" => l[2][2] = <<>> \/ l[2][2][1] # HEADER
        /\ l[1] = "ed25519" => l[3][3] = <<>> \/ l[3][3][1] # HEADER
\* Strings have a strict total order.
ASSUME OrderAssumption ==
    \A x, y, z \in Words :
        /\ ~WordLess(x, x)
        /\ WordLess(x, y) /\ WordLess(y, z) => WordLess(x, z)
        /\ x = y \/ WordLess(x, y) \/ WordLess(y, x)
ASSUME EdgeAssumption == \A e \in EdgeInputs : e = <<e[1], e[2], e[3]>>

VARIABLES
    program,        \* the member of Programs that runs
    graph,          \* VM -> [verts, edges]
    log,            \* VM -> the digests la appended
    bundles,        \* VM -> the texts ~p published, found by their hash
    columns, rows,  \* VM -> the table
    cursor,         \* VM -> the names of the query it has open, or NoCursor
    texts,          \* the strings programs hold
    sealed,         \* history: graphs sb or sl wrote, with the seed or NoWord
    reply           \* what the last word answered: "ok" or a fault code

storeVars == <<program, graph, log, bundles, columns, rows, cursor, texts, sealed, reply>>

-----------------------------------------------------------------------------
\* struct Graph.
EmptyGraph == [verts |-> <<>>, edges |-> <<>>]
Ensured(s, x) == IF Contains(s, x) THEN s ELSE Append(s, x)
add_vert(g, n) == [g EXCEPT !.verts = Ensured(@, n)]
add_edge(g, e) ==
    [add_vert(add_vert(g, e[1]), e[3]) EXCEPT !.edges = Ensured(@, e)]

snapshot(g) == [i \in 1 .. Len(g.verts) |-> <<"v", g.verts[i]>>]
               \o [i \in 1 .. Len(g.edges) |-> <<"e", g.edges[i]>>]
Hash(lines) == <<"hash", lines>>
head(g) == Hash(snapshot(g))

\* The destinations of `label` from each name, each the first time it is met.
FollowFrom(g, name, label, out) ==
    LET found[i \in 0 .. Len(g.edges)] ==
          IF i = 0 THEN out
          ELSE IF g.edges[i][1] = name /\ g.edges[i][2] = label
               THEN Ensured(found[i - 1], g.edges[i][3])
               ELSE found[i - 1]
    IN  found[Len(g.edges)]
follow(g, names, label) ==
    LET found[i \in 0 .. Len(names)] ==
          IF i = 0 THEN <<>> ELSE FollowFrom(g, names[i], label, found[i - 1])
    IN  found[Len(names)]
NoCursor == <<"none">>
Cur(names) == <<"cur", names>>

word_ok(n) == n \in Words
LineOk(l) == \/ l[1] = "v" /\ word_ok(l[2])
             \/ l[1] = "e" /\ \A i \in 1 .. 3 : word_ok(l[2][i])
Torn(t) == t # <<>> /\ Last(t) = <<"part">>
\* A snapshot is read when every line of it is whole and a vertex or an edge.
Readable(t) == \A i \in 1 .. Len(t) : LineOk(t[i])
AddLine(g, l) == IF l[1] = "v" THEN add_vert(g, l[2]) ELSE add_edge(g, l[2])
parse_snapshot(t) ==
    LET built[n \in 0 .. Len(t)] ==
          IF n = 0 THEN EmptyGraph ELSE AddLine(built[n - 1], t[n])
    IN  built[Len(t)]

\* Mutant of merged: the union keeps the order of arrival.
MergedUnsorted(left, right) ==
    [verts |-> FoldLeft(Ensured, left.verts, right.verts),
     edges |-> FoldLeft(Ensured, left.edges, right.edges)]

Sorted(S, Less(_, _)) ==
    [i \in 1 .. Cardinality(S) |-> CHOOSE x \in S : Cardinality({y \in S : Less(y, x)}) = i - 1]
EdgeLess(e, f) ==
    \E i \in 1 .. 3 : WordLess(e[i], f[i]) /\ \A j \in 1 .. i - 1 : e[j] = f[j]
merged(left, right) ==
    [verts |-> Sorted(Range(left.verts) \cup Range(right.verts), WordLess),
     edges |-> Sorted(Range(left.edges) \cup Range(right.edges), EdgeLess)]

-----------------------------------------------------------------------------
\* Bundles.
Sig(seed, lines) == <<"sig", seed, lines>>
bundle_body(g) == <<HEADER>> \o snapshot(g)
seal(g) == Append(bundle_body(g), <<"blake3", Hash(bundle_body(g))>>)

\* The log's tree: k is the largest power of two below n.
k_below(n) ==
    LET doubled[k \in 1 .. n] == IF 2 * k < n THEN doubled[2 * k] ELSE k
    IN  doubled[1]
leaf_hash(d) == <<"leaf", d>>
node_hash(l, r) == <<"node", l, r>>
\* Roots(leaves)[n][lo]: the root over the n leaves that follow the first lo.
Roots(leaves) ==
    LET root[n \in 1 .. Len(leaves)] ==
          [lo \in 0 .. Len(leaves) - n |->
             IF n = 1 THEN leaf_hash(leaves[lo + 1])
             ELSE LET k == k_below(n)
                  IN  node_hash(root[k][lo], root[n - k][lo + k])]
    IN  root
mth(leaves) == Roots(leaves)[Len(leaves)][0]

\* lr: the root of the log, nothing when the log is empty.
log_root(lg) == IF lg = <<>> THEN <<>> ELSE mth(lg)

\* The path of a leaf in the tree over the n leaves that follow the first lo.
audit_path(leaves, index) ==
    LET path[n \in 1 .. Len(leaves)] ==
          [lo \in 0 .. Len(leaves) - n |->
             LET k == k_below(n)
             IN  IF n = 1 THEN <<>>
                 ELSE IF index < lo + k
                      THEN Append(path[k][lo], Roots(leaves)[n - k][lo + k])
                      ELSE Append(path[n - k][lo + k], Roots(leaves)[k][lo])]
    IN  path[Len(leaves)][0]

\* The hash folded and the siblings used, or TooShort when the path ends early.
TooShort == [hash |-> <<"none">>, used |-> 0]
\* Mutant of FoldStep: the sibling is always put on the right.
FoldRightOnly(below, onLeft, path) ==
    IF below = TooShort \/ below.used >= Len(path) THEN TooShort
    ELSE [hash |-> node_hash(below.hash, path[below.used + 1]), used |-> below.used + 1]
FoldStep(below, onLeft, path) ==
    IF below = TooShort \/ below.used >= Len(path) THEN TooShort
    ELSE LET sib == path[below.used + 1]
         IN  [hash |-> IF onLeft THEN node_hash(below.hash, sib) ELSE node_hash(sib, below.hash),
              used |-> below.used + 1]
fold(digest, index, size, path) ==
    LET folded[n \in 1 .. size] ==
          [i \in 0 .. n - 1 |->
             LET k == k_below(n)
             IN  IF n = 1 THEN [hash |-> leaf_hash(digest), used |-> 0]
                 ELSE IF i < k THEN FoldStep(folded[k][i], TRUE, path)
                      ELSE FoldStep(folded[n - k][i - k], FALSE, path)]
    IN  folded[size][index]
proof_ok(digest, index, size, path, root) ==
    /\ size > 0 /\ index < size
    /\ LET f == fold(digest, index, size, path)
       IN  f # TooShort /\ f.used = Len(path) /\ f.hash = root

-----------------------------------------------------------------------------
\* so: the graph of a bundle, or a fault.
Ok(g) == <<"ok", g>>
Fault(code) == <<"fault", code>>
check_sig(body, l) == l[3] = Sig(l[2], body)
check_proof(lg, digest, l) ==
    /\ lg # <<>> /\ l[3] = Len(lg)
    /\ proof_ok(digest, l[2], l[3], l[4], mth(lg))

\* Mutant of open_bundle: the trailers are believed without a look at the hash.
OpenUnhashed(lg, t) ==
    LET seals == {i \in 1 .. Len(t) : t[i][1] = "blake3"}
        idx == CHOOSE i \in seals : \A j \in seals : j <= i
        body == SubSeq(t, 2, idx - 1)
    IN  IF seals = {} \/ Torn(t) THEN Fault("TYPE_MISMATCH")
        ELSE IF t[1] # HEADER \/ ~Readable(body) THEN Fault("TYPE_MISMATCH")
        ELSE Ok(parse_snapshot(body))

open_bundle(lg, t) ==
    LET seals == {i \in 1 .. Len(t) : t[i][1] = "blake3"}
        idx == CHOOSE i \in seals : \A j \in seals : j <= i
        body == SubSeq(t, 1, idx - 1)
        rest == SubSeq(t, idx + 1, Len(t))
        signed == rest # <<>> /\ rest[1][1] = "ed25519"
        after == IF signed THEN Tail(rest) ELSE rest
        included == after # <<>> /\ after[1][1] = "include"
        left == IF included THEN Tail(after) ELSE after
    IN  IF Torn(t) \/ seals = {} THEN Fault("TYPE_MISMATCH")
        ELSE IF t[idx][2] # Hash(body) THEN Fault("INTEGRITY_FAIL")
        ELSE IF body = <<>> \/ Head(body) # HEADER \/ left # <<>> THEN Fault("TYPE_MISMATCH")
        ELSE IF signed /\ ~check_sig(body, rest[1]) THEN Fault("SIG_INVALID")
        ELSE IF included /\ after[1][2] >= after[1][3] THEN Fault("TYPE_MISMATCH")
        ELSE IF included /\ ~check_proof(lg, Hash(body), after[1]) THEN Fault("INTEGRITY_FAIL")
        ELSE IF ~Readable(Tail(body)) THEN Fault("TYPE_MISMATCH")
        ELSE Ok(parse_snapshot(Tail(body)))

-----------------------------------------------------------------------------
Init ==
    /\ program \in Programs
    /\ graph = [p \in VMs |-> EmptyGraph]
    /\ log = [p \in VMs |-> <<>>]
    /\ bundles = [p \in VMs |-> {}]
    /\ columns = [p \in VMs |-> <<>>] /\ rows = [p \in VMs |-> <<>>]
    /\ cursor = [p \in VMs |-> NoCursor]
    /\ texts = program.strings /\ sealed = {} /\ reply = "ok"

Uses(w) == w \in program.words /\ UNCHANGED program
Said(code) == reply' = code
\* A word that faults leaves everything as it was.
Refused(code) ==
    /\ Said(code)
    /\ UNCHANGED <<graph, log, bundles, columns, rows, cursor, texts, sealed>>
SetGraph(p, g) ==
    /\ graph' = [graph EXCEPT ![p] = g] /\ Said("ok")
    /\ UNCHANGED <<log, bundles, columns, rows, cursor, texts, sealed>>
\* A string is pushed.
Pushed(t) ==
    /\ Cardinality((texts \cup {t}) \ program.strings) <= program.texts
    /\ texts' = texts \cup {t} /\ Said("ok")

b_gv(p) ==
    /\ Uses("gv")
    /\ \E n \in Words \cup {NoWord} :
           IF word_ok(n) THEN SetGraph(p, add_vert(graph[p], n)) ELSE Refused("TYPE_MISMATCH")
b_ge(p) ==
    /\ Uses("ge")
    /\ \E e \in EdgeInputs :
           IF \A i \in 1 .. 3 : word_ok(e[i]) THEN SetGraph(p, add_edge(graph[p], e))
           ELSE Refused("TYPE_MISMATCH")
b_gs(p) ==
    /\ Uses("gs") /\ Pushed(snapshot(graph[p]))
    /\ UNCHANGED <<graph, log, bundles, columns, rows, sealed, cursor>>
b_gl(p) ==
    /\ Uses("gl")
    /\ \E t \in texts : IF Readable(t) THEN SetGraph(p, parse_snapshot(t))
                        ELSE Refused("TYPE_MISMATCH")
b_mg(p) ==
    /\ Uses("mg")
    /\ \E t \in texts : IF Readable(t) THEN SetGraph(p, merged(graph[p], parse_snapshot(t)))
                        ELSE Refused("TYPE_MISMATCH")
b_sb(p) ==
    /\ Uses("sb") /\ Pushed(seal(graph[p]))
    /\ sealed' = sealed \cup {<<graph[p], NoWord>>}
    /\ UNCHANGED <<graph, log, bundles, columns, rows, cursor>>
b_sl(p) ==
    /\ Uses("sl")
    /\ \E seed \in Seeds :
           /\ Pushed(Append(seal(graph[p]), <<"ed25519", seed, Sig(seed, bundle_body(graph[p]))>>))
           /\ sealed' = sealed \cup {<<graph[p], NoWord>>, <<graph[p], seed>>}
    /\ UNCHANGED <<graph, log, bundles, columns, rows, cursor>>
b_so(p) ==
    /\ Uses("so")
    /\ \E t \in texts :
           LET r == open_bundle(log[p], t)
           IN  IF r[1] = "ok" THEN SetGraph(p, r[2]) ELSE Refused(r[2])
b_la(p) ==
    /\ Uses("la") /\ Cardinality(UNION {{q} \X DOMAIN log[q] : q \in VMs}) < program.log
    /\ log' = [log EXCEPT ![p] = Append(@, Hash(bundle_body(graph[p])))] /\ Said("ok")
    /\ UNCHANGED <<graph, bundles, columns, rows, cursor, texts, sealed>>
b_lp(p) ==
    LET digest == Hash(bundle_body(graph[p]))
        at == {i \in 1 .. Len(log[p]) : log[p][i] = digest}
        index == (CHOOSE i \in at : \A j \in at : i <= j) - 1
    IN  /\ Uses("lp")
        /\ IF at = {} THEN Refused("BOUNDS")
           ELSE /\ Pushed(<<<<"include", index, Len(log[p]), audit_path(log[p], index)>>>>)
                /\ UNCHANGED <<graph, log, bundles, columns, rows, sealed, cursor>>

op_publish(p) ==
    /\ Uses("~p")
    /\ \E t \in texts : bundles' = [bundles EXCEPT ![p] = @ \cup {t}]
    /\ Said("ok")
    /\ UNCHANGED <<graph, log, columns, rows, cursor, texts, sealed>>
\* ~f asks for the hash of a text, which this VM may not have.
op_fetch(p) ==
    /\ Uses("~f")
    /\ \E t \in texts :
           LET found == {b \in bundles[p] : Hash(b) = Hash(t)}
           IN  IF found = {} THEN Refused("BOUNDS")
               ELSE /\ Pushed(CHOOSE b \in found : TRUE)
                    /\ UNCHANGED <<graph, log, bundles, columns, rows, sealed, cursor>>

SetCursor(p, c) ==
    /\ cursor' = [cursor EXCEPT ![p] = c] /\ Said("ok")
    /\ UNCHANGED <<graph, log, bundles, columns, rows, texts, sealed>>
op_graph_open(p) ==
    /\ Uses("query")
    /\ \E n \in Words \cup {NoWord} :
           IF ~word_ok(n) THEN Refused("TYPE_MISMATCH")
           ELSE SetCursor(p, Cur(IF Contains(graph[p].verts, n) THEN <<n>> ELSE <<>>))
\* The graph may have been changed or replaced since the cursor was opened.
op_graph_follow(p) ==
    /\ Uses("query")
    /\ \E label \in {e[2] : e \in EdgeInputs} :
           IF ~word_ok(label) \/ cursor[p] = NoCursor THEN Refused("TYPE_MISMATCH")
           ELSE SetCursor(p, Cur(follow(graph[p], cursor[p][2], label)))
op_graph_close(p) ==
    /\ Uses("query")
    /\ IF cursor[p] = NoCursor THEN Refused("TYPE_MISMATCH") ELSE SetCursor(p, NoCursor)

b_tc(p) ==
    /\ Uses("tc")
    /\ \E n \in Words \cup {NoWord} :
           IF ~word_ok(n) THEN Refused("TYPE_MISMATCH")
           ELSE /\ columns' = [columns EXCEPT ![p] = Ensured(@, n)] /\ Said("ok")
                /\ UNCHANGED <<graph, log, bundles, rows, cursor, texts, sealed>>
b_tu(p) ==
    /\ Uses("tu") /\ Len(rows[p]) < program.rows
    /\ IF columns[p] = <<>> THEN Refused("TYPE_MISMATCH")
       ELSE \E n \in Words \cup {NoWord} :
            LET cells == [i \in 1 .. Len(columns[p]) |-> n]
            IN  IF ~word_ok(n) THEN Refused("TYPE_MISMATCH")
                ELSE /\ rows' = [rows EXCEPT ![p] = Append(@, cells)] /\ Said("ok")
                     /\ UNCHANGED <<graph, log, bundles, columns, cursor, texts, sealed>>
\* row[idx] of a row without that cell is a panic: the process is gone.
Panics(p, idx) == \E r \in Range(rows[p]) : idx > Len(r)
b_tq(p) ==
    LET Column(n) == {i \in 1 .. Len(columns[p]) : columns[p][i] = n}
    IN  /\ Uses("tq")
        /\ \E n \in Words \cup {NoWord} :
               Refused(CASE ~word_ok(n) -> "TYPE_MISMATCH"
                         [] word_ok(n) /\ Column(n) = {} -> "TYPE_MISMATCH"
                         [] OTHER -> IF \E i \in Column(n) : Panics(p, i) THEN "PANIC" ELSE "ok")

\* What programs and files do to texts.
Join ==
    /\ Uses("ct")
    /\ \E t, u \in texts :
           /\ ~Torn(t) /\ Len(t) + Len(u) <= program.lines
           /\ Pushed(t \o u)
    /\ UNCHANGED <<graph, log, bundles, columns, rows, sealed, cursor>>
Cut ==
    /\ Uses("cut")
    /\ \E t \in texts :
           /\ t # <<>>
           /\ Pushed(Front(t)) \/ Pushed(Append(Front(t), <<"part">>))
    /\ UNCHANGED <<graph, log, bundles, columns, rows, sealed, cursor>>

Word(p) ==
    \/ b_gv(p) \/ b_ge(p) \/ b_gs(p) \/ b_gl(p) \/ b_mg(p) \/ b_sb(p) \/ b_sl(p) \/ b_so(p)
    \/ b_la(p) \/ b_lp(p) \/ op_publish(p) \/ op_fetch(p)
    \/ op_graph_open(p) \/ op_graph_follow(p) \/ op_graph_close(p) \/ b_tc(p) \/ b_tu(p) \/ b_tq(p)
Next == Join \/ Cut \/ \E p \in program.vms : reply # "PANIC" /\ Word(p)
Spec == Init /\ [][Next]_storeVars

-----------------------------------------------------------------------------
\* Whatever was joined or cut, a bundle that opens is a graph someone sealed, as
\* it was then, order included; when it opens with a signature the owner of that
\* seed signed that graph, and when it opens with a proof this VM's log holds it
\* (store.rs open_bundle, check_sig, check_proof, seal, b_sl).
OpenedWasSealed ==
    \A t \in texts, p \in VMs :
        LET r == open_bundle(log[p], t)
        IN  r[1] = "ok" =>
              /\ <<r[2], NoWord>> \in sealed
              /\ \A l \in Range(t) :
                     /\ l[1] = "ed25519" => <<r[2], l[2]>> \in sealed
                     /\ l[1] = "include" => Contains(log[p], Hash(bundle_body(r[2])))

Siblings(lg) == UNION {Range(audit_path(lg, i)) : i \in 0 .. Len(lg) - 1}
Altered(path, hashes) ==
    {path, Append(path, leaf_hash("x"))}
    \cup (IF path = <<>> THEN {} ELSE {Front(path)})
    \cup {[path EXCEPT ![i] = h] : i \in 1 .. Len(path), h \in hashes}

\* An inclusion proof is accepted exactly for the leaf at that index, with exactly
\* the audit path of it: no other index, no other digest of the log, no path with
\* a hash missing, added or replaced (store.rs mth, audit_path, fold, proof_ok).
ProofIffLogged ==
    \A p \in VMs : log[p] # <<>> =>
        \A i, j \in 0 .. Len(log[p]) - 1 :
            LET lg == log[p]
                due == audit_path(lg, i)
            IN  \A path \in Altered(due, Siblings(lg)) :
                    proof_ok(lg[j + 1], i, Len(lg), path, log_root(lg))
                        <=> (path = due /\ lg[j + 1] = lg[i + 1])

\* Graphs merge as sets: the order in which two snapshots are merged, or merging
\* one of them twice, never shows, in the text or in the head; nothing of either
\* side is lost; a graph reads back from its own snapshot, and every edge still
\* finds its two vertices and no vertex or edge is there twice, nor a name twice in
\* a query, whatever happened to the graph since the query was opened
\* (store.rs merged, snapshot, try_snapshot, add_edge, follow).
MergeConverges ==
    \A p, q \in VMs :
        LET g == graph[p]
            h == graph[q]
            m == merged(g, h)
        IN  /\ head(m) = head(merged(h, g)) /\ merged(m, h) = m
            /\ Range(m.verts) = Range(g.verts) \cup Range(h.verts)
            /\ Range(m.edges) = Range(g.edges) \cup Range(h.edges)
            /\ Readable(snapshot(g)) /\ parse_snapshot(snapshot(g)) = g
            /\ IsInjective(g.verts) /\ IsInjective(g.edges)
            /\ \A e \in Range(g.edges) :
                   /\ {e[1], e[3]} \subseteq Range(g.verts)
                   /\ Contains(follow(g, <<e[1]>>, e[2]), e[3])
            /\ cursor[p] # NoCursor => IsInjective(cursor[p][2])

\* SPEC 19: an operation has "exactly one outcome here: a defined value, a
\* structured runtime trap, or a static rejection", so no word takes the process
\* down (store.rs b_tq, b_tc, b_tu).
NoPanic == reply # "PANIC"
=============================================================================
