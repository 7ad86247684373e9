------------------------------- MODULE Checker -------------------------------
(***************************************************************************)
(* The static checker, zown-check/src/lib.rs, on the nodes of Source.  A   *)
(* finding is <<code, position>>; the words of a message are left out.     *)
(***************************************************************************)
EXTENDS Source, FiniteSets

CONSTANTS Builtins       \* the names is_builtin knows

PATTERN_TYPES == {"int", "float", "str", "block", "cap", "res"}
VEC_CTORS == {"vf", "vd", "vi", "vu"}
BOX_CTORS == {"rw", "cm"}
INVOKING_OPS == {"@", ";", "??"}
INVOKING_WORDS == {"gr", "ty", "gd", "gp"} \cup VEC_CTORS \cup BOX_CTORS
NoNode == Node("none", "", 0)
at(nodes, i) == IF i \in 1 .. Len(nodes) THEN nodes[i] ELSE NoNode

\* The capabilities an operator or a host word asks for.
net_cap(op) ==
    CASE op \in {"~o", "~s", "~c"} -> {"t"} [] op \in {"~l", "~r"} -> {"r"}
      [] op = "~w" -> {"r", "t"} [] OTHER -> {}
host_cap(name) ==
    CASE name \in {"fr", "fw", "mm", "mo", "ml"} -> {"d"}
      [] name = "en" -> {"v"} [] name = "tm" -> {"c"} [] OTHER -> {}

\* The nodes of a program, those inside blocks too.
RECURSIVE AllNodes(_)
AllNodes(nodes) ==
    UNION {{nodes[i]} \cup (IF kind(nodes[i]) = "blk" THEN AllNodes(val(nodes[i])) ELSE {}) :
           i \in 1 .. Len(nodes)}
RECURSIVE AllBlocks(_)
AllBlocks(nodes) ==
    {nodes} \cup UNION {IF kind(nodes[i]) = "blk" THEN AllBlocks(val(nodes[i])) ELSE {} :
                        i \in 1 .. Len(nodes)}

\* What the checker knows before it walks.
collect_binds(nodes) == {val(n) : n \in {x \in AllNodes(nodes) : kind(x) = "bind"}}
is_word(bound, n, word) == kind(n) = "name" /\ val(n) = word /\ word \notin bound
is_op(n, sym) == kind(n) = "op" /\ val(n) = sym
uses_word(bound, nodes, word) == \E n \in AllNodes(nodes) : is_word(bound, n, word)
\* A capability next to rq or hv is asked for; any other may be granted.
scan_free_caps(bound, nodes) ==
    UNION {{val(b[i]) : i \in {j \in 1 .. Len(b) :
                /\ kind(b[j]) = "cap"
                /\ ~is_word(bound, at(b, j + 1), "rq") /\ ~is_word(bound, at(b, j + 1), "hv")}} :
           b \in AllBlocks(nodes)}
collect_grantable(bound, nodes) ==
    (IF "gr" \in bound THEN {} ELSE scan_free_caps(bound, nodes))
    \cup (IF "gd" \notin bound /\ uses_word(bound, nodes, "gd") THEN {"d"} ELSE {})
\* <<name, protocol>> of every listener.
collect_offers(nodes) ==
    UNION {{<<val(b[i - 3]), val(b[i - 2])>> : i \in {j \in 4 .. Len(b) :
                is_op(b[j], "~l") /\ kind(b[j - 3]) = "str" /\ kind(b[j - 2]) = "str"}} :
           b \in AllBlocks(nodes)}

-----------------------------------------------------------------------------
\* The checker: what it collected, the words defined so far and its findings.
New(nodes) ==
    LET bound == collect_binds(nodes)
    IN  [bound |-> bound, grantable |-> collect_grantable(bound, nodes),
         uses_at |-> uses_word(bound, nodes, "ty"), offers |-> collect_offers(nodes),
         defined |-> {}, diags |-> <<>>]
diag(c, code, p) == [c EXCEPT !.diags = Append(@, <<code, p>>)]
If(c, cond, code, p) == IF cond THEN diag(c, code, p) ELSE c

\* The authority in scope is a set of capabilities, or not known.
Unknown == {"unknown"}
check_require(c, cap, p, known) ==
    IF known # Unknown /\ cap \notin known THEN diag(c, "CAP_DENIED", p)
    ELSE If(c, cap \notin c.grantable /\ ~c.uses_at, "CAP_DENIED", p)
RequireAll(c, caps, p, known) ==
    FoldLeft(LAMBDA acc, cap : IF cap \in caps THEN check_require(acc, cap, p, known) ELSE acc,
             c, <<"c", "d", "r", "t", "v">>)

check_pattern(c, pat) ==
    LET n == val(pat)[1]
        good == \/ kind(n) \in {"int", "float", "str"}
                \/ kind(n) = "name" /\ val(n) \in PATTERN_TYPES \cup {"ok", "err", "any"}
    IN  IF Len(val(pat)) # 1 THEN diag(c, "BAD_PATTERN", pos(pat))
        ELSE If(c, ~good, "BAD_PATTERN", pos(pat))
Label(pat) == IF Len(val(pat)) = 1 /\ kind(val(pat)[1]) = "name" THEN {val(val(pat)[1])} ELSE {}

\* Does this node run a block that may bind or move names?
\* Mutant of Invokes: only words are thought of.
InvokesWordsOnly(c, n) ==
    kind(n) = "name" /\ val(n) \in INVOKING_WORDS /\ val(n) \notin c.bound
Invokes(c, n) ==
    \/ kind(n) = "op" /\ val(n) \in INVOKING_OPS
    \/ kind(n) = "name" /\ val(n) \in INVOKING_WORDS /\ val(n) \notin c.bound

wd_name(s) == s # ""
WalkName(c, nodes, i, known, in_at, moved) ==
    LET n == nodes[i]
        name == val(n)
        before == at(nodes, i - 1)
        d == IF name = "wd" /\ name \notin c.bound /\ kind(before) = "str" /\ wd_name(val(before))
             THEN [c EXCEPT !.defined = @ \cup {val(before)}] ELSE c
        unresolved == name \notin d.bound /\ name \notin Builtins /\ name \notin d.defined
        gone == name \in moved /\ name \notin Builtins /\ ~in_at
        e == If(d, unresolved \/ gone, "NAME_UNRESOLVED", pos(n))
    IN  IF name \notin c.bound /\ ~in_at THEN RequireAll(e, host_cap(name), pos(n), known) ELSE e
WalkMove(c, n, in_at, moved) ==
    If(c, val(n) \notin c.bound \/ (val(n) \in moved /\ ~in_at), "NAME_UNRESOLVED", pos(n))
WalkCap(c, nodes, i, known, in_at) ==
    LET nxt == at(nodes, i + 1)
    IN  IF is_word(c.bound, nxt, "rq") /\ ~in_at
        THEN check_require(c, val(nodes[i]), pos(nxt), known) ELSE c
WalkOp(c, nodes, i, known, in_at) ==
    LET n == nodes[i]
        d == IF in_at THEN c ELSE RequireAll(c, net_cap(val(n)), pos(n), known)
        offered == {o[2] : o \in {x \in c.offers : x[1] = val(nodes[i - 2])}}
        differs == /\ val(n) = "~c" /\ i > 2
                   /\ kind(nodes[i - 2]) = "str" /\ kind(nodes[i - 1]) = "str"
                   /\ offered # {} /\ val(nodes[i - 1]) \notin offered
    IN  If(d, differs, "TYPE_MISMATCH", pos(n))

RECURSIVE WalkFrom(_, _, _, _, _, _)
walk(c, nodes, known, in_at, moved) == WalkFrom(c, nodes, 1, known, in_at, moved)

RECURSIVE Arms(_, _, _, _, _, _)
Arms(c, blk, children, known, in_at, moved) ==
    IF children = <<>> THEN c
    ELSE LET rest == SubSeq(children, 3, Len(children))
         IN  IF kind(children[1]) # "blk" \/ kind(children[2]) # "blk"
             THEN Arms(diag(c, "BAD_PATTERN", pos(blk)), blk, rest, known, in_at, moved)
             ELSE Arms(walk(check_pattern(c, children[1]), val(children[2]), known, in_at, moved),
                       blk, rest, known, in_at, moved)
check_match_arms(c, blk, known, in_at, subject_is_res, moved) ==
    LET children == val(blk)
        d == Arms(c, blk, children, known, in_at, moved)
        seen == UNION {Label(children[i]) : i \in {j \in 1 .. Len(children) :
                         /\ j % 2 = 1 /\ kind(children[j]) = "blk" /\ kind(children[j + 1]) = "blk"}}
        covered == seen \cap {"any", "res"} # {} \/ {"ok", "err"} \subseteq seen
    IN  IF Len(children) % 2 # 0 THEN diag(c, "BAD_PATTERN", pos(blk))
        ELSE If(d, subject_is_res /\ ~covered, "NO_MATCH", pos(blk))

\* A block is read where the next tokens say how it will be run: with what
\* authority, and with which names already moved out.
walk_block(c, nodes, i, known, in_at, moved) ==
    LET blk == nodes[i]
        nxt == at(nodes, i + 1)
        isBlk(k) == kind(at(nodes, k)) = "blk"
        word(w) == is_word(c.bound, nxt, w)
        plain == \/ is_op(nxt, "@")
                 \/ isBlk(i + 1) /\ is_op(at(nodes, i + 2), ";")
                 \/ is_op(nxt, "?") /\ is_op(at(nodes, i + 2), "@")
                 \/ /\ isBlk(i + 1) /\ is_op(at(nodes, i + 2), "?")
                    /\ is_op(at(nodes, i + 3), "@")
                 \/ \E w \in VEC_CTORS \cup BOX_CTORS \cup {"gp"} : word(w)
        granted(cap) == IF known = Unknown THEN Unknown ELSE known \cup {cap}
        body == val(blk)
    IN  CASE is_op(nxt, "??") ->
               check_match_arms(c, blk, known, in_at,
                                is_word(c.bound, at(nodes, i - 1), "ty") /\ isBlk(i - 2), moved)
          [] plain -> walk(c, body, known, in_at, moved)
          [] is_op(nxt, ";") -> walk(c, body, known, in_at, {})
          [] word("gd") -> walk(c, body, granted("d"), in_at, moved)
          [] word("gr") ->
               walk(c, body, IF kind(at(nodes, i - 1)) = "cap" THEN granted(val(at(nodes, i - 1)))
                             ELSE Unknown, in_at, moved)
          [] word("ty") -> walk(c, body, known, TRUE, moved)
          [] OTHER -> walk(c, body, Unknown, in_at, {})

WalkFrom(c, nodes, i, known, in_at, moved) ==
    IF i > Len(nodes) THEN c
    ELSE LET n == nodes[i]
             k == kind(n)
             d == CASE k = "name" -> WalkName(c, nodes, i, known, in_at, moved)
                    [] k = "move" -> WalkMove(c, n, in_at, moved)
                    [] k = "cap" -> WalkCap(c, nodes, i, known, in_at)
                    [] k = "blk" -> walk_block(c, nodes, i, known, in_at, moved)
                    [] k = "op" -> WalkOp(c, nodes, i, known, in_at)
                    [] OTHER -> c
             now == CASE k = "move" -> moved \cup {val(n)}
                      [] k = "bind" -> moved \ {val(n)}
                      [] OTHER -> IF Invokes(d, n) THEN {} ELSE moved
         IN  WalkFrom(d, nodes, i + 1, known, in_at, now)

\* The findings for a program, at the top level of which nothing is granted.
check(nodes) == walk(New(nodes), nodes, {}, FALSE, {}).diags
=============================================================================
