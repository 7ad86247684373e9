------------------------------- MODULE MCStore -------------------------------
EXTENDS Store

MCLess(x, y) == <<x, y>> = <<"a", "b">>
MCEdges == {<<"a", "b", "b">>, <<"b", "b", "a">>, <<"a", "no word", "b">>}
\* A seal of 64 zeros, and a line no parser knows.
Junk == {<<<<"zown-sync">>, <<"blake3", <<"hash", <<>>>>>>>>, <<<<"junk">>>>}
Program(w, v, s, t, l) ==
    [words |-> w, vms |-> v, strings |-> s,
     texts |-> t, lines |-> 6, log |-> l, rows |-> 2]
One == {CHOOSE p \in VMs : TRUE}
MCPrograms ==
    {Program({"gv", "ge", "gs", "gl", "mg", "cut"}, VMs, Junk, 2, 0),
     Program({"gv", "sb", "sl", "so", "ct", "cut"}, VMs, Junk, 2, 0),
     Program({"gv", "ge", "gs", "gl", "query"}, One, {}, 2, 0),
     Program({"gv", "la"}, VMs, {}, 0, 5),
     Program({"gv", "la", "lp", "sb", "so", "ct"}, One, {}, 3, 3),
     Program({"gv", "gs", "~p", "~f"}, VMs, {}, 2, 0),
     Program({"tc", "tu", "tq"}, One, {}, 0, 0)}
MCTables == {Program({"tc", "tu", "tq"}, One, {}, 0, 0)}
=============================================================================
