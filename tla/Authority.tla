------------------------------ MODULE Authority ------------------------------
(***************************************************************************)
(* What capability scoping promises, without the way the VM keeps it: the  *)
(* authority in force is a value that a handler may extend for the time it *)
(* runs and that is put back exactly as it was when the handler ends,      *)
(* however it ends.                                                        *)
(***************************************************************************)
EXTENDS Sequences, Naturals

CONSTANTS Cap, Disk, Path

VARIABLES
  now,     \* [caps, roots]: the authority in force
  before   \* the authorities to put back, innermost last

vars == <<now, before>>

NoAuthority == [caps |-> {}, roots |-> <<>>]

Init == now = NoAuthority /\ before = <<>>

Extend(a) == before' = Append(before, now) /\ now' = a

(* A handler that grants nothing. *)
Run == Extend(now)
GrantCap(c)  == Extend([caps  |-> now.caps \cup {c}, roots |-> now.roots])
GrantPath(p) == Extend([caps  |-> now.caps \cup {Disk},
                        roots |-> Append(now.roots, p)])

(* A handler ends. *)
PutBack ==
  /\ before # <<>>
  /\ now' = before[Len(before)]
  /\ before' = SubSeq(before, 1, Len(before) - 1)

Next ==
  \/ Run
  \/ \E c \in Cap : GrantCap(c)
  \/ \E p \in Path : GrantPath(p)
  \/ PutBack

Spec == Init /\ [][Next]_vars
=============================================================================
