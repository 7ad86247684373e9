-------------------------------- MODULE Names --------------------------------
(***************************************************************************)
(* Connecting by name (zown-vm/src/stream.rs): `~l` listens on a port,     *)
(* writes its line into the names file under names.lock and accepts one    *)
(* peer; `~c` looks the name up, compares the protocol word and dials the  *)
(* port.  The peers are processes that share only the directory and the    *)
(* loopback ports.  Every wait ends after WAIT (one second), a peer may be *)
(* killed between any two steps, and nobody ever removes a line of the     *)
(* names file or a lock file that is not its own.                          *)
(***************************************************************************)
EXTENDS Naturals, Sequences

CONSTANTS
    Peer,       \* processes
    Name,       \* names in the names file
    Proto,      \* protocol words
    Port,       \* ports of [::1]
    None,       \* no peer, no entry
    MaxBacklog  \* connections a listener's backlog holds

ASSUME NamesAssumption ==
    None \notin Peer \cup Name \cup Proto \cup Port /\ MaxBacklog \in Nat

VARIABLES
    pc,         \* where each peer's word is
    want,       \* the operands of that word
    seen,       \* the names file as the peer read it
    file,       \* the names file: the entry of each name
    lock,       \* the peer that created names.lock, if the file exists
    listener,   \* the peer bound to each port
    backlog,    \* protocol words of the peers connected and not yet accepted
    crossed,    \* history: an accept joined two different words
    latest      \* history: the entry last renamed into place for each name

vars == <<pc, want, seen, file, lock, listener, backlog, crossed, latest>>
network == <<listener, backlog, crossed>>
registry == <<file, lock, latest>>

Entry == [proto : Proto, port : Port]
Table == [Name -> Entry \cup {None}]
Operands == [name : Name, proto : Proto, port : Port \cup {None}]

NoEntries == [n \in Name |-> None]

NamesInit ==
    /\ pc = [p \in Peer |-> "idle"]
    /\ want = [p \in Peer |-> None]
    /\ seen = [p \in Peer |-> NoEntries]
    /\ file = NoEntries
    /\ lock = None
    /\ listener = [q \in Port |-> None]
    /\ backlog = [q \in Port |-> <<>>]
    /\ crossed = FALSE
    /\ latest = NoEntries

-----------------------------------------------------------------------------
Goto(p, from, to) ==
    /\ pc[p] = from
    /\ pc' = [pc EXCEPT ![p] = to]

\* The word returns, with or without a fault, and its locals are gone.
Ends(p, from) ==
    /\ Goto(p, from, "idle")
    /\ want' = [want EXCEPT ![p] = None]
    /\ seen' = [seen EXCEPT ![p] = NoEntries]

\* The listener is dropped: the port is free and what waits in its backlog is
\* reset.
Dropped(p) == [q \in Port |-> IF listener[q] = p THEN None ELSE listener[q]]
Reset(p) == [q \in Port |-> IF listener[q] = p THEN <<>> ELSE backlog[q]]
DropListener(p) == listener' = Dropped(p) /\ backlog' = Reset(p)

-----------------------------------------------------------------------------
(* `~l`                                                                    *)

\* listen_on; a port in use is BOUNDS.
Listen(p, n, t, q) ==
    /\ Goto(p, "idle", "lock")
    /\ listener[q] = None
    /\ listener' = [listener EXCEPT ![q] = p]
    /\ want' = [want EXCEPT ![p] = [name |-> n, proto |-> t, port |-> q]]
    /\ UNCHANGED <<seen, registry, backlog, crossed>>

\* create_new: fails while the file exists.
Lock(p) ==
    /\ Goto(p, "lock", "read")
    /\ lock = None
    /\ lock' = p
    /\ UNCHANGED <<want, seen, file, latest, network>>

\* Mutated form of LockTimesOut: the loop waits for the file to go.
LockWaits(p) ==
    /\ pc[p] = "lock" /\ lock = None /\ UNCHANGED vars

\* Another peer's lock file is still there after WAIT: ~l is BOUNDS.
LockTimesOut(p) ==
    /\ Ends(p, "lock")
    /\ lock # None
    /\ DropListener(p)
    /\ UNCHANGED <<registry, crossed>>

ReadNames(p) ==
    /\ Goto(p, "read", "rename")
    /\ seen' = [seen EXCEPT ![p] = file]
    /\ UNCHANGED <<want, registry, network>>

\* The file cannot be read: register starts from an empty one.
ReadNamesFails(p) ==
    /\ Goto(p, "read", "blank")
    /\ seen' = [seen EXCEPT ![p] = NoEntries]
    /\ UNCHANGED <<want, registry, network>>

\* Mutated form of Edited: a name that is there keeps its line.
EditedOnce(p) == IF seen[p][want[p].name] # None THEN seen[p]
                 ELSE [seen[p] EXCEPT ![want[p].name] =
                         [proto |-> want[p].proto, port |-> want[p].port]]

\* register: the lines of the name go, the new line is appended, and the whole
\* file is renamed into place.
Edited(p) == [seen[p] EXCEPT ![want[p].name] =
                 [proto |-> want[p].proto, port |-> want[p].port]]

Rename(p) ==
    /\ pc[p] \in {"rename", "blank"}
    /\ Goto(p, pc[p], "unlock")
    /\ file' = Edited(p)
    /\ latest' = [(IF pc[p] = "blank" THEN NoEntries ELSE latest) EXCEPT ![want[p].name] =
                    [proto |-> want[p].proto, port |-> want[p].port]]
    /\ seen' = [seen EXCEPT ![p] = NoEntries]
    /\ UNCHANGED <<want, lock, network>>

\* The write or the rename fails: the lock is removed and ~l is BOUNDS.
RenameFails(p) ==
    /\ pc[p] \in {"rename", "blank"}
    /\ Ends(p, pc[p])
    /\ lock' = None
    /\ DropListener(p)
    /\ UNCHANGED <<file, latest, crossed>>

Unlock(p) ==
    /\ Goto(p, "unlock", "accept")
    /\ lock' = None
    /\ UNCHANGED <<want, seen, file, latest, network>>

\* accept_one: the first peer that is connected gets the stream; the listener
\* is dropped.
Accept(p) ==
    /\ Ends(p, "accept")
    /\ LET q == want[p].port
       IN /\ backlog[q] # <<>>
          /\ crossed' = (crossed \/ Head(backlog[q]) # want[p].proto)
    /\ DropListener(p)
    /\ UNCHANGED <<registry>>

AcceptTimesOut(p) ==
    /\ Ends(p, "accept")
    /\ backlog[want[p].port] = <<>>
    /\ DropListener(p)
    /\ UNCHANGED <<registry, crossed>>

-----------------------------------------------------------------------------
(* `~c`                                                                    *)

Connect(p, n, t) ==
    /\ Goto(p, "idle", "lookup")
    /\ want' = [want EXCEPT ![p] = [name |-> n, proto |-> t, port |-> None]]
    /\ UNCHANGED <<seen, registry, network>>

\* The line is there: TYPE_MISMATCH if the words differ, else dial its port.
Found(p) ==
    /\ pc[p] = "lookup"
    /\ LET e == file[want[p].name]
       IN /\ e # None
          /\ \/ /\ e.proto # want[p].proto
                /\ Ends(p, "lookup")
             \/ /\ e.proto = want[p].proto
                /\ want' = [want EXCEPT ![p] = [name |-> want[p].name,
                               proto |-> want[p].proto, port |-> e.port]]
                /\ pc' = [pc EXCEPT ![p] = "dial"]
                /\ UNCHANGED seen
    /\ UNCHANGED <<registry, network>>

LookupTimesOut(p) ==
    /\ Ends(p, "lookup")
    /\ file[want[p].name] = None
    /\ UNCHANGED <<registry, network>>

\* connect: whoever listens on the port now answers, before it accepts; with
\* no listener, or no room, the connection fails and ~c is BOUNDS.
Dial(p) ==
    /\ Ends(p, "dial")
    /\ LET q == want[p].port
       IN \/ /\ listener[q] # None /\ Len(backlog[q]) < MaxBacklog
             /\ backlog' = [backlog EXCEPT ![q] = Append(backlog[q], want[p].proto)]
          \/ /\ listener[q] = None \/ Len(backlog[q]) >= MaxBacklog
             /\ UNCHANGED backlog
    /\ UNCHANGED <<registry, listener, crossed>>

-----------------------------------------------------------------------------
\* The process is killed: its listener goes, its lock file stays.
Kill(p) ==
    /\ pc[p] # "dead"
    /\ pc' = [pc EXCEPT ![p] = "dead"]
    /\ want' = [want EXCEPT ![p] = None]
    /\ seen' = [seen EXCEPT ![p] = NoEntries]
    /\ DropListener(p)
    /\ UNCHANGED <<registry, crossed>>

Steps(p) ==
    \/ Lock(p) \/ LockTimesOut(p) \/ ReadNames(p) \/ ReadNamesFails(p)
    \/ Rename(p) \/ RenameFails(p) \/ Unlock(p) \/ Accept(p) \/ AcceptTimesOut(p)
    \/ Found(p) \/ LookupTimesOut(p) \/ Dial(p)

NamesNext ==
    \E p \in Peer :
        \/ \E n \in Name, t \in Proto :
              Connect(p, n, t) \/ \E q \in Port : Listen(p, n, t, q)
        \/ Steps(p)
        \/ Kill(p)

NamesSpec == NamesInit /\ [][NamesNext]_vars

\* A process that is not killed goes on: every loop of `~l` and `~c` polls and
\* gives up after WAIT.
FairSpec == NamesSpec /\ \A p \in Peer : WF_vars(Steps(p))

-----------------------------------------------------------------------------
(* Properties.                                                             *)

\* Type invariant.
TypeOK ==
    /\ pc \in [Peer -> {"idle", "lock", "read", "rename", "blank", "unlock", "accept",
                        "lookup", "dial", "dead"}]
    /\ want \in [Peer -> Operands \cup {None}]
    /\ seen \in [Peer -> Table]
    /\ file \in Table /\ latest \in Table
    /\ lock \in Peer \cup {None}
    /\ listener \in [Port -> Peer \cup {None}]
    /\ backlog \in [Port -> Seq(Proto)]
    /\ crossed \in BOOLEAN

Editing(p) == pc[p] \in {"read", "rename", "blank", "unlock"}

\* with_names: a peer that edits the names file holds names.lock, also while
\* others time out, are killed holding it, or fail to rename.
LockHeld == \A p \in Peer : Editing(p) => lock = p

\* No registration is lost: the names file always has, for every name, the
\* entry that was renamed into place last, though every peer writes back a
\* whole file it read earlier.  Only a file that cannot be read is begun anew.
NoLostName == file = latest

\* Every `~l` and `~c` ends, whoever was killed holding the lock file.
WordsEnd == \A p \in Peer : pc[p] # "idle" ~> pc[p] \in {"idle", "dead"}

\* Two peers connect only when their protocol words are the same string
\* (docs/SPEC.md:638 and 826).  A line stays in the names file after its
\* listener is gone, and whoever listens on that port next answers for it.
SameProtocol == ~crossed
=============================================================================
