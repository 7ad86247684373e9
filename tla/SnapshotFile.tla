---------------------------- MODULE SnapshotFile ----------------------------
(***************************************************************************)
(* The graph snapshot on disk (zown-vm/src/hostio.rs): `mm` writes the     *)
(* snapshot text to dest.tmp, syncs it, renames it over dest and syncs the *)
(* directory; `ml` reads dest and replaces the graph.  Processes that use  *)
(* the same path share the file names and nothing else.  A process may be  *)
(* killed and the machine may lose power between any two system calls; any *)
(* of the calls may fail.                                                  *)
(*                                                                         *)
(* A snapshot is a sequence of lines, here the graph it came from once per *)
(* line.  A file has what the system shows now and what is on the disk: a  *)
(* power loss leaves, of what was written after the last sync, any part.   *)
(***************************************************************************)
EXTENDS Naturals, Sequences

CONSTANTS
    Proc,       \* processes with the same path
    Graph,      \* graphs a program builds
    Inode,      \* files of the directory
    None,       \* no file
    Cut,        \* a line that ends before its newline, or bytes nobody wrote
    Lines       \* bound: lines of a graph's snapshot

ASSUME SnapshotAssumption ==
    /\ None \notin Inode
    /\ Cut \notin Graph
    /\ Lines \in Nat

VARIABLES
    pc,         \* the system call each process's mm is at
    graph,      \* Vm.graph, as its snapshot
    text,       \* the snapshot a running mm writes
    fd,         \* the file it has open
    at,         \* lines it has written
    shown,      \* contents of each file
    disk,       \* contents of each file on the disk
    tmp,        \* the directory entries dest.tmp and dest
    dest,
    destDisk,   \* what the entry dest may be after a power loss
    acked,      \* history: the snapshot of the last mm that returned
    begun       \* history: snapshots of the mm calls begun after that one

snapshotVars == <<pc, graph, text, fd, at, shown, disk, tmp, dest, destDisk, acked, begun>>
directory == <<tmp, dest, destDisk>>

Snapshot(g) == [i \in 1 .. Lines |-> g]
Snapshots == {<<>>} \cup {Snapshot(g) : g \in Graph}

\* try_snapshot: every line is whole.  That the last lines are there is not
\* and cannot be seen.
Parses(s) == \A i \in 1 .. Len(s) : s[i] # Cut

SnapshotInit ==
    /\ pc = [p \in Proc |-> "idle"]
    /\ graph = [p \in Proc |-> <<>>]
    /\ text = [p \in Proc |-> <<>>]
    /\ fd = [p \in Proc |-> None]
    /\ at = [p \in Proc |-> 0]
    /\ shown = [f \in Inode |-> <<>>]
    /\ disk = [f \in Inode |-> <<>>]
    /\ tmp = None /\ dest = None /\ destDisk = {None}
    /\ acked = None /\ begun = {}

-----------------------------------------------------------------------------
Goto(p, from, to) == pc[p] = from /\ pc' = [pc EXCEPT ![p] = to]

\* Files without a name and without a process that has them open.
Free == {f \in Inode : f \notin {tmp, dest} \cup destDisk /\ \A p \in Proc : fd[p] # f}

\* The file system takes back the files that an action leaves free.
Reclaim ==
    /\ shown' = [f \in Inode |-> IF f \in Free' THEN <<>> ELSE shown[f]]
    /\ disk' = [f \in Inode |-> IF f \in Free' THEN <<>> ELSE disk[f]]

\* The locals of mm are gone.
Leave(p) ==
    /\ pc' = [pc EXCEPT ![p] = "idle"]
    /\ text' = [text EXCEPT ![p] = <<>>]
    /\ fd' = [fd EXCEPT ![p] = None]
    /\ at' = [at EXCEPT ![p] = 0]

\* The words that change the graph.
Edit(p, g) ==
    /\ pc[p] = "idle"
    /\ graph' = [graph EXCEPT ![p] = Snapshot(g)]
    /\ UNCHANGED <<pc, text, fd, at, shown, disk, directory, acked, begun>>

\* mm: the snapshot is taken and dest.tmp is created or truncated.
Create(p) ==
    /\ Goto(p, "idle", "write")
    /\ text' = [text EXCEPT ![p] = graph[p]]
    /\ at' = [at EXCEPT ![p] = 0]
    /\ begun' = begun \cup {graph[p]}
    /\ \E f \in IF tmp # None THEN {tmp} ELSE Free :
          /\ tmp' = f
          /\ fd' = [fd EXCEPT ![p] = f]
          /\ shown' = [shown EXCEPT ![f] = <<>>]
    /\ UNCHANGED <<graph, disk, dest, destDisk, acked>>

\* One line written at the process's own offset; a gap reads as zeros.
Written(s, i, line) ==
    [k \in 1 .. (IF Len(s) > i THEN Len(s) ELSE i) |->
        IF k = i THEN line ELSE IF k <= Len(s) THEN s[k] ELSE Cut]

Write(p) ==
    /\ pc[p] = "write" /\ at[p] < Len(text[p])
    /\ at' = [at EXCEPT ![p] = at[p] + 1]
    /\ shown' = [shown EXCEPT ![fd[p]] = Written(@, at[p] + 1, text[p][at[p] + 1])]
    /\ UNCHANGED <<pc, graph, text, fd, disk, directory, acked, begun>>

\* Mutated form of Sync: the file is not synced before the rename.
SyncSkipped(p) ==
    /\ Goto(p, "write", "rename") /\ at[p] = Len(text[p])
    /\ UNCHANGED <<graph, text, fd, at, shown, disk, directory, acked, begun>>

Sync(p) ==
    /\ Goto(p, "write", "rename") /\ at[p] = Len(text[p])
    /\ disk' = [disk EXCEPT ![fd[p]] = shown[fd[p]]]
    /\ UNCHANGED <<graph, text, fd, at, shown, directory, acked, begun>>

\* rename replaces dest in one step; with dest.tmp gone it fails.
Rename(p) ==
    /\ Goto(p, "rename", "dirsync")
    /\ tmp # None
    /\ dest' = tmp /\ tmp' = None /\ destDisk' = destDisk \cup {tmp}
    /\ UNCHANGED <<graph, text, fd, at, shown, disk, acked, begun>>

\* Mutated form of Synced: the directory is not synced.
SyncedNot == destDisk

\* What the entry dest may be once the directory was synced.
Synced == {dest}

\* mm returns.
SyncDir(p) ==
    /\ pc[p] = "dirsync"
    /\ destDisk' = Synced
    /\ acked' = text[p] /\ begun' = {}
    /\ UNCHANGED <<graph, tmp, dest>>
    /\ Leave(p) /\ Reclaim

\* A system call, the creation too, fails: dest.tmp is removed and mm is BOUNDS.
Fail(p) ==
    /\ tmp' = None
    /\ UNCHANGED <<graph, dest, destDisk, acked, begun>>
    /\ Leave(p) /\ Reclaim

\* ml: INTEGRITY_FAIL and no change unless the file parses.
Load(p) ==
    /\ pc[p] = "idle" /\ dest # None
    /\ Parses(shown[dest])
    /\ graph' = [graph EXCEPT ![p] = shown[dest]]
    /\ UNCHANGED <<pc, text, fd, at, shown, disk, directory, acked, begun>>

-----------------------------------------------------------------------------
\* The process is killed and started again: an empty graph, dest.tmp stays.
Kill(p) ==
    /\ pc[p] # "idle"
    /\ graph' = [graph EXCEPT ![p] = <<>>]
    /\ UNCHANGED <<directory, acked, begun>>
    /\ Leave(p) /\ Reclaim

\* What may be left of a file: what was synced, everything, or a part that ends
\* at a line or inside one.
Remains(f) ==
    IF shown[f] = disk[f] THEN {disk[f]}
    ELSE {disk[f], shown[f]}
           \cup UNION {{SubSeq(shown[f], 1, k), Append(SubSeq(shown[f], 1, k), Cut)} :
                       k \in 0 .. Len(shown[f])}

PowerLoss ==
    /\ dest' \in destDisk /\ destDisk' = {dest'}
    /\ tmp' \in {tmp, None}
    /\ pc' = [p \in Proc |-> "idle"]
    /\ graph' = [p \in Proc |-> <<>>]
    /\ text' = [p \in Proc |-> <<>>]
    /\ fd' = [p \in Proc |-> None]
    /\ at' = [p \in Proc |-> 0]
    /\ \E s \in [Inode \ Free' -> UNION {Remains(f) : f \in Inode}] :
          /\ \A f \in DOMAIN s : s[f] \in Remains(f)
          /\ shown' = [f \in Inode |-> IF f \in Free' THEN <<>> ELSE s[f]]
    /\ disk' = shown'
    /\ UNCHANGED <<acked, begun>>

SnapshotNext ==
    \/ \E p \in Proc :
          \/ \E g \in Graph : Edit(p, g)
          \/ Create(p) \/ Write(p) \/ Sync(p) \/ Rename(p) \/ SyncDir(p) \/ Fail(p)
          \/ Load(p) \/ Kill(p)
    \/ PowerLoss

SnapshotSpec == SnapshotInit /\ [][SnapshotNext]_snapshotVars

-----------------------------------------------------------------------------
(* Properties.                                                             *)

\* Type invariant.
SnapshotTypeOK ==
    /\ pc \in [Proc -> {"idle", "write", "rename", "dirsync"}]
    /\ \A p \in Proc :
          /\ fd[p] \in Inode \cup {None} /\ (fd[p] = None) = (pc[p] = "idle")
          /\ at[p] \in 0 .. Len(text[p])
          /\ Len(graph[p]) <= Lines
    /\ {tmp, dest} \cup destDisk \subseteq Inode \cup {None}
    /\ acked \in Snapshots \cup {None} /\ begun \subseteq Snapshots

\* dest is at every moment, after kills and power losses too, a whole snapshot
\* that some mm was given: never a part of one, though mm writes it in pieces
\* and Parses accepts a file that lost its last lines.
DestIsWhole == dest # None => shown[dest] \in Snapshots

\* Once mm has returned, dest holds its snapshot or that of a call begun after
\* it, whatever is killed, fails or loses power from then on.
ReturnedIsDurable ==
    acked # None => dest # None /\ shown[dest] \in {acked} \cup begun

\* A graph that ml loads is one that was saved.  With two processes that write
\* the same path, one truncates the dest.tmp that the other renames, and ml
\* takes the lines that are there (docs/SPEC.md:1284, "A short file ... is
\* INTEGRITY_FAIL").
LoadedWasSaved == \A p \in Proc : graph[p] \in Snapshots
=============================================================================
