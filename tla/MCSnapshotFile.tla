--------------------------- MODULE MCSnapshotFile ---------------------------
\* Instance of SnapshotFile for TLC: graphs, files and processes are
\* interchangeable.
EXTENDS SnapshotFile, TLC

Symmetric == Permutations(Proc) \cup Permutations(Graph) \cup Permutations(Inode)
=============================================================================
