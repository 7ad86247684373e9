CONSTANTS
    p1 = p1
    g1 = g1
    g2 = g2
    f1 = f1
    f2 = f2
    f3 = f3
    f4 = f4
    Proc = {p1}
    Graph = {g1, g2}
    Inode = {f1, f2, f3, f4}
    None = None
    Cut = Cut
    Lines = 2
SPECIFICATION SnapshotSpec
SYMMETRY Symmetric
INVARIANTS DestIsWhole ReturnedIsDurable
