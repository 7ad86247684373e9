CONSTANTS
    p1 = p1
    p2 = p2
    n1 = n1
    n2 = n2
    t1 = t1
    t2 = t2
    q1 = q1
    q2 = q2
    Peer = {p1, p2}
    Name = {n1, n2}
    Proto = {t1, t2}
    Port = {q1, q2}
    MaxBacklog = 1
    None = None
SPECIFICATION FairSpec
INVARIANT NoLostName
PROPERTY WordsEnd
CHECK_DEADLOCK FALSE
