CONSTANTS
    a = a
    b = b
    w = w
    aw = aw
    wb = wb
    bw = bw
    wa = wa
    m1 = m1
    m2 = m2
    None = None
    Peer = {a, b}
    Relays = {w}
    Wire = {aw, wb, bw, wa}
    From <- RelayFrom
    To <- RelayTo
    Legs <- RelayLegs
    Msg = {m1, m2}
    Size <- Sizes
    HeaderBytes = 1
    Room = 2
    MaxSent <- RelaySent
SPECIFICATION FairSpec
CHECK_DEADLOCK FALSE
INVARIANTS InOrder RelayInOrder
PROPERTY WordsEnd
