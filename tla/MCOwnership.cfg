CONSTANTS
    a1 = a1
    a2 = a2
    x1 = x1
    x2 = x2
    Alloc = {a1, a2}
    Name = {x1, x2}
    None = None
    MaxStack = 3
    MaxNest = 2
    MaxWrap = 1
SPECIFICATION Spec
SYMMETRY Symmetric
INVARIANTS OneOwner FreedHasNoOwner
PROPERTY NeverReowned
CHECK_DEADLOCK FALSE
