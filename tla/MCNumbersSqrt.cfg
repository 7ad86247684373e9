SPECIFICATION Spec
CONSTANTS
    LimbBits = 2
    Radix = 3
    Prec = 2
    EMin <- MCEMin
    EMax = 4
    None = None
    Literals <- MCLiterals
    Blocks <- MCBlocks
    VecKinds <- MCVecKinds
    WidthBits <- MCWidthBits
    ScaleMax = 2
    BigCap = 30
INVARIANT SqrtIsFloor
CHECK_DEADLOCK FALSE
