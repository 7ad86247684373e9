CONSTANTS
    Operands <- MCOperands
    Values <- MCValues
    BufMax <- MCBufMax
    Hash <- MCHash
    Sizes = {0, 1, 2, 3, 5}
    ByteBits = 2
    MaxSeq = 6
SPECIFICATION Spec
CONSTRAINT OneUpdated
INVARIANTS LooksAgree TreeBalanced NoFalseNegative
PROPERTY KeepsContract
CHECK_DEADLOCK FALSE
