SPECIFICATION Spec
CONSTANTS
    SymBits = 3
    CodeBits = 9
    UintBits = 3
    Window = 12
    LapBits = 5
    LapMin = 2
    Storage = 4
    ByteBits = 2
    RngBits = 10
    WinBits = 16
    ProbDrop = 3
    MinProb = 1
    Rate = 2
    RateStep = 3
    LumaBlocks = 4
    LebBits = 3
    HeadSyms = 3
    Alphabets <- MCAlphabets
INVARIANTS SymbolsReadBack SidesAgree PictureReadsBack
CHECK_DEADLOCK FALSE
