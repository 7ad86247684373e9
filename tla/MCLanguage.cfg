SPECIFICATION Spec
CONSTANTS
    IntMax = 7
    MaxDepth = 3
    Fuel = 40
    FloatBits = 2
    Builtins <- MCBuiltins
    Keyboards <- MCKeyboards
INVARIANTS LexIsLongestMatch SourceRoundTrips FindingIsFault NativeAgrees WasmAgrees
CHECK_DEADLOCK FALSE
