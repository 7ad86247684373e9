SPECIFICATION Spec
CONSTANTS
    VMs = {p, q}
    Seeds = {s1, s2}
    Words = {"a", "b"}
    NoWord = "no word"
    WordLess <- MCLess
    EdgeInputs <- MCEdges
    Programs <- MCPrograms
INVARIANTS OpenedWasSealed ProofIffLogged MergeConverges
CHECK_DEADLOCK FALSE
