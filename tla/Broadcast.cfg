CONSTANTS
    Client = {c1, c2, c3}
    NONE = NONE
    MaxSay = 2
    MaxLost = 1
    MaxRound = 1
SPECIFICATION Spec
INVARIANTS
    OnceInOrder
    NeverAstray
    CrashNeedsOverlap
VIEW View
SYMMETRY Symmetry
CHECK_DEADLOCK FALSE
