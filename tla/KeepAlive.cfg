CONSTANTS
    Client = {k1, k2}
    NONE = NONE
    ALIVE_TIME = 2
    DEAD_TIME = 4
    ROUND = 1
    DELAY = 1
    MaxConnections = 2
    MaxMeet = 2
SPECIFICATION Spec
INVARIANTS
    TypeOK
    SilenceBounded
    CrashNeedsLoss
PROPERTY
    PromptKept
SYMMETRY Symmetry
CHECK_DEADLOCK FALSE
