CONSTANTS
    NONE = NONE
    MaxMore = 2
    MaxKeepAlive = 2
    MaxSignal = 2
SPECIFICATION FairSpec
INVARIANTS
    Settled
    LockLeft
PROPERTIES
    KeepAliveTaken
    PromptReturns
CHECK_DEADLOCK FALSE
