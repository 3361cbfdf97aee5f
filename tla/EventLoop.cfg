CONSTANTS
    Connection = {k1, k2}
    Descriptor = {1, 2}
    LISTEN = 0
    NONE = NONE
    EVENT_BUFF_SIZE = 2
    Behind = 2
    MaxPackets = 1
    MaxSignals = 1
SPECIFICATION FairSpec
INVARIANTS
    NoWaitInRecv
    InsideBuffer
    NewIsNew
PROPERTY
    Served
CHECK_DEADLOCK FALSE
