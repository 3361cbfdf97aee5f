CONSTANTS
    c1 = c1
    c2 = c2
    NULL = NULL
    Names = Names
    Chunk = {c1, c2}
    LocalFile = {l1}
    RemoteFile = {r1, r2}
    InitialContent <- Contents
    MaxBlocks = 2
    MaxFaults = 2
SPECIFICATION FairSpec
INVARIANTS
    TypeOK
    OneOutstanding
    InStep
    NothingLeftOpen
PROPERTIES
    CopyIsFaithful
    CommandEnds
    Released
CHECK_DEADLOCK FALSE
