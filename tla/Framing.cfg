CONSTANTS
    BASE = 4
    LengthBytes = 2
    MAX_PACKET_SIZE = 2
    Padding = 1
    Packet <- MCPacket
    MaxPackets = 3
SPECIFICATION FairSpec
INVARIANTS
    AsSent
    DataInside
    NothingLost
    CleanEnd
PROPERTY
    Returns
CHECK_DEADLOCK FALSE
