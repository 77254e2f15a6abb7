CONSTANTS
    MaxIn = 3
    MaxSz = 2
    Room = 2
    MaxFill = 1
    FileLen = 2
    MaxFails = 1
    GrowSz = 1
    Addrs = 2
SPECIFICATION FairSpec
INVARIANTS
    NothingLost
    WaitsEmptyHanded
    SentExactly
    SocketReady
PROPERTIES
    CallEnds
