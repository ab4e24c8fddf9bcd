SPECIFICATION FairSpec
CONSTANTS
    Files = {"a", "b"}
    Sites <- MCSites
    Users = 2
    B = 2
    LenMod = 8
    PageLen <- MCPageLen
    ErrLen = 1
    TimeZone = 1
    Options <- MCOptions
    MaxVer = 1
    MaxTime = 1
    MaxCalls = 2
INVARIANTS
    TypeOK
    Complete
    CachedIsPage
    NoFalseRefusal
    RedirectedAsTold
    SocketsClosed
PROPERTIES
    CallsEnd
CHECK_DEADLOCK FALSE
