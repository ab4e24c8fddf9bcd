SPECIFICATION Spec
CONSTANTS
    Files = {"a", "b"}
    Sites <- MovedPages
    Users = 2
    B = 2
    LenMod = 8
    PageLen <- MCPageLen
    ErrLen = 1
    TimeZone = 1
    Options <- MCOptions
    MaxVer = 1
    MaxTime = 1
    MaxCalls = 2
INVARIANT
    CachedIsPageEver
CHECK_DEADLOCK FALSE
