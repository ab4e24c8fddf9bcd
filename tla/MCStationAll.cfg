SPECIFICATION FairSpec
CONSTANTS
    Macs = {m1, m2}
    Ids = {1, 2}
    Games = {0, 1}
    P = 2
    Bytes <- TwoSizes
    NMenu = 2
    M = 2
    G = 1
    H = 1
    MenuBuffer = 4
INVARIANT
    BuffersHold
    OneGame
    FirstIsWhole
    OnlyOnce
PROPERTY
    Served
CHECK_DEADLOCK FALSE
