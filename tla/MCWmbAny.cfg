SPECIFICATION Spec
CONSTANTS
    P = 4
    Q = 2
    R = 1
    Hosts <- AnyHosts
    Steady = FALSE
INVARIANT
    InBounds
    MissedNone
CHECK_DEADLOCK FALSE
