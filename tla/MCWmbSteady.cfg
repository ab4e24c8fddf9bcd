SPECIFICATION FairSpec
CONSTANTS
    P = 4
    Q = 2
    R = 1
    Hosts <- SteadyHosts
    Steady = TRUE
INVARIANT
    PlacedRight
PROPERTY
    ImplementsDownload
CHECK_DEADLOCK FALSE
