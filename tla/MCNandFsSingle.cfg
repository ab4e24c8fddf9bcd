SPECIFICATION Spec
CONSTANTS
    NN = 5
    NC = 8
    U = 2
    NFD = 1
    Handles = {h1}
    Names = {"d", "a", "b"}
    Paths <- FileAndNeighbour
    Vals = {0, 1}
    Uids = {0}
    MaxSize = 5
    Ops <- FileOps
    Polite = TRUE
    write_enable = TRUE
    InitFiles <- Neighbour
    InitFat <- NeighbourFat
INVARIANTS
    TypeOK
    ReadsBack
    NoLeak
    InBounds
