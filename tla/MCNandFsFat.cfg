SPECIFICATION Spec
CONSTANTS
    NN = 6
    NC = 4
    U = 1
    NFD = 2
    Handles = {h1, h2}
    Names = {"d", "a", "b"}
    Paths <- TwoFiles
    Vals = {0, 1}
    Uids = {0}
    MaxSize = 2
    Ops = {"mknod", "unlink", "open", "release", "write"}
    Polite = FALSE
    write_enable = TRUE
    InitFiles <- OneDir
    InitFat <- EmptyFat
VIEW MCView
SYMMETRY MCSymmetry
INVARIANTS
    FatOK
CHECK_DEADLOCK FALSE
