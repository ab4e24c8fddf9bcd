SPECIFICATION Spec
CONSTANTS
    NN = 7
    NC = 2
    U = 1
    NFD = 1
    Handles = {h1}
    Names = {"d", "e", "a", "b"}
    Paths <- TreePaths
    Vals = {0, 1}
    Uids = {0, 1}
    MaxSize = 1
    Ops = {"mknod", "mkdir", "unlink", "rmdir", "rename", "chown"}
    Polite = TRUE
    write_enable = TRUE
    InitFiles <- TwoDirs
    InitFat <- EmptyFat
INVARIANTS
    TreeOK
CHECK_DEADLOCK FALSE
