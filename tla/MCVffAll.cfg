SPECIFICATION Spec
CONSTANTS
    dl = dl
    mbx = mbx
    wc24dl = wc24dl
    wc24recv = wc24recv
    Files = {dl, mbx}
    Own = {dl}
    Names = {wc24dl, wc24recv}
    NameOf <- MCNameOf
    Drives = 2
    VFF_MAXFDS = 2
    Fds = {fd1, fd2}
    Addresses = {a1, a2}
    Paths = {verinfo, config}
    None = None
    MaxFsid = 2
    MaxLost = 1
SYMMETRY Symmetry
INVARIANTS
    VolumesStacked
    HandlesStayHome
    SlotsAccounted
CHECK_DEADLOCK FALSE
