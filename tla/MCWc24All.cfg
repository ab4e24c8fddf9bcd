SPECIFICATION FairSpec
CONSTANTS
    MaxEntries = 4
    Reserved = 1
    Ids = {1, 2, 3}
    Names = {"installer", "verinfo", "dol", "test", "mail"}
    Bases = {1, 2}
    MaxVer = 2
    MaxFaults = 1
    Homes <- MCHomes
    AppId = 1
    TitleId = 2
    AppUrl <- App
    OtherIds = {}
    Backup <- MCBackup
    Updates <- MCUpdates
    OneShot = "dol"
    Base <- MCBase
INVARIANTS
    SlotsAgree
    EntriesThere
    ConfigKept
PROPERTIES
    OthersKept
    NoUpdateLoop
    PurgeEnds
CHECK_DEADLOCK FALSE
