SPECIFICATION Spec
CONSTANTS
    NSC = 3
    NPG = 2
    VerMod = 4
    LowInit = 3
    InitVers = {0, 2}
    MaxGen = 4
    Options <- MCAllOptions
INVARIANTS
    TypeOK
    UpdateOnMedia
    DemotedIsNotMounted
    SurvivorExists
PROPERTY
    VerifiedMountIsWhole
