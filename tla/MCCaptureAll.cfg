SPECIFICATION FairSpec
CONSTANTS
    Games <- MCGames
    Host <- MCHost
    ID <- MCID
    NonAdvert <- MCNonAdvert
    LastPart = 2
    LastPacket = 2
    Sessions <- MCSessions
    MaxLost = 2
INVARIANTS
    FreshCapture
    RomOfOneGame
    EveryGameOnce
PROPERTIES
    Terminates
