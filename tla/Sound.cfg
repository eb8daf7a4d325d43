CONSTANTS
    None = None
    MaxVolume = 3
    Sane = 2
    Odd <- MCOdd
    MaxMoves = 3
    MaxFaults = 2
SPECIFICATION FairSpec
INVARIANTS
    TypeOK
PROPERTIES
    UnmuteRestores
    ButtonKeepsWord
    TabCatchesUp
