CONSTANTS
    None = None
    Pid <- TwoPids
    Name <- MCName
    Mem <- MCMem
    Needles <- AllText
    NoFilter <- MCNoFilter
    Starts <- TwoAlone
    MaxChanges = 1
    MaxKills = 1
SPECIFICATION Spec
PROPERTIES
    KilledIsArmed
