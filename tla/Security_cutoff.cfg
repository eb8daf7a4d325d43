CHECK_DEADLOCK FALSE
CONSTANTS
    None = None
    a = a
    b = b
    suid = suid
    root = root
    sub = sub
    c1 = c1
    c2 = c2
    File = {a, b, suid}
    Root = {root, sub}
    Content = {c1, c2}
    Covers <- MCCovers
    Budget = 2
    Disks <- MCDisks
    Fields <- MCFields
    MaxClicks = 2
    MaxChanges = 2
    MaxFaults = 1
SPECIFICATION Spec
PROPERTIES
    RemovedWasLookedFor
