CONSTANTS
    Width = 2
    None = None
    Shim = {s1}
    Boot = boot
    Service = service
    i1 = i1
    i2 = i2
    g1 = g1
    g2 = g2
    d1 = d1
    d2 = d2
    Ip <- MCIp
    Gateway <- MCGateway
    Dns <- MCDns
    DefaultPrefix = 1
    Requests <- MCRequests
    Leases <- SomeLeases
    BootLeases <- NoLease
    Images <- MCImages
    Overlap = FALSE
    MaxApplies = 2
    MaxBoots = 2
    MaxFaults = 1
SPECIFICATION FairSpec
CHECK_DEADLOCK FALSE
INVARIANTS
    TypeOK
    LiveBeforeFiles
    OkMeansApplied
    FailKeepsFiles
    LiveIsVisible
    AtMostOneDefaultRoute
    SurvivesReboot
PROPERTIES
    Terminates
