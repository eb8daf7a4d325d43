CONSTANTS
    Width = 2
    None = None
    Shim = {s1}
    Boot = boot
    Service = service
    i1 = i1
    i2 = i2
    g1 = g1
    g2 = g2
    d1 = d1
    d2 = d2
    Ip <- MCIp
    Gateway <- MCGateway
    Dns <- MCDns
    DefaultPrefix = 1
    Requests <- FullOnly
    Leases <- OneLease
    BootLeases <- OneLease
    Images <- FactoryOnly
    Overlap = FALSE
    MaxApplies = 1
    MaxBoots = 1
    MaxFaults = 0
SPECIFICATION Spec
CHECK_DEADLOCK FALSE
INVARIANTS
    SurvivesReboot
