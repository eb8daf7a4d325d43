CONSTANTS
    None = None
    MaxPrefix = 2
    Numbers = {1}
    Texts <- MCTexts
    Prefilled <- MCPrefilled
    Tiles = {}
    Passwords = {"right"}
    Right = "right"
    MaxApplies = 1
    Boot = boot
    Service = service
    i1 = i1
    i2 = i2
    g1 = g1
    g2 = g2
    d1 = d1
    d2 = d2
    Ip <- MCIp
    Gateway <- MCGateway
    Dns <- MCDns
    DefaultPrefix = 1
    Leases <- MCLeases
    BootLeases <- NoLease
    Images <- MCImages
    MaxFaults = 2
    TypedIp = i1
    TypedGateway = g1
    TypedDns = d1
CHECK_DEADLOCK FALSE
SPECIFICATION SysFairSpec
CONSTRAINT
    FormOfStatic
INVARIANTS
    FilesWereLive
    OkIsInForce
    FailIsHarmless
PROPERTIES
    ImplementsWindow
