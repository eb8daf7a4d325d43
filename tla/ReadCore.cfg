CONSTANTS
    Width = 8
    None = None
    K = 4
    Limit = 600
    BlockSizes = {0, 1, 3, 4, 512}
    net = net
    disk = disk
    Pid <- MCPid
    Scheme <- MCScheme
    Leftover = leftover
    MaxFds = 2
    MaxEvents = 3
    Nobody = Nobody
SPECIFICATION AnySpec
CHECK_DEADLOCK FALSE
INVARIANTS
    ConversionsAgree
    SizesReadBack
    StorageAddsUp
PROPERTIES
    OwnSchemes
