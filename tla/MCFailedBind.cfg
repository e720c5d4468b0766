SPECIFICATION Spec
CONSTANTS
    Since <- MCSince
    CliVer = 2
    SrvVer = 1
    BindVersions = {1, 2}
    ByteBase = 256
    MaxObjects = 2
    MaxCalls = 2
    MaxRoundtrips = 1
    MaxEvents = 1
    MaxDepth = 2
    AppMayErr = FALSE
    MayTear = FALSE
    MayHangUp = FALSE
INVARIANTS
    ErrorIsAnnounced
CHECK_DEADLOCK FALSE
