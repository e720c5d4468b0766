SPECIFICATION Spec
CONSTANTS
    Since <- MCSince
    CliVer = 1
    SrvVer = 1
    BindVersions = {1}
    ByteBase = 256
    MaxObjects = 1
    MaxCalls = 0
    MaxRoundtrips = 2
    MaxEvents = 2
    MaxDepth = 8
    AppMayErr = FALSE
    MayTear = FALSE
    MayHangUp = FALSE
PROPERTIES
    AckReachesCaller
CHECK_DEADLOCK FALSE
