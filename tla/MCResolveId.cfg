SPECIFICATION Spec
CONSTANTS
    Since <- MCSince
    CliVer = 1
    SrvVer = 1
    BindVersions = {1}
    ByteBase = 2
    MaxObjects = 2
    MaxCalls = 2
    MaxRoundtrips = 1
    MaxEvents = 1
    MaxDepth = 2
    AppMayErr = FALSE
    MayTear = FALSE
    MayHangUp = FALSE
INVARIANTS
    CallsCarryAssignedId
CHECK_DEADLOCK FALSE
