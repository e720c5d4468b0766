SPECIFICATION Spec
CONSTANTS
    Since <- MCSince
    CliVer = 1
    SrvVer = 1
    BindVersions = {1}
    ByteBase = 256
    MaxObjects = 2
    MaxCalls = 1
    MaxRoundtrips = 2
    MaxEvents = 2
    MaxDepth = 8
    AppMayErr = FALSE
    MayTear = FALSE
    MayHangUp = FALSE
INVARIANTS
    RoundtripCoversSent
    EventOrder
PROPERTIES
    EventsHeard
    AckLostToOuterOnly
CHECK_DEADLOCK FALSE
