SPECIFICATION FairSpec
CONSTANTS
    Since <- MCSince
    CliVer = 1
    SrvVer = 1
    BindVersions = {1}
    ByteBase = 256
    MaxObjects = 2
    MaxCalls = 1
    MaxRoundtrips = 1
    MaxEvents = 1
    MaxDepth = 4
    AppMayErr = TRUE
    MayTear = TRUE
    MayHangUp = TRUE
INVARIANTS
    CallsConserved
    RoundtripCoversSent
PROPERTIES
    ErrorUnblocks
CHECK_DEADLOCK FALSE
