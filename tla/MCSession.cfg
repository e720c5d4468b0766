SPECIFICATION Spec
CONSTANTS
    Since <- MCSince
    CliVer = 1
    SrvVer = 1
    BindVersions = {1}
    ByteBase = 256
    MaxObjects = 3
    MaxCalls = 3
    MaxRoundtrips = 0
    MaxEvents = 1
    MaxDepth = 4
    AppMayErr = FALSE
    MayTear = FALSE
    MayHangUp = FALSE
INVARIANTS
    TypeOK
    HandlesAgree
    EventsRouted
    CallsRouted
    CallsConserved
    FlushComplete
PROPERTIES
    ImplementsCallDelivery
