SPECIFICATION StubsSpec
CONSTANTS
    Shapes <- MCShapes
    Values <- MCValues
    MaxMethods = 3
    MaxReleases = 3
    MaxCalls = 2
INVARIANTS
    CallsMeanTheSame
    ReleasesAgree
CHECK_DEADLOCK FALSE
