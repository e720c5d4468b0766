SPECIFICATION ServerOpenSpec
CONSTANTS
    s1 = s1
    s2 = s2
    s3 = s3
    Servers = {s1, s2, s3}
    StartsAlone = TRUE
    EndsAlone = TRUE
    MaxSockets = 4
INVARIANTS
    ServerOpenTypeOK
    AliveIsFound
PROPERTIES
    StaleIsReplaced
CHECK_DEADLOCK FALSE
