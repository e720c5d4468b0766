SPECIFICATION ServerOpenSpec
CONSTANTS
    s1 = s1
    s2 = s2
    s3 = s3
    Servers = {s1, s2, s3}
    StartsAlone = TRUE
    EndsAlone = FALSE
    MaxSockets = 3
INVARIANTS
    AliveIsFound
CHECK_DEADLOCK FALSE
