SPECIFICATION MCSpec
CONSTANTS
    ToServer <- MCToServer
    ToClient <- MCToClient
    Methods <- MCMethods
    TheirMethods <- MCMethods
    MayTear = TRUE
    MaxSent = 2
    Sizes <- MCBeyond
    MaxWritten = 2
    f1 = f1
    f2 = f2
    f3 = f3
INVARIANTS
    LengthsSurvive
CHECK_DEADLOCK FALSE
