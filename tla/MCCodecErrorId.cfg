SPECIFICATION MCSpec
CONSTANTS
    ToServer <- MCToServer
    ToClient <- MCToClient
    Methods <- MCOlder
    TheirMethods <- MCMethods
    MayTear = FALSE
    MaxSent = 2
    Sizes = {}
    MaxWritten = 0
    f1 = f1
    f2 = f2
    f3 = f3
INVARIANTS
    CoreErrorsHaveNoId
CHECK_DEADLOCK FALSE
