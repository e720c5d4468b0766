SPECIFICATION ServerPollSpec
CONSTANTS
    Clients <- MCTwo
    c1 = c1
    c2 = c2
    CallbackOps = {"remove"}
    SendsFds = FALSE
    MaxUnread = 1
    MaxDepth = 1
    MaxInvalid = 0
INVARIANTS
    NeverThrows
CHECK_DEADLOCK FALSE
