SPECIFICATION FairServerPollSpec
CONSTANTS
    Clients <- MCTwo
    c1 = c1
    c2 = c2
    CallbackOps = {"add", "remove", "dispatch"}
    SendsFds = FALSE
    MaxUnread = 1
    MaxDepth = 2
    MaxInvalid = 1
INVARIANTS
    ServerPollTypeOK
    Aligned
    NeverBlocks
    LastWordsRead
PROPERTIES
    FoundIsRead
    EveryoneServed
CHECK_DEADLOCK FALSE
