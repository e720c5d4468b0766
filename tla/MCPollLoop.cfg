SPECIFICATION FairPollSpec
CONSTANTS
    Clients <- MCClients
    c1 = c1
    c2 = c2
    Listening = TRUE
    AppInTime = TRUE
    DispatchesAnyTime = FALSE
    RemovesAnyTime = FALSE
    MaxBytes = 2
INVARIANTS
    PollTypeOK
    SignalNotLost
    SleepsOnEveryone
PROPERTIES
    EveryMessageRead
    DestructorEnds
