SPECIFICATION FairPollSpec
CONSTANTS
    Clients <- MCClients
    c1 = c1
    c2 = c2
    Listening = FALSE
    AppInTime = TRUE
    DispatchesAnyTime = TRUE
    RemovesAnyTime = FALSE
    MaxBytes = 2
PROPERTIES
    AddedIsPolled
