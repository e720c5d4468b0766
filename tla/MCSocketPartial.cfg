SPECIFICATION SocketIOSpec
CONSTANTS
    RequestSizes = {3, 9}
    AnswerSizes = {3}
    Buffer = 5
    Chunk = 8
    Capacity = 2
    Window = 1
    MaxCalls = 3
INVARIANTS
    NothingIsLost
CHECK_DEADLOCK FALSE
