SPECIFICATION SocketIOSpec
CONSTANTS
    RequestSizes = {3}
    AnswerSizes = {5}
    Buffer = 5
    Chunk = 8
    Capacity = 2
    Window = 1
    MaxCalls = 2
INVARIANTS
    AnyLengthIsRead
CHECK_DEADLOCK FALSE
