SPECIFICATION SocketIOSpec
CONSTANTS
    RequestSizes = {3}
    AnswerSizes = {3}
    Buffer = 5
    Chunk = 8
    Capacity = 2
    Window = 2
    MaxCalls = 8
INVARIANTS
    NothingIsLost
    AnyLengthIsRead
    NeverBothWait
PROPERTIES
    AnswersArrive
CHECK_DEADLOCK FALSE
