SPECIFICATION SocketIOSpec
CONSTANTS
    RequestSizes = {5}
    AnswerSizes = {3}
    Buffer = 5
    Chunk = 8
    Capacity = 2
    Window = 1
    MaxCalls = 1
PROPERTIES
    AnswersArrive
CHECK_DEADLOCK FALSE
