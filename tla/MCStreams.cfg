\* Bytes that are written, requests and WebSocket frames that are read, in pieces of any size.
SPECIFICATION AllSpec
CONSTANTS
    Sizes = {1, 3}
    MaxBytes = 7
    Requests <- MCRequests
    MaxRequests = 2
    MIN_HTTP_REQUEST_LEN = 6
    Pipelined <- MCPipelined
    Streams <- MCStreamSet
    Cuts <- MCCuts
    Opcodes = {"text", "binary", "ping", "pong"}
    CONTINUE = "continue"
INVARIANTS
    RequestsHandled
    ParsedAsSent
PROPERTIES
    StreamSpec
    Delivered
CHECK_DEADLOCK FALSE
