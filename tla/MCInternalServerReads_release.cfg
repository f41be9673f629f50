SPECIFICATION ReadsSpec
CONSTANTS
    Conns = {c1, c2}
    Devices = {d1}
    Prios <- MCPrios
    NoConn = NoConn
    NoId = NoId
    NoPrio = NoPrio
    NumIoThreads = 1
    MaxBatch = 2
    MaxBacklog = 0
    MaxUnsolicited = 0
    MaxFrames = 3
    MaxPayload = 3
    BufferLength = 7
INVARIANTS FramingFaithful GivenUpForCause
PROPERTY ClosedIsReleased
CHECK_DEADLOCK FALSE
