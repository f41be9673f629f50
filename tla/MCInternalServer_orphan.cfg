SPECIFICATION Spec
CONSTANTS
    Conns = {c1, c2, c3}
    Devices = {d1}
    Prios <- MCPrios
    NoConn = NoConn
    NoId = NoId
    NoPrio = NoPrio
    NumIoThreads = 2
    MaxBatch = 1
    MaxBacklog = 1
    MaxUnsolicited = 0
INVARIANT NoOrphan
SYMMETRY ConnSymmetry
CHECK_DEADLOCK FALSE
