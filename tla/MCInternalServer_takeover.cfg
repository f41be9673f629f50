SPECIFICATION Spec
CONSTANTS
    Conns = {c1, c2}
    Devices = {d1}
    Prios <- MCPrios
    NoConn = NoConn
    NoId = NoId
    NoPrio = NoPrio
    NumIoThreads = 2
    MaxBatch = 1
    MaxBacklog = 1
    MaxUnsolicited = 2
INVARIANTS TypeOK UniqueDevice EntryServed AnnouncementsAlternate ReadsOnlyWhenReady
PROPERTIES TakeoverRaisesPriority ImplementsRegistry
SYMMETRY ConnSymmetry
CHECK_DEADLOCK FALSE
