SPECIFICATION Spec
CONSTANTS
    Devices = {d1}
    MaxStatus = 2
    MaxCommand = 1
    MaxChannel = 2
    MaxReconnect = 1
    MaxEntries = 2
INVARIANT ErrorsReported
CHECK_DEADLOCK FALSE
