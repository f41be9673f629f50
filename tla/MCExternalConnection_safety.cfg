SPECIFICATION Spec
CONSTANTS
    Devices = {d1}
    MaxStatus = 2
    MaxCommand = 1
    MaxChannel = 2
    MaxReconnect = 1
    MaxEntries = 2
INVARIANTS TypeOK  AcknowledgesItsStatus ListenerJoined
CHECK_DEADLOCK FALSE
