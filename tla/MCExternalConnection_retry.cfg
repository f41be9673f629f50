SPECIFICATION FairSpec
CONSTANTS
    Devices = {d1, d2}
    MaxStatus = 1
    MaxCommand = 0
    MaxChannel = 1
    MaxReconnect = 1
    MaxEntries = 1
INVARIANTS  StatusTakenOnce
PROPERTIES RetryAfterFailure 
CHECK_DEADLOCK FALSE
