SPECIFICATION FairSpec
CONSTANTS
    Devices = {d1}
    MaxStatus = 1
    MaxCommand = 1
    MaxChannel = 2
    MaxReconnect = 1
    MaxEntries = 2
PROPERTY JoinReturns
CHECK_DEADLOCK FALSE
