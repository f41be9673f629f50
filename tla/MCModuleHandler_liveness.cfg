SPECIFICATION FairSpec
CONSTANTS
    Devices = {d1}
    MaxExternalCommands = 2
    MaxTimeoutCount = 2
    MaxMessages = 1
    MaxQueue = 1
    MaxStatus = 2
    MaxCommand = 0
    MaxErasures = 1
    MaxOutages = 1
    LibraryHandlers = {"async"}
PROPERTIES StatusesInOrder StatusReachesExternal 
CHECK_DEADLOCK FALSE
