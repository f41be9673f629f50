SPECIFICATION Spec
CONSTANTS
    Devices = {d1}
    MaxExternalCommands = 2
    MaxTimeoutCount = 2
    MaxMessages = 1
    MaxQueue = 2
    MaxStatus = 2
    MaxCommand = 0
    MaxErasures = 1
    MaxOutages = 1
    LibraryHandlers = {"local"}
INVARIANT GetCommandReturns
CHECK_DEADLOCK FALSE
