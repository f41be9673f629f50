SPECIFICATION Spec
CONSTANTS
    Devices = {d1}
    MaxExternalCommands = 2
    MaxTimeoutCount = 1
    MaxMessages = 1
    MaxQueue = 1
    MaxStatus = 2
    MaxCommand = 3
    MaxErasures = 1
    MaxOutages = 1
    LibraryHandlers = {"local"}
INVARIANTS TypeOK NewestCommandsKept EachCommandOnce
PROPERTIES StatusesInOrder CommandsInOrder
CHECK_DEADLOCK FALSE
