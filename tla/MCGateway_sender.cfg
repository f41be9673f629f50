SPECIFICATION FairSpec
CONSTANTS
    Modules = {1, 2}
    NoModule = NoModule
    Configs <- QuicConfigs
    Connections = 1
    MaxClients = 2
    MaxSend = 0
    MaxAnswer = 1
PROPERTY LoopTerminates
CHECK_DEADLOCK FALSE
