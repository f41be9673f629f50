SPECIFICATION FairSpec
CONSTANTS
    Modules = {1, 2}
    NoModule = NoModule
    Configs <- MCConfigs
    Connections = 2
    MaxClients = 2
    MaxSend = 1
    MaxAnswer = 1
INVARIANTS OneConnection NoStaleNotification EndpointsHaveLibraries 
PROPERTIES  QueuedIsTaken StartupEnds
CHECK_DEADLOCK FALSE
