CONSTANTS
    Tasks = {4, 5}
    NoTask = NoFd
    Capacity = 1
    ThreadCount = 2
    Clients = {a, b}
    NoClient = NoClient
    Messages <- ManyMessages
    SqlStatuses = {200}
SPECIFICATION FairSpec
PROPERTIES
    EveryAcceptedClientIsServed
    TeardownTerminates
