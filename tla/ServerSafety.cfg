CONSTANTS
    Tasks = {4, 5, 6}
    NoTask = NoFd
    Capacity = 1
    ThreadCount = 2
    Clients = {a, b, c}
    NoClient = NoClient
    Messages <- TwoMessages
    SqlStatuses = {200, 500}
SPECIFICATION Spec
SYMMETRY Symmetry
INVARIANTS
    TypeOK
    OneOwner
    AnsweredOnce
    NoUseAfterFree
    NothingLeftBehind
