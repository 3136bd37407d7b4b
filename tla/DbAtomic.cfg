CONSTANTS
    users = users
    orders = orders
    ghost = ghost
    v = v
    w = w
    Threads = {t1, t2, t3}
    NoThread = NoThread
    NoRequest = NoRequest
    Tables = {users, orders, ghost}
    Schemas = {users, orders}
    Values = {v, w}
    Requests <- MixedRequests
    MaxId = 3
    MaxRows = 9
    MaxStored = 99
    Faults = {}
SPECIFICATION Spec
SYMMETRY Symmetry
INVARIANTS
    CacheStableUnderRead
    NextIdIsMaxPlusOne
    IndexMatchesFile
PROPERTY
    ImplementsAtomicTables
