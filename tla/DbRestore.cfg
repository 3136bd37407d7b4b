CONSTANTS
    users = users
    orders = orders
    ghost = ghost
    v = v
    w = w
    Threads = {t1, t2}
    NoThread = NoThread
    NoRequest = NoRequest
    Tables = {users, orders, ghost}
    Schemas = {users, orders}
    Values = {v, w}
    Requests <- OneTable
    MaxId = 3
    MaxRows = 4
    MaxStored = 99
    Faults = {"index", "crash"}
SPECIFICATION Spec
INVARIANT
    Restorable
