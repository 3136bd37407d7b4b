CONSTANTS
    users = users
    orders = orders
    ghost = ghost
    v = v
    w = w
    Threads = {t1, t2}
    NoThread = NoThread
    NoRequest = NoRequest
    Tables = {users, orders, ghost}
    Schemas = {users, orders}
    Values = {v, w}
    Requests <- OneTable
    MaxId = 2
    MaxRows = 3
    MaxStored = 9
    Faults = {"oom", "torn"}
SPECIFICATION Spec
SYMMETRY Symmetry
INVARIANTS
    AckedRowsReadable
