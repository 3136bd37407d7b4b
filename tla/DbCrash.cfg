CONSTANTS
    users = users
    orders = orders
    ghost = ghost
    v = v
    w = w
    Threads = {t1, t2}
    NoThread = NoThread
    NoRequest = NoRequest
    Tables = {users, orders, ghost}
    Schemas = {users, orders}
    Values = {v, w}
    Requests <- OneTable
    MaxId = 3
    MaxRows = 3
    MaxStored = 99
    Faults = {"crash", "oom", "index"}
SPECIFICATION Spec
SYMMETRY Symmetry
INVARIANTS
    AckedRowsSurvive
    TypeOK
