CONSTANTS
    Tasks = {t1, t2}
    NoTask = NoTask
    Capacity = 2
    Producers = {p1, p2}
    Consumers = {c1, c2, c3}
SPECIFICATION FairSpec
INVARIANTS
    TypeOK
    RingCoherent
    NoLostTaskWakeup
    NoLostRoomWakeup
PROPERTIES
    ImplementsFifo
    ImplementsFifoProgress
    ShutdownTerminates
