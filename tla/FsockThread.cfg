CONSTANTS
    t1 = t1
    t2 = t2
    NConns = 2
    Threads <- MCThreads
    ThrOf <- MCThrOf

SPECIFICATION ThreadSpec

INVARIANTS
    QueuedOnce
    LastRequest
    NoLostWakeup

PROPERTIES
    WorkersServe

CHECK_DEADLOCK FALSE
