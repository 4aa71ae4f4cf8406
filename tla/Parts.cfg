\* The queue, the pointer array, the event descriptor, the older worker and the benchmarks.
CONSTANTS
    i1 = i1
    i2 = i2
    i3 = i3
    jobs = jobs
    batch = batch
    events = events
    Items <- MCItems
    Queues <- MCQueues
    NULL = NULL
    NOTINQUEUE = NOTINQUEUE
    e1 = e1
    e2 = e2
    e3 = e3
    e4 = e4
    e5 = e5
    junk = junk
    EMPTY = EMPTY
    NULLPTR = NULLPTR
    Elements <- FiveElements
    Uninit <- AnyMemory
    Increment = 3
    MaxCapacity = 6
    s1 = s1
    s2 = s2
    Signallers <- TwoSignallers
    BlockSize = 2
    MaxPending = 5
    c1 = c1
    c2 = c2
    w1 = w1
    w2 = w2
    Callers <- TwoCallers
    WTasks <- TwoTasks
    StopItem = StopItem
    p1 = p1
    p2 = p2
    Clients <- TwoClients
    Peer = p1
    Rounds = 2

SPECIFICATION PartsSpec

INVARIANTS
    Represents
    PartsTypeOK
    HandlesValid
    TidySound
    EfdSound
    NoTaskForgotten
    BenchSound

PROPERTIES
    ImplementsFifo
    CallsReturn

CHECK_DEADLOCK FALSE
