\* An outgoing connection stands before the bind's own in sock->conns.
CONSTANTS
    t1 = t1
    s1 = s1
    s2 = s2
    NConns = 2
    Threads <- OneThread
    ThrOf <- SameThread
    Senders <- OneSender
    SndHwm = 2
    MaxSends = 1
    Room = 1
    AllowClose = FALSE
    Topologies <- OutFirst
    Requests <- BindRequest

SPECIFICATION DispatchSpec

INVARIANTS
    BindReached

CHECK_DEADLOCK FALSE
