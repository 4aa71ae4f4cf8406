\* Two dispatches at once, with a mark low enough to make one wait.
CONSTANTS
    t1 = t1
    s1 = s1
    s2 = s2
    NConns = 2
    Threads <- OneThread
    ThrOf <- SameThread
    Senders <- TwoSenders
    SndHwm = 2
    MaxSends = 1
    Room = 1
    AllowClose = TRUE
    Topologies <- AllShapes
    Requests <- MCRequests

SPECIFICATION DispatchSpec

INVARIANTS
    DispatchTypeOK
    SelectedOnce
    SameOrder
    DonwaitNeverWaits
    PublisherWoken

CHECK_DEADLOCK FALSE
