\* Two threads bind and connect while peers arrive at both binds and things run out.
CONSTANTS
    a1 = a1
    a2 = a2
    NThreads = 2
    Apps <- TwoApps
    NBinds = 2
    NOuts = 1
    NIns = 2
    AllowFail = TRUE
    AllowStop = FALSE

SPECIFICATION Spec

INVARIANTS
    AttachTypeOK
    Balanced
    HandlesName
    ReadyInTime
    FdsOwned

CHECK_DEADLOCK FALSE
