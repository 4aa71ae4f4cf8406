\* The receive path stops and resumes the input while connections are attached.
CONSTANTS
    a1 = a1
    a2 = a2
    NThreads = 2
    Apps <- TwoApps
    NBinds = 1
    NOuts = 1
    NIns = 2
    AllowFail = TRUE
    AllowStop = TRUE

SPECIFICATION Spec

INVARIANTS
    StopReaches

PROPERTIES
    Served

CHECK_DEADLOCK FALSE
