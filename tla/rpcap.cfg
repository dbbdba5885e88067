SPECIFICATION LiveSession
CONSTANTS
    Modes = {TRUE, FALSE}
    Slots = {1, 2}
    Requests = {}
    MaxReq = 10
    MaxQueue = 2
    MaxPkts = 3
    CapLens = {60, 65515}
    DataRoom = 2
    EventFd = TRUE
    Timeouts = FALSE
    Faults = {"buffer", "connect", "open", "stats", "malloc", "thread"}
    MaxFd = 4
    NoCapture = {TRUE, FALSE}
CHECK_DEADLOCK FALSE
INVARIANT PacketsConserved
 
PROPERTY CallsReturn
INVARIANT InStep
