SPECIFICATION ServerSpec
CONSTANTS
    Modes = {TRUE, FALSE}
    Slots = {1, 2}
    Requests = {"AUTH", "OPEN", "STARTCAP", "UPDATEFILTER", "STATS", "ENDCAP", "SETSAMPLING", "CLOSE", "ERROR", "PACKET"}
    MaxReq = 4
    MaxQueue = 1
    MaxPkts = 1
    CapLens = {60}
    DataRoom = 1
    EventFd = TRUE
    Timeouts = FALSE
    Faults = {"open", "accept", "thread", "stats", "malloc", "read", "select"}
    Systems = {"unix", "windows"}
    Addresses = {"ipv4", "ipv6"}
    MaxActive = 1
    MaxConns = 2
    MaxSignals = 2
CHECK_DEADLOCK FALSE
PROPERTY ClosedEnds
INVARIANT SessionsInv
INVARIANT ServerInv
PROPERTY StopsWhenTold
