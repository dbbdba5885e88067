SPECIFICATION Spec
CONSTANTS
    Handles = {p1, p2}
    MaxFd = 3
    MaxMon = 3
    Foreign = {1}
    Kinds = {"any", "wifi", "wired"}
    Options <- MonitorOptions
    Faults <- SomeFaults
INVARIANT CloseListExact
INVARIANT HandlesInv
