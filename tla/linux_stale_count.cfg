SPECIFICATION Spec
CONSTANTS
    Version = 3
    BrokenV3 = FALSE
    CC = 3
    BlockCap = 2
    CPUs = {}
    Kinds = {"a","b"}
    Corrupt = {}
    Filters <- MCFilters
    KernelOK = {{"a"}}
    Faults = FALSE
    Counts <- OneOrAll
    Timeout = 1
    Modes <- Blocking
    SwitchPending = FALSE
    Signals = FALSE
    MaxPkts = 4
    MaxBreaks = 0
    MaxFilters = 2
    MaxDowns = 0
PROPERTY DeliveredMatches
CHECK_DEADLOCK FALSE
