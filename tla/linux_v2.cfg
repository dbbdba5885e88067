SPECIFICATION Spec
CONSTANTS
    Version = 2
    BrokenV3 = FALSE
    CC = 2
    BlockCap = 1
    CPUs = {}
    Kinds = {"a","b","c"}
    Corrupt = {"c"}
    Filters <- MCFilters
    KernelOK <- MCFilters
    Faults = TRUE
    Counts <- OneOrAll
    Timeout = 1
    Modes <- BothModes
    SwitchPending = FALSE
    Signals = TRUE
    MaxPkts = 3
    MaxBreaks = 1
    MaxFilters = 1
    MaxDowns = 1
CHECK_DEADLOCK FALSE
INVARIANT RingInv
PROPERTY NothingSkipped
PROPERTY DeliveredMatches
