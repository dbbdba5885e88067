SPECIFICATION FairSpec
CONSTANTS
    Version = 3
    BrokenV3 = FALSE
    CC = 3
    BlockCap = 2
    CPUs = {c1}
    Kinds = {"a"}
    Corrupt = {}
    Filters <- NoFilters
    KernelOK <- NoFilters
    Faults = FALSE
    Counts <- UpToTwo
    Timeout = 1
    Modes <- BothModes
    SwitchPending = FALSE
    Signals = FALSE
    MaxPkts = 4
    MaxBreaks = 1
    MaxFilters = 0
    MaxDowns = 0
CHECK_DEADLOCK FALSE
INVARIANT NoLostBreak
PROPERTY InOrder
PROPERTY BreakForcesReturn
PROPERTY EveryPacketHandled
INVARIANT ReaderInv
