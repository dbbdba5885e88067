SPECIFICATION FairSpec
CONSTANTS
    Requests <- Usual
    PageSize = 4096
    Memory <- Plenty
PROPERTY Returns
INVARIANT RingFits
