SPECIFICATION NgSpec
CONSTANTS
    Octet = 600
    IntMax = 1000
    Maximum = 6
    FirstBuffer = 2
    Scale = 10
    FakeHeader = 1
    Platform = "Linux"
    Handles = {}
    Packets = {}
    Rooms = {0}
    MaxDumps = 0
    MaxOpens = 1
    MaxFree = 0
    Found <- AnyFile
    Rejected <- DropSome
    Counts = {0, 1}
    MaxCalls = 2
    Half = 64
    MaxShift = 11
    MaxPower = 3
    FirstBlock = 8
    InitialMax = 16
    OptionRoom = 4
    ShbMax = 10
CHECK_DEADLOCK FALSE
INVARIANT CountsExact
INVARIANT ReadsEitherFormat
INVARIANT SoundWhateverIsRead
