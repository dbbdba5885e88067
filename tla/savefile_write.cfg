SPECIFICATION Fair
CONSTANTS
    Octet = 600
    IntMax = 1000
    Maximum = 6
    FirstBuffer = 2
    Scale = 10
    FakeHeader = 1
    Platform = "Linux"
    Packets <- Few
    Found <- None
    Rejected = {}
    Counts = {0}
    MaxDumps = 2
    MaxOpens = 2
    MaxCalls = 1
    MaxFree = 1
    Handles <- Plain
    Rooms = {0, 13}
    Half = 64
    MaxShift = 11
    MaxPower = 3
    FirstBlock = 8
    InitialMax = 16
    OptionRoom = 4
    ShbMax = 10
CHECK_DEADLOCK FALSE
INVARIANT ReadsWhatWasMeant
PROPERTY CallsReturn
INVARIANT FileRecognised
