CONSTANTS
    Kinds = {"bpf", "zbpf", "npf", "airpcap", "windag", "tc", "dlpi", "dlpi1", "libdlpi",
             "usb", "usbmmap", "bt", "btmon", "netfilter", "netmap", "rdma", "dbus",
             "haiku", "hurd", "sita", "dag", "snf", "dpdk", "septel"}
    Modes = {"nonblock", "timed", "forever"}
    Matches = {{0, 1, 2, 3}, {0, 1, 3}}
    MaxPkt = 3
    Cnts = {0, 2}
    Burst = 2
    MaxHanded = 4
    Fails = TRUE
SPECIFICATION Spec
PROPERTY KeepsContract
PROPERTY LoopBreaks
CHECK_DEADLOCK FALSE
