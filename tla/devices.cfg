SPECIFICATION OpenSpec
CONSTANT Kinds = {"bpf", "npf", "dlpi", "libdlpi", "usb", "bt", "btmon", "netfilter", "netmap", "dag", "snf", "tc", "dpdk", "airpcap", "haiku", "hurd", "rdma", "dbus", "sita", "septel"}
CONSTANT Platforms = {"linux", "bpf", "haiku", "hurd", "dlpi", "libdlpi", "npf", "sita"}
CONSTANT Interfaces <- MCInterfaces
CONSTANT Entries <- MCEntries
CONSTANT MaxEntries = 3
CONSTANT Cards <- MCCards
CONSTANT GivenNames <- MCGivenNames
 
INVARIANT OpensWhatWasListed
INVARIANT ClosesEverything
INVARIANT ReleasesOnce
INVARIANT ExitRestores
CHECK_DEADLOCK FALSE
INVARIANT DeviceListExact
