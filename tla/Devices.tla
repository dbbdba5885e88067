------------------------------ MODULE Devices ------------------------------
(***************************************************************************)
(* pcap_findalldevs: the list of capture devices, built first from the     *)
(* network interfaces of the platform, address by address, then from every *)
(* entry of capture_source_types; kept in the order of their merit; and    *)
(* what is done with the list: pcap_lookupdev, and pcap_create, which asks *)
(* every source in turn whether a name is its own.                         *)
(*                                                                         *)
(* A device name is a record [base, num, sub]: "eth0" is base "eth", num 0;*)
(* "eth0:1" and "dag0:2" have a sub; None stands for a part that is not    *)
(* there.  What matters of a name is how the sources take it apart.        *)
(***************************************************************************)
EXTENDS Naturals, Integers, Sequences, FiniteSets, SequencesExt

CONSTANTS
    Platforms,      \* the implementations of pcapint_platform_finddevs
    Interfaces,     \* the network interfaces: [name, rank, up, running, loop, wifi, link],
                    \* rank its place in the order of the names
    Entries,        \* the addresses: [name, addr], as getifaddrs reports them
    MaxEntries,     \* how many are reported
    Cards           \* the hardware of the sources, all or none of it there at first:
                    \* [type, name] records

VARIABLES
    platform,   \* the platform of this build
    entries,    \* what the system reports, in its order
    todo,       \* what is left of it
    source,     \* index of the source being asked; 0 for the platform
    cards,      \* what is left of that source's devices
    plugged,    \* the hardware that is present
    devlist,    \* the list: [name, addrs, flags, by]
    found       \* "looking", "done" or "error": what pcap_findalldevs returned

devVars == <<platform, entries, todo, source, cards, plugged, devlist, found>>

None == -1
Name(base, num, sub) == [base |-> base, num |-> num, sub |-> sub]
Plain(base) == Name(base, None, None)

-----------------------------------------------------------------------------
(* Flags and merit.                                                         *)

Flags(up, running, loop, wifi, conn) ==
    [up |-> up, running |-> running, loop |-> loop, wifi |-> wifi, conn |-> conn]

NoFlags == Flags(FALSE, FALSE, FALSE, FALSE, "unknown")
NotApplicable(f) == [f EXCEPT !.conn = "not applicable"]

\* A mutant: loopback counts for nothing.
MeritOfLoopback(dev) ==
    (IF dev.flags.running THEN 0 ELSE 16) + (IF dev.flags.up THEN 0 ELSE 8)
    + (IF ~dev.flags.wifi /\ dev.flags.conn = "disconnected" THEN 4 ELSE 0)
    + (IF dev.name = Plain("any") THEN 1 ELSE 0)

\* get_figure_of_merit: less is better.  The weights are those of the bits.
GetFigureOfMerit(dev) ==
    (IF dev.flags.running THEN 0 ELSE 16) + (IF dev.flags.up THEN 0 ELSE 8)
    + (IF ~dev.flags.wifi /\ dev.flags.conn = "disconnected" THEN 4 ELSE 0)
    + (IF dev.flags.loop THEN 2 ELSE 0)
    + (IF dev.name = Plain("any") THEN 1 ELSE 0)

-----------------------------------------------------------------------------
(* The list.                                                                *)

\* pcapint_find_dev: is a device of that name listed, and where.
Listed(list, name) == \E k \in 1..Len(list) : list[k].name = name
FindDev(list, name) == CHOOSE k \in 1..Len(list) : list[k].name = name

\* pcapint_add_dev: the walk stops at the first device that is worse than this
\* one; the new one goes before it.
AddDev(list, dev) ==
    LET worse == {k \in 1..Len(list) : GetFigureOfMerit(dev) < GetFigureOfMerit(list[k])}
        at == IF worse = {} THEN Len(list) + 1
              ELSE CHOOSE k \in worse : \A j \in worse : k <= j
    IN  SubSeq(list, 1, at - 1) \o <<dev>> \o SubSeq(list, at, Len(list))

NewDev(name, flags, by) == [name |-> name, addrs |-> <<>>, flags |-> flags, by |-> by]

\* pcapint_add_addr_to_dev: at the end of the device's addresses.
AddAddrToDev(list, name, addr) ==
    [list EXCEPT ![FindDev(list, name)].addrs = Append(@, addr)]

\* A mutant: always added.
AlwaysAddDev(list, name, flags, by) == AddDev(list, NewDev(name, flags, by))

\* pcapint_find_or_add_if and pcapint_find_or_add_dev: the flags are those of the
\* first time.
FindOrAddDev(list, name, flags, by) ==
    IF Listed(list, name) THEN list ELSE AddDev(list, NewDev(name, flags, by))

-----------------------------------------------------------------------------
(* Network interfaces.                                                      *)

\* "eth0:1" is an address of eth0: the colon and the digits are cut off.
StripAlias(name) == [name EXCEPT !.sub = None]

Interface(name) == CHOOSE f \in Interfaces : f.name = name

\* pcapint_find_or_add_if: what the interface's own flags say.
IfFlags(f) == Flags(f.up, f.running, f.loop, FALSE, "unknown")

\* get_if_flags of each platform, the outcomes that are not errors.  The link's
\* state may be unknown to the driver ("none") or may have gone with the
\* interface.
Conn(link) == IF link = "up" THEN "connected" ELSE "disconnected"
LinuxFlags(f) ==
    LET g == IfFlags(f)
        w == [g EXCEPT !.wifi = f.wifi]
    IN  IF f.loop THEN {NotApplicable(g)}
        ELSE IF f.link = "none" THEN {NotApplicable(w)}
        ELSE {[w EXCEPT !.conn = Conn(f.link)], w}
BpfFlags(f) ==
    IF f.link = "none" THEN {NotApplicable(IfFlags(f)), [IfFlags(f) EXCEPT !.wifi = f.wifi]}
    ELSE {[IfFlags(f) EXCEPT !.wifi = f.wifi, !.conn = Conn(f.link)]}
HaikuFlags(f) ==
    IF f.loop THEN {NotApplicable(IfFlags(f))}
    ELSE {[IfFlags(f) EXCEPT !.wifi = f.wifi, !.conn = Conn(f.link)]}
DlpiFlags(f) == {IF f.loop THEN NotApplicable(IfFlags(f)) ELSE IfFlags(f)}
HurdFlags(f) == {NotApplicable(IfFlags(f))}

\* The hardware's status stands for up and running; an adapter that cannot be
\* opened has no flags.
NpfFlags(f) ==
    IF f.loop THEN {NotApplicable(Flags(TRUE, TRUE, TRUE, FALSE, "unknown"))}
    ELSE {NoFlags}
         \cup {Flags(up, up /\ f.running, FALSE, f.wifi,
                     IF f.link = "none" THEN "unknown" ELSE Conn(f.link)) : up \in BOOLEAN}

GetIfFlags(f) ==
    CASE platform = "linux" -> LinuxFlags(f)
      [] platform = "bpf" -> BpfFlags(f)
      [] platform = "haiku" -> HaikuFlags(f)
      [] platform = "hurd" -> HurdFlags(f)
      [] platform \in {"dlpi", "libdlpi"} -> DlpiFlags(f)
      [] platform = "npf" -> NpfFlags(f)

\* The platforms' tests of a name.  The Hurd cannot capture on lo; whether Haiku,
\* BPF and DLPI can capture on a loopback depends on the version: they try to
\* open it.  An error other than that there is no such device counts as usable.
HurdUsable(f) == {~f.loop}
HaikuUsable(f) == IF f.loop THEN {TRUE, FALSE} ELSE {TRUE}
CheckBpfBindable(f) == IF f.loop THEN {TRUE, FALSE} ELSE {TRUE}
IsDlpiInterface(f) == IF f.loop THEN {TRUE, FALSE} ELSE {TRUE}
CheckUsable(f) ==
    CASE platform = "hurd" -> HurdUsable(f)
      [] platform = "haiku" -> HaikuUsable(f)
      [] platform = "bpf" -> CheckBpfBindable(f)
      [] platform = "dlpi" -> IsDlpiInterface(f)
      [] OTHER -> {TRUE}

\* pcapint_add_addr_to_if: the device is found or added with the flags get_if_flags
\* gives, and gets the address, if the entry has one.
AddAddrToIf(list, e, flags) ==
    LET name == StripAlias(e.name)
        with == FindOrAddDev(list, name, flags, platform)
    IN  IF e.addr = "none" THEN with ELSE AddAddrToDev(with, name, e.addr)

\* Those of the addresses an entry may lack.
Addrs(es) == LET with == SelectSeq(es, LAMBDA e : e.addr # "none")
             IN  [k \in 1..Len(with) |-> with[k].addr]

\* pcap_add_if_npf: one device at a time, its addresses from the last one on;
\* PacketGetNetInfoEx gives them by adapter.
AddIfNpf(list, e, flags) ==
    LET mine == SelectSeq(entries, LAMBDA x : StripAlias(x.name) = StripAlias(e.name))
        dev == NewDev(StripAlias(e.name), flags, platform)
    IN  IF Listed(list, dev.name) THEN list
        ELSE AddDev(list, [dev EXCEPT !.addrs = Reverse(Addrs(mine))])

\* SITA's list is the answers of the I/O processors that answered in time, by
\* name, with what they say of each interface: its addresses, and whether it is
\* a loopback.  It replaces the list.
SitaList(answered) ==
    LET ifs == {Interface(n) : n \in {StripAlias(entries[k].name) : k \in answered}}
        byName == SetToSortSeq(ifs, LAMBDA f, g : f.rank < g.rank)
        of(f) == SelectSeq(entries, LAMBDA x : StripAlias(x.name) = f.name)
    IN  [k \in 1..Len(byName) |->
            [NewDev(byName[k].name, [NoFlags EXCEPT !.loop = byName[k].loop], "sita")
                EXCEPT !.addrs = Addrs(of(byName[k]))]]

-----------------------------------------------------------------------------
(* The other sources, in the order of capture_source_types.                 *)

SourceTypes == <<"dag", "septel", "snf", "tc", "bt", "btmon", "usb", "netfilter",
                 "netmap", "dbus", "rdma", "dpdk", "airpcap">>

\* What a source's findalldevs_op does: the devices it reports and their flags,
\* and how it may end before it has reported them all: with an error ("fails"), an
\* error it drops ("drops"), or, before the first, because the system does not
\* have it ("absent").  Sources of hardware that is absent report nothing.
Finds(names, flags, ends) == [names |-> names, flags |-> flags, ends |-> ends]
CardsOf(type, present) == {c.name : c \in {d \in present : d.type = type}}

\* Every board, and every stream of it that can be attached to.
DagFindalldevs(present) == Finds(CardsOf("dag", present), NoFlags, {"fails"})
SeptelFindalldevs == Finds({Plain("septel")}, NoFlags, {"fails"})
\* The ports, and with SNF_FLAGS the merged one.
SnfFindalldevs(present) == Finds(CardsOf("snf", present), NoFlags, {"fails"})
\* TurboCap's adds are not looked at.
TcFindalldevs(present) == Finds(CardsOf("tc", present), NoFlags, {"drops"})
BtFindalldevs(present) ==
    Finds(CardsOf("bt", present), [NoFlags EXCEPT !.wifi = TRUE], {"fails"})
BtMonitorFindalldevs ==
    Finds({Plain("bluetooth-monitor")}, NotApplicable([NoFlags EXCEPT !.wifi = TRUE]), {"fails"})
\* The loop ends at an error of usb_dev_add; 0 is returned all the same.
UsbFindalldevs(present) == Finds(CardsOf("usb", present), NoFlags, {"drops"})
NetfilterFindalldevs ==
    Finds({Plain("nflog"), Plain("nfqueue")}, NotApplicable(NoFlags), {"absent", "fails"})
NetmapFindalldevs == Finds({}, NoFlags, {})
DbusFindalldevs ==
    Finds({Plain("dbus-system"), Plain("dbus-session")}, NotApplicable(NoFlags), {"fails"})
RdmasniffFindalldevs(present) == Finds(CardsOf("rdma", present), NoFlags, {"fails"})
DpdkFindalldevs(present) == Finds(CardsOf("dpdk", present), NoFlags, {"fails"})
AirpcapFindalldevs(present) == Finds(CardsOf("airpcap", present), NoFlags, {"fails"})

FindalldevsOp(type, present) ==
    CASE type = "dag" -> DagFindalldevs(present)
      [] type = "septel" -> SeptelFindalldevs
      [] type = "snf" -> SnfFindalldevs(present)
      [] type = "tc" -> TcFindalldevs(present)
      [] type = "bt" -> BtFindalldevs(present)
      [] type = "btmon" -> BtMonitorFindalldevs
      [] type = "usb" -> UsbFindalldevs(present)
      [] type = "netfilter" -> NetfilterFindalldevs
      [] type = "netmap" -> NetmapFindalldevs
      [] type = "dbus" -> DbusFindalldevs
      [] type = "rdma" -> RdmasniffFindalldevs(present)
      [] type = "dpdk" -> DpdkFindalldevs(present)
      [] type = "airpcap" -> AirpcapFindalldevs(present)

\* snf_findalldevs changes the description of an interface that is listed
\* already; the others add what they find.  usbmon0 is all the buses, and the
\* merged port of snf is no port: neither is connected or not.
AddReported(list, type, name) ==
    LET flags == FindalldevsOp(type, plugged).flags
    IN  IF type = "snf" /\ name.base # "snf" THEN FindOrAddDev(list, name, flags, type)
        ELSE IF type = "snf" \/ (type = "usb" /\ name.num = 0)
             THEN AddDev(list, NewDev(name, NotApplicable(flags), type))
        ELSE AddDev(list, NewDev(name, flags, type))

DagMaxBoards == 2
DagStreamMax == 4

(* The create functions: is the name theirs?  Some look at the name alone,   *)
(* some at what is plugged in.                                              *)
DagCreate(n) ==
    /\ n.base = "dag" /\ n.num \in 0..(DagMaxBoards - 1)
    /\ n.sub \in {None} \cup 0..(DagStreamMax - 1)
SeptelCreate(n) == n = Plain("septel")
SnfCreate(n, present) == n \in CardsOf("snf", present) \/ (n.base = "snf" /\ n.num # None)
TcCreate(n, present) == n \in CardsOf("tc", present)
\* A mutant: that there is a number is not looked at.
BtCreateByPrefix(n) == n.base \in {"bluetooth", "bluetooth-monitor"}
BtCreate(n) == n.base = "bluetooth" /\ n.num # None /\ n.sub = None
BtMonitorCreate(n) == n = Plain("bluetooth-monitor")
UsbCreate(n) == n.base = "usbmon" /\ n.num # None /\ n.sub = None
NetfilterCreate(n) == n.base \in {"nflog", "nfqueue"} /\ n.num = None
NetmapCreate(n) == n.base \in {"netmap:", "vale"}
DbusCreate(n) == n \in {Plain("dbus-system"), Plain("dbus-session")} \/ n.base = "dbus://"
\* "name:port", for a port that is not 0.
RdmasniffCreate(n, present) ==
    [n EXCEPT !.sub = IF @ = 0 THEN 0 ELSE None] \in CardsOf("rdma", present)
DpdkCreate(n) == n.base = "dpdk:"
AirpcapCreate(n) == n.base = "airpcap"

CreateOp(type, n, present) ==
    CASE type = "dag" -> DagCreate(n)
      [] type = "septel" -> SeptelCreate(n)
      [] type = "snf" -> SnfCreate(n, present)
      [] type = "tc" -> TcCreate(n, present)
      [] type = "bt" -> BtCreate(n)
      [] type = "btmon" -> BtMonitorCreate(n)
      [] type = "usb" -> UsbCreate(n)
      [] type = "netfilter" -> NetfilterCreate(n)
      [] type = "netmap" -> NetmapCreate(n)
      [] type = "dbus" -> DbusCreate(n)
      [] type = "rdma" -> RdmasniffCreate(n, present)
      [] type = "dpdk" -> DpdkCreate(n)
      [] type = "airpcap" -> AirpcapCreate(n)

\* pcap_create: the first source that says so, or the platform.
OpenedBy(n, present) ==
    LET theirs == {k \in 1..Len(SourceTypes) : CreateOp(SourceTypes[k], n, present)}
    IN  IF theirs = {} THEN platform
        ELSE SourceTypes[CHOOSE k \in theirs : \A j \in theirs : k <= j]

-----------------------------------------------------------------------------
(* pcap_findalldevs.                                                        *)

\* SIOCGIFCONF (fad-gifc.c) fills the buffer with what fits and does not say that
\* there is more: the buffer is doubled until there was room for another entry.
GifcReport(reported) ==
    LET room(k) == 2^k
        fits(k) == IF Len(reported) < room(k) THEN Len(reported) ELSE room(k)
        enough == CHOOSE k \in 1..(MaxEntries + 1) :
                    /\ room(k) - fits(k) > 1
                    /\ \A j \in 1..(k - 1) : room(j) - fits(j) <= 1
    IN  SubSeq(reported, 1, fits(enough))

DevInit ==
    /\ platform \in Platforms
    /\ entries \in UNION {[1..n -> Entries] : n \in 0..MaxEntries}
    /\ IsInjective(entries)
    /\ todo = IF platform = "dlpi" THEN GifcReport(entries) ELSE entries
    /\ source = 0 /\ cards = {}
    /\ plugged \in {Cards, {}}
    /\ devlist = <<>>
    /\ found = "looking"

\* An error anywhere frees the list; the caller gets none.
DevError ==
    /\ devlist' = <<>>
    /\ found' = "error"
    /\ UNCHANGED <<platform, entries, todo, source, cards, plugged>>

Walking(on) == found = "looking" /\ source = 0 /\ todo # <<>> /\ platform \in on

Adds(e, f) == \E flags \in GetIfFlags(f) : devlist' = AddAddrToIf(devlist, e, flags)

\* getifaddrs (fad-getad.c): the alias is cut off, a name that is not usable is
\* skipped; the flags or memory may fail.
GetadEntry ==
    /\ Walking({"linux", "bpf", "haiku", "hurd"})
    /\ LET e == Head(todo)
           f == Interface(StripAlias(e.name))
       IN  \/ /\ \/ TRUE \in CheckUsable(f) /\ Adds(e, f)
                 \/ FALSE \in CheckUsable(f) /\ UNCHANGED devlist
              /\ todo' = Tail(todo)
              /\ UNCHANGED <<platform, entries, source, cards, plugged, found>>
           \/ DevError

\* SIOCGLIFCONF and SIOCGIFCONF (fad-glifc.c, fad-gifc.c): the name is tested with
\* its alias; the interface may have gone when its flags are asked for, and its
\* entry with it; every other request may fail.  The alias is cut off at the end.
GlifcEntry ==
    /\ Walking({"libdlpi", "dlpi"})
    /\ LET e == Head(todo)
           f == Interface(StripAlias(e.name))
       IN  \/ /\ \/ TRUE \in CheckUsable(f) /\ Adds(e, f) /\ UNCHANGED entries
                 \/ FALSE \in CheckUsable(f) /\ UNCHANGED <<devlist, entries>>
                 \/ entries' = SelectSeq(entries, LAMBDA x : x # e) /\ UNCHANGED devlist
              /\ todo' = Tail(todo)
              /\ UNCHANGED <<platform, source, cards, plugged, found>>
           \/ DevError

\* PacketGetAdapterNames: the adapters one by one; AirPcap ones are left to their
\* own source.
NpfAdapter ==
    /\ Walking({"npf"})
    /\ LET e == Head(todo)
       IN  \/ /\ \E flags \in GetIfFlags(Interface(StripAlias(e.name))) :
                    devlist' = AddIfNpf(devlist, e, flags)
              /\ todo' = Tail(todo)
              /\ UNCHANGED <<platform, entries, source, cards, plugged, found>>
           \/ DevError

AnyDev == NewDev(Plain("any"), Flags(TRUE, TRUE, FALSE, FALSE, "not applicable"), "linux")

\* What the platform adds after its interfaces: FreeBSD the USB buses that have no
\* interface yet, Solaris with DLPI the ATM units, which are not looked for in the
\* list, and with libdlpi every link.
FinddevsUsb == FindOrAddDev(devlist, Name("usbus", 0, None), [NoFlags EXCEPT !.up = TRUE], "bpf")
AtmUnits == AddDev(devlist, NewDev(Name("ba", 0, None), NoFlags, "dlpi"))
DlpiLinks == FindOrAddDev(devlist, Name("net", 0, None), NoFlags, "libdlpi")
PlatformFinddevs ==
    CASE platform = "linux" -> AddDev(devlist, AnyDev)
      [] platform = "bpf" -> FinddevsUsb
      [] platform = "dlpi" -> AtmUnits
      [] platform = "libdlpi" -> DlpiLinks
      [] OTHER -> devlist

PlatformEnds ==
    /\ found = "looking" /\ source = 0 /\ todo = <<>>
    /\ \/ /\ devlist' = PlatformFinddevs
          /\ source' = 1
          /\ cards' = FindalldevsOp(SourceTypes[1], plugged).names
          /\ UNCHANGED <<platform, entries, todo, plugged, found>>
       \/ /\ platform \in {"linux", "bpf", "dlpi", "libdlpi"}
          /\ DevError

\* acn_findalldevs: a processor that does not answer has no part in the list.
SitaFinds ==
    /\ Walking({"sita"})
    /\ \/ /\ \E answered \in SUBSET (1..Len(entries)) : devlist' = SitaList(answered)
          /\ todo' = <<>>
          /\ UNCHANGED <<platform, entries, source, cards, plugged, found>>
       \/ DevError

Asking == found = "looking" /\ source \in 1..Len(SourceTypes)
Op == FindalldevsOp(SourceTypes[source], plugged)

\* The source lists its next device.
SourceAdds ==
    /\ Asking /\ cards # {}
    /\ LET n == CHOOSE n \in cards : TRUE
       IN  /\ devlist' = AddReported(devlist, SourceTypes[source], n)
           /\ cards' = cards \ {n}
    /\ UNCHANGED <<platform, entries, todo, source, plugged, found>>

SourceEnds ==
    /\ Asking
    /\ cards = {} \/ "drops" \in Op.ends \/ ("absent" \in Op.ends /\ cards = Op.names)
    /\ source' = source + 1
    /\ cards' = IF source < Len(SourceTypes)
                THEN FindalldevsOp(SourceTypes[source + 1], plugged).names ELSE {}
    /\ UNCHANGED <<platform, entries, todo, plugged, devlist, found>>

SourceFails == Asking /\ "fails" \in Op.ends /\ DevError

\* Every source was asked.
FindalldevsReturns ==
    /\ found = "looking" /\ source > Len(SourceTypes)
    /\ found' = "done"
    /\ UNCHANGED <<platform, entries, todo, source, cards, plugged, devlist>>

\* A card, one, is unplugged between the calls.
Unplug ==
    /\ found = "done" /\ plugged = Cards
    /\ \E c \in plugged : plugged' = plugged \ {c}
    /\ UNCHANGED <<platform, entries, todo, source, cards, devlist, found>>

DevNext ==
    \/ GetadEntry \/ GlifcEntry \/ NpfAdapter \/ SitaFinds \/ PlatformEnds \/ SourceAdds \/ SourceEnds \/ SourceFails
    \/ FindalldevsReturns \/ Unplug

DevSpec == DevInit /\ [][DevNext]_devVars

\* pcap_lookupdev: the first device, if it is not a loopback.
Lookupdev == IF devlist = <<>> \/ devlist[1].flags.loop THEN <<>> ELSE <<devlist[1]>>

-----------------------------------------------------------------------------
(* Properties.                                                              *)

\* The list is in the order of merit at every step; SITA's, which is in the
\* order of the names, is not.
SortedByMerit ==
    platform # "sita" =>
        \A j, k \in 1..Len(devlist) :
            j < k => GetFigureOfMerit(devlist[j]) <= GetFigureOfMerit(devlist[k])

\* pcap_lookupdev (pcap.c) finds a device that no other is better than, and
\* finds one whenever some interface is running, is not a loopback, and is not
\* known to be unplugged: whatever the order in which the system, the cards and
\* the "any" device were reported, and however often an address came back to a
\* device that was listed.
LookupFindsBest ==
    found = "done" /\ platform # "sita" =>
        /\ \A d \in Range(Lookupdev), k \in 1..Len(devlist) :
              GetFigureOfMerit(d) <= GetFigureOfMerit(devlist[k])
        /\ (\E k \in 1..Len(devlist) : GetFigureOfMerit(devlist[k]) < 2)
              => \A d \in {Lookupdev} : d # <<>> /\ GetFigureOfMerit(d[1]) < 2

\* No device is listed twice, though an interface has several addresses, some of
\* them under alias names, and a card may be an interface too (pcap.c,
\* pcap-snf.c).  The ATM units of DLPI are added without being looked for.
EachDeviceOnce ==
    \A j, k \in 1..Len(devlist) :
        j # k /\ devlist[j].name = devlist[k].name
            => platform = "dlpi" /\ devlist[j].name.base = "ba"

\* When the call succeeds, an interface that is listed has every address that was
\* reported for it or for an alias of it, once, in the order of the report; Npcap
\* gives them in the opposite order (fad-getad.c, pcap-npf.c).
AddressesComplete ==
    found = "done" =>
        \A k \in 1..Len(devlist) :
            LET d == devlist[k]
                addrs == Addrs(SelectSeq(entries, LAMBDA e : StripAlias(e.name) = d.name))
            IN  d.by = platform /\ (platform = "dlpi" => d.name.base # "ba")
                    => d.addrs = IF platform = "npf" THEN Reverse(addrs) ELSE addrs

\* The list names each device once, with all of its addresses.
DeviceListExact == EachDeviceOnce /\ AddressesComplete

\* pcap_create gives a name that was listed to the source that listed it, as long
\* as its hardware is there, and to the platform when it is gone and the source
\* looks for it; an interface that is also a Myricom card is opened as the card.
OpensWhatWasListed ==
    found = "done" =>
        \A k \in 1..Len(devlist) :
            LET d == devlist[k]
                card == d.name \in {c.name : c \in Cards}
                here == d.name \in {c.name : c \in plugged}
                by == OpenedBy(d.name, plugged)
            IN  \/ by = d.by /\ (card /\ d.by \in {"tc", "rdma"} => here)
                \/ by = platform /\ card /\ ~here
                \/ by = "snf" /\ here
=============================================================================
