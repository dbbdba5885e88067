----------------------------- MODULE Lifecycle -----------------------------
(***************************************************************************)
(* Activating and closing a handle on the sources other than Linux's       *)
(* packet sockets (those are PcapHandle's): what each activate_op opens,   *)
(* allocates and changes, in its order, what every failing call on the way *)
(* undoes, and what the source's cleanup_op gives back.                    *)
(*                                                                         *)
(* An activation is a sequence of steps, one for each call that acquires   *)
(* something or can fail.  `held' is the truth: what is open, allocated or *)
(* changed.  `refs' is what the handle knows: the fields of pcap_t and of  *)
(* its private structure that are not NULL, -1 or 0.  The two differ where *)
(* the code loses track of something, or keeps what it has given back.     *)
(***************************************************************************)
EXTENDS Naturals, Sequences, FiniteSets

CONSTANT Kinds          \* the sources

VARIABLES
    kind,       \* the source the handle is for
    opt,        \* what was asked for, and what the system turns out to be
    at,         \* "created", "activating", "active", "failed", "closed", "exited"
    i,          \* the next step of the activation
    held,       \* what is open, allocated or changed
    refs,       \* what the handle refers to
    own,        \* cleanup_op is the source's own, not pcapint_cleanup_live_common
    stray       \* what was given back while it was not held

vars == <<kind, opt, at, i, held, refs, own, stray>>

AllKinds == {"bpf", "npf", "dlpi", "libdlpi", "usb", "bt", "btmon", "netfilter",
             "netmap", "dag", "snf", "tc", "dpdk", "airpcap", "haiku", "hurd",
             "rdma", "dbus", "sita", "septel"}

ASSUME KindsAssumption == Kinds \subseteq AllKinds

-----------------------------------------------------------------------------
(* Steps, and what their failure does.                                      *)

\* What a failing call leads to: what the error path gives back itself, what
\* it gives back if the handle refers to it, what it makes the handle forget,
\* and what it calls: nothing, the source's cleanup or the common one.
\* "go on": the failure is not one.
Handler(drops, ifs, forgets, then) ==
    [drops |-> drops, ifs |-> ifs, forgets |-> forgets, then |-> then]

Return == Handler({}, {}, {}, "return")
Cleanup == Handler({}, {}, {}, "cleanup")
Common == Handler({}, {}, {}, "common")
GoOn == Handler({}, {}, {}, "go on")
Frees(s, h) == [h EXCEPT !.drops = @ \cup s]
FreesKnown(s, h) == [h EXCEPT !.ifs = @ \cup s]
Forgets(s, h) == [h EXCEPT !.forgets = @ \cup s]

Step(gets, points, drops, fails) ==
    [gets |-> gets, points |-> points, drops |-> drops, fails |-> fails,
     sure |-> FALSE, needs |-> {}]

\* A call that may fail; a test of what the handle refers to, and one that
\* always fails; something acquired and stored in the handle, or kept in a
\* local variable; a local given back; a field set to what something else owns.
Calls(h) == Step({}, {}, {}, {h})
Tests(s, h) == [Calls(h) EXCEPT !.sure = TRUE, !.needs = s]
Fails(h) == Tests({"nothing"}, h)
Holds(r, h) == Step({r}, {r}, {}, {h})
Sets(r) == Step({r}, {r}, {}, {})
Opens(r, h) == Step({r}, {}, {}, {h})
Drops(r) == Step({}, {}, {r}, {})
Points(r) == Step({}, {r}, {}, {})

If(c, steps) == IF c THEN steps ELSE <<>>

-----------------------------------------------------------------------------
(* BPF (pcap-bpf.c).                                                        *)

\* bpf_open: the cloning device or the first /dev/bpfN that is not busy.
BpfOpen == <<Holds("fd", Cleanup)>>

\* The version of the driver; the copy of the device's name.
BpfStart == <<Calls(Cleanup), Holds("bpf_device", Cleanup)>>

\* Darwin 8 captures in monitor mode on a wltN device: the option's name is
\* replaced.  An enN device that is not there is looked for with a socket.
BpfWlt(o) ==
    If("wlt" \in o, <<Opens("wltdev", Cleanup),
                      Step({"opt.device"}, {"opt.device"}, {"opt.device", "wltdev"}, {})>>)
    \o If("not_en" \in o, <<Opens("probe_sock", Cleanup), Drops("probe_sock"), Fails(Cleanup)>>)

\* A mutant: the handle is not put on pcaps_to_close.
BpfUsbusUnlisted(o) ==
    If("usbus" \in o, <<Opens("usbus_sock", Cleanup),
                        Calls(Frees({"usbus_sock"}, Cleanup)),
                        Holds("usbus_if", Frees({"usbus_sock"}, Cleanup))>>)

\* FreeBSD's usbusN: the interface is created if it does not exist.  The socket
\* it is created with is closed on the error paths alone.
BpfUsbus(o) ==
    If("usbus" \in o, <<Opens("usbus_sock", Cleanup),
                        Calls(Frees({"usbus_sock"}, Cleanup)),
                        Holds("usbus_if", Frees({"usbus_sock"}, Cleanup)),
                        Sets("listed")>>)

\* The two zero-copy buffers are mapped one after the other, the results tested
\* together; then they are given to the driver.
BpfZerocopy(o) ==
    If("zerocopy" \in o, <<Calls(Cleanup), Holds("zbuf1", GoOn), Holds("zbuf2", GoOn),
                           Tests({"zbuf1", "zbuf2"}, Cleanup), Calls(Cleanup)>>)

\* bpf_bind: BIOCSETIF, which acquires nothing.
BpfBindTo == Calls(Cleanup)

\* The buffer's size is halved while the driver says it is too big.
BpfBind == <<BpfBindTo>>

\* get_dlt_list gives no list where the driver has none.
GetDltList == Step({"dlt_list"}, {"dlt_list"}, {}, {GoOn, Cleanup})

\* BIOCGDLT, and the list; for an Ethernet one is made up.
BpfDltList == <<Calls(Cleanup), GetDltList>>

\* A mutant: the error path of the ioctl forgets the list of media.
MonitorModeKeepsMedia ==
    <<Opens("media_sock", Cleanup), Calls(Frees({"media_sock"}, Cleanup)),
      Opens("media_list", Frees({"media_sock"}, Cleanup)),
      Calls(Frees({"media_sock"}, Cleanup)), Drops("media_list"),
      Calls(Frees({"media_sock"}, Cleanup)), Calls(Frees({"media_sock"}, Cleanup)),
      Holds("monitor_mode", Frees({"media_sock"}, Cleanup)), Sets("listed")>>

\* monitor_mode(p, 1): the media are listed, and IFM_IEEE80211_MONITOR is set.
\* Every error closes the socket; success does not.
BpfMonitorMode ==
    <<Opens("media_sock", Cleanup), Calls(Frees({"media_sock"}, Cleanup)),
      Opens("media_list", Frees({"media_sock"}, Cleanup)),
      Calls(Frees({"media_sock", "media_list"}, Cleanup)), Drops("media_list"),
      Calls(Frees({"media_sock"}, Cleanup)), Calls(Frees({"media_sock"}, Cleanup)),
      Holds("monitor_mode", Frees({"media_sock"}, Cleanup)), Sets("listed")>>

\* The rest: BIOCSHDRCMPLT, the timeout, immediate mode, BIOCPROMISC (whose
\* failure is a warning), BIOCSTSTAMP, BIOCGBLEN, the buffer, the empty filter.
BpfFinish(o) ==
    <<Calls(Cleanup), Calls(GoOn), Calls(Cleanup)>>
    \o If("zerocopy" \notin o, <<Holds("buffer", Cleanup)>>) \o <<Calls(Cleanup)>>

PcapActivateBpf(o) ==
    BpfOpen \o BpfStart \o BpfWlt(o) \o BpfUsbus(o) \o BpfZerocopy(o) \o BpfBind
    \o BpfDltList \o If("rfmon" \in o, BpfMonitorMode) \o BpfFinish(o)

-----------------------------------------------------------------------------
(* Windows: Npcap and WinPcap (pcap-npf.c), AirPcap, TurboCap.              *)

\* The monitor mode is set by name before the adapter is opened.  A device
\* that is not there or may not be opened leaves it set; other errors reset it.
NpfOpen(o) ==
    If("rfmon" \in o, <<Holds("monitor_mode", Return)>>)
    \o <<Step({"adapter"}, {"adapter"}, {},
              {Return, FreesKnown({"monitor_mode"}, Return)})>>

\* The medium, its list of types, the time stamps, the hardware filter.
NpfMedium == <<Calls(Cleanup), Holds("dlt_list", Cleanup), Calls(Cleanup), Calls(Cleanup)>>

\* The kernel's and the user's buffer, or a DAG card's settings; the filter
\* that accepts everything; the loopback behaviour.
NpfBuffers(o) ==
    If("dag" \notin o, <<Calls(Cleanup), Holds("buffer", Cleanup), Calls(Cleanup)>>)
    \o <<Calls(Cleanup), Calls(Cleanup)>>

PcapActivateNpf(o) == NpfOpen(o) \o NpfMedium \o NpfBuffers(o)

\* An adapter whose MAC flags cannot be set is closed on the spot.
AirpcapActivate ==
    <<Holds("adapter", Return), Calls(Frees({"adapter"}, Return)),
      Calls(Cleanup), Calls(Cleanup), Holds("buffer", Cleanup), Calls(Cleanup),
      Calls(Cleanup), Holds("dlt_list", Cleanup)>>

TcActivate(o) ==
    If("rfmon" \in o, <<Fails(Return)>>)
    \o <<Holds("ppi", Return), Holds("instance", Return), Holds("dlt_list", Return),
         Calls(Cleanup), Calls(GoOn), Calls(Cleanup)>>

-----------------------------------------------------------------------------
(* DLPI, by hand (pcap-dlpi.c) and through libdlpi.                         *)

\* get_dlpi_ppa of HP-UX: the units are read into a buffer, which is freed on some
\* of the error paths.
GetDlpiPpa(fails) ==
    <<Calls(fails), Opens("ppa_data", fails),
      Step({}, {}, {}, {fails, Frees({"ppa_data"}, fails)}), Drops("ppa_data")>>

\* open_dlpi_device: a device whose unit cannot be found is closed again.
OpenDlpiDevice(o) ==
    <<Opens("fd", Cleanup)>> \o If("hp" \in o, GetDlpiPpa(Frees({"fd"}, Cleanup)))
    \o <<Calls(Frees({"fd"}, Cleanup)), Points("fd")>>

\* dlpromiscon; pcap_process_mactype, whose list an Ethernet has; pcap_conf_bufmod.
DlPromiscon == Calls(Cleanup)
ProcessMactype == Holds("dlt_list", Cleanup)
ConfBufmod == Calls(Cleanup)

\* HP-UX sends through a second descriptor, if it can be opened.
DlpiAttach(o) ==
    If("hp" \in o, <<Holds("send_fd", GoOn)>>)
    \o <<Calls(Cleanup), Calls(Cleanup)>> \o If("rfmon" \in o, <<Fails(Cleanup)>>)

\* Binding, promiscuous modes, the mac type with its list, bufmod, the flush
\* and the buffer.
DlpiBind ==
    <<Calls(Cleanup), DlPromiscon, Calls(Cleanup), ProcessMactype,
      ConfBufmod, Calls(Cleanup), Holds("buffer", Cleanup)>>

PcapActivateDlpi(o) == OpenDlpiDevice(o) \o DlpiAttach(o) \o DlpiBind

PcapLibdlpiPromiscon == Calls(Cleanup)

\* The descriptor belongs to the dlpi handle.
PcapActivateLibdlpi(o) ==
    <<Holds("dlpi_hd", Return)>> \o If("rfmon" \in o, <<Fails(Cleanup)>>)
    \o <<Calls(Cleanup), PcapLibdlpiPromiscon, Calls(Cleanup), ProcessMactype,
         Points("fd"), ConfBufmod, Calls(Cleanup), Holds("buffer", Cleanup)>>

-----------------------------------------------------------------------------
(* Linux: USB, Bluetooth, netfilter, D-Bus, RDMA.                           *)

\* usb_mmap: the ring is made as large as it can be, and mapped.
UsbMmap == Sets("mmapbuf")

\* Errors close the descriptor and leave its number in the handle.
UsbActivate(o) ==
    <<Calls(Return), Holds("fd", Return)>>
    \o If("rfmon" \in o, <<Fails(Frees({"fd"}, Return))>>)
    \o IF "mmap" \in o THEN <<UsbMmap>>
       ELSE <<Calls(Frees({"fd"}, Return)), Holds("buffer", Frees({"fd"}, Return))>>

BtActivate(o) ==
    <<Calls(Return), Holds("fd", Return), Holds("buffer", Common), Calls(Common),
      Calls(Common)>>
    \o If("rfmon" \in o, <<Fails(Common)>>) \o <<Calls(Common)>>

BtMonitorActivate(o) ==
    If("rfmon" \in o, <<Fails(Return)>>)
    \o <<Holds("fd", Return), Holds("buffer", Common), Calls(Common), Calls(Common)>>

\* netfilter_send_config_msg and the messages sent with it: an answer is waited for.
NetfilterSendConfig == Calls(Common)

\* The groups are parsed first; the configuration is sent group by group.
NetfilterActivate(o) ==
    <<Calls(Return), Holds("fd", Return)>>
    \o If("nflog" \in o, <<Holds("dlt_list", Common)>>)
    \o <<Holds("buffer", Common), NetfilterSendConfig, NetfilterSendConfig, NetfilterSendConfig>>
    \o If("rfmon" \in o, <<Fails(Common)>>) \o <<Calls(Common)>>

\* A bus given by its address is opened, then registered with.
DbusActivate(o) ==
    <<Holds("conn", Return)>> \o If("address" \in o, <<Calls(Return)>>)
    \o If("rfmon" \in o, <<Fails(Cleanup)>>) \o <<Calls(Cleanup)>>

RdmaParts == {"context", "pd", "channel", "cq", "qp", "flow", "mr", "oneshot"}

\* Every error gives back what was acquired so far, and not the packet buffer.
RdmasniffActivate ==
    LET error == FreesKnown(RdmaParts, Return)
    IN  <<Holds("context", error), Holds("pd", error), Holds("channel", error),
          Holds("cq", error), Holds("qp", error), Calls(error), Holds("flow", error),
          Holds("buffer", error), Holds("oneshot", error), Holds("mr", error)>>

-----------------------------------------------------------------------------
(* Cards and the other systems.                                             *)

\* failclose, faildetach and failstop fall through to one another.
DagFail == Frees({"newDev"}, Common)
DagFailClose == Forgets({"fd", "dag_ref"}, Frees({"dag_ref"}, DagFail))
DagFailDetach == Frees({"stream"}, DagFailClose)
DagFailStop == Frees({"started"}, DagFailDetach)

DagActivate ==
    <<Opens("newDev", Common), Calls(DagFail), Holds("dag_ref", DagFail),
      Calls(DagFailClose), Points("fd"), Opens("stream", DagFailClose),
      Calls(DagFailDetach), Opens("started", DagFailDetach), Calls(DagFailStop),
      Holds("listed", DagFailStop), Drops("newDev")>>

SnfActivate == <<Holds("snf_handle", Return), Holds("ring", Return), Calls(Return)>>

\* nm_open gives a descriptor that belongs to the netmap descriptor.
NetmapActivate(o) ==
    <<Step({"nm_desc", "fd"}, {"nm_desc", "fd"}, {}, {Common})>>
    \o If("promisc" \in o, <<Sets("promisc")>>)

\* dpdk_pre_init: the library is set up once in a process, and its failure is kept.
DpdkPreInit == Calls(Common)

\* The pool and the transmit buffer are never given back.  p->fd is the number
\* of the port, not a descriptor.
DpdkActivate(o) ==
    <<DpdkPreInit, Opens("mbuf_pool", Common), Opens("port", Common),
      Calls(Common), Opens("tx_buffer", Common), Opens("running", Common)>>
    \o If("promisc" \in o, <<Sets("port_promisc")>>)
    \o <<Calls(Common), Points("fd")>>

\* Promiscuous mode is set unless it was already; that it cannot be set is a
\* warning.
HaikuActivate(o) ==
    <<Holds("aux_socket", Cleanup), Calls(Cleanup), Holds("fd", Cleanup), Calls(Cleanup),
      Holds("buffer", Cleanup)>>
    \o If("promisc" \in o, <<Calls(Forgets({"orig_unset"}, Cleanup)),
                             IF "others" \in o THEN Fails(Forgets({"orig_unset"}, GoOn))
                             ELSE Opens("promisc", GoOn)>>)

HurdActivate ==
    <<Opens("master", Cleanup), Holds("mach_dev", Frees({"master"}, Cleanup)),
      Drops("master"), Holds("rcv_port", Cleanup), Holds("buffer", Cleanup)>>

\* open_with_IOP: the unit's socket, unless it is refused.
OpenWithIop(o) ==
    <<Opens("iop_sock", Return),
      IF "refused" \in o THEN Fails(GoOn) ELSE Step({"fd"}, {}, {"iop_sock"}, {})>>

\* acn_open_live: a socket that cannot be connected is left open, and the
\* unit's descriptor, 0, is used; the unit keeps its socket on an error answer.
SitaActivate(o) ==
    If("rfmon" \in o, <<Fails(Return)>>)
    \o <<Calls(Return)>> \o OpenWithIop(o)
    \o <<Calls(Return), Points("fd"), Holds("buffer", Cleanup)>>

Script(k, o) ==
    CASE k = "bpf" -> PcapActivateBpf(o)
      [] k = "npf" -> PcapActivateNpf(o)
      [] k = "airpcap" -> AirpcapActivate
      [] k = "tc" -> TcActivate(o)
      [] k = "dlpi" -> PcapActivateDlpi(o)
      [] k = "libdlpi" -> PcapActivateLibdlpi(o)
      [] k = "usb" -> UsbActivate(o)
      [] k = "bt" -> BtActivate(o)
      [] k = "btmon" -> BtMonitorActivate(o)
      [] k = "netfilter" -> NetfilterActivate(o)
      [] k = "dbus" -> DbusActivate(o)
      [] k = "rdma" -> RdmasniffActivate
      [] k = "dag" -> DagActivate
      [] k = "snf" -> SnfActivate
      [] k = "netmap" -> NetmapActivate(o)
      [] k = "dpdk" -> DpdkActivate(o)
      [] k = "haiku" -> HaikuActivate(o)
      [] k = "hurd" -> HurdActivate
      [] k = "sita" -> SitaActivate(o)
      [] k = "septel" -> <<>>

\* What may be asked for, and how the system may turn out.
Options(k) ==
    CASE k = "bpf" -> (SUBSET {"rfmon", "zerocopy"})
                      \cup {{"usbus"}, {"usbus", "zerocopy"}, {"wlt"}, {"not_en"}}
      [] k = "npf" -> SUBSET {"rfmon", "dag"}
      [] k = "dlpi" -> SUBSET {"rfmon", "hp"}
      [] k = "usb" -> SUBSET {"rfmon", "mmap"}
      [] k = "netfilter" -> SUBSET {"rfmon", "nflog"}
      [] k = "dbus" -> SUBSET {"rfmon", "address"}
      [] k \in {"netmap", "dpdk"} -> SUBSET {"promisc"}
      [] k = "haiku" -> SUBSET {"promisc", "others"}
      [] k = "sita" -> SUBSET {"rfmon", "refused"}
      [] k \in {"tc", "libdlpi", "bt", "btmon"} -> SUBSET {"rfmon"}
      [] OTHER -> {{}}

-----------------------------------------------------------------------------
(* Giving it back.                                                          *)

\* What pcapint_cleanup_live_common frees and closes, and forgets.
CommonFields == {"opt.device", "buffer", "dlt_list", "tstamp_list", "fd"}

\* A cleanup_op: the fields it tests before it gives back what they refer to, what
\* it gives back without a test, and the fields it resets, which a second cleanup
\* then leaves alone.
Cleaner(tests, always, resets) == [tests |-> tests, always |-> always, resets |-> resets]

PcapCleanupBpf(o) ==
    LET zbufs == IF "zerocopy" \in o THEN {"zbuf1", "zbuf2"} ELSE {}
    IN  Cleaner({"monitor_mode", "usbus_if", "listed", "bpf_device"} \cup zbufs, {},
                {"monitor_mode", "usbus_if", "listed", "bpf_device"})
PcapCleanupNpf == Cleaner({"adapter", "monitor_mode"}, {}, {"adapter"})
AirpcapCleanup == Cleaner({"adapter"}, {}, {"adapter"})
TcCleanup == Cleaner({"packets", "instance", "ppi"}, {}, {"packets", "instance", "ppi"})
PcapCleanupDlpi == Cleaner({"send_fd"}, {}, {"send_fd"})
\* A mutant: the descriptor that belongs to the dlpi handle is not forgotten.
CleanupKeepsFd == Cleaner({"dlpi_hd"}, {}, {"dlpi_hd"})
PcapCleanupLibdlpi == Cleaner({"dlpi_hd"}, {}, {"dlpi_hd", "fd"})
UsbCleanupLinuxMmap == Cleaner({"mmapbuf"}, {}, {"mmapbuf"})
DagPlatformCleanup == Cleaner({"dag_ref"}, {"started", "stream", "listed"}, {"dag_ref", "fd"})
SnfPlatformCleanup == Cleaner({"inject"}, {"ring", "snf_handle"}, {})
PcapNetmapClose == Cleaner({"promisc"}, {"nm_desc", "fd"}, {})
PcapDpdkClose == Cleaner({"port_promisc"}, {"running", "port"}, {})
RdmasniffCleanup == Cleaner({}, RdmaParts, {})
DbusCleanup == Cleaner({}, {"conn"}, {})
PcapCleanupHurd == Cleaner({"rcv_port", "mach_dev"}, {}, {"rcv_port", "mach_dev"})
\* close_with_IOP closes the unit's socket if there is one.
PcapCleanupAcn(h) == Cleaner({}, {"fd"} \cap h, {})
\* The flag of an interface that is promiscuous now and was not when the activation
\* looked is cleared.
PcapCleanupHaiku(o, h, r) ==
    LET unset == /\ "aux_socket" \in r /\ "promisc" \in o /\ "orig_unset" \in r
                 /\ "promisc" \in h \/ "others" \in o
    IN  Cleaner({"aux_socket"}, IF unset THEN {"promisc"} ELSE {}, {"aux_socket"})

CleanupOp(k, o, h, r) ==
    CASE k = "bpf" -> PcapCleanupBpf(o)
      [] k = "npf" -> PcapCleanupNpf
      [] k = "airpcap" -> AirpcapCleanup
      [] k = "tc" -> TcCleanup
      [] k = "dlpi" -> PcapCleanupDlpi
      [] k = "libdlpi" -> PcapCleanupLibdlpi
      [] k = "usb" -> UsbCleanupLinuxMmap
      [] k = "dag" -> DagPlatformCleanup
      [] k = "snf" -> SnfPlatformCleanup
      [] k = "netmap" -> PcapNetmapClose
      [] k = "dpdk" -> PcapDpdkClose
      [] k = "rdma" -> RdmasniffCleanup
      [] k = "dbus" -> DbusCleanup
      [] k = "hurd" -> PcapCleanupHurd
      [] k = "sita" -> PcapCleanupAcn(h)
      [] k = "haiku" -> PcapCleanupHaiku(o, h, r)
      [] OTHER -> Cleaner({}, {}, {})

\* activate_op sets cleanup_op at its end.  Hurd's sets none; neither do the
\* sources that need none.
SetsCleanup(k, o) ==
    /\ k \notin {"hurd", "bt", "btmon", "netfilter", "septel"}
    /\ k = "usb" => "mmap" \in o

-----------------------------------------------------------------------------
(* Behaviour.                                                               *)

\* What the create functions allocate: the name, and the precisions of the
\* cards that have several.
Created(k) == {"opt.device"} \cup (IF k \in {"dag", "snf"} THEN {"tstamp_list"} ELSE {})

Init ==
    /\ kind \in Kinds
    /\ opt \in Options(kind)
    /\ at = "created" /\ i = 1
    /\ held = Created(kind)
    /\ refs = Created(kind) \cup (IF kind = "haiku" THEN {"orig_unset"} ELSE {})
    /\ own = FALSE /\ stray = {}

\* Giving back `s' and then, if `common', what pcapint_cleanup_live_common frees.
Gives(s, forgets, common) ==
    LET r == refs \ forgets
        c == IF common THEN r \cap CommonFields ELSE {}
    IN  /\ held' = (held \ s) \ c
        /\ refs' = r \ c
        /\ stray' = stray \cup (s \ held) \cup (c \ (held \ s))

\* The source's cleanup_op, after an error path gave back `s' and forgot `f'.
CleansUp(s, f) ==
    LET op == CleanupOp(kind, opt, held, refs)
    IN  Gives(s \cup (op.tests \cap refs) \cup op.always, f \cup op.resets, TRUE)

PcapActivate ==
    /\ at = "created"
    /\ at' = "activating"
    /\ UNCHANGED <<kind, opt, i, held, refs, own, stray>>

Current == Script(kind, opt)[i]
More == at = "activating" /\ i <= Len(Script(kind, opt))

\* A step that succeeds.
Succeeds ==
    /\ More
    /\ Current.sure => Current.needs \subseteq refs
    /\ held' = (held \ Current.drops) \cup Current.gets
    /\ stray' = stray \cup (Current.drops \ held)
    /\ refs' = refs \cup Current.points
    /\ i' = i + 1
    /\ UNCHANGED <<kind, opt, at, own>>

\* A step that fails: its error path, and initialize_ops, which puts the common
\* cleanup back.
Breaks ==
    /\ More
    /\ Current.sure => ~(Current.needs \subseteq refs)
    /\ \E h \in Current.fails :
          LET s == h.drops \cup (h.ifs \cap refs)
          IN  /\ CASE h.then = "cleanup" -> CleansUp(s, h.forgets)
                   [] h.then = "common" -> Gives(s, h.forgets, TRUE)
                   [] OTHER -> Gives(s, h.forgets, FALSE)
              /\ IF h.then = "go on" THEN i' = i + 1 /\ at' = at
                 ELSE i' = 0 /\ at' = "failed"
    /\ own' = FALSE
    /\ UNCHANGED <<kind, opt>>

\* The activation succeeds.
Activated ==
    /\ at = "activating" /\ i > Len(Script(kind, opt))
    /\ at' = "active" /\ i' = 0
    /\ own' = SetsCleanup(kind, opt)
    /\ UNCHANGED <<kind, opt, held, refs, stray>>

\* Non-blocking mode was asked for and cannot be set: pcap_activate undoes all.
NonblockFails ==
    /\ at = "activating" /\ i > Len(Script(kind, opt))
    /\ at' = "failed" /\ i' = 0 /\ own' = FALSE
    /\ IF SetsCleanup(kind, opt) THEN CleansUp({}, {}) ELSE Gives({}, {}, TRUE)
    /\ UNCHANGED <<kind, opt>>

\* What is acquired while the handle is active: the packets of a TurboCap read,
\* and the handle the first snf_inject opens.
Uses ==
    /\ at = "active"
    /\ kind \in {"tc", "snf"}
    /\ LET r == IF kind = "tc" THEN "packets" ELSE "inject"
       IN  held' = held \cup {r} /\ refs' = refs \cup {r}
    /\ UNCHANGED <<kind, opt, at, i, own, stray>>

\* pcap_close.
PcapClose ==
    /\ at \in {"created", "active", "failed"}
    /\ at' = "closed"
    /\ IF own THEN CleansUp({}, {}) ELSE Gives({}, {}, TRUE)
    /\ own' = FALSE
    /\ UNCHANGED <<kind, opt, i>>

\* The process exits without closing: pcap_close_all closes the handles on
\* pcaps_to_close, and the DAG code's own handler those on its list.
Exit ==
    /\ at \in {"active", "failed"}
    /\ at' = "exited"
    /\ IF "listed" \in held /\ own THEN CleansUp({}, {})
       ELSE UNCHANGED <<held, refs, stray>>
    /\ UNCHANGED <<kind, opt, i, own>>

Next ==
    \/ PcapActivate \/ Succeeds \/ Breaks \/ Activated \/ NonblockFails
    \/ Uses \/ PcapClose \/ Exit

Spec == Init /\ [][Next]_vars

-----------------------------------------------------------------------------
(* Properties.                                                              *)

\* Where the code deviates, by source: what a closed handle leaves behind, what
\* is given back though it is not held, what outlives the process.
LeftOpen(k) ==
    CASE k = "bpf" -> {"media_sock", "usbus_sock"}
      [] k = "npf" -> {"monitor_mode"}
      [] k = "tc" -> {"ppi", "instance"}
      [] k = "dlpi" -> {"ppa_data"}
      [] k = "dbus" -> {"conn"}
      [] k = "snf" -> {"snf_handle", "ring"}
      [] k = "hurd" -> {"mach_dev", "rcv_port"}
      [] k = "dpdk" -> {"mbuf_pool", "tx_buffer", "port", "running", "port_promisc"}
      [] k = "sita" -> {"fd", "iop_sock"}
      [] OTHER -> {}
GivenTwice(k) ==
    CASE k \in {"usb", "netmap", "dpdk", "sita"} -> {"fd"}
      [] k = "haiku" -> {"promisc"}
      [] OTHER -> {}
Outlives(k) ==
    CASE k = "npf" -> {"monitor_mode"}
      [] k \in {"netmap", "haiku"} -> {"promisc"}
      [] OTHER -> {}

\* What the system keeps when the process ends.
Persistent == {"monitor_mode", "usbus_if", "promisc", "stream", "started"}

\* Whatever step of an activation fails, and whatever was done with the handle,
\* after pcap_close nothing it opened, allocated or changed is left
\* (pcap_activate, every activate_op and cleanup_op, pcap_close).
ClosesEverything == at = "closed" => held \subseteq LeftOpen(kind)

\* Nothing is closed, freed or restored that is not open, allocated or changed:
\* error paths and the cleanup that follows them do not both do it.
ReleasesOnce == stray \subseteq GivenTwice(kind)

\* A process that exits without pcap_close leaves no interface changed: what
\* outlives the process is undone by the exit handlers.
ExitRestores == at = "exited" => (held \cap Persistent) \subseteq Outlives(kind)
=============================================================================
