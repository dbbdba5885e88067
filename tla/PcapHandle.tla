----------------------------- MODULE PcapHandle -----------------------------
(***************************************************************************)
(* The life of capture handles (pcap_t) on Linux: pcap_create, the         *)
(* settings, pcap_activate with every step of pcap_activate_linux that can *)
(* fail, pcap_setnonblock, pcap_close, and the atexit handler              *)
(* pcap_close_all with its list pcaps_to_close.                            *)
(*                                                                         *)
(* The question is who owns what: file descriptors (numbers that the       *)
(* kernel reuses), mappings, and the monN interfaces that monitor mode     *)
(* creates and that outlive the process.  One step of an action is one     *)
(* system call of the activation, so activations of different handles      *)
(* interleave.  What an active handle reads is the business of LinuxRing.  *)
(***************************************************************************)
EXTENDS Naturals, Integers, Sequences, FiniteSets, FiniteSetsExt

CONSTANTS
    Handles,    \* the pcap_t structures the application has room for
    MaxFd,      \* file descriptors 0..MaxFd-1, the process's limit
    MaxMon,     \* monitor interface names mon0 .. mon(MaxMon-1)
    Foreign,    \* monitor interfaces other programs created
    Kinds,      \* kinds of device opened: "any", "wifi", "wired"
    Options,    \* the settings the application uses: [rfmon, promisc, nonblock]
    Faults      \* the calls that may fail: <<kind of device, name of the call>>

ASSUME HandleAssumption ==
    /\ MaxFd \in Nat /\ MaxMon \in Nat
    /\ Foreign \subseteq 0..(MaxMon - 1)
    /\ Kinds \subseteq {"any", "wifi", "wired"} /\ Kinds # {}
    /\ Options \subseteq [rfmon : BOOLEAN, promisc : BOOLEAN, nonblock : BOOLEAN]
    /\ Options # {}

VARIABLES
    h,              \* h[p]: the pcap_t p, its private struct and its call's locals
    openfds,        \* the descriptors open in this process
    maps,           \* the mappings alive: <<p, "ring">> and <<p, "oneshot">>
    mons,           \* the monitor interfaces that exist in the system
    pcaps_to_close, \* the list, head first
    did_atexit,
    proc            \* "run", "exiting", "exited" or "aborted"

vars == <<h, openfds, maps, mons, pcaps_to_close, did_atexit, proc>>

-----------------------------------------------------------------------------
NoFd == -1
NoMon == -1
Fds == 0..(MaxFd - 1)
MonNames == 0..(MaxMon - 1)

\* Where a handle is: not allocated, created, inside pcap_activate (named for
\* the next step), active, or left by a failed pcap_activate.
Steps == {"socket", "any", "rfmon", "link", "options", "event", "oneshot",
          "version", "ring", "bind", "finish"}
Places == {"none", "created", "active", "failed"} \cup Steps

Handle ==
    [at : Places, kind : Kinds,
     opt : [rfmon : BOOLEAN, promisc : BOOLEAN, nonblock : BOOLEAN],
     activated : BOOLEAN,
     fd : Fds \cup {NoFd},           \* handle->fd
     sock_fd : Fds \cup {NoFd},      \* setup_socket's local
     breakfd : Fds \cup {NoFd},      \* handlep->poll_breakloop_fd
     mondevice : MonNames \cup {NoMon},
     must : BOOLEAN,                 \* handlep->must_do_on_close
     nonblocking : BOOLEAN,          \* handlep->timeout < 0
     ops : {"not_initialized", "linux"},
     setnonblock_op : {"unactivated", "linux"},
     warned : BOOLEAN,               \* the activation met something to warn of
     status : {"none", "ok", "warning", "error"}]

\* pcapint_create_common and pcapint_create_interface: the defaults.
Fresh(kind, opt) ==
    [at |-> "created", kind |-> kind, opt |-> opt, activated |-> FALSE,
     fd |-> NoFd, sock_fd |-> NoFd, breakfd |-> NoFd, mondevice |-> NoMon,
     must |-> FALSE, nonblocking |-> FALSE, ops |-> "not_initialized",
     setnonblock_op |-> "unactivated", warned |-> FALSE, status |-> "none"]

Unused(p) == h[p].at = "none"

\* A pcap_t that is not allocated.
NoHandle == [Fresh(CHOOSE k \in Kinds : TRUE, CHOOSE o \in Options : TRUE)
               EXCEPT !.at = "none"]

-----------------------------------------------------------------------------
\* The kernel hands out the lowest free descriptor; none left is a failure.
FreeFds == Fds \ openfds
NewFd == Min(FreeFds)

MayFail(r, f) == <<r.kind, f>> \in Faults

\* del_mon_if needs a usable descriptor to turn the name into an index;
\* without one it deletes nothing.
DelMonIf(ms, fd, mon) == IF fd = NoFd THEN ms ELSE ms \ {mon}

\* pcapint_remove_from_pcaps_to_close: unlink the first occurrence, if any.
Unlink(list, i) == SubSeq(list, 1, i - 1) \o SubSeq(list, i + 1, Len(list))
RemoveFromPcapsToClose(list, p) ==
    LET places == {i \in DOMAIN list : list[i] = p}
    IN  IF places = {} THEN list ELSE Unlink(list, Min(places))

\* A mutant: the handle left on the list.
StaysListed(list, p, r) == list

\* What pcap_cleanup_linux does to the system: it deletes the monitor
\* interface it must delete, unlinks the handle, unmaps the ring if there is a
\* socket, unmaps the one-shot buffer and closes the event descriptor; then
\* pcapint_cleanup_live_common closes the socket.
CleanupMons(ms, r) ==
    IF r.must THEN DelMonIf(ms, r.fd, r.mondevice) ELSE ms
CleanupList(list, p, r) ==
    IF r.must THEN RemoveFromPcapsToClose(list, p) ELSE list
CleanupMaps(mp, p, r) ==
    {m \in mp : m[1] # p \/ (m[2] = "ring" /\ r.fd = NoFd)}
CleanupFds(fds, r) == fds \ {r.fd, r.breakfd}

\* A mutant: the event descriptor is closed and its number kept.
KeepsStaleEventFd(r) ==
    [r EXCEPT !.fd = NoFd, !.sock_fd = NoFd, !.mondevice = NoMon]

\* ... and to the handle.  must_do_on_close is not cleared.
CleanedUp(r) ==
    [r EXCEPT !.fd = NoFd, !.sock_fd = NoFd, !.breakfd = NoFd,
              !.mondevice = NoMon]

\* initialize_ops: every pointer but setnonblock_op.
InitializeOps(r) == [r EXCEPT !.ops = "not_initialized"]

-----------------------------------------------------------------------------
(* pcap_create and the settings.                                            *)

\* pcap_create, then pcap_set_rfmon, pcap_set_promisc and pcap_setnonblock on
\* the handle that is not activated (which only sets opt.nonblock).
Create(p) ==
    /\ proc = "run"
    /\ Unused(p)
    /\ \E kind \in Kinds, opt \in Options :
          h' = [h EXCEPT ![p] = Fresh(kind, opt)]
    /\ UNCHANGED <<openfds, maps, mons, pcaps_to_close, did_atexit, proc>>

\* A setter looks at the activated flag alone.
CheckActivated(r) == ~r.activated

SetOption(p) ==
    /\ proc = "run"
    /\ h[p].at \in {"created", "active"}
    /\ CheckActivated(h[p])
    /\ \E opt \in Options :
          /\ opt.nonblock = h[p].opt.nonblock
          /\ h' = [h EXCEPT ![p].opt = opt]
    /\ UNCHANGED <<openfds, maps, mons, pcaps_to_close, did_atexit, proc>>

-----------------------------------------------------------------------------
(* pcap_activate.                                                           *)

\* The "fail:" label of pcap_activate_linux followed by the error branch of
\* pcap_activate.  r is the handle, fds, mp, ms and list the system's state
\* when the step gives up.
Fail(p, r, fds, mp, ms, list) ==
    /\ h' = [h EXCEPT ![p] = [InitializeOps(CleanedUp(r)) EXCEPT
                                 !.at = "failed", !.status = "error"]]
    /\ openfds' = CleanupFds(fds, r)
    /\ maps' = CleanupMaps(mp, p, r)
    /\ mons' = CleanupMons(ms, r)
    /\ pcaps_to_close' = CleanupList(list, p, r)

\* setup_socket gives up: it closes its socket, which the handle does not
\* know of yet.
FailClosing(p, r, ms, list) ==
    Fail(p, [r EXCEPT !.sock_fd = NoFd], openfds \ {r.sock_fd}, maps, ms, list)

Goto(p, r, step) == h' = [h EXCEPT ![p] = [r EXCEPT !.at = step]]

\* The name must fit and its copy must be allocated; promiscuous mode is
\* turned off, with a warning, on the "any" device.
Activate(p) ==
    LET r == h[p] IN
    /\ proc = "run"
    /\ r.at = "created"
    /\ CheckActivated(r)
    /\ \/ /\ MayFail(r, "device")
          /\ Fail(p, r, openfds, maps, mons, pcaps_to_close)
       \/ /\ LET off == r.kind = "any" /\ r.opt.promisc
             IN  Goto(p, [r EXCEPT !.opt.promisc = @ /\ ~off,
                                   !.warned = off], "socket")
          /\ UNCHANGED <<openfds, maps, mons, pcaps_to_close>>
    /\ UNCHANGED <<did_atexit, proc>>

\* socket(): the descriptor is setup_socket's until "options".
Socket(p) ==
    LET r == h[p] IN
    /\ r.at = "socket"
    /\ \/ /\ MayFail(r, "socket") \/ FreeFds = {}
          /\ Fail(p, r, openfds, maps, mons, pcaps_to_close)
       \/ /\ FreeFds # {}
          /\ openfds' = openfds \cup {NewFd}
          /\ Goto(p, [r EXCEPT !.sock_fd = NewFd],
                  CASE r.kind = "any" -> "any"
                    [] r.kind # "any" /\ r.opt.rfmon -> "rfmon"
                    [] OTHER -> "link")
          /\ UNCHANGED <<maps, mons, pcaps_to_close>>
    /\ UNCHANGED <<did_atexit, proc>>

\* The "any" device: no monitor mode; the list of its link-layer types is
\* allocated, and when that fails the socket is not closed.
AnyDevice(p) ==
    LET r == h[p] IN
    /\ r.at = "any"
    /\ \/ /\ r.opt.rfmon
          /\ FailClosing(p, r, mons, pcaps_to_close)
       \/ /\ ~r.opt.rfmon /\ MayFail(r, "dlt_list")
          /\ Fail(p, r, openfds, maps, mons, pcaps_to_close)
       \/ /\ ~r.opt.rfmon
          /\ Goto(p, r, "options")
          /\ UNCHANGED <<openfds, maps, mons, pcaps_to_close>>
    /\ UNCHANGED <<did_atexit, proc>>

\* enter_rfmon_mode.  The names mon0, mon1, ... are tried until one is free.
\* If the exit handler cannot be registered, or the interface cannot be
\* brought up, it is deleted again through setup_socket's descriptor; only
\* then is the handle marked and put on the list.
FreeMons == MonNames \ mons

EnterRfmonMode(p) ==
    LET r == h[p]
        mon == Min(FreeMons)
        added == mons \cup {mon}
    IN
    /\ r.at = "rfmon"
    /\ \/ /\ r.kind # "wifi" \/ MayFail(r, "add_mon") \/ FreeMons = {}
          /\ FailClosing(p, r, mons, pcaps_to_close)
          /\ UNCHANGED did_atexit
       \/ /\ r.kind = "wifi" /\ FreeMons # {}
          /\ ~did_atexit /\ MayFail(r, "atexit")
          /\ FailClosing(p, [r EXCEPT !.mondevice = mon],
                         DelMonIf(added, r.sock_fd, mon), pcaps_to_close)
          /\ UNCHANGED did_atexit
       \/ /\ r.kind = "wifi" /\ FreeMons # {}
          /\ MayFail(r, "mon_up")
          /\ did_atexit' = TRUE
          /\ FailClosing(p, [r EXCEPT !.mondevice = mon],
                         DelMonIf(added, r.sock_fd, mon), pcaps_to_close)
       \/ /\ r.kind = "wifi" /\ FreeMons # {}
          /\ did_atexit' = TRUE
          /\ mons' = added
          /\ pcaps_to_close' = <<p>> \o pcaps_to_close
          /\ Goto(p, [r EXCEPT !.mondevice = mon, !.must = TRUE], "link")
          /\ UNCHANGED <<openfds, maps>>
    /\ UNCHANGED proc

\* Find the link-layer type; types that need it get a new, cooked, socket
\* (and an unknown type a warning); then find the interface and bind.
LinkType(p) ==
    LET r == h[p]
        without == openfds \ {r.sock_fd}
        fresh == Min(Fds \ without)
    IN
    /\ r.at = "link"
    /\ \/ /\ MayFail(r, "link")
          /\ FailClosing(p, r, mons, pcaps_to_close)
       \/ /\ MayFail(r, "cooked")
          /\ Fail(p, [r EXCEPT !.sock_fd = NoFd], without, maps, mons, pcaps_to_close)
       \/ \E unknown \in BOOLEAN :
          /\ openfds' = without \cup {fresh}
          /\ Goto(p, [r EXCEPT !.sock_fd = fresh, !.warned = @ \/ unknown], "options")
          /\ UNCHANGED <<maps, mons, pcaps_to_close>>
       \/ /\ Goto(p, r, "options")
          /\ UNCHANGED <<openfds, maps, mons, pcaps_to_close>>
    /\ UNCHANGED <<did_atexit, proc>>

\* Promiscuous mode, auxiliary data, time stamps: socket options.  After them
\* the handle owns the socket.
SocketOptions(p) ==
    LET r == h[p] IN
    /\ r.at = "options"
    /\ \/ /\ MayFail(r, "options")
          /\ FailClosing(p, r, mons, pcaps_to_close)
       \/ /\ Goto(p, [r EXCEPT !.fd = r.sock_fd, !.sock_fd = NoFd], "event")
          /\ UNCHANGED <<openfds, maps, mons, pcaps_to_close>>
    /\ UNCHANGED <<did_atexit, proc>>

\* The event descriptor for pcap_breakloop, unless the handle will start in
\* non-blocking mode.
EventFd(p) ==
    LET r == h[p] IN
    /\ r.at = "event"
    /\ \/ /\ r.opt.nonblock
          /\ Goto(p, r, "oneshot")
          /\ UNCHANGED <<openfds, maps, mons, pcaps_to_close>>
       \/ /\ ~r.opt.nonblock /\ (MayFail(r, "event") \/ FreeFds = {})
          /\ Fail(p, r, openfds, maps, mons, pcaps_to_close)
       \/ /\ ~r.opt.nonblock /\ FreeFds # {}
          /\ openfds' = openfds \cup {NewFd}
          /\ Goto(p, [r EXCEPT !.breakfd = NewFd], "oneshot")
          /\ UNCHANGED <<maps, mons, pcaps_to_close>>
    /\ UNCHANGED <<did_atexit, proc>>

\* setup_mmapped maps the one-shot buffer, ...
MapOneshot(p) ==
    LET r == h[p] IN
    /\ r.at = "oneshot"
    /\ \/ /\ MayFail(r, "oneshot")
          /\ Fail(p, r, openfds, maps, mons, pcaps_to_close)
       \/ /\ maps' = maps \cup {<<p, "oneshot">>}
          /\ Goto(p, r, "version")
          /\ UNCHANGED <<openfds, mons, pcaps_to_close>>
    /\ UNCHANGED <<did_atexit, proc>>

\* ... finds a TPACKET version (prepare_tpacket_socket), unmapping the buffer
\* when there is none, ...
PrepareTpacket(p) ==
    LET r == h[p] IN
    /\ r.at = "version"
    /\ \/ /\ MayFail(r, "version")
          /\ Fail(p, r, openfds, maps \ {<<p, "oneshot">>}, mons, pcaps_to_close)
       \/ /\ Goto(p, r, "ring")
          /\ UNCHANGED <<openfds, maps, mons, pcaps_to_close>>
    /\ UNCHANGED <<did_atexit, proc>>

\* ... and has create_ring make and map the ring; create_ring unmaps it again
\* (destroy_ring) when the table of frames cannot be allocated.  Hardware
\* time stamps that are not available are a warning.
CreateRing(p) ==
    LET r == h[p] IN
    /\ r.at = "ring"
    /\ \/ /\ MayFail(r, "ring")
          /\ Fail(p, r, openfds, maps \ {<<p, "oneshot">>}, mons, pcaps_to_close)
       \/ \E tstamp \in BOOLEAN :
          /\ maps' = maps \cup {<<p, "ring">>}
          /\ Goto(p, [r EXCEPT !.warned = @ \/ tstamp], "bind")
          /\ UNCHANGED <<openfds, mons, pcaps_to_close>>
    /\ UNCHANGED <<did_atexit, proc>>

\* Bind again, now with the protocol; then the handle gets the Linux
\* operations.
Bind(p) ==
    LET r == h[p] IN
    /\ r.at = "bind"
    /\ \/ /\ MayFail(r, "bind")
          /\ Fail(p, r, openfds, maps, mons, pcaps_to_close)
       \/ /\ Goto(p, [r EXCEPT !.ops = "linux", !.setnonblock_op = "linux",
                               !.status = IF r.warned THEN "warning" ELSE "ok"],
                  "finish")
          /\ UNCHANGED <<openfds, maps, mons, pcaps_to_close>>
    /\ UNCHANGED <<did_atexit, proc>>

\* pcap_setnonblock_linux on the handle r and the descriptors fds: the outcomes.
\* The socket's own mode comes first and may fail; turning non-blocking mode on
\* closes the event descriptor, turning it off opens one, which may fail too.
SetNonblockLinux(r, fds, nonblock) ==
    LET opens == ~nonblock /\ r.breakfd = NoFd
        full == Fds \subseteq fds
        done(e, fs) == [ok |-> TRUE, fds |-> fs,
                        rec |-> [r EXCEPT !.nonblocking = nonblock, !.breakfd = e]]
    IN
    (IF r.fd = NoFd \/ MayFail(r, "fcntl") \/ (opens /\ (full \/ MayFail(r, "event")))
     THEN {[ok |-> FALSE, fds |-> fds, rec |-> r]} ELSE {})
    \cup
    (IF r.fd = NoFd \/ (opens /\ full) THEN {}
     ELSE {CASE nonblock -> done(NoFd, fds \ {r.breakfd})
             [] opens -> done(Min(Fds \ fds), fds \cup {Min(Fds \ fds)})
             [] OTHER -> done(r.breakfd, fds)})

\* The rest of pcap_activate: non-blocking mode if it was asked for, whose
\* status replaces the one the activation returned; on failure everything is
\* undone through cleanup_op.
Finish(p) ==
    LET r == h[p] IN
    /\ r.at = "finish"
    /\ \/ /\ ~r.opt.nonblock
          /\ h' = [h EXCEPT ![p].at = "active", ![p].activated = TRUE]
          /\ UNCHANGED <<openfds, maps, mons, pcaps_to_close>>
       \/ /\ r.opt.nonblock
          /\ \E out \in SetNonblockLinux(r, openfds, TRUE) :
                \/ /\ out.ok
                   /\ h' = [h EXCEPT ![p] = [out.rec EXCEPT !.at = "active",
                                                !.activated = TRUE, !.status = "ok"]]
                   /\ openfds' = out.fds
                   /\ UNCHANGED <<maps, mons, pcaps_to_close>>
                \/ /\ ~out.ok
                   /\ Fail(p, r, openfds, maps, mons, pcaps_to_close)
    /\ UNCHANGED <<did_atexit, proc>>

-----------------------------------------------------------------------------
(* pcap_setnonblock, pcap_close and the end of the process.                 *)

\* pcap_setnonblock calls whichever operation the handle has; the one of a
\* handle not yet activated only records the request.
SetNonblock(p) ==
    LET r == h[p] IN
    /\ proc = "run"
    /\ r.at \in {"created", "active", "failed"}
    /\ \E nonblock \in BOOLEAN :
          \/ /\ r.setnonblock_op = "unactivated"
             /\ [r.opt EXCEPT !.nonblock = nonblock] \in Options
             /\ h' = [h EXCEPT ![p].opt.nonblock = nonblock]
             /\ UNCHANGED openfds
          \/ /\ r.setnonblock_op = "linux"
             /\ \E out \in SetNonblockLinux(r, openfds, nonblock) :
                   /\ h' = [h EXCEPT ![p] = out.rec]
                   /\ openfds' = out.fds
    /\ UNCHANGED <<maps, mons, pcaps_to_close, did_atexit, proc>>

\* pcap_close: cleanup_op, then free.  The operation of a handle that is not
\* activated is pcapint_cleanup_live_common, which only closes the socket.
Closed(p) ==
    LET r == h[p] IN
    /\ h' = [h EXCEPT ![p] = NoHandle]
    /\ IF r.ops = "linux"
       THEN /\ openfds' = CleanupFds(openfds, r)
            /\ maps' = CleanupMaps(maps, p, r)
            /\ mons' = CleanupMons(mons, r)
            /\ pcaps_to_close' = CleanupList(pcaps_to_close, p, r)
       ELSE /\ openfds' = openfds \ {r.fd}
            /\ UNCHANGED <<maps, mons, pcaps_to_close>>

Close(p) ==
    /\ proc = "run"
    /\ h[p].at \in {"created", "active", "failed"}
    /\ Closed(p)
    /\ UNCHANGED <<did_atexit, proc>>

\* The application calls exit() when no call is under way.
Exit ==
    /\ proc = "run"
    /\ \A p \in Handles : h[p].at \notin Steps
    /\ proc' = "exiting"
    /\ UNCHANGED <<h, openfds, maps, mons, pcaps_to_close, did_atexit>>

\* One round of pcap_close_all's loop.
CloseAll ==
    /\ proc = "exiting"
    /\ did_atexit /\ pcaps_to_close # <<>>
    /\ LET p == Head(pcaps_to_close) IN
          /\ Closed(p)
          /\ proc' = IF pcaps_to_close' # <<>> /\ Head(pcaps_to_close') = p
                     THEN "aborted" ELSE proc
    /\ UNCHANGED did_atexit

\* Nothing (more) to close: the process ends and the kernel takes back its
\* descriptors and mappings, but not the monitor interfaces.
Gone ==
    /\ proc = "exiting"
    /\ ~did_atexit \/ pcaps_to_close = <<>>
    /\ proc' = "exited"
    /\ openfds' = {} /\ maps' = {}
    /\ UNCHANGED <<h, mons, pcaps_to_close, did_atexit>>

\* The program is run again: a new process, the same system.
Restart ==
    /\ proc = "exited"
    /\ proc' = "run"
    /\ h' = [p \in Handles |-> NoHandle]
    /\ did_atexit' = FALSE
    /\ pcaps_to_close' = <<>>
    /\ UNCHANGED <<openfds, maps, mons>>

-----------------------------------------------------------------------------
Init ==
    /\ h = [p \in Handles |-> NoHandle]
    /\ openfds = {} /\ maps = {}
    /\ mons = Foreign
    /\ pcaps_to_close = <<>>
    /\ did_atexit = FALSE
    /\ proc = "run"

ActivateStep(p) ==
    \/ Socket(p) \/ AnyDevice(p) \/ EnterRfmonMode(p) \/ LinkType(p)
    \/ SocketOptions(p) \/ EventFd(p) \/ MapOneshot(p) \/ PrepareTpacket(p)
    \/ CreateRing(p) \/ Bind(p) \/ Finish(p)

Next ==
    \/ \E p \in Handles :
          \/ Create(p) \/ SetOption(p) \/ Activate(p) \/ ActivateStep(p)
          \/ SetNonblock(p) \/ Close(p)
    \/ Exit \/ CloseAll \/ Gone \/ Restart

Spec == Init /\ [][Next]_vars

-----------------------------------------------------------------------------
(* What must hold.                                                          *)

\* The calls after whose failure the code leaves something behind do not fail:
\* allocating the list of link-layer types of the "any" device (setup_socket
\* forgets its socket), and what setup_socket does once the monitor interface
\* exists (the handle has no descriptor yet to delete it through).
NoLeakingFault ==
    /\ <<"any", "dlt_list">> \notin Faults
    /\ \A f \in {"link", "cooked", "options"} : <<"wifi", f>> \notin Faults

Listed(p) == h[p].must /\ h[p].at \in Steps \cup {"active"}

\* The descriptors a handle, or the call working on it, refers to.
Fields == {"fd", "sock_fd", "breakfd"}
Refs(p) == {h[p][f] : f \in Fields} \ {NoFd}

\* Every variable has its type.
TypeOK ==
    /\ h \in [Handles -> Handle]
    /\ openfds \subseteq Fds
    /\ maps \subseteq Handles \X {"ring", "oneshot"}
    /\ mons \subseteq MonNames
    /\ pcaps_to_close \in Seq(Handles)
    /\ did_atexit \in BOOLEAN
    /\ proc \in {"run", "exiting", "exited", "aborted"}

\* A descriptor a handle holds is open and is held nowhere else, so closing it
\* never closes another handle's descriptor (the kernel reuses the numbers):
\* pcap_cleanup_linux, pcapint_cleanup_live_common and pcap_setnonblock_linux
\* reset what they close.
DescriptorsOwned ==
    proc = "run" =>
       /\ \A p \in Handles : Refs(p) \subseteq openfds
       /\ \A p, q \in Handles, f, g \in Fields :
             (h[p][f] = h[q][g] /\ h[p][f] # NoFd) => (p = q /\ f = g)

\* pcap_close, and a failed pcap_activate, whichever step failed, leave no
\* descriptor behind ("closes the files associated with p and deallocates
\* resources") and no mapping of the ring or of the one-shot buffer.
NothingLeaks ==
    proc = "run" =>
       /\ openfds \subseteq UNION {Refs(p) : p \in Handles}
       /\ \A m \in maps : h[m[1]].at \in Steps \cup {"active"}

\* The handles pcap_close_all will close are exactly the live ones that must
\* undo something, each once: none was freed (pcap_close would read freed
\* memory) and none is missing.
CloseListExact ==
    /\ Range(pcaps_to_close) = {p \in Handles : Listed(p)}
    /\ \A i, j \in DOMAIN pcaps_to_close :
          pcaps_to_close[i] = pcaps_to_close[j] => i = j

\* The monitor interfaces in the system are other programs' and those of live
\* handles, one each: no handle deletes another's, and none is forgotten.
MonitorsOwned ==
    /\ mons = Foreign \cup {h[p].mondevice : p \in {q \in Handles : Listed(q)}}
    /\ \A p, q \in Handles :
          Listed(p) /\ Listed(q) /\ h[p].mondevice = h[q].mondevice => p = q

\* An active handle has an event descriptor exactly when it blocks: poll() can
\* always be woken by pcap_breakloop, and no descriptor is kept for nothing.
EventFdIffBlocking ==
    \A p \in Handles :
       h[p].at = "active" => (h[p].breakfd = NoFd <=> h[p].nonblocking)

\* What the handles hold is theirs, whichever calls failed on the way: descriptors
\* and monitor interfaces have one owner each, nothing outlives pcap_close or a
\* failed pcap_activate, and an active handle can be woken exactly when it blocks.
HandlesInv ==
    /\ TypeOK
    /\ DescriptorsOwned
    /\ NothingLeaks
    /\ MonitorsOwned
    /\ EventFdIffBlocking

=============================================================================
