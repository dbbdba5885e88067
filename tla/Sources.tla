------------------------------ MODULE Sources -------------------------------
(***************************************************************************)
(* The read loops of the capture sources other than Linux PF_PACKET: one   *)
(* definition per read_op, run by pcap_dispatch or pcap_loop while packets *)
(* arrive and while a signal handler or another thread calls               *)
(* pcap_breakloop.                                                         *)
(*                                                                         *)
(* Packets are numbered in the order of arrival.  A buffer is an interval  *)
(* of them: bp is the last one already passed, ep the last one in it.      *)
(* Packet 0 stands for bytes that are not a packet.  Packet formats, time  *)
(* stamps and statistics are left out; match is the filter (a packet that  *)
(* the direction, the record type or the sampling rules out does not       *)
(* match).                                                                 *)
(***************************************************************************)
EXTENDS Integers, Sequences

CONSTANTS
    Kinds,      \* the sources to open
    Modes,      \* subset of {"nonblock", "timed", "forever"}
    Matches,    \* the filters: sets of packets
    MaxPkt,     \* packets that arrive
    Cnts,       \* counts asked for; 0 is no limit
    Burst,      \* MAX_PKT_BURST of DPDK and VEC_SIZE of usbmon
    MaxHanded,  \* a bound on what is handed over, for sources that repeat
    Fails       \* whether system calls may fail

Numbers == 0..MaxPkt

ASSUME SourcesAssumption ==
    /\ MaxPkt \in Nat /\ Burst \in Nat \ {0} /\ MaxHanded \in Nat
    /\ Cnts \subseteq Nat /\ Fails \in BOOLEAN
    /\ Modes \subseteq {"nonblock", "timed", "forever"}
    /\ \A m \in Matches : m \subseteq Numbers

VARIABLES
    kind, mode, match,  \* the source, how it waits, its filter
    came,       \* the last packet that arrived at the device
    taken,      \* the last packet the device gave up
    hd,         \* what the handle keeps between calls
    zb,         \* the two zero-copy buffers shared with a BSD kernel
    c,          \* the call of read_op and its locals
    app,        \* the caller: pcap_dispatch, pcap_loop or nothing
    handed, brk, over, ret

vars == <<kind, mode, match, came, taken, hd, zb, c, app, handed, brk, over, ret>>
const == <<kind, mode, match>>

PCAP_ERROR == -1
PCAP_ERROR_BREAK == -2

-----------------------------------------------------------------------------
(* The steps the read loops are made of.                                    *)

Keep == UNCHANGED <<hd, taken, zb>>

\* Go on inside the call.
Stay(pc) ==
    /\ c' = [c EXCEPT !.pc = pc, !.sig = FALSE]
    /\ UNCHANGED <<ret, handed, brk, over>>

\* return (r);
Leave(r) ==
    /\ c' = [c EXCEPT !.pc = "idle", !.sig = FALSE]
    /\ ret' = r
    /\ UNCHANGED <<handed, brk, over>>

\* if (p->break_loop) { p->break_loop = 0; return PCAP_ERROR_BREAK; }
LeaveBroken ==
    /\ brk
    /\ c' = [c EXCEPT !.pc = "idle", !.sig = FALSE]
    /\ ret' = PCAP_ERROR_BREAK /\ brk' = FALSE /\ over' = 0
    /\ UNCHANGED handed

\* Run the filter on packet p; call the callback if it passes.  own is what
\* the source adds to the count it will return.
HandOver(p, own, passed, skipped) ==
    /\ Len(handed) < MaxHanded
    /\ IF p \in match
       THEN /\ handed' = Append(handed, p)
            /\ over' = IF brk THEN over + 1 ELSE over
            /\ c' = [c EXCEPT !.pc = passed, !.bp = p, !.n = @ + own, !.done = @ + 1]
       ELSE /\ c' = [c EXCEPT !.pc = skipped, !.bp = p]
            /\ UNCHANGED <<handed, over>>
    /\ UNCHANGED <<ret, brk>>

Limited == c.cnt > 0
Reached == Limited /\ c.n >= c.cnt

\* How a wait for packets ends when there are none: a signal that arrives
\* during it, a descriptor in non-blocking mode, a read timeout.
Empty == came = taken
Intr == Empty /\ c.sig
Would == Empty /\ mode = "nonblock"
TimedOut == Empty /\ mode = "timed"

\* The device gives up a buffer of at least one packet.
Fetch(most, pc) ==
    \E hi \in (taken + 1)..came :
        /\ hi - taken <= most
        /\ taken' = hi
        /\ c' = [c EXCEPT !.pc = pc, !.bp = taken, !.from = taken, !.ep = hi,
                             !.sig = FALSE]
        /\ UNCHANGED <<ret, handed, brk, over, hd, zb>>

\* p->bp = bp; p->cc = ep - bp;
Save == hd' = [hd EXCEPT !.bp = c.bp, !.ep = c.ep] /\ UNCHANGED <<taken, zb>>
\* p->cc = 0;
Drain == hd' = [hd EXCEPT !.bp = hd.ep] /\ UNCHANGED <<taken, zb>>

Buffered == hd.bp < hd.ep

\* Take up what an earlier call left in the buffer.
Resume == /\ Buffered
          /\ c' = [c EXCEPT !.pc = "packet", !.bp = hd.bp, !.ep = hd.ep]
          /\ Keep /\ UNCHANGED <<ret, handed, brk, over>>

\* The break test at the top of a loop over buffered packets: PCAP_ERROR_BREAK
\* before the first packet, the count after it with the flag left set.  saves
\* says whether the rest of the buffer is kept in the first case.
BreakInLoop(saves) ==
    /\ brk
    /\ IF c.n = 0 THEN LeaveBroken /\ (IF saves THEN Save ELSE Keep)
                  ELSE Leave(c.n) /\ Save

\* The loop over the packets of a buffer.  breakFirst: the break test comes
\* before the end-of-buffer test.
PacketLoop(saves, breakFirst) ==
    \/ /\ c.pc = "packet"
       /\ \/ (breakFirst \/ c.bp < c.ep) /\ BreakInLoop(saves)
          \/ c.bp = c.ep /\ (breakFirst => ~brk) /\ Leave(c.n) /\ Drain
          \/ c.bp < c.ep /\ ~brk /\ Stay("handle") /\ Keep
    \/ c.pc = "handle" /\ HandOver(c.bp + 1, 1, "counted", "packet") /\ Keep
    \/ c.pc = "counted" /\ Reached /\ Leave(c.n) /\ Save
    \/ c.pc = "counted" /\ ~Reached /\ Stay("packet") /\ Keep

-----------------------------------------------------------------------------
(* BSD and macOS: pcap_read_bpf.                                            *)

\* Mutants: the rest of the buffer is forgotten on a break; the flag is not
\* tested before a read.
BpfForgets == PacketLoop(FALSE, FALSE)
BpfNeverTests ==
    /\ c.pc = "enter"
    /\ Resume \/ (~Buffered /\ Stay("read") /\ Keep)

\* again: the break test, then the buffer left from the last call or a read.
BpfAgain ==
    /\ c.pc = "enter"
    /\ \/ LeaveBroken /\ Keep
       \/ ~brk /\ Resume
       \/ ~brk /\ ~Buffered /\ Stay("read") /\ Keep

\* read(): EINTR goes back to again, a timeout reads nothing.
BpfReadDevice ==
    /\ c.pc = "read"
    /\ \/ Fetch(MaxPkt, "packet")
       \/ Intr /\ Stay("enter") /\ Keep
       \/ (Would \/ TimedOut) /\ Leave(0) /\ Keep
       \/ Fails /\ Leave(PCAP_ERROR) /\ Keep

BpfPackets == PacketLoop(TRUE, FALSE)

\* Zero-copy buffers.  Buffer i belongs to the library while zb.pub[i] is not
\* empty: the kernel's generation differs from the library's.
Other(i) == IF i = 1 THEN 2 ELSE 1
Nothing == <<0, 0>>
Published(i) == zb.pub[i] # Nothing

\* The kernel (external): it makes the buffer it fills available when that
\* buffer is full, or when BIOCROTZBUF asks and it holds anything.
Rotated ==
    IF Empty \/ Published(zb.nxt) THEN UNCHANGED <<zb, taken>>
    ELSE /\ zb' = [zb EXCEPT !.pub[zb.nxt] = <<taken, came>>, !.nxt = Other(@)]
         /\ taken' = came

KernelRotates ==
    /\ kind = "zbpf" /\ ~Empty /\ ~Published(zb.nxt)
    /\ Rotated
    /\ UNCHANGED <<const, came, hd, c, app, handed, brk, over, ret>>

\* pcap_next_zbuf_shm: after the second buffer, and at first, comes the first.
NextBuffer(cur) == IF cur = 1 THEN 2 ELSE 1

NextZbufShm(missing) ==
    LET i == NextBuffer(zb.cur) IN
    IF Published(i)
    THEN /\ zb' = [zb EXCEPT !.cur = i]
         /\ hd' = [hd EXCEPT !.ev = TRUE]
         /\ c' = [c EXCEPT !.pc = "packet", !.bp = zb.pub[i][1], !.ep = zb.pub[i][2]]
         /\ UNCHANGED <<taken, ret, handed, brk, over>>
    ELSE Stay(missing) /\ Keep

\* pcap_ack_zbuf: the buffer goes back to the kernel; p->buffer = NULL.
AckZbuf ==
    /\ c.pc = "read"
    /\ hd' = [hd EXCEPT !.ev = FALSE]
    /\ zb' = IF hd.ev THEN [zb EXCEPT !.pub[zb.cur] = Nothing] ELSE zb
    /\ Stay("shm") /\ UNCHANGED taken

\* pcap_next_zbuf: look; wait in select() for what is left of the timeout;
\* look again; force a rotation; look again.  Finding nothing goes back to
\* again, whatever the mode.
NextZbuf ==
    \/ c.pc = "shm" /\ NextZbufShm("wait")
    \/ /\ c.pc = "wait"
       /\ \/ mode = "timed" /\ zb.intr /\ zb' = [zb EXCEPT !.intr = FALSE]
             /\ Stay("late") /\ UNCHANGED <<hd, taken>>
          \/ mode = "nonblock" /\ Stay("late") /\ Keep
          \/ mode # "nonblock" /\ Stay("select") /\ Keep
    \/ /\ c.pc = "select"
       /\ \/ /\ \/ Published(1) \/ Published(2)
                \/ mode = "timed"
             /\ zb' = [zb EXCEPT !.intr = FALSE]
             /\ Stay("late") /\ UNCHANGED <<hd, taken>>
          \/ /\ c.sig
             /\ zb' = [zb EXCEPT !.intr = mode = "timed"]
             /\ Stay("enter") /\ UNCHANGED <<hd, taken>>
          \/ Fails /\ Leave(PCAP_ERROR) /\ Keep
    \/ c.pc = "late" /\ NextZbufShm("rotate")
    \/ /\ c.pc = "rotate"
       /\ \/ Rotated /\ Stay("last") /\ UNCHANGED hd
          \/ Fails /\ Leave(PCAP_ERROR) /\ Keep
    \/ c.pc = "last" /\ NextZbufShm("enter")

PcapReadBpf ==
    \/ kind \in {"bpf", "zbpf"} /\ (BpfAgain \/ BpfPackets)
    \/ kind = "bpf" /\ BpfReadDevice
    \/ kind = "zbpf" /\ (AckZbuf \/ NextZbuf)

-----------------------------------------------------------------------------
(* Windows: NPF, DAG cards under NPF, AirPcap, TurboCap.                    *)

\* The flag is tested before a read only; the read waits for the timeout.
ReadWhenDrained(none) ==
    \/ /\ c.pc = "enter"
       /\ \/ Resume
          \/ ~Buffered /\ LeaveBroken /\ Keep
          \/ ~Buffered /\ ~brk /\ Stay("read") /\ Keep
    \/ /\ c.pc = "read"
       /\ \/ Fetch(MaxPkt, "packet")
          \/ (Would \/ TimedOut) /\ none
          \/ Fails /\ Leave(PCAP_ERROR) /\ Keep

\* An empty buffer goes through the loop, which ends at once.
NoBytes == /\ c' = [c EXCEPT !.pc = "packet", !.bp = 0, !.ep = 0]
           /\ Keep /\ UNCHANGED <<ret, handed, brk, over>>

\* The rest of a buffer read in this call is not kept when the flag is found
\* set before the first packet.
NpfReceive == ReadWhenDrained(NoBytes)
NpfPackets == PacketLoop(FALSE, TRUE)
PcapReadNpf == kind = "npf" /\ (NpfReceive \/ NpfPackets)

AirpcapRead ==
    /\ kind = "airpcap"
    /\ ReadWhenDrained(NoBytes) \/ PacketLoop(FALSE, TRUE)

\* pcap_read_win32_dag: the flag is not tested before a read; a record that
\* runs past the end ends the loop; the end of the loop returns 1 and leaves
\* p->bp and p->cc as they were.
WinDagReceive ==
    \/ /\ c.pc = "enter"
       /\ Resume \/ (~Buffered /\ Stay("read") /\ Keep)
    \/ /\ c.pc = "read"
       /\ \/ Fetch(MaxPkt, "packet")
          \/ (Would \/ TimedOut) /\ Leave(0) /\ Keep
          \/ Fails /\ Leave(PCAP_ERROR) /\ Keep

WinDagRecords ==
    \/ /\ c.pc = "packet"
       /\ \/ BreakInLoop(FALSE)
          \/ ~brk /\ Stay("handle") /\ Keep
          \/ c.bp + 1 = c.ep /\ Leave(1) /\ Keep
    \/ c.pc = "handle" /\ HandOver(c.bp + 1, 1, "counted", "end") /\ Keep
    \/ c.pc = "counted" /\ Reached /\ Leave(c.n) /\ Save
    \/ c.pc = "counted" /\ ~Reached /\ Stay("end") /\ Keep
    \/ /\ c.pc = "end"
       /\ \/ c.bp < c.ep /\ Stay("packet") /\ Keep
          \/ c.bp = c.ep /\ Leave(1) /\ Keep

PcapReadWin32Dag == kind = "windag" /\ (WinDagReceive \/ WinDagRecords)

\* TcRead: the handle owns a TC_PACKETS_BUFFER (hd.ev) that is read packet by
\* packet and destroyed at its end.
TcRead ==
    /\ kind = "tc"
    /\ \/ /\ c.pc = "enter"
          /\ \/ LeaveBroken /\ Keep
             \/ ~brk /\ Stay(IF hd.ev THEN "packet" ELSE "read") /\ Keep
       \/ /\ c.pc = "read"
          /\ \/ \E hi \in (taken + 1)..came :
                   /\ taken' = hi /\ hd' = [bp |-> taken, ep |-> hi, ev |-> TRUE]
                   /\ Stay("packet") /\ UNCHANGED zb
             \/ /\ Would \/ TimedOut
                /\ \E buffer \in BOOLEAN :
                      hd' = [bp |-> taken, ep |-> taken, ev |-> buffer]
                /\ Stay("packet") /\ UNCHANGED <<taken, zb>>
             \/ Fails /\ Leave(PCAP_ERROR) /\ Keep
       \/ /\ c.pc = "packet"
          /\ \/ c.n = 0 /\ LeaveBroken /\ Keep
             \/ brk /\ c.n > 0 /\ Leave(c.n) /\ Keep
             \/ ~brk /\ ~hd.ev /\ Leave(c.n) /\ Keep
             \/ /\ ~brk /\ hd.ev /\ ~Buffered
                /\ hd' = [hd EXCEPT !.ev = FALSE]
                /\ Leave(c.n) /\ UNCHANGED <<taken, zb>>
             \/ ~brk /\ hd.ev /\ Buffered /\ Stay("handle") /\ Keep
             \/ ~brk /\ hd.ev /\ Fails /\ Leave(PCAP_ERROR) /\ Keep
       \/ /\ c.pc = "handle"
          /\ HandOver(hd.bp + 1, 1, "counted", "packet")
          /\ hd' = [hd EXCEPT !.bp = @ + 1] /\ UNCHANGED <<taken, zb>>
       \/ c.pc = "counted" /\ Reached /\ Leave(c.n) /\ Keep
       \/ c.pc = "counted" /\ ~Reached /\ Stay("packet") /\ Keep

-----------------------------------------------------------------------------
(* STREAMS systems: DLPI, with and without bufmod, and libdlpi.             *)

\* Wait for a message; the flag is tested before each wait.
DlpiWait ==
    \/ /\ c.pc = "enter"
       /\ Resume \/ (~Buffered /\ Stay("wait") /\ Keep)
    \/ /\ c.pc = "wait"
       /\ (LeaveBroken /\ Keep) \/ (~brk /\ Stay("read") /\ Keep)

PcapReadDlpi ==
    /\ kind \in {"dlpi", "dlpi1"}
    /\ \/ DlpiWait
       \/ /\ c.pc = "read"
          /\ \/ Fetch(IF kind = "dlpi" THEN MaxPkt ELSE 1, "packet")
             \/ Intr /\ Stay("wait") /\ Keep
             \/ Would /\ Leave(0) /\ Keep
             \/ Fails /\ Leave(PCAP_ERROR) /\ Keep

\* dlpi_recv has no case for a descriptor that would block.
PcapReadLibdlpi ==
    /\ kind = "libdlpi"
    /\ \/ DlpiWait
       \/ /\ c.pc = "read"
          /\ \/ Fetch(MaxPkt, "packet")
             \/ Intr /\ Stay("wait") /\ Keep
             \/ (Would \/ Fails) /\ Leave(PCAP_ERROR) /\ Keep

\* pcap_process_pkts.  With bufmod a loop; without it one message, no break
\* test, and when the count is reached what the snapshot length cut off is
\* left as the rest of the buffer (packet 0).
ProcessPkts ==
    \/ kind \in {"dlpi", "libdlpi"} /\ PacketLoop(FALSE, FALSE)
    \/ /\ kind = "dlpi1"
       /\ \/ c.pc = "packet" /\ HandOver(c.bp + 1, 1, "counted", "one") /\ Keep
          \/ /\ c.pc = "counted" /\ Reached
             /\ \E long \in BOOLEAN :
                   hd' = [hd EXCEPT !.bp = IF long THEN -1 ELSE 0, !.ep = 0]
             /\ Leave(c.n) /\ UNCHANGED <<taken, zb>>
          \/ c.pc = "counted" /\ ~Reached /\ Stay("one") /\ Keep
          \/ c.pc = "one" /\ Leave(c.n) /\ Drain

-----------------------------------------------------------------------------
(* Sources that give up one packet per call.                                *)

\* The system call, then the break test whatever the call returned, in a loop
\* while it returns EINTR.  A packet just received is lost to the break.
CallThenTest ==
    /\ c.pc = "read"
    /\ \/ /\ ~Empty /\ taken' = taken + 1 /\ UNCHANGED <<hd, zb>>
          /\ LeaveBroken \/ (~brk /\ Stay("handle"))
       \/ Intr /\ (LeaveBroken \/ (~brk /\ Stay("read"))) /\ Keep
       \/ Would /\ (LeaveBroken \/ (~brk /\ Leave(0))) /\ Keep
       \/ Fails /\ (LeaveBroken \/ (~brk /\ Leave(PCAP_ERROR))) /\ Keep

\* Filter, callback, 1; or 0.
OnePacket(p) ==
    \/ c.pc = "handle" /\ HandOver(p, 1, "one", "one") /\ Keep
    \/ c.pc = "one" /\ Leave(c.n) /\ Keep

UsbReadBin ==
    /\ kind = "usb"
    /\ (c.pc = "enter" /\ Stay("read") /\ Keep) \/ CallThenTest \/ OnePacket(taken)

BtRead ==
    /\ kind = "bt"
    /\ (c.pc = "enter" /\ Stay("read") /\ Keep) \/ CallThenTest \/ OnePacket(taken)

BtMonitorRead ==
    /\ kind = "btmon"
    /\ (c.pc = "enter" /\ Stay("read") /\ Keep) \/ CallThenTest \/ OnePacket(taken)

\* The break test, then the system call, in a loop.
TestThenCall ==
    \/ /\ c.pc = "enter"
       /\ (LeaveBroken /\ Keep) \/ (~brk /\ Stay("read") /\ Keep)
    \/ /\ c.pc = "read"
       /\ \/ ~Empty /\ taken' = taken + 1 /\ Stay("handle") /\ UNCHANGED <<hd, zb>>
          \/ Intr /\ Stay("enter") /\ Keep
          \/ Fails /\ Leave(PCAP_ERROR) /\ Keep

PcapReadHaiku ==
    /\ kind = "haiku"
    /\ \/ TestThenCall \/ OnePacket(taken)
       \/ c.pc = "read" /\ Would /\ Leave(0) /\ Keep

PcapReadHurd == kind = "hurd" /\ (TestThenCall \/ OnePacket(taken))

\* dbus_read: the flag is tested after a wait of 100 ms that found nothing; a
\* message that cannot be marshalled is passed over; "Disconnected" is an error.
DbusRead ==
    /\ kind = "dbus"
    /\ \/ /\ c.pc = "enter"
          /\ \/ /\ ~Empty /\ taken' = taken + 1 /\ UNCHANGED <<hd, zb>>
                /\ Stay("handle") \/ (Fails /\ Leave(0))
             \/ Fails /\ Leave(PCAP_ERROR) /\ Keep
             \/ Empty /\ Stay("read") /\ Keep
       \/ /\ c.pc = "read"
          /\ \/ LeaveBroken /\ Keep
             \/ ~brk /\ Stay("enter") /\ Keep
             \/ Fails /\ Leave(PCAP_ERROR) /\ Keep
       \/ OnePacket(taken)

\* pcap_read_acn: header and data are read with a timeout of their own, and
\* the flag is never tested.  A timeout between the two leaves the stream in
\* the middle of a packet (hd.ev); what is read then is not a header.
PcapReadAcn ==
    /\ kind = "sita"
    /\ \/ /\ c.pc = "enter"
          /\ \/ ~Empty /\ ~hd.ev /\ taken' = taken + 1 /\ Stay("data") /\ UNCHANGED <<hd, zb>>
             \/ hd.ev /\ c' = [c EXCEPT !.pc = "garbage"] /\ Keep
                /\ UNCHANGED <<ret, handed, brk, over>>
             \/ (Empty \/ hd.ev) /\ Leave(0) /\ Keep
       \/ /\ c.pc = "data"
          /\ \/ Stay("handle") /\ Keep
             \/ hd' = [hd EXCEPT !.ev = TRUE] /\ Leave(0) /\ UNCHANGED <<taken, zb>>
       \/ c.pc = "garbage" /\ HandOver(0, 1, "one", "one") /\ Keep
       \/ OnePacket(taken)

-----------------------------------------------------------------------------
(* Linux sources that give up several packets per call.                     *)

\* netfilter_read_linux.  The flag is tested at the start, after each recv()
\* (what was received is lost) and before each message.
NetfilterReceive ==
    \/ /\ c.pc = "enter"
       /\ \/ LeaveBroken /\ Keep
          \/ ~brk /\ Resume
          \/ ~brk /\ ~Buffered /\ Stay("read") /\ Keep
    \/ /\ c.pc = "read"
       /\ \/ ~brk /\ Fetch(MaxPkt, "packet")
          \/ \E hi \in (taken + 1)..came :
                taken' = hi /\ LeaveBroken /\ UNCHANGED <<hd, zb>>
          \/ Intr /\ (LeaveBroken \/ (~brk /\ Stay("read"))) /\ Keep
          \/ (Would \/ Fails) /\ (LeaveBroken \/ (~brk /\ Leave(PCAP_ERROR))) /\ Keep

\* A malformed message ends the call and leaves bp and cc as they were.
NetfilterMessages ==
    \/ PacketLoop(TRUE, FALSE)
    \/ c.pc = "packet" /\ ~brk /\ c.bp < c.ep /\ Fails /\ Leave(PCAP_ERROR) /\ Keep

NetfilterRead == kind = "netfilter" /\ (NetfilterReceive \/ NetfilterMessages)

\* usb_read_linux_mmap.  MON_IOCX_MFETCH flushes the c.aux events processed
\* before it waits, again when it is repeated after EINTR; the events it
\* fetches stay in the ring until they are flushed.
UsbFetch ==
    \/ /\ c.pc = "enter"
       /\ taken' = IF taken + c.aux < came THEN taken + c.aux ELSE came
       /\ Stay("read") /\ UNCHANGED <<hd, zb>>
    \/ /\ c.pc = "read"
       /\ \/ LeaveBroken /\ (~Empty \/ Intr \/ Would \/ Fails)
          \/ /\ ~brk
             /\ \E k \in 1..(came - taken) :
                   /\ k <= Burst /\ (Limited => k <= c.cnt - c.n)
                   /\ c' = [c EXCEPT !.pc = "handle", !.bp = taken, !.ep = taken + k, !.aux = k]
             /\ UNCHANGED <<ret, handed, brk, over>>
          \/ ~brk /\ Intr /\ Stay("enter")
          \/ ~brk /\ Would /\ Leave(0)
          \/ ~brk /\ Fails /\ Leave(PCAP_ERROR)
       /\ Keep

\* Every fetched event, with no break test; then the next chunk, or the flush.
UsbEvents ==
    \/ c.pc = "handle" /\ c.bp < c.ep /\ HandOver(c.bp + 1, 1, "handle", "handle") /\ Keep
    \/ c.pc = "handle" /\ c.bp = c.ep /\ Stay(IF Limited /\ ~Reached THEN "enter" ELSE "flush") /\ Keep
    \/ /\ c.pc = "flush"
       /\ \/ taken' = taken + c.aux /\ Leave(c.n) /\ UNCHANGED <<hd, zb>>
          \/ Fails /\ Leave(PCAP_ERROR) /\ Keep

UsbReadMmap == kind = "usbmmap" /\ (UsbFetch \/ UsbEvents)

\* pcap_netmap_dispatch: nm_dispatch (external) runs pcap_netmap_filter on up
\* to cnt packets and returns how many it ran it on.
NetmapDispatch ==
    /\ kind = "netmap"
    /\ \/ /\ c.pc = "enter"
          /\ \/ LeaveBroken /\ Keep
             \/ ~brk /\ Empty /\ Stay("poll") /\ Keep
             \/ ~brk /\ Fetch(IF Limited THEN c.cnt ELSE MaxPkt, "handle")
       \/ c.pc = "handle" /\ c.bp < c.ep /\ Keep
          /\ HandOver(c.bp + 1, 0, "handle", "handle")
       \/ c.pc = "handle" /\ c.bp = c.ep /\ Leave(c.ep - c.from) /\ Keep
       \/ c.pc = "poll" /\ Stay("enter") /\ Keep

\* rdmasniff_read: a completion event (hd.ev) is awaited once, then the queue
\* is polled; the flag is tested when a wait is interrupted and after each
\* packet.
RdmasniffRead ==
    /\ kind = "rdma"
    /\ \/ c.pc = "enter" /\ Stay(IF hd.ev THEN "poll" ELSE "read") /\ Keep
       \/ /\ c.pc = "read"
          /\ \/ ~Empty /\ hd' = [hd EXCEPT !.ev = TRUE] /\ Stay("poll") /\ UNCHANGED <<taken, zb>>
             \/ Intr /\ (LeaveBroken \/ (~brk /\ Stay("read"))) /\ Keep
             \/ (Would \/ Fails) /\ Leave(PCAP_ERROR) /\ Keep
       \/ /\ c.pc = "poll"
          /\ \/ Reached /\ Leave(c.n) /\ Keep
             \/ ~Reached /\ Empty /\ hd' = [hd EXCEPT !.ev = FALSE] /\ Leave(c.n)
                /\ UNCHANGED <<taken, zb>>
             \/ /\ ~Reached /\ ~Empty /\ taken' = taken + 1
                /\ HandOver(taken + 1, 1, "posted", "posted") /\ UNCHANGED <<hd, zb>>
       \/ c.pc = "posted" /\ (LeaveBroken \/ (~brk /\ Stay("poll"))) /\ Keep

-----------------------------------------------------------------------------
(* Cards: Endace DAG, Myricom SNF, DPDK, Septel.                            *)

\* dag_read: the handle keeps a window of the stream's memory.  The flag ends
\* the call with PCAP_ERROR_BREAK also after packets; the window stays.
DagFill ==
    \/ /\ c.pc = "enter" /\ Keep
       /\ \/ Buffered /\ Stay("packet")
          \/ ~Buffered /\ LeaveBroken
          \/ ~Buffered /\ ~brk /\ Stay("read")
    \/ /\ c.pc = "read"
       /\ \/ \E hi \in (taken + 1)..came :
                /\ taken' = hi /\ hd' = [hd EXCEPT !.bp = taken, !.ep = hi]
                /\ Stay("packet") /\ UNCHANGED zb
          \/ (Would \/ TimedOut) /\ Leave(0) /\ Keep
          \/ Intr /\ Stay("enter") /\ Keep
          \/ Fails /\ Leave(PCAP_ERROR) /\ Keep

\* The break test and a record that is too small.
DagNextRecord ==
    /\ c.pc = "packet" /\ Keep
    /\ \/ ~Buffered /\ Leave(c.n)
       \/ Buffered /\ LeaveBroken
       \/ Buffered /\ ~brk /\ Stay("handle")
       \/ Buffered /\ ~brk /\ Fails /\ Leave(PCAP_ERROR)

\* The window moves on before the record is looked at.
DagRecord ==
    /\ c.pc = "handle"
    /\ HandOver(hd.bp + 1, 1, "counted", "packet")
    /\ hd' = [hd EXCEPT !.bp = @ + 1] /\ UNCHANGED <<taken, zb>>

DagCounted ==
    /\ c.pc = "counted" /\ Keep
    /\ (Limited /\ c.n = c.cnt /\ Leave(c.cnt)) \/ (~Reached /\ Stay("packet"))

DagRead == kind = "dag" /\ (DagFill \/ DagNextRecord \/ DagRecord \/ DagCounted)

\* snf_read: the first wait uses the timeout, the later ones (c.aux) none.
SnfRead ==
    /\ kind = "snf"
    /\ \/ /\ c.pc = "enter" /\ Keep
          /\ \/ Reached /\ Leave(c.n)
             \/ ~Reached /\ c.n = 0 /\ LeaveBroken
             \/ ~Reached /\ brk /\ c.n > 0 /\ Leave(c.n)
             \/ ~Reached /\ ~brk /\ Stay("read")
       \/ /\ c.pc = "read"
          /\ \/ ~Empty /\ taken' = taken + 1 /\ Stay("handle") /\ UNCHANGED <<hd, zb>>
             \/ Empty /\ (c.aux = 1 \/ mode # "forever") /\ Leave(c.n) /\ Keep
             \/ /\ Intr /\ c.aux = 0 /\ Keep
                /\ c' = [c EXCEPT !.pc = "enter", !.aux = 1, !.sig = FALSE]
                /\ UNCHANGED <<ret, handed, brk, over>>
             \/ Fails /\ Leave(PCAP_ERROR) /\ Keep
       \/ c.pc = "handle" /\ HandOver(taken, 1, "again", "again") /\ Keep
       \/ /\ c.pc = "again" /\ c' = [c EXCEPT !.pc = "enter", !.aux = 1] /\ Keep
          /\ UNCHANGED <<ret, handed, brk, over>>

\* pcap_dpdk_dispatch and dpdk_read_with_timeout: bursts of at most the count
\* first asked for, every packet of a burst counted, the flag tested between
\* bursts and while waiting.
DpdkDispatch ==
    /\ kind = "dpdk"
    /\ \/ /\ c.pc = "enter" /\ Keep
          /\ \/ Reached /\ Leave(c.n)
             \/ ~Reached /\ LeaveBroken
             \/ ~Reached /\ ~brk /\ Stay("read")
       \/ /\ c.pc = "read"
          /\ \/ Fetch(IF Limited /\ c.cnt < Burst THEN c.cnt ELSE Burst, "handle")
             \/ Would /\ Leave(c.n) /\ Keep
             \/ Empty /\ mode # "nonblock" /\ LeaveBroken /\ Keep
             \/ TimedOut /\ ~brk /\ Leave(c.n) /\ Keep
       \/ c.pc = "handle" /\ c.bp < c.ep /\ HandOver(c.bp + 1, 0, "handle", "handle") /\ Keep
       \/ /\ c.pc = "handle" /\ c.bp = c.ep /\ Keep
          /\ c' = [c EXCEPT !.pc = "enter", !.n = @ + c.ep - c.from]
          /\ UNCHANGED <<ret, handed, brk, over>>

\* septel_read: a hundred tries that find nothing count as a packet.
SeptelRead ==
    /\ kind = "septel"
    /\ \/ c.pc = "enter" /\ (LeaveBroken \/ (~brk /\ Stay("grab"))) /\ Keep
       \/ /\ c.pc = "grab"
          /\ \/ /\ ~Empty /\ taken' = taken + 1 /\ UNCHANGED <<hd, zb>>
                /\ HandOver(taken + 1, 1, "more", "more")
             \/ /\ Empty /\ Keep /\ c' = [c EXCEPT !.pc = "more", !.n = @ + 1]
                /\ UNCHANGED <<ret, handed, brk, over>>
       \/ c.pc = "more" /\ (IF c.n < c.cnt THEN Stay("enter") ELSE Leave(c.n)) /\ Keep

-----------------------------------------------------------------------------
(* The callers, the device and the signals.                                 *)

Read ==
    \/ PcapReadBpf \/ PcapReadNpf \/ AirpcapRead \/ PcapReadWin32Dag \/ TcRead
    \/ PcapReadDlpi \/ PcapReadLibdlpi \/ ProcessPkts
    \/ UsbReadBin \/ UsbReadMmap \/ BtRead \/ BtMonitorRead \/ NetfilterRead
    \/ NetmapDispatch \/ RdmasniffRead \/ DbusRead
    \/ PcapReadHaiku \/ PcapReadHurd \/ PcapReadAcn
    \/ DagRead \/ SnfRead \/ DpdkDispatch \/ SeptelRead

ReadStep == Read /\ UNCHANGED <<const, came, app>>

\* read_op is entered with a count.
Enter(k) ==
    /\ c' = [c EXCEPT !.pc = "enter", !.cnt = k, !.n = 0, !.done = 0, !.aux = 0,
                      !.bp = 0, !.ep = 0, !.from = 0]
    /\ UNCHANGED <<const, came, taken, hd, zb, handed, brk, over, ret>>

PcapDispatch(k) == app.in = "out" /\ app' = [in |-> "dispatch", cnt |-> k] /\ Enter(k)

DispatchReturns ==
    /\ app.in = "dispatch" /\ c.pc = "idle"
    /\ app' = [app EXCEPT !.in = "out"]
    /\ UNCHANGED <<const, came, taken, hd, zb, c, handed, brk, over, ret>>

StartLoop(k) == app.in = "out" /\ app' = [in |-> "loop", cnt |-> k] /\ Enter(k)

\* pcap_loop: again while nothing came or the count is not reached.
PcapLoop ==
    /\ app.in = "loop" /\ c.pc = "idle"
    /\ LET left == IF app.cnt > 0 THEN app.cnt - ret ELSE 0
           over1 == ret < 0 \/ (ret > 0 /\ app.cnt > 0 /\ left <= 0)
       IN IF over1
          THEN /\ app' = [app EXCEPT !.in = "out"]
               /\ UNCHANGED <<const, came, taken, hd, zb, c, handed, brk, over, ret>>
          ELSE /\ app' = [app EXCEPT !.cnt = IF ret = 0 THEN @ ELSE left]
               /\ Enter(IF ret = 0 THEN app.cnt ELSE left)

Arrive ==
    /\ came < MaxPkt /\ came' = came + 1
    /\ UNCHANGED <<const, taken, hd, zb, c, app, handed, brk, over, ret>>

Waiting == c.pc \in {"read", "select"}

\* pcap_breakloop, from a signal handler that interrupts a wait or from
\* another thread, which does not; and signals that have nothing to do with it.
PcapBreakloop ==
    /\ ~brk /\ brk' = TRUE
    /\ \E sig \in {FALSE, Waiting} : c' = [c EXCEPT !.sig = @ \/ sig]
    /\ UNCHANGED <<const, came, taken, hd, zb, app, handed, over, ret>>

Signal ==
    /\ Waiting /\ ~c.sig /\ c' = [c EXCEPT !.sig = TRUE]
    /\ UNCHANGED <<const, came, taken, hd, zb, app, handed, brk, over, ret>>

Init ==
    /\ kind \in Kinds /\ mode \in Modes /\ match \in Matches
    /\ came = 0 /\ taken = 0
    /\ hd = [bp |-> 0, ep |-> 0, ev |-> FALSE]
    /\ zb = [cur |-> 0, pub |-> [i \in {1, 2} |-> Nothing], nxt |-> 1, intr |-> FALSE]
    /\ c = [pc |-> "idle", cnt |-> 0, n |-> 0, done |-> 0, bp |-> 0, ep |-> 0,
            from |-> 0, aux |-> 0, sig |-> FALSE]
    /\ app = [in |-> "out", cnt |-> 0]
    /\ handed = <<>> /\ brk = FALSE /\ over = 0 /\ ret = 0

Next ==
    \/ ReadStep \/ KernelRotates
    \/ \E k \in Cnts : PcapDispatch(k) \/ StartLoop(k)
    \/ DispatchReturns \/ PcapLoop
    \/ Arrive \/ PcapBreakloop \/ Signal

\* The thread in the loop goes on; a wait that can end in a timeout ends.
Spec == Init /\ [][Next]_vars /\ WF_vars(ReadStep) /\ WF_vars(PcapLoop)

-----------------------------------------------------------------------------
\* The clauses of ReadLoop that a source does not keep.
Lax ==
    [k \in Kinds |->
       (IF k \in {"npf", "airpcap", "windag", "dlpi", "libdlpi", "usb", "usbmmap", "bt",
                  "btmon", "netfilter", "dbus"} THEN {"drops"} ELSE {})
       \cup (IF k \in {"windag", "sita", "usbmmap", "dlpi1", "netfilter"} THEN {"again"} ELSE {})
       \cup (IF k = "dpdk" THEN {"count"} ELSE {})
       \cup (IF k \in {"windag", "usbmmap", "netmap", "dpdk", "septel"} THEN {"number"} ELSE {})
       \cup (IF k \in {"dag", "usbmmap", "dpdk", "rdma", "septel"} THEN {"late"} ELSE {})
       \cup (IF k \in {"usbmmap", "dpdk", "netmap", "sita", "dbus", "dlpi1"} THEN {"slow"} ELSE {})]

Contract == INSTANCE ReadLoop WITH
    Packets <- Numbers, lax <- Lax[kind], calling <- c.pc # "idle",
    cnt <- c.cnt, done <- c.done

\* Every read loop implements the contract of module ReadLoop, but for the
\* clauses Lax exempts it from: packets in order, once, none left out, no more
\* than asked for, the count returned, a break answered once and promptly.
KeepsContract == Contract!Spec

\* Once a break is asked for, pcap_loop returns, in every source that tests
\* the flag on every path and whose waits end.
LoopBreaks ==
    (brk /\ app.in = "loop" /\ mode # "forever"
     /\ kind \in {"bpf", "zbpf", "npf", "airpcap", "tc", "dag", "snf", "dpdk", "netmap"})
       ~> (app.in # "loop")
=============================================================================
