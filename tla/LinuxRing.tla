------------------------------ MODULE LinuxRing ------------------------------
(***************************************************************************)
(* Live capture on Linux (pcap-linux.c): the TPACKET ring shared by the    *)
(* kernel and the thread that calls pcap_dispatch(), the kernel filter and *)
(* its userland catch-up counter, non-blocking mode, the poll() loop with  *)
(* its ENETDOWN handling, and pcap_breakloop() called by another thread.   *)
(*                                                                         *)
(* TPACKET_V3 hands over blocks of up to BlockCap packets; TPACKET_V2 is   *)
(* the same ring with one packet to a frame.  A filter is the set of       *)
(* packet kinds it accepts.                                                *)
(***************************************************************************)
EXTENDS Integers, Sequences, FiniteSets

CONSTANTS
    Version,        \* 2 or 3: the TPACKET version chosen at activation
    BrokenV3,       \* has_broken_tpacket_v3(): a kernel before 3.19
    CC,             \* handle->cc: frames (V2) or blocks (V3) in the ring
    BlockCap,       \* packets a block holds; 1 for V2
    CPUs,           \* processors that run the kernel's receive path
    Kinds,          \* what filters tell apart in packets
    Corrupt,        \* kinds the bounds check of a frame rejects
    Filters,        \* the programs the application installs
    KernelOK,       \* those that fix_program() and the kernel can take
    Faults,         \* may the system calls of the library fail?
    Counts,         \* the cnt arguments of pcap_dispatch()
    Timeout,        \* the packet buffer timeout, in ms
    Modes,          \* the modes pcap_setnonblock() is called with
    SwitchPending,  \* is it called with a pcap_breakloop() pending?
    Signals,        \* may poll() fail with EINTR?
    MaxPkts,        \* bound: packets put in the ring
    MaxBreaks,      \* bound: calls of pcap_breakloop()
    MaxFilters,     \* bound: calls of pcap_setfilter()
    MaxDowns        \* bound: times the interface goes down

None == "none"    \* no packet

ASSUME RingAssumption ==
    /\ Version \in {2, 3}
    /\ BrokenV3 \in BOOLEAN
    /\ CC \in Nat \ {0}
    /\ BlockCap \in Nat \ {0}
    /\ Version = 2 => BlockCap = 1
    /\ None \notin Kinds
    /\ Corrupt \subseteq Kinds
    /\ Filters \subseteq SUBSET Kinds
    /\ KernelOK \subseteq Filters
    /\ Faults \in BOOLEAN
    /\ Counts \subseteq Int
    /\ Timeout \in Nat
    /\ Modes \subseteq BOOLEAN
    /\ SwitchPending \in BOOLEAN
    /\ Signals \in BOOLEAN
    /\ MaxPkts \in Nat /\ MaxBreaks \in Nat
    /\ MaxFilters \in Nat /\ MaxDowns \in Nat

VARIABLES
    ring,        \* the shared blocks: their owner and their packets
    khead,       \* the block the kernel fills next
    kopen,       \* V3: has the kernel opened that block?
    kfilter,     \* the kinds the socket's filter lets through
    cpu,         \* the packet a processor has filtered, not yet placed
    placed,      \* packets put in the ring so far; numbers the packets
    offset,      \* handle->offset: the block the reader is at
    current,     \* handlep->current_packet: 0 is NULL, else an index
    left,        \* handlep->packets_left
    filter,      \* handle->fcode; Kinds when no program is installed
    in_userland, \* handlep->filter_in_userland
    blocks,      \* handlep->blocks_to_filter_in_userland
    timeout,     \* handlep->timeout; negative in non-blocking mode
    event,       \* poll_breakloop_fd: -1 closed, else its readiness
    break_loop,  \* handle->break_loop
    netdown,     \* handlep->netdown
    ifstate,     \* the interface: "up", "down" or "gone"
    so_error,    \* is ENETDOWN pending on the socket?
    pc,          \* control of the capturing thread
    pkts,        \* local pkts of the read routines
    max,         \* local max_packets
    toread,      \* local packets_to_read
    ret,         \* what the last library call returned
    bpc,         \* control of the thread in pcap_breakloop()
    breaks, sets, downs,  \* calls made so far, against their bounds
    handled,     \* number of the last packet taken from the ring
    delivered,   \* the last packet passed to the callback
    since        \* packets handled since break_loop was set

kernel == <<ring, khead, kopen, kfilter, cpu, placed>>
filters == <<filter, in_userland, blocks>>
walk == <<offset, current, left>>
calls == <<pkts, max, toread, ret>>
device == <<ifstate, so_error, netdown>>
counters == <<breaks, sets, downs>>
ghosts == <<handled, delivered, since>>

vars == <<kernel, filters, walk, calls, device, counters, ghosts,
          timeout, event, break_loop, pc, bpc>>

-----------------------------------------------------------------------------
BREAK == -2             \* PCAP_ERROR_BREAK
ERROR == -1             \* PCAP_ERROR
GONE == -100            \* PCAP_ERROR, with "The interface disappeared"
INT_MAX == 2147483647

Blocks == 0..(CC - 1)
Packet == [id : 1..MaxPkts, kind : Kinds]
Next1(i) == (i + 1) % CC
Prev1(i) == (i - 1) % CC

(* packet_mmap_acquire(), packet_mmap_v3_acquire() *)
Acquired == ring[offset].owner # "kernel"

(* getnonblock: a negative timeout stands for non-blocking mode *)
NonBlocking == timeout < 0

(* set_poll_timeout(): -1 blocks for ever, 0 does not block *)
PollTimeout ==
    CASE timeout = 0 -> IF Version = 3 /\ BrokenV3 THEN 1 ELSE -1
      [] timeout > 0 -> IF Version = 3 /\ ~BrokenV3 THEN -1 ELSE timeout
      [] timeout < 0 -> 0

(* A frame handed over by the kernel makes the socket readable *)
SocketReadable == ring[Prev1(khead)].owner = "user"

-----------------------------------------------------------------------------
(* The state pcap_activate_linux() leaves: an empty ring, no filter and    *)
(* blocking mode with its eventfd, or non-blocking mode without one.       *)
Init ==
    /\ ring = [b \in Blocks |-> [owner |-> "kernel", pkts |-> <<>>]]
    /\ khead = 0 /\ kopen = FALSE /\ kfilter = Kinds
    /\ cpu = [c \in CPUs |-> None] /\ placed = 0
    /\ offset = 0 /\ current = 0 /\ left = 0
    /\ filter = Kinds /\ in_userland = FALSE /\ blocks = 0
    /\ \/ timeout = Timeout /\ event = 0
       \/ TRUE \in Modes /\ timeout = -Timeout - 1 /\ event = -1
    /\ break_loop = FALSE
    /\ ifstate = "up" /\ so_error = FALSE /\ netdown = FALSE
    /\ pc = "idle" /\ pkts = 0 /\ max = 0 /\ toread = 0 /\ ret = 0
    /\ bpc = "idle" /\ breaks = 0 /\ sets = 0 /\ downs = 0
    /\ handled = 0 /\ delivered = [id |-> 0, kind |-> None] /\ since = 0

-----------------------------------------------------------------------------
(* The kernel.  A packet that passes the socket's filter gets the next     *)
(* free place, or is dropped.  A V3 block is handed over when a packet     *)
(* does not fit in it or its timer expires; a V2 frame at once.            *)

Arrived(kind) == [id |-> placed + 1, kind |-> kind]

Free(b) == ring[b].owner = "kernel"

FillFrame(kind) ==
    /\ Version = 2 /\ Free(khead)
    /\ ring' = [ring EXCEPT ![khead] =
                   [owner |-> "user", pkts |-> <<Arrived(kind)>>]]
    /\ khead' = Next1(khead)
    /\ placed' = placed + 1
    /\ UNCHANGED kopen

OpenBlock(kind) ==
    /\ Version = 3 /\ ~kopen /\ Free(khead)
    /\ ring' = [ring EXCEPT ![khead].pkts = <<Arrived(kind)>>]
    /\ kopen' = TRUE
    /\ placed' = placed + 1
    /\ UNCHANGED khead

AppendToBlock(kind) ==
    /\ kopen /\ Len(ring[khead].pkts) < BlockCap
    /\ ring' = [ring EXCEPT ![khead].pkts = Append(@, Arrived(kind))]
    /\ placed' = placed + 1
    /\ UNCHANGED <<khead, kopen>>

CloseBlock ==
    /\ ring' = [ring EXCEPT ![khead].owner = "user"]
    /\ khead' = Next1(khead)
    /\ kopen' = FALSE

(* The block is full: close it and open the next, if there is a free one *)
MoveOn(kind) ==
    /\ kopen /\ Len(ring[khead].pkts) >= BlockCap
    /\ LET n == Next1(khead)
       IN  IF n # khead /\ Free(n)
           THEN /\ ring' = [ring EXCEPT ![khead].owner = "user",
                                        ![n].pkts = <<Arrived(kind)>>]
                /\ khead' = n
                /\ placed' = placed + 1
                /\ UNCHANGED kopen
           ELSE CloseBlock /\ UNCHANGED placed

Drop ==
    /\ ~kopen /\ ~Free(khead)
    /\ UNCHANGED <<ring, khead, kopen, placed>>

Place(kind) ==
    FillFrame(kind) \/ OpenBlock(kind) \/ AppendToBlock(kind)
    \/ MoveOn(kind) \/ Drop

KernelReceive(kind) ==
    /\ ifstate = "up" /\ kind \in kfilter /\ placed < MaxPkts
    /\ Place(kind)
    /\ UNCHANGED <<kfilter, cpu>>

(* On another processor the two halves of that step are not atomic *)
KernelAccept(c, kind) ==
    /\ ifstate = "up" /\ kind \in kfilter /\ cpu[c] = None
    /\ cpu' = [cpu EXCEPT ![c] = kind]
    /\ UNCHANGED <<ring, khead, kopen, kfilter, placed>>

KernelFinish(c) ==
    /\ cpu[c] # None /\ placed < MaxPkts
    /\ Place(cpu[c])
    /\ cpu' = [cpu EXCEPT ![c] = None]
    /\ UNCHANGED kfilter

KernelRetire ==
    /\ kopen
    /\ CloseBlock
    /\ UNCHANGED <<kfilter, cpu, placed>>

Kernel ==
    /\ \/ \E kind \in Kinds : KernelReceive(kind)
       \/ \E c \in CPUs, kind \in Kinds : KernelAccept(c, kind)
       \/ \E c \in CPUs : KernelFinish(c)
       \/ KernelRetire
    /\ UNCHANGED <<filters, walk, calls, device, counters, ghosts,
                   timeout, event, break_loop, pc, bpc>>

(* ENETDOWN is reported when a running interface stops *)
Device ==
    /\ \/ /\ ifstate = "up" /\ downs < MaxDowns
          /\ ifstate' \in {"down", "gone"}
          /\ so_error' = TRUE
          /\ downs' = downs + 1
       \/ /\ ifstate = "down"
          /\ ifstate' \in {"up", "gone"}
          /\ UNCHANGED <<so_error, downs>>
    /\ UNCHANGED <<kernel, filters, walk, calls, ghosts, netdown, breaks,
                   sets, timeout, event, break_loop, pc, bpc>>

-----------------------------------------------------------------------------
(* pcap_breakloop_linux(), in a thread of its own: the flag, then a write  *)
(* to the eventfd if there is one.                                         *)

SetBreak ==
    /\ bpc = "idle" /\ breaks < MaxBreaks
    /\ break_loop' = TRUE
    /\ since' = IF break_loop THEN since ELSE 0
    /\ bpc' = "write"
    /\ breaks' = breaks + 1
    /\ UNCHANGED <<kernel, filters, walk, calls, device, sets, downs,
                   handled, delivered, timeout, event, pc>>

(* A mutant: the waiting thread is not told *)
SignalNothing == event

(* The eventfd after a write, if it is open *)
Signalled == IF event # -1 THEN 1 ELSE event

WriteEvent ==
    /\ bpc = "write"
    /\ event' = Signalled
    /\ bpc' = "idle"
    /\ UNCHANGED <<kernel, filters, walk, calls, device, counters, ghosts,
                   timeout, break_loop, pc>>

-----------------------------------------------------------------------------
(* The capturing thread: one library call at a time.                       *)

Return(v) == pc' = "idle" /\ ret' = v

(* Finding break_loop set clears it and returns PCAP_ERROR_BREAK *)
ReturnBreak == Return(BREAK) /\ break_loop' = FALSE /\ since' = 0

(* What the thread does once pcap_wait_for_frames_mmap() returns 0 *)
Waited == IF Version = 3 THEN "acquire" ELSE "loop"

(* pcap_dispatch(), by way of read_op; cnt <= 0 is "unlimited" *)
Dispatch(cnt) ==
    /\ pc = "idle"
    /\ pkts' = 0
    /\ max' = IF cnt <= 0 THEN INT_MAX ELSE cnt
    /\ pc' = "first"
    /\ UNCHANGED <<kernel, filters, walk, device, counters, ghosts, toread,
                   ret, timeout, event, break_loop, bpc>>

(* Wait only if the current frame is not ours and no block is half read *)
First ==
    /\ pc = "first"
    /\ pc' = IF current # 0 \/ Acquired THEN Waited ELSE "poll"
    /\ UNCHANGED <<kernel, filters, walk, calls, device, counters, ghosts,
                   timeout, event, break_loop, bpc>>

-----------------------------------------------------------------------------
(* pcap_wait_for_frames_mmap(), from one poll() to the next.               *)

(* poll() was interrupted by a signal *)
PollInterrupted ==
    /\ pc = "poll" /\ Signals
    /\ \/ break_loop /\ ReturnBreak
       \/ ~break_loop /\ pc' = "checkdev"
          /\ UNCHANGED <<ret, break_loop, since>>
    /\ UNCHANGED <<kernel, filters, walk, pkts, max, toread, device,
                   counters, handled, delivered, timeout, event, bpc>>

(* poll() failed, or the socket is in error for another reason *)
PollFails ==
    /\ pc = "poll" /\ Faults
    /\ Return(ERROR)
    /\ UNCHANGED <<kernel, filters, walk, pkts, max, toread, device,
                   counters, ghosts, timeout, event, break_loop, bpc>>

(* POLLERR with ENETDOWN; POLLIN, if it is there too, is not looked at *)
PollNetDown ==
    /\ pc = "poll" /\ so_error
    /\ so_error' = FALSE
    /\ netdown' = TRUE
    /\ pc' = IF event = 1 THEN "event" ELSE "checkdev"
    /\ UNCHANGED <<kernel, filters, walk, calls, ifstate, counters, ghosts,
                   timeout, event, break_loop, bpc>>

(* The other returns: a frame, the eventfd, or a timeout *)
PollReturns ==
    /\ pc = "poll" /\ ~so_error
    /\ \/ SocketReadable /\ pc' = Waited
       \/ ~SocketReadable /\ event = 1 /\ pc' = "event"
       \/ /\ ~SocketReadable /\ event # 1
          /\ PollTimeout # -1 \/ netdown
          /\ pc' = "checkdev"
    /\ UNCHANGED <<kernel, filters, walk, calls, device, counters, ghosts,
                   timeout, event, break_loop, bpc>>

ReadEvent ==
    /\ pc = "event"
    /\ event' = 0
    /\ pc' = "eventbreak"
    /\ UNCHANGED <<kernel, filters, walk, calls, device, counters, ghosts,
                   timeout, break_loop, bpc>>

EventBreak ==
    /\ pc = "eventbreak"
    /\ \/ break_loop /\ ReturnBreak
       \/ ~break_loop /\ pc' = "checkdev"
          /\ UNCHANGED <<ret, break_loop, since>>
    /\ UNCHANGED <<kernel, filters, walk, pkts, max, toread, device,
                   counters, handled, delivered, timeout, event, bpc>>

(* After an ENETDOWN, see if the device exists and if it is up; then leave *)
(* the loop in non-blocking mode, else poll again                          *)
CheckDevice ==
    /\ pc = "checkdev"
    /\ \/ netdown /\ ifstate = "gone" /\ Return(GONE) /\ UNCHANGED netdown
       \/ /\ netdown => ifstate # "gone"
          /\ netdown' = (netdown /\ ifstate # "up")
          /\ pc' = IF PollTimeout = 0 THEN Waited ELSE "poll"
          /\ UNCHANGED ret
    /\ UNCHANGED <<kernel, filters, walk, pkts, max, toread, ifstate,
                   so_error, counters, ghosts, timeout, event, break_loop,
                   bpc>>

-----------------------------------------------------------------------------
(* pcap_read_linux_mmap_v3() and pcap_read_linux_mmap_v2() around their    *)
(* packet loops.  V2 has no half-read blocks: current stays NULL.          *)

(* V3: nothing was handed to us after all *)
Acquire ==
    /\ pc = "acquire"
    /\ \/ Acquired /\ pc' = "block" /\ UNCHANGED ret
       \/ ~Acquired /\ pkts = 0 /\ timeout = 0 /\ pc' = "first"
          /\ UNCHANGED ret
       \/ ~Acquired /\ ~(pkts = 0 /\ timeout = 0) /\ Return(pkts)
    /\ UNCHANGED <<kernel, filters, walk, pkts, max, toread, device,
                   counters, ghosts, timeout, event, break_loop, bpc>>

(* A mutant: a half-read block is begun again *)
AlwaysFirst == 1

(* V3: where to start in a block, or to go on in a half-read one *)
StartAt == IF current # 0 THEN current ELSE 1

EnterBlock ==
    /\ pc = "block"
    /\ IF pkts < max /\ (current # 0 \/ Acquired)
       THEN LET n == IF current # 0 THEN left ELSE Len(ring[offset].pkts)
            IN  /\ current' = StartAt
                /\ left' = n
                /\ toread' = IF n > max - pkts THEN max - pkts ELSE n
                /\ pc' = "packet"
                /\ UNCHANGED ret
       ELSE /\ \/ pkts = 0 /\ timeout = 0 /\ pc' = "first" /\ UNCHANGED ret
               \/ ~(pkts = 0 /\ timeout = 0) /\ Return(pkts)
            /\ UNCHANGED <<current, left, toread>>
    /\ UNCHANGED <<kernel, filters, offset, pkts, max, device, counters,
                   ghosts, timeout, event, break_loop, bpc>>

(* V3: packets_to_read-- && !handle->break_loop *)
GoOn == toread > 0 /\ ~break_loop

NextPacket ==
    /\ pc = "packet"
    /\ IF GoOn
       THEN pc' = "handle" /\ toread' = toread - 1
       ELSE pc' = "release" /\ UNCHANGED toread
    /\ UNCHANGED <<kernel, filters, walk, pkts, max, ret, device, counters,
                   ghosts, timeout, event, break_loop, bpc>>

(* V2: while (pkts < max_packets), if the current frame is ours *)
NextFrame ==
    /\ pc = "loop"
    /\ \/ pkts < max /\ Acquired /\ pc' = "handle" /\ UNCHANGED ret
       \/ ~(pkts < max /\ Acquired) /\ Return(pkts)
    /\ UNCHANGED <<kernel, filters, walk, pkts, max, toread, device,
                   counters, ghosts, timeout, event, break_loop, bpc>>

(* V2 has one packet to a frame *)
Index == IF Version = 3 THEN current ELSE 1

ThisPacket == ring[offset].pkts[Index]

(* Does the packet pass the userland filter, if that is on? *)
Passes(p) == in_userland => p.kind \in filter

(* pcap_handle_packet_mmap(), the callback included.  A corrupt frame ends *)
(* the call; V3 then forgets its place in the block.                       *)
HandlePacket ==
    /\ pc = "handle"
    /\ \/ /\ ThisPacket.kind \in Corrupt
          /\ current' = 0
          /\ Return(ERROR)
          /\ UNCHANGED <<left, pkts, ghosts>>
       \/ /\ ThisPacket.kind \notin Corrupt
          /\ handled' = ThisPacket.id
          /\ since' = IF break_loop THEN since + 1 ELSE since
          /\ \/ /\ Passes(ThisPacket)
                /\ pkts' = pkts + 1
                /\ delivered' = ThisPacket
             \/ /\ ~Passes(ThisPacket)
                /\ UNCHANGED <<pkts, delivered>>
          /\ IF Version = 3
             THEN /\ current' = current + 1
                  /\ left' = left - 1
                  /\ pc' = "packet"
             ELSE pc' = "release" /\ UNCHANGED <<current, left>>
          /\ UNCHANGED ret
    /\ UNCHANGED <<kernel, filters, offset, max, toread, device, counters,
                   timeout, event, break_loop, bpc>>

(* Mutants: the same block again, a block skipped *)

OffsetStuck == offset

OffsetSkips == (offset + 2) % CC

(* The next block *)
NextOffset == IF offset + 1 >= CC THEN 0 ELSE offset + 1

(* Hand a finished block back and count it against those that need the     *)
(* userland filter                                                         *)
Release ==
    /\ pc = "release"
    /\ IF left <= 0
       THEN /\ ring' = [ring EXCEPT ![offset].owner = "kernel"]
            /\ blocks' = IF blocks > 0 THEN blocks - 1 ELSE blocks
            /\ in_userland' = (in_userland /\ blocks # 1)
            /\ offset' = NextOffset
            /\ current' = 0
       ELSE UNCHANGED <<ring, blocks, in_userland, offset, current>>
    /\ pc' = "break"
    /\ UNCHANGED <<khead, kopen, kfilter, cpu, placed, filter, left, calls,
                   device, counters, ghosts, timeout, event, break_loop,
                   bpc>>

(* Check for the break loop condition, after each block (V3), frame (V2) *)
LoopBreak ==
    /\ pc = "break"
    /\ \/ break_loop /\ ReturnBreak
       \/ /\ ~break_loop
          /\ pc' = IF Version = 3 THEN "block" ELSE "loop"
          /\ UNCHANGED <<ret, break_loop, since>>
    /\ UNCHANGED <<kernel, filters, walk, pkts, max, toread, device,
                   counters, handled, delivered, timeout, event, bpc>>

-----------------------------------------------------------------------------
(* pcap_setfilter_linux().  The program is installed and userland          *)
(* filtering turned on; a program the kernel can run then goes there too.  *)

SetFilter(F) ==
    /\ pc = "idle" /\ sets < MaxFilters
    /\ sets' = sets + 1
    /\ filter' = F
    /\ in_userland' = TRUE
    /\ \/ F \in KernelOK /\ pc' = "total" /\ UNCHANGED <<ret, kfilter>>
       \/ F \notin KernelOK /\ kfilter' = Kinds /\ Return(0)
       \/ F \notin KernelOK /\ Faults /\ UNCHANGED kfilter /\ Return(ERROR)
    /\ UNCHANGED <<ring, khead, kopen, cpu, placed, blocks, walk, pkts, max,
                   toread, device, breaks, downs, ghosts, timeout, event,
                   break_loop, bpc>>

(* set_kernel_filter(): a filter that rejects everything is put on while   *)
(* the socket is drained; failing to drain it is fatal                     *)
TotalFilter ==
    /\ pc = "total"
    /\ \/ kfilter' = {} /\ pc' = "attach" /\ UNCHANGED ret
       \/ Faults /\ pc' = "attach" /\ UNCHANGED <<ret, kfilter>>
       \/ Faults /\ kfilter' \in {{}, Kinds} /\ Return(ERROR)
    /\ UNCHANGED <<ring, khead, kopen, cpu, placed, filters, walk, pkts,
                   max, toread, device, counters, ghosts, timeout, event,
                   break_loop, bpc>>

(* ... then the program itself.  If that fails the kernel filter is        *)
(* removed, for userland to do the work.                                   *)
AttachFilter ==
    /\ pc = "attach"
    /\ \/ /\ kfilter' = filter
          /\ in_userland' = FALSE
          /\ pc' = "count"
          /\ UNCHANGED ret
       \/ /\ Faults
          /\ \/ kfilter' = Kinds /\ Return(0)
             \/ UNCHANGED kfilter /\ Return(ERROR)
          /\ UNCHANGED in_userland
    /\ UNCHANGED <<ring, khead, kopen, cpu, placed, filter, blocks, walk,
                   pkts, max, toread, device, counters, ghosts, timeout,
                   event, break_loop, bpc>>

(* Free blocks met walking the ring backward.  The offset is decremented   *)
(* before the loop and again before the first block is looked at.          *)
FreeBlocks ==
    LET free(n) == Free((offset - 2 - n) % CC)
    IN  Cardinality({n \in 0..(CC - 1) : \A m \in 0..n : free(m)})

(* Blocks that need the userland filter: one free block is not trusted *)
BlocksToFilter == CC - (IF FreeBlocks # 0 THEN FreeBlocks - 1 ELSE 0)

(* A mutant: the blocks are counted and userland filtering stays off *)
CountsButForgets ==
    /\ pc = "count"
    /\ blocks' = BlocksToFilter
    /\ Return(0)
    /\ UNCHANGED <<kernel, filter, in_userland, walk, pkts, max, toread,
                   device, counters, ghosts, timeout, event, break_loop,
                   bpc>>

CountBlocks ==
    /\ pc = "count"
    /\ blocks' = BlocksToFilter
    /\ in_userland' = TRUE
    /\ Return(0)
    /\ UNCHANGED <<kernel, filter, walk, pkts, max, toread, device,
                   counters, ghosts, timeout, event, break_loop, bpc>>

-----------------------------------------------------------------------------
(* pcap_setnonblock_linux(): non-blocking mode closes the eventfd and      *)
(* complements the timeout; blocking mode needs a new eventfd.             *)

SetNonblock(nonblock) ==
    /\ pc = "idle"
    /\ SwitchPending \/ (~break_loop /\ bpc = "idle")
    /\ \/ /\ nonblock
          /\ timeout' = IF timeout >= 0 THEN -timeout - 1 ELSE timeout
          /\ event' = -1
          /\ Return(0)
       \/ /\ ~nonblock
          /\ event' = IF event = -1 THEN 0 ELSE event
          /\ timeout' = IF timeout < 0 THEN -timeout - 1 ELSE timeout
          /\ Return(0)
       \/ Faults /\ Return(ERROR) /\ UNCHANGED <<timeout, event>>
    /\ UNCHANGED <<kernel, filters, walk, pkts, max, toread, device,
                   counters, ghosts, break_loop, bpc>>

-----------------------------------------------------------------------------
Wait == PollInterrupted \/ PollFails \/ PollNetDown \/ PollReturns
        \/ ReadEvent \/ EventBreak \/ CheckDevice

Read == First \/ Acquire \/ EnterBlock \/ NextPacket \/ NextFrame
        \/ HandlePacket \/ Release \/ LoopBreak

Install == TotalFilter \/ AttachFilter \/ CountBlocks

Call ==
    \/ \E cnt \in Counts : Dispatch(cnt)
    \/ \E F \in Filters : SetFilter(F)
    \/ \E mode \in Modes : SetNonblock(mode)

Next ==
    Kernel \/ Device \/ SetBreak \/ WriteEvent
    \/ Call \/ Wait \/ Read \/ Install

Spec == Init /\ [][Next]_vars

(* A thread inside the library runs; the kernel's block timer expires *)
Fairness ==
    /\ WF_vars(Wait) /\ WF_vars(Read) /\ WF_vars(Install)
    /\ WF_vars(WriteEvent)
    /\ WF_vars(Kernel /\ KernelRetire)

(* ... and the application keeps calling pcap_dispatch() *)
FairSpec ==
    Spec /\ Fairness /\ WF_vars(\E cnt \in Counts : Dispatch(cnt))

-----------------------------------------------------------------------------
KernelTypeOK ==
    /\ ring \in [Blocks -> [owner : {"kernel", "user"}, pkts : Seq(Packet)]]
    /\ khead \in Blocks /\ kopen \in BOOLEAN /\ kfilter \subseteq Kinds
    /\ cpu \in [CPUs -> Kinds \cup {None}] /\ placed \in 0..MaxPkts

HandleTypeOK ==
    /\ offset \in Blocks /\ current \in Nat /\ left \in Nat
    /\ filter \subseteq Kinds /\ in_userland \in BOOLEAN
    /\ blocks \in 0..CC
    /\ timeout \in {Timeout, -Timeout - 1} /\ event \in {-1, 0, 1}
    /\ break_loop \in BOOLEAN
    /\ ifstate \in {"up", "down", "gone"}
    /\ so_error \in BOOLEAN /\ netdown \in BOOLEAN

ThreadTypeOK ==
    /\ pc \in {"idle", "first", "poll", "event", "eventbreak", "checkdev",
               "acquire", "block", "packet", "loop", "handle", "release",
               "break", "total", "attach", "count"}
    /\ pkts \in Nat /\ max \in Nat /\ toread \in Nat
    /\ ret \in Nat \cup {BREAK, ERROR, GONE}
    /\ bpc \in {"idle", "write"}
    /\ breaks \in 0..MaxBreaks /\ sets \in 0..MaxFilters
    /\ downs \in 0..MaxDowns

GhostTypeOK ==
    /\ handled \in 0..MaxPkts /\ since \in Nat
    /\ delivered \in Packet \cup {[id |-> 0, kind |-> None]}

(* The types of the shared ring, of the handle, of the threads' control    *)
(* and locals, and of what the properties remember                         *)
TypeOK == KernelTypeOK /\ HandleTypeOK /\ ThreadTypeOK /\ GhostTypeOK

-----------------------------------------------------------------------------
(* Safety.                                                                 *)

(* The user's blocks are the ones from the reader's offset up to the block *)
(* the kernel fills, so reader and kernel never use a block together and   *)
(* the order of the ring is the order of arrival.                          *)
RingInv ==
    \E n \in 0..CC :
        /\ khead = (offset + n) % CC
        /\ \A i \in Blocks :
              ring[(offset + i) % CC].owner = "user" <=> i < n
        /\ kopen => n < CC

(* The thread handles a packet only out of a block it owns, at an index    *)
(* the block has: current_packet and packets_left survive from call to     *)
(* call and across setfilter and setnonblock without going stale.          *)
ReaderInBounds ==
    /\ pc = "handle" => /\ ring[offset].owner = "user"
                        /\ Index \in 1..Len(ring[offset].pkts)
    /\ current # 0 => /\ ring[offset].owner = "user"
                      /\ current + left = Len(ring[offset].pkts) + 1

(* A packet is taken from the ring once, and none before it is skipped *)
InOrder == [][handled' # handled => handled' = handled + 1]_vars

(* Even with corrupt frames no packet is skipped *)
NothingSkipped == [][handled' <= handled + 1]_vars

(* The callback sees a packet only if the installed filter accepts it,     *)
(* whichever filter the kernel ran on it: the blocks counted by            *)
(* pcap_setfilter_linux() cover every packet the old filter let in.        *)
DeliveredMatches ==
    [][delivered' # delivered => delivered'.kind \in filter]_vars

(* pcap_breakloop(): at most one more packet might be processed *)
AtMostOneMore == since <= 1

(* What the read routines rely on from call to call: types, an index that   *)
(* stays in its block, and a break that is seen in time                    *)
ReaderInv == TypeOK /\ ReaderInBounds /\ AtMostOneMore

(* A thread that is to block in poll() with break_loop set has the eventfd *)
(* to wake it, once pcap_breakloop() has returned                          *)
NoLostBreak ==
    pc = "poll" /\ ~NonBlocking /\ break_loop /\ bpc = "idle" => event = 1

(* Liveness.                                                               *)

Reading == pc \notin {"idle", "total", "attach", "count"}

(* pcap_breakloop() forces a call in progress to return *)
BreakForcesReturn == break_loop /\ Reading ~> ~Reading

(* With an application that keeps reading, every packet put in the ring is *)
(* handled                                                                 *)
EveryPacketHandled ==
    \A n \in 1..MaxPkts : placed >= n ~> handled >= n

=============================================================================
