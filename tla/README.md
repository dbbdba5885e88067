# A TLA+ model of libpcap

This directory holds TLA+ modules translated from the C source of libpcap, the
configurations with which TLC checks them on small instances, and proofs, checked by
TLAPS, of what matters most in them for every value of the constants. `PROJECT.json`
lists the components, the runs, the mutants that show what each property is worth, the
source lines each definition stands for, the hazards the properties are aimed at and
the theorems.

    tlc -workers 2 -config linux_v3.cfg MCLinuxRing
    tlapm LinuxRingProofs.tla

## 1. The system and its parts

libpcap gives applications packets: from a network device, from a file, or from
another host. An application lists the devices, makes a handle (`pcap_t`), configures
and activates it, compiles and installs a filter, reads packets in a loop that another
thread or a signal handler may break, and closes it. Behind the handle is one of many
sources.

| Part | Source | Module | |
|---|---|---|---|
| Handle life cycle on Linux: create, set, activate, setnonblock, close, the exit list | `pcap.c`, `pcap-linux.c` | `PcapHandle` | modelled |
| Linux capture: the ring shared with the kernel, poll loop, breakloop, filters | `pcap-linux.c` | `LinuxRing` | modelled |
| Linux capture: sizes of frames, blocks and ring | `pcap-linux.c` | `RingSize` | modelled |
| Device lists, lookup, the choice of a source | `pcap.c`, `fad-*.c`, each source | `Devices` | modelled |
| Activation and cleanup of the other sources | `pcap-bpf.c`, `pcap-npf.c`, ... (20 sources) | `Lifecycle` | partly |
| ... from the list to the closed handle | | `Opening` | |
| Read loops of the other sources | the same files (24 routines) | `Sources` | partly |
| ... and the contract they implement | | `ReadLoop` | |
| Filter compiler: code generator | `gencode.c` | `Gencode` | partly |
| Filter compiler: optimiser and layout | `optimize.c` | `Optimize` | modelled |
| ... composed, with the meaning of expressions | | `Compile` | |
| BPF validator, installation, interpreter | `bpf_filter.c`, `optimize.c` | `Bpf` | modelled |
| Savefiles, pcap format: dumper, appending, reader, the read loops | `sf-pcap.c`, `savefile.c`, `pcap.c` | `Savefile` | partly |
| Savefiles, pcapng format: reader | `sf-pcapng.c` | `SavefileNg` | partly |
| Link-layer types in files | `pcap-common.c` | `Linktype` | modelled |
| Remote capture: daemon's service loop and data threads | `rpcapd/daemon.c` | `Rpcapd` | partly |
| Remote capture: daemon's main program | `rpcapd/rpcapd.c` | `Server` | partly |
| Remote capture: client, composed with the daemon | `pcap-rpcap.c` | `Rpcap` | partly |

How they interact: `PcapHandle` brings a handle to the state that is `LinuxRing`'s
initial state, with the geometry `RingSize` works out. `Opening` composes `Devices`
with `Lifecycle`: a name that was listed, or that the user knows, is opened by the
source that claims it, whose activation then runs. `Sources` has what an active handle
of those sources does, and is shown to implement `ReadLoop`. `Compile` extends
`Optimize`, which extends `Gencode`, which extends `Bpf`: what the compiler makes is a
program for the validator, and what `Bpf` installs is what `LinuxRing` and `Sources`
call a filter (the set of packets it accepts). `Savefile` extends `Linktype`, and
`SavefileNg` extends `Savefile`, whose read loops it shares. `Server` and `Rpcap`
extend `Rpcapd`: the same service loop, started by the main program for a client that
follows no protocol, or talking to libpcap's own client.

## 2. Modules

### LinuxRing

The ring is a function from `0..CC-1` to blocks, each owned by the kernel or by the
user and holding a sequence of numbered packets. TPACKET_V3 hands over blocks of up to
`BlockCap` packets, TPACKET_V2 frames of one. Four parties take steps:

- the kernel (external, modelled from how the code uses it and from the
  comments): it filters a packet and places it, on the same processor at once
  (`KernelReceive`), on another in two steps (`KernelAccept`, `KernelFinish`); it
  retires a block when its timer expires; the interface goes down, comes back, goes;
- the capturing thread, one call at a time, with a program counter `pc` for the places
  where other parties can be seen: `Dispatch`, then `First` ("wait only if there is
  nothing to read"), the poll loop (`PollReturns`, `PollNetDown`, `ReadEvent`,
  `EventBreak`, `CheckDevice`), the block and packet loops (`EnterBlock`,
  `NextPacket`, `HandlePacket`, `Release`, `LoopBreak`);
- `pcap_setfilter_linux()` in the steps in which the kernel can see it: userland
  filtering on, the total filter, the real one, the count of blocks;
- another thread in `pcap_breakloop()`, in two steps: the flag, then the eventfd.

`handled`, `delivered` and `since` are history variables. The direction of a handle
is taken to be `PCAP_D_INOUT`, and a callback makes no library call other than
`pcap_breakloop()`.

### RingSize

`create_ring` and the choice of the TPACKET version, with the numbers of the code and
of the Linux headers: the frame size from snapshot length, MTU, link-layer header and
alignment, the block size by doubling, frames per block, the retries when the kernel
has too little memory, and the table of frame pointers.

### PcapHandle

One record per handle (`h[p]`), with the fields of `pcap_t` and of its private
structure that name something owned: the socket, the eventfd, the monitor interface,
the operations. A step of an activation is one system call, so activations of
different handles interleave; descriptors are the numbers the kernel reuses.
`pcap_close_all` runs at exit, a round of its loop a step. Monitor interfaces outlive
the process, which may be run again. The operations on the exit list are single steps;
a failing `del_mon_if` is not injected; a handle whose activation failed is only closed
or switched to another mode.

### Devices, Lifecycle and Opening

`Devices` builds the list of `pcap_findalldevs`. The platform reports interfaces
address by address, aliases included, in any order (`GetadEntry` for `getifaddrs`,
`GlifcEntry` for `SIOCGLIFCONF`, `NpfAdapter`, `SitaFinds`), then every entry of
`capture_source_types` adds its devices, fails, or swallows an error
(`FindalldevsOp`). An entry is merged into a device of that name or inserted where its
figure of merit puts it. A name is a record of the parts the sources' `create_op`s
look at (base, number, what follows a colon); `CreateOp` has, for each source, the
names it claims, and whether it looks for the hardware. A card may be unplugged between
the listing and the opening.

`Lifecycle` has a script per source: the calls of its `activate_op` in their order,
each with what it acquires (`gets`), what it stores in the handle (`points`), and what
each way of failing gives back and forgets before the common error branch. `held` is
what is open, allocated or changed in truth, `refs` what the handle knows of; the two
differ where the code loses track. `CleanupOp` is the source's cleanup, which
`pcap_close`, a failing activation and the exit handlers run.

### Sources and ReadLoop

`ReadLoop` is what any `read_op` promises to `pcap_dispatch` and `pcap_loop`: packets
that pass the filter, once, in order, none left out, no more than asked for, the number
of them as the result, and `PCAP_ERROR_BREAK` as the answer to a break, before any
packet, which alone clears the flag, with at most one more packet after the request.
`Sources` has one definition per `read_op`: BPF devices with and without zero-copy
buffers, Npcap, AirPcap, DAG on Windows, TurboCap, DLPI with and without bufmod,
libdlpi, the two usbmon readers, Bluetooth, netfilter, netmap, RDMA, D-Bus, Haiku,
Hurd, SITA, DAG, SNF, DPDK, Septel. Each keeps its own places for the flag test, the
count test, the refill and the error returns; the device, the signals and the other
thread take steps in between. Packets are numbers and a buffer is an interval of them.
The sources that deviate from the contract are exempted clause by clause (`Lax`), each
exemption from something the code does (section 6).

### Gencode, Optimize, Compile and Bpf

An expression is a tree; `Generate` applies the generator's functions in the order in
which the parser reduces it. A block with open branches is a member of lists that run
through those very branches, as in the code, and `backpatch`, `merge` and the `sense`
bit are modelled on them. `Optimize` works on a graph of blocks: a round of
`opt_loop()` finds levels, dominators, use-definition sets and edge sets, numbers
values and folds (`opt_blk`), removes dead stores, and moves branches (`opt_j`,
`or_pullup`, `and_pullup`). A value number is the term it stands for. `Compile` makes
each round a step, so that what holds between rounds is checked too, then merges equal
blocks and lays the program out; it also has the meaning of an expression, and what a
graph and a program do with a packet, as references. A byte is a word of `WordBits`
bits; arithmetic and bit operations are exact in that width.

In `Bpf` an instruction is a record of the fields the macros of `pcap/bpf.h` take out
of `code`. Validation is a predicate on programs; the interpreter is a machine with one
step per instruction. Arithmetic is modulo `M`, the word size. Here the bit patterns of
AND, OR and XOR, and of the loads, are arbitrary words, so that safety does not rest on
them; Linux auxiliary data (VLAN tags) is left out. `touched` records which octets of
the packet a step read.

### Savefile, SavefileNg and Linktype

A file is a sequence of words, of which a word is two octets, so that the byte order
matters. The dumper writes through a stream whose buffer reaches the disk in any
portions; the disk may fill up at any word and be freed again. The reader opens the
file at any time at which no dumper writes to it through the same library call, reads
either byte order, both precisions, the old record layouts and damaged files, with
`pcap_dispatch`, `pcap_loop` and `pcap_next_ex`, a filter and `pcap_breakloop`. A failed
write drops the stream's buffer, the end of file is sticky, and an application stops
reading after an error. Seconds, `pcapint_post_process`, Windows handles and standard
input and output are left out.

In `SavefileNg` the file is a sequence of blocks with a length in front and behind, in
sections of either byte order that describe their own interfaces. `read_block` has the
buffer that grows up to a limit that itself grows, `NgPacket` the three kinds of packet
block, `NgInterface` the options that set resolution and offset, and the scaling of
time stamps is done in two words of `Half` values that wrap as 64 bits do.

`Linktype` has `dlt_to_linktype` and `linktype_to_dlt` with the numbers five platforms
give to the types on which they disagree. It is the only part of the project without
state.

### Rpcapd, Server and Rpcap

`Rpcapd` has the main thread of a connection (`d`, with `daemon_serviceloop`'s locals),
session structures that `malloc` hands out and that are freed (`s`), a data thread per
session (`t`), and the control and data connections as queues. Requests carry an
identity, so that an answer can be told from the answer to another request, and whether
the handler accepts their payload. `UPDATEFILTER` without a session leaves its payload
unread; the model stops there ("garbled"). A start whose thread cannot be made after
its reply was sent is answered a second time, which `d.late` records.

`Server` is the main program around it: the clients of the active list, the listening
sockets, `select()` or the Windows events, `accept()`, `fork()` or a thread, signals
between any two of these, children that end, and `kill(0, SIGKILL)`. A behaviour
follows one process through a `fork()`: the parent, for which a child is something that
ends, or the child, which runs `Rpcapd`. `Rpcap` adds libpcap's client: the pcap_t
(`c`), the descriptors of its process, and the files the application opens itself, under the
numbers the kernel reuses. TLS,
the host list, version negotiation, sampling parameters, UDP and message texts are left
out; a send to a peer that has closed fails at once; after a call that failed the
application only closes the handle.

## 3. Runs

| Run | Checks | Shows |
|---|---|---|
| `linux_v3` | `ReaderInv` `NoLostBreak` `InOrder` `BreakForcesReturn` `EveryPacketHandled` | A V3 ring of three blocks of two packets, four packets (the ring wraps), one of them perhaps in flight on another processor, counts of 1, 2 and "unlimited", both modes and their switching, one `pcap_breakloop()` at any point. |
| `linux_v2` | `RingInv` `NothingSkipped` `DeliveredMatches` | A V2 ring with corrupt frames, failing system calls, signals, an interface that goes down or away, a filter installed at any moment: what the callback sees, the installed filter accepts. |
| `linux_stale_count` | `DeliveredMatches` | Violated when the second program is one only userland can run (section 6). |
| `bpf` | `InterpreterSafe` `Terminates` `FilterMeans` `CompiledIsValid` `ValuesFit` `CompileReturns` | Every program of up to two of 33 instructions and of three of 11, valid or not, on packets of 0 to 5 octets; and 434 expressions, compiled with and without the optimiser, judged by sixteen packets after every round. |
| `handle` | `HandlesInv` `CloseListExact` | Two handles, three descriptors, three monitor names of which one is another program's. |
| `ring_size` | `RingFits` `Returns` | The real numbers, for snapshot lengths of 1, 1514 and 262144, buffers from 1000 octets to the default, and a kernel with too little memory. |
| `devices` | `LookupFindsBest` `DeviceListExact` `OpensWhatWasListed` `ClosesEverything` `ReleasesOnce` `ExitRestores` | Eight platforms, three interfaces and an alias reported in any order, cards of every source, one of them unplugged; every source's activation failing at every call. |
| `sources` | `KeepsContract` `LoopBreaks` | The 24 read routines in three modes with two filters, three packets, counts of 2 and "unlimited", a break at any point: each step is a step of `ReadLoop` or a stutter. |
| `rpcapd` | `SessionsInv` `ClosedEnds` `ServerInv` `StopsWhenTold` | The main program on both systems with two connections and two signals; a client that sends any four requests, and connects, reads and closes as it likes, in both modes, with failures of the calls of the daemon. |
| `rpcap` | `InStep` `PacketsConserved` `FilesIntact` `CallsReturn` | Client and daemon, up to ten requests (in active mode two handles on one connection), three packets. |
| `savefile_write` | `ReadsWhatWasMeant` `FileRecognised` `CallsReturn` | Two dumps and two opens by three handles, on a disk with no room or with room for less than two records, freed once. |
| `savefile_read` | `ReadsEitherFormat` `SoundWhateverIsRead` `CountsExact` | pcap files in all layouts, byte orders and precisions, pcapng files of one or two sections with one or two interfaces, and damaged ones of both, read by up to two calls. |

`ReaderInv`, `HandlesInv`, `SessionsInv`, `InterpreterSafe`, `RingFits`, `InStep` and
the other conjunctions are defined, conjunct by conjunct, at the end of their modules.
`CHECK_DEADLOCK FALSE` is set where the environment may stop for good: the bounds on
packets, requests and calls are reached, the interpreter has aborted, the process has
ended.

### Bounds

The bounds are the smallest at which the cases happen that make the code hard. A ring of
three blocks is the smallest in which the block being read, the block being filled and a
block in neither hand are different, and four packets in it wrap; a V2 ring wraps with two
frames and three packets. A word of four bits wraps on an offset of fifteen, and three
instructions are enough for a jump over one, a jump back, and a jump past the end; a
branch offset of at most three makes the chains of the expressions need long jumps, and
two scratch cells are as many as the deeper ones use. With three descriptors two handles
compete for the last, so that numbers are reused; the foreign monitor interface lies
between the two names they get. Three packets and bursts of two let a count, a break and a
refill fall on the same packet. A data connection that holds one or two messages is full
while the capture goes on; two session structures let a leaked one be seen; two
connections and one active client let two children end under one signal. The disk's
thirteen words hold the file header, one record and part of another, so that records are
cut in every place. A buffer of two words is outgrown by three-word packets, and the
snapshot lengths lie below, at and above the maximum. Half a time stamp of 64 values wraps
in the scaling of the finer resolutions.

No symmetry is used: the handles and CPUs are too few for it to pay.

### Fairness

- `LinuxRing`: the capturing thread inside a library call, and the thread inside
  `pcap_breakloop()`, run on; the kernel's block timer expires (it is set at activation);
  for `EveryPacketHandled` the application keeps calling `pcap_dispatch()`. Packets
  need not come, and a poll with no timeout returns only for a cause.
- `Bpf`, `Compile`, `RingSize`, `Savefile`: the one thread there is runs on.
- `Sources`: the thread in `pcap_loop` runs on, and a wait that has a timeout ends.
  `LoopBreaks` promises nothing of a wait without one, nor of the sources that do
  not look at the flag on every path.
- `Rpcapd`, `Server`, `Rpcap`: the daemon's threads, its main program and the client's
  call in progress run on. Nothing is promised of packets, of failing reads, of the
  client's next call, of connections, of children ending, or of the application reading
  what has been sent; only the timeouts that the daemon sets expire.

## 4. Proofs

| Module | Theorem | States |
|---|---|---|
| `LinuxRingProofs` | `TypeCorrect`, `InBounds`, `OneMore`, `ReaderSafe` | `ReaderInv` always, and its three conjuncts |
| | `BreakNotLost` | `NoLostBreak` always, if no mode is switched under a pending break |
| | `BlocksKeptApart` | `RingInv` always |
| | `NonePassedOver` | `NothingSkipped` |
| | `EachOnceInOrder` | `InOrder`, if no frame is corrupt |
| | `DeliversOnlyMatches` | `DeliveredMatches`, if programs are installed one at a time |
| `BpfProofs` | `ValidatedIsSafe`, `LoadsChecked`, `InterpreterIsSafe` | `InterpreterSafe` always, and its conjuncts |
| `RpcapdProofs` | `SessionsSafe` | `SessionsInv` always, of one service loop |
| | `ServerHolds` | `ServerInv` always |
| | `ServedSafely` | `SessionsInv` always, of the loops the main program starts |
| | `FilesOfTheApplication` | `FilesIntact` |
| `RpcapProofs` | `KeepsInStep` | `InStep` always, if the capture itself does not fail |
| | `PacketsArrive` | `PacketsConserved` always, if besides a packet's message fits 16 bits of length |
| `PcapHandleProofs` | `HandlesHold` | `HandlesInv` always, if no call fails that the code does not clean up after |
| | `CloseListHolds`, `ExitHandlerEnds` | `CloseListExact` always; the `abort()` of `pcap_close_all` is not reached (same condition) |
| `DeviceProofs` | `LookupIsBest` | `LookupFindsBest` always |
| | `RingAlwaysFits` | `RingFits` always |
| | `RetriesShrink` | each retry of `create_ring` asks for fewer frames |
| `SourcesProofs` | `SourcesKeepContract` | `KeepsContract`: `Sources` implements `ReadLoop` |
| `SavefileProofs` | `ReadsAreCounted` | `CountsExact` always, of pcap files |
| | `KnownAgain` | `FileRecognised` always, for plain handles |
| | `PacketsFit` | a packet handed over fits the snapshot length and the buffer |
| | `RoundTrip` | a handle's type survives a file, on every platform |
| | `SameInEveryFile` | a type has the same number in every platform's files |

**LinuxRingProofs** holds for every ring size, block capacity, TPACKET version, set of
processors, kinds and filters, and every bound, with faults and corrupt frames (which
`linux_v3` leaves to it): the assumption is `RingAssumption`, which says only that the
constants have their types. `ReaderInBounds` is not inductive: that the index of a
half-read block stays good depends on the kernel leaving the user's blocks alone and on
each handed-over block holding a packet. The inductive invariant is

    IInv == TypeOK /\ KernelInv /\ WalkInv

`KernelInv` says that the block the kernel has open is its own, and that it and every
block handed over hold a packet; `WalkInv` ties `current`, `left` and
`toread` to the block at `offset` at each place of the read routines. The proof has a
lemma per group of actions (`KernelStep`, `OutsideStep`, `WaitStep`, `HandleStep`,
`ReleaseStep`, `EnterStep`, `ReadStep`). `AtMostOneMore` needs `SinceInv` besides: a
packet handled with a break pending takes the thread to places from which a look at the
flag comes before the next packet. `NoLostBreak` needs `BreakInv`: blocking mode has an
eventfd, and a break that is pending has made it readable, or the thread is about to
look at the flag. `RingInv` needs `OwnInv`: the reader hands back only a block it owns.
The provers know little of remainders, so the invariant counts positions from the
reader's offset by cases (`Distance`, `Wrap`), and `WrapIsRemainder` ties that to the
code's `%`; the two moves of the ring, the kernel's and the reader's, are `HandOver` and
`ReleaseOwners`. `NothingSkipped` and `InOrder` need `NumberInv`: the packets of the blocks
in use are numbered without a gap, inside a block and from each to the next, up to the
newest in the ring, and the reader's place in its block is the number it has come to
(`Reached`). `InOrder` is for `Corrupt = {}`: the code handles a V2 frame that fails the
bounds check again when it is called again. `DeliveredMatches` needs `MatchInv`: once a
program is installed, every packet in the ring that it rejects is in a block that the
reader will filter itself, so that the number of blocks `pcap_setfilter_linux()` computes
is large enough wherever offset and kernel are. It is for `OneAtATime`, which excludes
the two cases of section 6: a packet in flight on another processor, and the count of an
older program.

**BpfProofs** holds for every word size, memory size and set of programs no longer than
half the numbers a word has (the code's lengths are `int`s and words are 32 bits).
Its invariant says that an installed program is valid, that a running one is at one of
its instructions, and that what a step read of the packet was captured. The heart of it
is arithmetic: a jump the validator adds up modulo the word size lands where the
interpreter, which sign-extends the offset, takes it (`JumpLands`), and the comparisons
before an indirect load bound the sum although it is computed modulo the word size.

**RpcapdProofs** holds for any number of session structures, requests, packets, lengths
and faults (`RpcapdAssumption` types the constants, `RequestsAssumption` says that the
client sends requests of the protocol). Neither of the things `SessionsInv` says is
inductive. That a data thread has a session to work on needs `SessionInv`: a session
that is being started has no thread yet, a thread exists from the moment the session is
the service loop's, and the loop joins it before it lets the session go. That answers
keep the order of the requests needs `OrderInv` and `InHand`: the numbers in the two
queues rise, the answers' numbers are below the waiting requests', and the request that
is being worked on, at the places where the loop keeps one, lies between the two. The
only exception is the reply to a start that is taken back (`StartTakenBack`). The proof
goes by the parts of the service loop: `HandlerStep`, `StartStep`, `AuthStep`,
`EndStep`, `CloseStep`, `LateFailure` for the loop, `ThreadStep` for the data threads,
`ClientStep` for the other side.

The part of **RpcapdProofs** about the main program holds for any number of addresses,
active clients, connections and signals, on both systems (`ServerAssumption`). Its
invariant `ServerIInv` says of every place of the main program which descriptors are open:
while a connection is handed to a child it is the one descriptor more; and a child that
ended has a signal that is still to come until it is waited for. `ServedSafely` shows that
every state of the service loop the main program can start or restart is one that
`SessionsSafe` is about.

The last part of **RpcapdProofs**, and **RpcapProofs**, are about libpcap's client in a
session with that service loop, in passive and active mode, for any number of descriptors,
requests, packets, session structures and faults (`RpcapAssumption` besides). The invariant
has four parts, each resting on the ones before; the first two, and what the client's
steps do to the third, are in RpcapdProofs, the rest in RpcapProofs:

    SessionIInv == BaseInv /\ FdInv /\ (Up => ControlInv) /\ (Up => PacketInv)

- `BaseInv` is the daemon's invariant, of which the client's messages keep their part,
  with the client's types and places. `ClientMoves` sums up its 18 actions in four forms.
- `FdInv`: the numbers the handle holds are open, differ from each other, and are not the
  application's, except after a start that failed. `FilesIntact` follows for any faults.
- `ControlInv` is about the control connection while it is open and no start has failed
  late (`Up`): one request is on the way, being worked on, or answered, never two of
  these; its type is that of the call in progress; and what comes besides is the daemon's
  farewell. So the head of the queue is the answer to the call that waits. It is for
  `"read" \notin Faults`: the data thread's message about a failed read is taken for an
  answer (section 6).
- `PacketInv`: a session exists only where the service loop holds it, a call that starts a
  capture has found no earlier one, and for the session the client reads from (`Kept`) the
  daemon's count is the client's, plus the messages on the data connection, plus the one
  about to be sent, each with the number that follows. It is for `CapLens` whose messages
  have a length that fits 16 bits (section 6).

**SavefileProofs** has three results about pcap files and two about link-layer types.
`CallInv` says of every place of the read loops what has been counted and which counts a
call may end with; `CountsExact` is what is left of it between calls. `FileRecognised`
needs `WriteInv`, that the octets of the header are at the front of what is on disk and in
the stream's buffer, cut anywhere, and `HeaderInv`, that a reader took what the dumper
wrote. It is for `PlainHandles`: no extension of the link-layer type, which appending does
not compare (section 6). `PacketsFit` is the part of `SoundWhateverIsRead` about sizes, for
any contents of the file; `FitInv` has the type of the disk, the buffer and the packets
given. `RoundTrip` and `SameInEveryFile` are about all types, numbers and platforms at
once. The first is unconditional; the second excludes two numbers that FreeBSD and Darwin
use for types of their own, which the comments of `dlt_to_linktype` describe. The lemma
behind both is that the numbers of the named types differ from each other in files and
on each platform (`LinktypesDiffer`), so that the order of the comparisons in the code
does not matter for them.

**PcapHandleProofs** holds for any number of handles, descriptors, monitor interfaces,
settings and failing calls (`HandleAssumption` types the constants), under
`NoLeakingFault`: the four failures after which the code leaves a socket or a monitor
interface behind (section 6) do not happen. The properties speak of a handle only by
what it refers to, so the invariant

    IInv == TypeOK /\ Locals /\ Descs /\ MapsInv /\ ListInv /\ MonInv /\ ProcInv

says besides, of each place of an activation, which fields of the `pcap_t` hold something
(`Local`); that the open descriptors are those the handles refer to, each once, until the
exit handler has run (`Descs`); which handles have mappings; and that the exit list and
the monitor interfaces follow the handles that must undo something. Every action replaces
the record of one handle, so one lemma (`StepKeeps`) shows that the whole invariant
survives a replacement that takes, gives back or keeps each thing it owns, and the lemma of
an action shows what it replaces the record by. The kernel's choice of the lowest free
descriptor and the search for a free monitor name need that a set of numbers has a
least element, which is the one use of well-founded induction.

**DeviceProofs** first has `LookupIsBest`, for all interfaces, addresses, hardware and
orders of the report. `OrderInv` says that the list is in the order of merit, on every
platform but SITA, whose list is in the order of names. Behind it are two lemmas: the
place found for a new device keeps the order (`AddDevOrdered`), and an address added to a
device that is listed does not change its merit (`AddAddrOrdered`). Then comes the ring,
for every snapshot length, MTU, buffer size, page size and amount of memory
(`SizeAssumption`). `SizeInv` says from which place on a frame holds the packet,
a block holds a frame, the ring is whole blocks and the mapping is the ring. The
property speaks of every frame, not of the last one only; a product of two unknown
numbers is bounded by small lemmas on products and quotients. `RetriesShrink` is the
ranking argument behind `Returns`, which TLC checks. The numbers are naturals: that the
products of the code fit 32 bits is not shown.

**SourcesProofs** shows that each of the 24 read routines implements `ReadLoop`, for any
number of packets, any filters, counts and bursts, with failing calls, in any of the
modes (`SourcesAssumption` types the constants). Between the packets a source has taken
from the device and those it has handed over lie, for each source, other places: a buffer
of the handle, locals of the loop, two buffers shared with the kernel. The invariant
therefore says for each source and each place up to which packet it has come:

    UpTo(x) == (Binds("again") => HandedUpTo(x)) /\ (Binds("drops") => NoneLeft(x))

no packet past `x` was handed over, if the source may not hand one over again, and none
before it was left out, if the source may not drop any. `LoopInv` has it for the seven
routines that walk a buffer kept in the handle, `WindowInv` for TurboCap and DAG, `OneInv`
for those that read a packet a call, and the others have an invariant each; `ZbufInv`
besides says that the kernel fills the zero-copy buffers in turn and without a gap, so
that "the buffer in hand, then the other" is the order of the packets. The rest of each
invariant is what the clauses on counts and breaks need: what was counted is what was
handed over, the count is not reached where another packet can be, no packet was handed
over since the break where the next one will be.
The proof has a lemma per routine, which shows that a step of it is a step of `ReadLoop`
or a stutter (`AbsStep`) and keeps the source's invariant (`Good`). The step lemmas rest on
a few about what any routine does: go on (`GoesOn`), hand over a packet (`MayHand`),
return (`MayReturn`, `MayBreak`). Device, kernel, signals and the other thread are
`AsideGood` and `RotateGood`.

What is only model-checked, and why:

- all liveness (`EveryPacketHandled`, `LoopBreaks`, `CallsReturn`, ...): it rests on
  fairness, which is beyond the prover;
- `FilterMeans`, `CompiledIsValid` and `ValuesFit` of the compiler, which are about what
  recursive definitions compute, and need bit operations;
- `ReadsWhatWasMeant`, `ReadsEitherFormat` and the rest of `SoundWhateverIsRead`, which
  compare the sequence of words in the file with the sequence of records that was meant,
  by folds over both: an induction over data. What is proved of the read loops is proved of
  pcap files, because `SavefileNg` has recursive operators;
- `DeviceListExact`, `OpensWhatWasListed`, `ClosesEverything`, `ReleasesOnce` and
  `ExitRestores`, about the scripts of `Lifecycle` and the sources of `Devices`: finite
  tables that the run `devices` goes through whole.

## 5. What a mutant shows

For every property of a passing run `PROJECT.json` names a mutant of a definition, a
plausible slip in the code, under which the property fails: an offset that is not
wrapped, a flag not looked at, a descriptor closed and its number kept, a thread not
joined, one child reaped per signal, a branch moved past a test that matters, and so on.
They are in the modules, before the definition they alter; except for `DumpOnwards`, the
half of `pcap_dump` that writes, nothing else uses them.

## 6. Disagreements between code and documentation

One has a run of its own and is a finding in `PROJECT.json`:

- **The stale count** (`linux_stale_count`). `pcap_setfilter_linux()` leaves
  `blocks_to_filter_in_userland` from an earlier call when the new program stays in
  userland; when the count runs out, userland filtering is turned off under it.

The others were met while the modules were written. The models behave as the code does
in all of them, and the properties of section 3 are stated, or their constants
chosen, so that they hold besides. Each of the first table is a formula that is false of
the named module, with the constants that show it.

| Formula | Fails in | Behaviour | Documented at |
|---|---|---|---|
| `DeliveredMatches` | `LinuxRing`, `CPUs = {c1}` | A packet the old filter accepted on another processor lands in the ring beyond the counted blocks. | `pcap-linux.c:4652` |
| `[][pc = "checkdev" /\ pc' = "idle" => ~SocketReadable]_vars` | `LinuxRing`, `MaxDowns = 1` | The interface is reported gone with packets in the ring: ENETDOWN is handled without a look at POLLIN. | `pcap-linux.c:3726` |
| `pc = "idle" /\ ret = BREAK => pkts = 0` | `LinuxRing` | `PCAP_ERROR_BREAK` is returned after packets were processed. | `pcap_breakloop.3pcap:39` |
| `BreakForcesReturn` | `LinuxRing`, `SwitchPending = TRUE` | A break asked for in non-blocking mode does not end a call made after the switch to blocking mode. | `pcap_breakloop.3pcap:35` |
| `[][st = "run" /\ st' = "run" => pc' > pc]_vars` | `Bpf` | The validator's sum wraps, and a valid branch leads back. | `bpf_filter.c:397`, `:478` |
| `NothingLeaks` | `PcapHandle`, fault `<<"any", "dlt_list">>` | The socket of the "any" device is left open when the list of types cannot be allocated. | `pcap_close.3pcap:35` |
| `proc = "exited" => mons = Foreign` | `PcapHandle`, fault `<<"wifi", "link">>` | The monitor interface stays when activation fails before the handle has its socket. | `pcap-linux.c:783` |
| `at = "active" /\ warned => status = "warning"` | `PcapHandle` | The status of `setnonblock_op` replaces the warning of the activation. | `pcap_activate.3pcap:42` |
| a first `at = "active"` has `~nonblocking` | `PcapHandle` | A handle made non-blocking before activation is non-blocking when first activated. | `pcap_setnonblock.3pcap:74` |
| `at = "asked" => tp_frame_nr > 0` | `RingSize`, a buffer of 1000 | Whole blocks are rounded down to none. | `pcap-linux.c:3062` |
| `d.pc = "gone" => \A k : ~s[k].live` | `Rpcapd` | A second STARTCAP loses the first session. | `rpcapd/daemon.c:1096` |
| `d.pc # "garbled"` | `Rpcapd` | UPDATEFILTER without a session leaves its payload unread. | `rpcapd/daemon.c:1391` |
| `svrcapt # Uninit` in every answer | `Rpcapd` | STATS before the data thread first runs reports what `malloc` left. | `rpcap-protocol.h:349` |
| `svrcapt` after ENDCAP is the session's count | `Rpcapd` | The test of `pcap_stats()` is inverted. | `rpcapd/daemon.c:968` |
| a silent client is dropped | `Rpcapd` | The first octet is awaited without a timeout. | `rpcapd/daemon.c:508` |
| `CallsReturn` with `~d.active` dropped | `Rpcap`, active | `pcap_close()` waits for the answer to ENDCAP, the daemon's main thread for its data thread, and that one for the client to read. | `rpcapd/daemon.c:3064` |
| `ReplyIsMine` | `Rpcap`, fault `"read"` | The data thread's message is taken for an answer. | `pcap-rpcap.c:3441` |
| `PacketsConserved` | `Rpcap`, `CapLens = {65516}` | The length goes through 16 bits. | `rpcapd/daemon.c:2639` |
| `[][files \subseteq files']_allvars` | `Rpcap`, fault `"connect"`, passive | A descriptor is closed a second time after a failed start. | `pcap-rpcap.c:1521` |
| `c.pc # "crashed"` | `Rpcap`, active | An error text is stored through a null pointer while closing. | `pcap-rpcap.c:785` |
| `(c.pc = "done") ~> (d.pc = "gone")` | `Rpcap`, fault `"connect"` | The daemon stays in `accept()`. | `rpcapd/daemon.c:741` |
| `AppendAccepted` | `Savefile`, a handle with `ext = 2` | The link-layer type extension is not compared. | `pcap_dump_open.3pcap.in:76` |
| `w.author.sound => IsPrefix(out, Expected)` | `Savefile` | Records appended after a cut one are taken for the rest of it. | `pcap_dump_open.3pcap.in:76` |
| `Whole(disk.file, meant) >= w.told` | `Savefile` | `pcap_dump_flush` succeeds after a write failed. | `pcap_dump_flush.3pcap:35` |
| `srv.shutdown ~> (~Alive \/ ~Following("parent"))` | `Server`, UNIX | A signal outside `select()` only sets a flag, which is looked at when the next signal interrupts `select()`. | `rpcapd/rpcapd.c:828` |
| `srv.pc = "dead" => srv.conns > 0 \/ srv.shutdown` | `Server`, no passive mode | The program goes straight to `kill(0, SIGKILL)` where its comment says it blocks. | `rpcapd/rpcapd.c:616` |

**Read loops.** Where a source does not keep a clause of `ReadLoop`, `Lax` names it:

| Clause | Sources | Why |
|---|---|---|
| `drops` | Npcap, AirPcap, DAG on Windows, DLPI, libdlpi | a break that is seen before the first packet of a buffer just read drops the buffer |
| | usbmon, Bluetooth (both), netfilter, D-Bus, mapped usbmon | the packet or event batch just received is dropped by a break or an error |
| `again` | DAG on Windows | `p->cc` is kept after the packets were handed over |
| | mapped usbmon | the flush of a batch is repeated after EINTR |
| | netfilter | a malformed message after a resumed buffer starts it again |
| | DLPI without bufmod, SITA | the tail of a cut packet, or of a partial read, is taken for a packet |
| `count` | DPDK | the second burst is as large as the first |
| `number` | DPDK, netmap, Septel | packets are counted that were filtered out, or tries that found nothing |
| | DAG on Windows, mapped usbmon | 1, or 0 on EAGAIN, whatever was handed over |
| `late` | DAG, RDMA, DPDK, Septel, mapped usbmon | `PCAP_ERROR_BREAK` after packets |
| `slow` | DPDK, netmap, SITA, D-Bus, DLPI without bufmod, mapped usbmon | the flag is tested between batches, or not at all |

**Closing.** `LeftOpen`, `GivenTwice` and `Outlives` in `Lifecycle` say what a source
leaves behind after `pcap_close`, gives back twice, or leaves changed after exit: among
them the media and USB sockets of some BPF error paths, Npcap's monitor mode, the whole of
a Hurd handle (its `cleanup_op` is never set), DPDK's port, the PPA of three DLPI error
returns, Haiku's promiscuous mode, unset "iff the activation function had set it"
(`pcap-haiku.c:201`) also where it had not, and the descriptor that usbmon, netmap, DPDK
and SITA close in the source's cleanup and again in the common one.

**Devices.** `usb_findalldevs` swallows errors and TurboCap ignores those of adding;
`dag_findalldevs` leaves its card open when adding fails; DAG and Septel never know a
name with a slash again; SITA's list is in the order of names; DLPI's ATM units are added
without a look at the list, and may be there twice; an interface whose name begins like
another source's is opened by that source.

**Compiler.** `opt_peep` takes a test of all bits of a mask of ones for always true, so a
mask of that kind is not among the expressions; `gen_arth` drops the protocol check of
its right operand, so a load of a protocol's data stands only on the left of an
arithmetic operator. The byte operators `&` and `|` are left out, and the stack of
statements at the root is never empty where `opt_root` appends to it.

**pcapng.** The link-layer type of a later interface is compared, as a number in files,
with the type of the first as libpcap's own, so that a second raw IP interface is refused
although it is the same (`sf-pcapng.c:1247`); the product in the scaling wraps for very
fine binary resolutions, which makes the time wrong but never a second or more; the
number of interfaces is raised before a description is known to be good, and the model
stops reading at the error.

**Daemon.** `fileconf.c` tests for a letter the wrong way round, so that reading a
configuration file that can be opened empties the lists and sets nothing; `accept()`
blocks when the connection was withdrawn, whatever the signals; a UNIX child closes only
the listening socket its connection came by; errors before the loop end the program and
leave its active children running; on Windows a client whose thread cannot be started is
tried again for ever; the sampling value is converted as 32 bits and cut to 16
(`pcap-rpcap.c:1912`), which no model has.

## 7. Not modelled

- The generators for particular protocols and link-layer types (`gencode.c`): they chain
  the constructors of `Gencode` with offsets and constants from RFCs, and a model would
  repeat the tables. The parser and scanner are generated code; name and service lookups
  are I/O of the system's resolver.
- Statistics, sending, time stamp types and the queries for device properties: counters
  added by a kernel or a library, and single system calls.
- `pcapint_post_process`, formatting, character conversion, option parsing, logging, and
  the replacements of library functions: conversions of data without state.
- TLS and sockets (`sslutils.c`, `sockutils.c`): wrappers, modelled where `Rpcap` and
  `Rpcapd` use them.
- The exit list of `pcap.c` with several threads: the list is changed in single steps; the
  code has no lock, and two threads that close handles at once are left to the
  application.
- The list of link-layer types of a BPF device, the DLPI negotiation and the ioctls of the
  Windows drivers, of which `Lifecycle` has the order and the failures, not the contents.
