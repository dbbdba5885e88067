------------------------------ MODULE RingSize ------------------------------
(***************************************************************************)
(* How large the memory-mapped receive ring is made: the TPACKET version   *)
(* that setup_mmapped settles on, the frame, block and ring sizes that     *)
(* create_ring asks the kernel for, its retries with a smaller ring when   *)
(* memory is short, and the table of frame pointers it fills.  The numbers *)
(* are the ones of the code and of the Linux headers it uses.              *)
(***************************************************************************)
EXTENDS Naturals, FiniteSets

CONSTANTS
    Requests,   \* the captures considered: see below
    PageSize,   \* getpagesize()
    Memory      \* the ring sizes the kernel may be able to provide

\* immediate: pcap_set_immediate_mode; v3: the kernel has TPACKET_V3; ether: an
\* Ethernet device, captured raw; cooked: a cooked socket; mtu, offload: of the
\* device; buffer_size: pcap_set_buffer_size, 0 if it was not called.

ASSUME SizeAssumption ==
    /\ Requests \subseteq {r \in [immediate : BOOLEAN, v3 : BOOLEAN,
                                  ether : BOOLEAN, cooked : BOOLEAN,
                                  snapshot : Nat, mtu : Nat,
                                  offload : BOOLEAN, buffer_size : Nat] :
                              r.snapshot > 0 /\ r.mtu > 0}
    /\ PageSize \in Nat \ {0}
    /\ Memory \subseteq Nat

VARIABLES
    req,            \* the request
    at,             \* where create_ring is
    version,        \* handlep->tp_version
    tp_frame_size, tp_frame_nr, tp_block_size, tp_block_nr,
    mmapbuflen,     \* handlep->mmapbuflen
    cc, offset      \* the size of the frame table, and the entries filled

vars == <<req, at, version, tp_frame_size, tp_frame_nr, tp_block_size,
          tp_block_nr, mmapbuflen, cc, offset>>

sizes == <<tp_frame_size, tp_frame_nr, tp_block_size, tp_block_nr>>

-----------------------------------------------------------------------------
VLAN_TAG_LEN == 4
SLL2_HDR_LEN == 20
MAX_LINKHEADER_SIZE == 256
MAXIMUM_SNAPLEN == 262144
DefaultBufferSize == 2 * 1024 * 1024
Tpacket2HdrLen == 32
SockaddrLlLen == 20
TPACKET_ALIGN(x) == ((x + 15) \div 16) * 16

Smaller(a, b) == IF a < b THEN a ELSE b
Larger(a, b) == IF a < b THEN b ELSE a

\* The longest packet a V2 frame is made for.
FrameLen(r) ==
    IF r.ether
    THEN Smaller(r.snapshot, (IF r.offload THEN Larger(r.mtu, 65535) ELSE r.mtu) + 18)
    ELSE r.snapshot

\* Where the packet begins in a V2 frame: "calculus matching those in
\* tpacket_rcv()".
MacOff(r) ==
    LET tp_reserve == VLAN_TAG_LEN + (IF r.cooked THEN SLL2_HDR_LEN - 16 ELSE 0)
        maclen == IF r.cooked THEN 0 ELSE MAX_LINKHEADER_SIZE
        tp_hdrlen == TPACKET_ALIGN(Tpacket2HdrLen) + SockaddrLlLen
        netoff == TPACKET_ALIGN(tp_hdrlen + Larger(maclen, 16)) + tp_reserve
    IN  netoff - maclen

\* Round the buffer size up to a multiple of the frame size.
FramesFor(buffer, frame) == (buffer + frame - 1) \div frame

BufferSize(r) == IF r.buffer_size = 0 THEN DefaultBufferSize ELSE r.buffer_size

frames_per_block == tp_block_size \div tp_frame_size

-----------------------------------------------------------------------------
Init ==
    /\ req \in Requests
    /\ at = "version"
    /\ version = 0
    /\ tp_frame_size = 0 /\ tp_frame_nr = 0
    /\ tp_block_size = 0 /\ tp_block_nr = 0
    /\ mmapbuflen = 0 /\ cc = 0 /\ offset = 0

\* prepare_tpacket_socket: V3 unless immediate mode was asked for or the kernel
\* has no V3; V2 otherwise.
PrepareTpacketSocket ==
    /\ at = "version"
    /\ version' = IF ~req.immediate /\ req.v3 THEN 3 ELSE 2
    /\ at' = "frame"
    /\ UNCHANGED <<req, sizes, mmapbuflen, cc, offset>>

\* The switch on the version: the frame size and how many frames make up the
\* buffer that was asked for.
FrameSize ==
    /\ at = "frame"
    /\ tp_frame_size' = IF version = 2
                        THEN TPACKET_ALIGN(MacOff(req) + FrameLen(req))
                        ELSE MAXIMUM_SNAPLEN
    /\ tp_frame_nr' = FramesFor(BufferSize(req), tp_frame_size')
    /\ tp_block_size' = PageSize
    /\ at' = "block"
    /\ UNCHANGED <<req, version, tp_block_nr, mmapbuflen, cc, offset>>

\* The smallest block, a page times a power of two, that holds a frame.
BlockSize ==
    /\ at = "block"
    /\ \/ /\ tp_block_size < tp_frame_size
          /\ tp_block_size' = 2 * tp_block_size
          /\ UNCHANGED at
       \/ /\ tp_block_size >= tp_frame_size
          /\ at' = "ask"
          /\ UNCHANGED tp_block_size
    /\ UNCHANGED <<req, version, tp_frame_size, tp_frame_nr, tp_block_nr,
                   mmapbuflen, cc, offset>>

\* A mutant: the frames are not made a multiple of those in a block.
KeepsOddFrames ==
    /\ at = "ask"
    /\ tp_block_nr' = tp_frame_nr \div frames_per_block
    /\ at' = "asked"
    /\ UNCHANGED <<req, version, tp_frame_size, tp_block_size, tp_frame_nr,
                   mmapbuflen, cc, offset>>

\* retry: whole blocks only.
Ask ==
    /\ at = "ask"
    /\ tp_block_nr' = tp_frame_nr \div frames_per_block
    /\ tp_frame_nr' = tp_block_nr' * frames_per_block
    /\ at' = "asked"
    /\ UNCHANGED <<req, version, tp_frame_size, tp_block_size, mmapbuflen, cc, offset>>

\* A mutant: 5% less, rounded down to nothing for a few frames.
ShrinkByTwentieth(n) == n - (n \div 20)

\* 5% fewer frames, or one fewer when there are few.
Shrink(n) == IF n < 20 THEN n - 1 ELSE n - (n \div 20)

\* setsockopt(PACKET_RX_RING).  The kernel answers ENOMEM when it has not the
\* memory; with more than one block the request is made smaller and repeated.
NoMemory ==
    /\ at = "asked"
    /\ \E m \in Memory : tp_block_nr * tp_block_size > m
    /\ \/ /\ tp_block_nr > 1
          /\ tp_frame_nr' = Shrink(tp_frame_nr)
          /\ at' = "ask"
       \/ /\ tp_block_nr <= 1
          /\ at' = "failed"
          /\ UNCHANGED tp_frame_nr
    /\ UNCHANGED <<req, version, tp_frame_size, tp_block_size, tp_block_nr,
                   mmapbuflen, cc, offset>>

\* The kernel makes the ring; it is mapped.  A ring of no blocks has no pages,
\* and mmap() of length 0 fails.
Granted ==
    /\ at = "asked"
    /\ \E m \in Memory : tp_block_nr * tp_block_size <= m
    /\ mmapbuflen' = tp_block_nr * tp_block_size
    /\ at' = IF mmapbuflen' = 0 THEN "failed" ELSE "fill"
    /\ cc' = IF mmapbuflen' = 0 THEN cc ELSE tp_frame_nr
    /\ UNCHANGED <<req, version, sizes, offset>>

\* Fill the table with the address of every frame of every block.
Fill ==
    /\ at = "fill"
    /\ offset' = tp_block_nr * frames_per_block
    /\ at' = "ready"
    /\ UNCHANGED <<req, version, sizes, mmapbuflen, cc>>

Done ==
    /\ at \in {"ready", "failed"}
    /\ UNCHANGED vars

Step == PrepareTpacketSocket \/ FrameSize \/ BlockSize \/ Ask \/ NoMemory
        \/ Granted \/ Fill

Next == Step \/ Done

Spec == Init /\ [][Next]_vars
FairSpec == Spec /\ WF_vars(Step)

-----------------------------------------------------------------------------
(* What must hold.                                                          *)

\* Every frame whose address is put in the table lies inside the mapping, and
\* the table has exactly as many entries as are written: the reader, which
\* walks offset 0..cc-1, meets no unset pointer and no address past the end.
FramesInsideMapping ==
    at = "ready" =>
       /\ offset = cc
       /\ cc > 0
       /\ \A i \in 0..(tp_block_nr - 1), j \in 0..(frames_per_block - 1) :
             i * tp_block_size + j * tp_frame_size + tp_frame_size <= mmapbuflen

\* A V2 frame has room for the part of a packet that will be kept, after the
\* kernel's headers and the bytes reserved for the VLAN tag.
FrameHoldsPacket ==
    at = "ready" /\ version = 2 => tp_frame_size - MacOff(req) >= FrameLen(req)

\* The ring that is mapped fits its blocks and holds its packets.
RingFits == FramesInsideMapping /\ FrameHoldsPacket

\* Memory running short does not keep create_ring from returning.
Returns == <>(at \in {"ready", "failed"})

=============================================================================
