--------------------------- MODULE LinuxRingProofs ---------------------------
(***************************************************************************)
(* Theorems about LinuxRing for every ring size, block capacity, set of    *)
(* filters and bound.                                                      *)
(***************************************************************************)
EXTENDS LinuxRing, FiniteSetTheorems, TLAPS

(* The kernel's side: the block it fills is its own, and a block it hands  *)
(* over has packets in it.                                                 *)
KernelInv ==
    /\ Version = 2 => ~kopen
    /\ kopen => ring[khead].owner = "kernel" /\ Len(ring[khead].pkts) > 0
    /\ \A b \in Blocks : ring[b].owner = "user" => Len(ring[b].pkts) > 0

(* The reader's side: current_packet and packets_left describe what is     *)
(* left of a block it owns, and packets_to_read is never more than that.   *)
WalkInv ==
    /\ Version = 2 => /\ current = 0 /\ left = 0
                      /\ pc \notin {"acquire", "block", "packet"}
    /\ Version = 3 => pc # "loop"
    /\ current # 0 => /\ ring[offset].owner = "user"
                      /\ current + left = Len(ring[offset].pkts) + 1
    /\ pc = "packet" => current # 0 /\ toread <= left
    /\ pc = "handle" => ring[offset].owner = "user"
    /\ pc = "handle" /\ Version = 3 => current # 0 /\ toread < left
    /\ pc = "release" /\ Version = 3 => current # 0

IInv == TypeOK /\ KernelInv /\ WalkInv

-----------------------------------------------------------------------------
(* The successor of a block index is a block index. *)
LEMMA NextBlock == \A b \in Blocks : Next1(b) \in Blocks
  BY RingAssumption DEF Next1, Blocks

(* What the kernel does to the ring keeps its type and its own invariant,  *)
(* and leaves the contents of every block of the user alone.               *)
LEMMA PlaceLemma ==
    ASSUME KernelTypeOK, KernelInv, NEW kind \in Kinds, placed < MaxPkts,
           Place(kind)
    PROVE  /\ ring' \in [Blocks -> [owner : {"kernel", "user"},
                                    pkts : Seq(Packet)]]
           /\ khead' \in Blocks /\ kopen' \in BOOLEAN
           /\ placed' \in 0..MaxPkts
           /\ KernelInv'
           /\ \A b \in Blocks : ring[b].owner = "user" => ring'[b] = ring[b]
  <1>1. Arrived(kind) \in Packet /\ placed + 1 \in 0..MaxPkts
    BY RingAssumption DEF Arrived, Packet, KernelTypeOK
  <1>2. Next1(khead) \in Blocks
    BY NextBlock, Zenon DEF KernelTypeOK
  <1>3. <<Arrived(kind)>> \in Seq(Packet) /\ Len(<<Arrived(kind)>>) = 1
    BY <1>1
  <1>4. CASE FillFrame(kind)
    <2>1. ring' = [ring EXCEPT ![khead] = [owner |-> "user",
                                          pkts |-> <<Arrived(kind)>>]]
      BY <1>4, Zenon DEF FillFrame
    <2>2. ring' \in [Blocks -> [owner : {"kernel", "user"},
                               pkts : Seq(Packet)]]
      BY <1>3, <2>1, Zenon DEF KernelTypeOK
    <2>3. /\ \A b \in Blocks : b # khead => ring'[b] = ring[b]
          /\ Len(ring'[khead].pkts) = 1 /\ ring[khead].owner = "kernel"
      BY <1>3, <1>4, <2>1 DEF KernelTypeOK, FillFrame, Free
    <2>4. ~kopen
      BY <1>4, Zenon DEF FillFrame, KernelInv
    <2> QED
      BY <1>1, <1>2, <1>4, <2>2, <2>3, <2>4 DEF FillFrame, KernelTypeOK, KernelInv
  <1>5. CASE OpenBlock(kind)
    <2>1. ring' = [ring EXCEPT ![khead].pkts = <<Arrived(kind)>>]
      BY <1>5, Zenon DEF OpenBlock
    <2>2. ring' \in [Blocks -> [owner : {"kernel", "user"},
                               pkts : Seq(Packet)]]
      BY <1>3, <2>1, Zenon DEF KernelTypeOK
    <2>3. /\ \A b \in Blocks : b # khead => ring'[b] = ring[b]
          /\ Len(ring'[khead].pkts) = 1
          /\ ring[khead].owner = "kernel" /\ ring'[khead].owner = "kernel"
      BY <1>3, <1>5, <2>1, Zenon DEF KernelTypeOK, OpenBlock, Free
    <2> QED
      BY <1>1, <1>5, <2>2, <2>3 DEF OpenBlock, KernelTypeOK, KernelInv
  <1>6. CASE AppendToBlock(kind)
    <2>1. /\ Append(ring[khead].pkts, Arrived(kind)) \in Seq(Packet)
          /\ Len(Append(ring[khead].pkts, Arrived(kind))) > 0
      BY <1>1 DEF KernelTypeOK
    <2>2. ring' = [ring EXCEPT ![khead].pkts =
                      Append(ring[khead].pkts, Arrived(kind))]
      BY <1>6, Zenon DEF AppendToBlock
    <2>3. ring' \in [Blocks -> [owner : {"kernel", "user"},
                               pkts : Seq(Packet)]]
      BY <2>1, <2>2, Zenon DEF KernelTypeOK
    <2>4. /\ \A b \in Blocks : b # khead => ring'[b] = ring[b]
          /\ Len(ring'[khead].pkts) > 0
          /\ ring[khead].owner = "kernel" /\ ring'[khead].owner = "kernel"
      BY <1>6, <2>1, <2>2, Zenon DEF KernelTypeOK, AppendToBlock, KernelInv
    <2> QED
      BY <1>1, <1>6, <2>3, <2>4, Zenon DEF AppendToBlock, KernelTypeOK, KernelInv
  <1>7. CASE MoveOn(kind)
    <2> DEFINE n == Next1(khead)
    <2>1. /\ kopen /\ Version # 2 /\ ring[khead].owner = "kernel"
          /\ Len(ring[khead].pkts) > 0
      BY <1>7, Zenon DEF MoveOn, KernelInv
    <2>2. CASE n # khead /\ Free(n)
      <3>1. /\ ring' = [ring EXCEPT ![khead].owner = "user",
                                    ![n].pkts = <<Arrived(kind)>>]
            /\ khead' = n /\ placed' = placed + 1 /\ kopen' = kopen
        BY <1>7, <2>2, Zenon DEF MoveOn
      <3>2. ring' \in [Blocks -> [owner : {"kernel", "user"},
                                 pkts : Seq(Packet)]]
        BY <1>2, <1>3, <3>1 DEF KernelTypeOK
      <3>3. /\ \A b \in Blocks : b # khead /\ b # n => ring'[b] = ring[b]
            /\ ring'[khead].pkts = ring[khead].pkts
            /\ ring'[n].owner = "kernel" /\ ring[n].owner = "kernel"
            /\ Len(ring'[n].pkts) = 1
        BY <1>2, <1>3, <2>2, <3>1, Zenon DEF KernelTypeOK, Free
      <3>4. kopen' \in BOOLEAN /\ kopen' /\ n \in Blocks
        BY <1>2, <2>1, <3>1, Zenon DEF KernelTypeOK
      <3> HIDE DEF n
      <3>5. \A b \in Blocks : ring'[b].owner = "user" =>
                                 Len(ring'[b].pkts) > 0
        BY <2>1, <3>3, <3>4, Zenon DEF KernelInv
      <3>6. \A b \in Blocks : ring[b].owner = "user" => ring'[b] = ring[b]
        BY <2>1, <3>3, <3>4, Zenon
      <3>7. ring'[khead'].owner = "kernel" /\ Len(ring'[khead'].pkts) > 0
        BY <3>1, <3>3
      <3>8. KernelInv'
        BY <2>1, <3>5, <3>7, Zenon DEF KernelInv
      <3> QED
        BY <1>1, <3>1, <3>2, <3>4, <3>6, <3>8, Zenon
    <2>3. CASE ~(n # khead /\ Free(n))
      <3>1. /\ ring' = [ring EXCEPT ![khead].owner = "user"]
            /\ khead' = n /\ placed' = placed /\ kopen' = FALSE
        BY <1>7, <2>3, Zenon DEF MoveOn, CloseBlock
      <3>2. ring' \in [Blocks -> [owner : {"kernel", "user"},
                                 pkts : Seq(Packet)]]
        BY <3>1, Zenon DEF KernelTypeOK
      <3>3. /\ \A b \in Blocks : b # khead => ring'[b] = ring[b]
            /\ ring'[khead].pkts = ring[khead].pkts
        BY <3>1, Zenon DEF KernelTypeOK
      <3> QED
        BY <1>2, <2>1, <3>1, <3>2, <3>3, Zenon DEF KernelTypeOK, KernelInv
    <2> QED
      BY <2>2, <2>3, Zenon
  <1>8. CASE Drop
    BY <1>8, Zenon DEF Drop, KernelTypeOK, KernelInv
  <1> QED
    BY <1>4, <1>5, <1>6, <1>7, <1>8, Zenon DEF Place

(* The kernel preserves the invariant. *)
LEMMA KernelStep == IInv /\ Kernel => IInv'
  <1> SUFFICES ASSUME IInv, Kernel PROVE IInv'
    BY Zenon
  <1>1. /\ UNCHANGED <<offset, current, left, pc, toread>>
        /\ HandleTypeOK' /\ ThreadTypeOK' /\ GhostTypeOK'
    BY DEF Kernel, IInv, TypeOK, HandleTypeOK, ThreadTypeOK, GhostTypeOK,
           filters, walk, calls, device, counters, ghosts
  <1>2. ASSUME KernelTypeOK', KernelInv',
               \A b \in Blocks : ring[b].owner = "user" => ring'[b] = ring[b]
        PROVE  IInv'
    BY <1>1, <1>2, Zenon DEF IInv, TypeOK, HandleTypeOK, WalkInv
  <1>3. ASSUME NEW kind \in Kinds, KernelReceive(kind) PROVE IInv'
    BY <1>2, <1>3, PlaceLemma, Zenon DEF KernelReceive, IInv, TypeOK, KernelTypeOK
  <1>4. ASSUME NEW c \in CPUs, NEW kind \in Kinds, KernelAccept(c, kind)
        PROVE  IInv'
    BY <1>2, <1>4, Zenon DEF KernelAccept, IInv, TypeOK, KernelTypeOK, KernelInv
  <1>5. ASSUME NEW c \in CPUs, KernelFinish(c) PROVE IInv'
    <2>1. cpu[c] \in Kinds
      BY <1>5, Zenon DEF KernelFinish, IInv, TypeOK, KernelTypeOK
    <2> QED
      BY <1>2, <1>5, <2>1, PlaceLemma, Zenon
         DEF KernelFinish, IInv, TypeOK, KernelTypeOK
  <1>6. CASE KernelRetire
    <2>1. Next1(khead) \in Blocks
      BY NextBlock, Zenon DEF IInv, TypeOK, KernelTypeOK
    <2>2. KernelTypeOK' /\ KernelInv'
      BY <1>6, <2>1, Zenon DEF KernelRetire, CloseBlock, IInv, TypeOK,
                        KernelTypeOK, KernelInv
    <2>3. \A b \in Blocks : ring[b].owner = "user" => ring'[b] = ring[b]
      BY <1>6, Zenon DEF KernelRetire, CloseBlock, IInv, TypeOK, KernelTypeOK,
                  KernelInv
    <2> QED
      BY <1>2, <2>2, <2>3, Zenon
  <1> QED
    BY <1>3, <1>4, <1>5, <1>6, Zenon DEF Kernel

(* A step that touches neither the ring nor the reader's place in it       *)
(* preserves the invariant, if it goes where no claim about that place is  *)
(* made or stays where it was.                                             *)
LEMMA AwayFromRing ==
    ASSUME IInv, UNCHANGED <<ring, khead, kopen, walk, toread>>,
           TypeOK',
           \/ pc' = pc
           \/ pc' \in {"idle", "first", "poll", "event", "eventbreak",
                       "checkdev", "break", "total", "attach", "count"}
           \/ Version = 3 /\ pc' \in {"acquire", "block"}
           \/ Version = 2 /\ pc' = "loop"
    PROVE  IInv'
  BY DEF IInv, KernelInv, WalkInv, walk

(* The interface, the breaking thread and the calls preserve it. *)
LEMMA OutsideStep ==
    IInv /\ (Device \/ SetBreak \/ WriteEvent \/ Call) => IInv'
  <1> SUFFICES ASSUME IInv, Device \/ SetBreak \/ WriteEvent \/ Call
               PROVE  IInv'
    BY Zenon
  <1> USE RingAssumption DEF IInv, TypeOK
  <1>1. CASE Device
    <2>1. ifstate' \in {"up", "down", "gone"} /\ downs' \in 0..MaxDowns
      BY <1>1 DEF Device, HandleTypeOK, ThreadTypeOK
    <2>2. so_error' \in BOOLEAN
      BY <1>1, Zenon DEF Device, HandleTypeOK
    <2>3. TypeOK'
      BY <1>1, <2>1, <2>2 DEF Device, KernelTypeOK, HandleTypeOK, ThreadTypeOK,
                        GhostTypeOK, kernel, filters, walk, calls, ghosts
    <2> QED
      BY <1>1, <2>3, AwayFromRing, Zenon DEF Device, kernel, walk, calls
  <1>2. CASE SetBreak
    <2>1. TypeOK'
      BY <1>2 DEF SetBreak, KernelTypeOK, HandleTypeOK, ThreadTypeOK,
                  GhostTypeOK, kernel, filters, walk, calls, device
    <2> QED
      BY <1>2, <2>1, AwayFromRing, Zenon DEF SetBreak, kernel, walk, calls
  <1>3. CASE WriteEvent
    <2>1. TypeOK'
      BY <1>3 DEF WriteEvent, Signalled, KernelTypeOK, HandleTypeOK,
                  ThreadTypeOK, GhostTypeOK, kernel, filters, walk, calls,
                  device, counters, ghosts
    <2> QED
      BY <1>3, <2>1, AwayFromRing, Zenon DEF WriteEvent, kernel, walk, calls
  <1>4. ASSUME NEW cnt \in Counts, Dispatch(cnt) PROVE IInv'
    <2>1. TypeOK'
      BY <1>4 DEF Dispatch, INT_MAX, KernelTypeOK, HandleTypeOK,
                  ThreadTypeOK, GhostTypeOK, kernel, filters, walk, device,
                  counters, ghosts
    <2> QED
      BY <1>4, <2>1, AwayFromRing, Zenon DEF Dispatch, kernel, walk
  <1>5. ASSUME NEW F \in Filters, SetFilter(F) PROVE IInv'
    <2>1. TypeOK'
      BY <1>5 DEF SetFilter, Return, ERROR, KernelTypeOK, HandleTypeOK,
                  ThreadTypeOK, GhostTypeOK, walk, device, ghosts
    <2> QED
      BY <1>5, <2>1, AwayFromRing, Zenon DEF SetFilter, Return, walk
  <1>6. ASSUME NEW mode \in Modes, SetNonblock(mode) PROVE IInv'
    <2>1. TypeOK'
      BY <1>6 DEF SetNonblock, Return, ERROR, NonBlocking, KernelTypeOK,
                  HandleTypeOK, ThreadTypeOK, GhostTypeOK, kernel, filters,
                  walk, device, counters, ghosts
    <2> QED
      BY <1>6, <2>1, AwayFromRing, Zenon DEF SetNonblock, Return, kernel, walk
  <1> QED
    BY <1>1, <1>2, <1>3, <1>4, <1>5, <1>6, Zenon DEF Call

(* No more free blocks are counted than the ring has. *)
LEMMA FreeBlocksBound == FreeBlocks \in 0..CC
  <1> DEFINE S == {n \in 0..(CC - 1) :
                     \A m \in 0..n : Free((offset - 2 - m) % CC)}
  <1>1. IsFiniteSet(0..(CC - 1)) /\ Cardinality(0..(CC - 1)) = CC
    BY FS_Interval, RingAssumption
  <1>2. IsFiniteSet(S) /\ Cardinality(S) <= CC
    BY <1>1, FS_Subset
  <1>3. Cardinality(S) \in Nat
    BY <1>2, FS_CardinalityType, Zenon
  <1> QED
    BY <1>2, <1>3, RingAssumption DEF FreeBlocks

(* The poll() loop and the installation of a filter preserve it. *)
LEMMA WaitStep == IInv /\ (Wait \/ Install) => IInv'
  <1> SUFFICES ASSUME IInv, Wait \/ Install PROVE IInv'
    BY Zenon
  <1> USE RingAssumption DEF IInv, TypeOK
  <1>1. UNCHANGED <<ring, khead, kopen, walk, toread>>
    BY Zenon DEF Wait, Install, PollInterrupted, PollFails, PollNetDown,
           PollReturns, ReadEvent, EventBreak, CheckDevice, TotalFilter,
           AttachFilter, CountBlocks, kernel, calls
  <1>2. \/ pc' \in {"idle", "poll", "event", "eventbreak", "checkdev",
                    "attach", "count"}
        \/ Version = 3 /\ pc' = "acquire"
        \/ Version = 2 /\ pc' = "loop"
    BY Zenon DEF Wait, Install, PollInterrupted, PollFails, PollNetDown,
           PollReturns, ReadEvent, EventBreak, CheckDevice, TotalFilter,
           AttachFilter, CountBlocks, Return, ReturnBreak, Waited
  <1>3. ASSUME TypeOK' PROVE IInv'
    BY <1>1, <1>2, <1>3, AwayFromRing, Zenon
  <1> USE DEF KernelTypeOK, HandleTypeOK, ThreadTypeOK, GhostTypeOK
  <1>4. CASE PollInterrupted
    <2>1. break_loop' \in BOOLEAN
      BY <1>4, Zenon DEF PollInterrupted, ReturnBreak
    <2> QED
      BY <1>3, <1>4, <2>1 DEF PollInterrupted, ReturnBreak, Return, BREAK,
                              kernel, filters, walk, device, counters
  <1>5. CASE PollFails
    BY <1>3, <1>5 DEF PollFails, Return, ERROR, kernel, filters, walk,
                      device, counters, ghosts
  <1>6. CASE PollNetDown
    <2>1. so_error' \in BOOLEAN /\ netdown' \in BOOLEAN
      BY <1>6, Zenon DEF PollNetDown
    <2> QED
      BY <1>3, <1>6, <2>1 DEF PollNetDown, kernel, filters, walk, calls,
                              counters, ghosts
  <1>7. CASE PollReturns
    BY <1>3, <1>7 DEF PollReturns, Waited, kernel, filters, walk, calls,
                      device, counters, ghosts
  <1>8. CASE ReadEvent
    BY <1>3, <1>8 DEF ReadEvent, kernel, filters, walk, calls, device,
                      counters, ghosts
  <1>9. CASE EventBreak
    <2>1. break_loop' \in BOOLEAN
      BY <1>9, Zenon DEF EventBreak, ReturnBreak
    <2> QED
      BY <1>3, <1>9, <2>1 DEF EventBreak, ReturnBreak, Return, BREAK,
                              kernel, filters, walk, device, counters
  <1>10. CASE CheckDevice
    <2>1. netdown' \in BOOLEAN
      BY <1>10, Zenon DEF CheckDevice
    <2> QED
      BY <1>3, <1>10, <2>1 DEF CheckDevice, Return, GONE, Waited, kernel,
                               filters, walk, counters, ghosts
  <1>11. CASE TotalFilter
    BY <1>3, <1>11 DEF TotalFilter, Return, ERROR, filters, walk, device,
                       counters, ghosts
  <1>12. CASE AttachFilter
    <2>1. in_userland' \in BOOLEAN
      BY <1>12, Zenon DEF AttachFilter
    <2> QED
      BY <1>3, <1>12, <2>1 DEF AttachFilter, Return, ERROR, walk, device,
                               counters, ghosts
  <1>13. CASE CountBlocks
    <2>1. FreeBlocks \in 0..CC
      BY FreeBlocksBound, Zenon
    <2> QED
      BY <1>3, <1>13, <2>1 DEF CountBlocks, BlocksToFilter, Return, kernel,
                               walk, device, counters, ghosts
  <1> QED
    BY <1>4, <1>5, <1>6, <1>7, <1>8, <1>9, <1>10, <1>11, <1>12, <1>13, Zenon
       DEF Wait, Install

(* Handling a packet moves the reader's place by one inside its block. *)
LEMMA HandleStep == IInv /\ HandlePacket => IInv'
  <1> SUFFICES ASSUME IInv, HandlePacket PROVE IInv'
    BY Zenon
  <1> USE RingAssumption DEF IInv, TypeOK
  <1>1. Index \in 1..Len(ring[offset].pkts)
    BY DEF HandlePacket, Index, WalkInv, KernelInv, KernelTypeOK,
           HandleTypeOK, ThreadTypeOK
  <1>2. ThisPacket \in Packet
    BY <1>1 DEF ThisPacket, KernelTypeOK, HandleTypeOK
  <1>3. /\ UNCHANGED <<ring, khead, kopen, offset, toread>>
        /\ KernelTypeOK' /\ KernelInv'
    BY Zenon DEF HandlePacket, KernelTypeOK, KernelInv, kernel
  <1>4. CASE ThisPacket.kind \in Corrupt
    <2>1. current' = 0 /\ pc' = "idle" /\ left' = left
      BY <1>4, Zenon DEF HandlePacket, Return
    <2>2. TypeOK'
      BY <1>3, <1>4, <2>1
         DEF HandlePacket, Return, ERROR, HandleTypeOK, ThreadTypeOK,
             GhostTypeOK, filters, device, counters, ghosts
    <2> QED
      BY <1>3, <2>1, <2>2, Zenon DEF WalkInv
  <1>5. CASE ThisPacket.kind \notin Corrupt
    <2>1. IF Version = 3
          THEN current' = current + 1 /\ left' = left - 1 /\ pc' = "packet"
          ELSE current' = current /\ left' = left /\ pc' = "release"
      BY <1>5, Zenon DEF HandlePacket
    <2>2. Version = 3 => left > 0 /\ current # 0
      BY DEF HandlePacket, WalkInv, HandleTypeOK, ThreadTypeOK
    <2>3. GhostTypeOK' /\ pkts' \in Nat
      BY <1>2, <1>5 DEF HandlePacket, GhostTypeOK, ThreadTypeOK, Packet
    <2>4. HandleTypeOK'
      BY <1>3, <2>1, <2>2 DEF HandlePacket, HandleTypeOK, filters, device
    <2>5. ThreadTypeOK'
      BY <1>3, <1>5, <2>1, <2>3, Zenon DEF HandlePacket, ThreadTypeOK, counters
    <2>6. WalkInv'
      BY <1>3, <2>1, <2>2 DEF HandlePacket, WalkInv, HandleTypeOK,
                              ThreadTypeOK
    <2> QED
      BY <1>3, <2>3, <2>4, <2>5, <2>6, Zenon
  <1> QED
    BY <1>4, <1>5, Zenon

(* Handing a finished block back ends every claim about it. *)
LEMMA ReleaseStep == IInv /\ Release => IInv'
  <1> SUFFICES ASSUME IInv, Release PROVE IInv'
    OBVIOUS
  <1> USE DEF IInv, TypeOK
  <1>1. /\ UNCHANGED <<khead, kopen, kfilter, cpu, placed, left>>
        /\ pc' = "break"
        /\ ThreadTypeOK' /\ GhostTypeOK'
    BY Zenon DEF Release, ThreadTypeOK, GhostTypeOK, calls, counters, ghosts
  <1>2. CASE left <= 0
    <2>1. /\ ring' = [ring EXCEPT ![offset].owner = "kernel"]
          /\ current' = 0 /\ offset' = NextOffset
      BY <1>2, Zenon DEF Release
    <2>2. /\ \A b \in Blocks : b # offset => ring'[b] = ring[b]
          /\ ring'[offset].owner = "kernel"
          /\ ring'[offset].pkts = ring[offset].pkts
      BY <2>1, Zenon DEF KernelTypeOK, HandleTypeOK
    <2>3. KernelTypeOK'
      <3>1. ring' \in [Blocks -> [owner : {"kernel", "user"},
                                 pkts : Seq(Packet)]]
        <4>1. ring \in [Blocks -> [owner : {"kernel", "user"},
                                 pkts : Seq(Packet)]]
          BY Zenon DEF KernelTypeOK
        <4> QED
          BY <2>1, <4>1, Zenon
      <3> QED
        BY <1>1, <3>1, Zenon DEF KernelTypeOK
    <2>4. KernelInv'
      BY <1>1, <2>2, Zenon DEF KernelInv, KernelTypeOK
    <2>5. offset' \in Blocks /\ blocks' \in 0..CC
      BY <1>2, <2>1, RingAssumption DEF Release, NextOffset, HandleTypeOK, Blocks
    <2>6. in_userland' \in BOOLEAN
      BY <1>2, Zenon DEF Release
    <2>7. HandleTypeOK'
      BY <1>1, <2>1, <2>5, <2>6, Zenon DEF Release, HandleTypeOK, device
    <2> QED
      BY <1>1, <2>1, <2>3, <2>4, <2>7, Zenon DEF WalkInv
  <1>3. CASE ~(left <= 0)
    BY <1>1, <1>3 DEF Release, KernelTypeOK, HandleTypeOK, KernelInv,
                      WalkInv, device
  <1> QED
    BY <1>2, <1>3, Zenon

(* EnterBlock sets current_packet and packets_left to describe the block   *)
(* anew, or leaves those of a half-read one.                               *)
LEMMA EnterStep == IInv /\ EnterBlock => IInv'
  <1> SUFFICES ASSUME IInv, EnterBlock PROVE IInv'
    OBVIOUS
  <1> USE RingAssumption DEF IInv, TypeOK
  <1>1. /\ UNCHANGED <<ring, khead, kopen, offset, pkts, max>>
        /\ KernelTypeOK' /\ GhostTypeOK' /\ KernelInv'
    BY Zenon DEF EnterBlock, KernelTypeOK, GhostTypeOK, KernelInv, kernel, ghosts
  <1>2. CASE pkts < max /\ (current # 0 \/ Acquired)
    <2> DEFINE n == IF current # 0 THEN left ELSE Len(ring[offset].pkts)
    <2>1. /\ current' = StartAt /\ left' = n /\ pc' = "packet"
          /\ toread' = IF n > max - pkts THEN max - pkts ELSE n
          /\ ret' = ret
      BY <1>2, Zenon DEF EnterBlock
    <2>2. /\ n \in Nat /\ ring[offset].owner = "user"
          /\ StartAt \in Nat \ {0}
          /\ StartAt + n = Len(ring[offset].pkts) + 1
      BY <1>2 DEF WalkInv, KernelTypeOK, HandleTypeOK, Acquired, StartAt
    <2> HIDE DEF n
    <2>3. toread' \in Nat /\ toread' <= n
      <3>1. max \in Nat /\ pkts \in Nat /\ pkts < max
        BY <1>2, Zenon DEF ThreadTypeOK
      <3> QED
        BY <2>1, <2>2, <3>1
    <2>4. HandleTypeOK' /\ ThreadTypeOK'
      BY <1>1, <2>1, <2>2, <2>3
         DEF EnterBlock, HandleTypeOK, ThreadTypeOK, filters, device, counters
    <2>5. WalkInv'
      BY <1>1, <2>1, <2>2, <2>3, Zenon DEF WalkInv, EnterBlock
    <2> QED
      BY <1>1, <2>4, <2>5, Zenon
  <1>3. CASE ~(pkts < max /\ (current # 0 \/ Acquired))
    <2>1. /\ UNCHANGED <<current, left, toread>>
          /\ pc' \in {"first", "idle"} /\ ret' \in {ret, pkts}
      BY <1>3, Zenon DEF EnterBlock, Return
    <2>2. HandleTypeOK' /\ ThreadTypeOK'
      BY <1>1, <2>1 DEF EnterBlock, HandleTypeOK, ThreadTypeOK, filters,
                        device, counters
    <2> QED
      BY <1>1, <2>1, <2>2, Zenon DEF WalkInv
  <1> QED
    BY <1>2, <1>3, Zenon

(* The read routines preserve the invariant. *)
LEMMA ReadStep == IInv /\ Read => IInv'
  <1> SUFFICES ASSUME IInv, Read PROVE IInv'
    OBVIOUS
  <1> USE DEF IInv, TypeOK
  <1>1. CASE First
    <2>1. TypeOK'
      BY <1>1 DEF First, Waited, KernelTypeOK, HandleTypeOK, ThreadTypeOK,
                  GhostTypeOK, kernel, filters, walk, calls, device,
                  counters, ghosts
    <2> QED
      BY <1>1, <2>1, AwayFromRing, RingAssumption, Zenon
         DEF First, Waited, kernel, walk, calls
  <1>2. CASE Acquire
    <2>1. TypeOK'
      BY <1>2 DEF Acquire, Return, KernelTypeOK, HandleTypeOK, ThreadTypeOK,
                  GhostTypeOK, kernel, filters, walk, device, counters,
                  ghosts
    <2>2. Version = 3
      BY <1>2, RingAssumption, Zenon DEF Acquire, WalkInv
    <2> QED
      BY <1>2, <2>1, <2>2, AwayFromRing, Zenon DEF Acquire, Return, kernel, walk
  <1>3. CASE NextPacket
    <2>1. Version = 3 /\ UNCHANGED <<ring, khead, kopen, walk>>
      BY <1>3, RingAssumption, Zenon DEF NextPacket, WalkInv, kernel
    <2>2. toread' \in Nat
      BY <1>3 DEF NextPacket, GoOn, ThreadTypeOK
    <2>3. KernelTypeOK' /\ HandleTypeOK' /\ GhostTypeOK'
      BY <1>3 DEF NextPacket, KernelTypeOK, HandleTypeOK, GhostTypeOK, kernel,
                  filters, walk, device, counters, ghosts
    <2>4. ThreadTypeOK'
      BY <1>3, <2>2, Zenon DEF NextPacket, ThreadTypeOK, counters
    <2> QED
      BY <1>3, <2>1, <2>3, <2>4 DEF NextPacket, GoOn, KernelInv, WalkInv, walk,
                                    ThreadTypeOK, HandleTypeOK
  <1>4. CASE NextFrame
    <2>1. TypeOK'
      BY <1>4 DEF NextFrame, Return, KernelTypeOK, HandleTypeOK,
                  ThreadTypeOK, GhostTypeOK, kernel, filters, walk, device,
                  counters, ghosts
    <2>2. Version = 2
      BY <1>4, RingAssumption, Zenon DEF NextFrame, WalkInv
    <2> QED
      BY <1>4, <2>1, <2>2, Zenon DEF NextFrame, Return, Acquired, KernelInv, WalkInv,
                              KernelTypeOK, HandleTypeOK, kernel, walk
  <1>5. CASE LoopBreak
    <2>1. break_loop' \in BOOLEAN
      BY <1>5, Zenon DEF LoopBreak, ReturnBreak, HandleTypeOK
    <2>2. KernelTypeOK' /\ HandleTypeOK' /\ GhostTypeOK'
      BY <1>5, <2>1 DEF LoopBreak, ReturnBreak, Return, KernelTypeOK,
                        HandleTypeOK, GhostTypeOK, kernel, filters, walk, device
    <2>3. ThreadTypeOK'
      BY <1>5 DEF LoopBreak, ReturnBreak, Return, BREAK, ThreadTypeOK, walk,
                  counters
    <2> QED
      BY <1>5, <2>2, <2>3, AwayFromRing, RingAssumption, Zenon
         DEF LoopBreak, ReturnBreak, Return, kernel, walk
  <1> QED
    BY <1>1, <1>2, <1>3, <1>4, <1>5, EnterStep, HandleStep, ReleaseStep, Zenon
       DEF Read

(* The state pcap_activate_linux() leaves satisfies the invariant. *)
LEMMA InitInv == Init => IInv
  <1> SUFFICES ASSUME Init PROVE IInv
    BY Zenon
  <1> USE RingAssumption DEF Init
  <1>1. KernelTypeOK
    <2>1. 0 \in Blocks /\ <<>> \in Seq(Packet)
      BY DEF Blocks
    <2>2. kopen \in BOOLEAN
      BY Zenon
    <2> QED
      BY <2>1, <2>2 DEF KernelTypeOK
  <1>2. HandleTypeOK
    <2>1. /\ in_userland \in BOOLEAN /\ break_loop \in BOOLEAN
          /\ so_error \in BOOLEAN /\ netdown \in BOOLEAN
      BY Zenon
    <2>2. timeout \in {Timeout, -Timeout - 1} /\ event \in {-1, 0, 1}
      BY Zenon
    <2> QED
      BY <2>1, <2>2 DEF HandleTypeOK, Blocks
  <1>3. ThreadTypeOK /\ GhostTypeOK
    BY DEF ThreadTypeOK, GhostTypeOK
  <1>4. KernelInv /\ WalkInv
    BY Zenon DEF KernelInv, WalkInv
  <1> QED
    BY <1>1, <1>2, <1>3, <1>4, Zenon DEF IInv, TypeOK

(* The invariant holds in every state. *)
LEMMA Invariant == Spec => []IInv
  <1>1. IInv /\ UNCHANGED vars => IInv'
    <2> SUFFICES ASSUME IInv, UNCHANGED vars PROVE IInv'
      BY Zenon
    <2> USE DEF vars, kernel, filters, walk, calls, device, counters, ghosts
    <2>1. KernelTypeOK'
      BY Zenon DEF IInv, TypeOK, KernelTypeOK
    <2>2. HandleTypeOK'
      BY Zenon DEF IInv, TypeOK, HandleTypeOK
    <2>3. ThreadTypeOK'
      BY Zenon DEF IInv, TypeOK, ThreadTypeOK
    <2>4. GhostTypeOK'
      BY Zenon DEF IInv, TypeOK, GhostTypeOK
    <2> QED
      BY <2>1, <2>2, <2>3, <2>4, AwayFromRing, Zenon DEF TypeOK
  <1>2. IInv /\ [Next]_vars => IInv'
    BY <1>1, KernelStep, OutsideStep, WaitStep, ReadStep, Zenon DEF Next
  <1> QED
    BY <1>2, InitInv, PTL DEF Spec

(* Every variable keeps its type, whatever the ring's size and the bounds. *)
THEOREM TypeCorrect == Spec => []TypeOK
  <1>1. IInv => TypeOK
    BY Zenon DEF IInv
  <1> QED
    BY <1>1, Invariant, PTL

(* The reader handles a packet only out of a block it owns and at an index *)
(* the block has, for every ring size and block capacity: what             *)
(* pcap_read_linux_mmap_v3() keeps between calls never goes stale.         *)
THEOREM InBounds == Spec => []ReaderInBounds
  <1>1. IInv => ReaderInBounds
    <2> SUFFICES ASSUME IInv PROVE ReaderInBounds
      BY Zenon
    <2> USE DEF IInv, TypeOK, KernelTypeOK, HandleTypeOK
    <2>1. Len(ring[offset].pkts) \in Nat
      OBVIOUS
    <2>2. ASSUME pc = "handle"
          PROVE  /\ ring[offset].owner = "user"
                 /\ Index \in 1..Len(ring[offset].pkts)
      <3>1. ring[offset].owner = "user" /\ Len(ring[offset].pkts) > 0
        BY <2>2, Zenon DEF WalkInv, KernelInv
      <3>2. Version = 3 => current # 0 /\ toread < left /\ toread \in Nat
                           /\ current + left = Len(ring[offset].pkts) + 1
        BY <2>2, Zenon DEF WalkInv, ThreadTypeOK
      <3> QED
        BY <2>1, <3>1, <3>2 DEF Index
    <2> QED
      BY <2>2, Zenon DEF WalkInv, ReaderInBounds
  <1> QED
    BY <1>1, Invariant, PTL
-----------------------------------------------------------------------------
(* Why at most one packet follows pcap_breakloop(): the packet that is     *)
(* counted takes the thread to a check of break_loop before the next one.  *)
SinceInv ==
    /\ ~break_loop => since = 0
    /\ since <= 1
    /\ since = 1 => pc \in {"packet", "release", "break"}

(* Every step preserves that. *)
LEMMA SinceStep == IInv /\ SinceInv /\ [Next]_vars => SinceInv'
  <1> SUFFICES ASSUME IInv, SinceInv, [Next]_vars PROVE SinceInv'
    BY Zenon
  <1>1. since \in Nat /\ break_loop \in BOOLEAN
    BY Zenon DEF IInv, TypeOK, HandleTypeOK, GhostTypeOK
  <1> USE DEF SinceInv
  <1>2. CASE UNCHANGED <<break_loop, since, pc>>
    BY <1>2, Zenon
  <1>3. CASE SetBreak
    BY <1>1, <1>3, Zenon DEF SetBreak
  <1>4. CASE UNCHANGED <<break_loop, since>> /\ since = 0
    BY <1>4
  <1>5. CASE PollInterrupted \/ EventBreak \/ LoopBreak
    BY <1>1, <1>5 DEF PollInterrupted, EventBreak, LoopBreak, ReturnBreak,
                      Return
  <1>6. CASE NextPacket
    BY <1>1, <1>6 DEF NextPacket, GoOn, ghosts
  <1>7. CASE HandlePacket
    BY <1>1, <1>7 DEF HandlePacket, Return, ghosts
  <1>8. CASE Release
    BY <1>1, <1>8, Zenon DEF Release, ghosts
  <1>9. CASE Kernel \/ Device \/ WriteEvent \/ UNCHANGED vars
    BY <1>2, <1>9, Zenon DEF Kernel, Device, WriteEvent, vars, ghosts
  <1>10. CASE Call \/ Install
    BY <1>1, <1>4, <1>10, Zenon
       DEF Call, Install, Dispatch, SetFilter, SetNonblock, TotalFilter,
           AttachFilter, CountBlocks, ghosts
  <1>11. CASE PollFails \/ PollNetDown \/ PollReturns \/ ReadEvent
              \/ CheckDevice
    BY <1>1, <1>4, <1>11, Zenon
       DEF PollFails, PollNetDown, PollReturns, ReadEvent, CheckDevice, ghosts
  <1>12. CASE First \/ Acquire \/ EnterBlock \/ NextFrame
    BY <1>1, <1>4, <1>12, Zenon DEF First, Acquire, EnterBlock, NextFrame, ghosts
  <1> QED
    BY <1>3, <1>5, <1>6, <1>7, <1>8, <1>9, <1>10, <1>11, <1>12, Zenon
       DEF Next, Wait, Read

(* Once pcap_breakloop() has set the flag, at most one more packet is      *)
(* processed before the read routine returns, in V2 and in V3.             *)
THEOREM OneMore == Spec => []AtMostOneMore
  <1>1. Init => SinceInv
    BY DEF Init, SinceInv
  <1>2. SinceInv => AtMostOneMore
    BY Zenon DEF SinceInv, AtMostOneMore
  <1> QED
    BY <1>1, <1>2, SinceStep, Invariant, PTL DEF Spec

(* The three together: what pcap_read_linux_mmap_v2() and _v3() rely on    *)
(* from call to call holds for every ring, capacity and bound.             *)
THEOREM ReaderSafe == Spec => []ReaderInv
  <1>1. TypeOK /\ ReaderInBounds /\ AtMostOneMore => ReaderInv
    BY Zenon DEF ReaderInv
  <1> QED
    BY <1>1, TypeCorrect, InBounds, OneMore, PTL

-----------------------------------------------------------------------------
(* Why a break is not lost while the mode stays what it was when it was    *)
(* asked for: blocking mode has an eventfd, and a break that is pending    *)
(* has made it readable, or the thread is about to look at the flag.       *)
BreakInv ==
    /\ event = -1 <=> NonBlocking
    /\ pc = "event" => event = 1
    /\ ~NonBlocking /\ break_loop /\ bpc = "idle" =>
          event = 1 \/ pc = "eventbreak"

(* Every step preserves that. *)
LEMMA BreakStep ==
    ASSUME ~SwitchPending
    PROVE  IInv /\ BreakInv /\ [Next]_vars => BreakInv'
  <1> SUFFICES ASSUME IInv, BreakInv, [Next]_vars PROVE BreakInv'
    BY Zenon
  <1>1. /\ timeout \in Int /\ event \in {-1, 0, 1} /\ break_loop \in BOOLEAN
        /\ Timeout \in Nat
    BY RingAssumption DEF IInv, TypeOK, HandleTypeOK
  <1> USE DEF BreakInv, NonBlocking
  <1>2. CASE Kernel \/ Device \/ UNCHANGED vars
    BY <1>2 DEF Kernel, Device, vars
  <1>3. CASE SetBreak
    BY <1>1, <1>3, Zenon DEF SetBreak
  <1>4. CASE WriteEvent
    BY <1>1, <1>4 DEF WriteEvent, Signalled
  <1>5. CASE PollInterrupted \/ EventBreak \/ LoopBreak
    BY <1>1, <1>5 DEF PollInterrupted, EventBreak, LoopBreak, ReturnBreak,
                      Return
  <1>6. CASE PollFails \/ PollNetDown \/ PollReturns \/ CheckDevice
    BY <1>1, <1>6 DEF PollFails, PollNetDown, PollReturns, CheckDevice,
                      Return, Waited
  <1>7. CASE ReadEvent
    BY <1>1, <1>7 DEF ReadEvent
  <1>8. CASE First \/ Acquire \/ EnterBlock \/ NextPacket \/ NextFrame
    BY <1>1, <1>8 DEF First, Acquire, EnterBlock, NextPacket, NextFrame,
                      Return, Waited
  <1>9. CASE HandlePacket \/ Release
    BY <1>1, <1>9 DEF HandlePacket, Release, Return
  <1>10. CASE Install
    BY <1>1, <1>10 DEF Install, TotalFilter, AttachFilter, CountBlocks, Return
  <1>11. ASSUME NEW mode \in Modes, SetNonblock(mode) PROVE BreakInv'
    BY <1>1, <1>11 DEF SetNonblock, Return
  <1>12. CASE \/ \E cnt \in Counts : Dispatch(cnt)
              \/ \E F \in Filters : SetFilter(F)
    BY <1>1, <1>12 DEF Dispatch, SetFilter, Return
  <1> QED
    BY <1>2, <1>3, <1>4, <1>5, <1>6, <1>7, <1>8, <1>9, <1>10, <1>11, <1>12, Zenon
       DEF Next, Wait, Read, Call

(* A thread about to block in poll() with a break pending is woken by the  *)
(* eventfd: the break cannot be lost between its check and its poll(), as  *)
(* long as the mode is not switched with a break pending.                  *)
THEOREM BreakNotLost == ASSUME ~SwitchPending PROVE Spec => []NoLostBreak
  <1>1. Init => BreakInv
    <2> SUFFICES ASSUME Init PROVE BreakInv
      BY Zenon
    <2>1. ~break_loop /\ pc = "idle"
      BY Zenon DEF Init
    <2>2. \/ timeout = Timeout /\ event = 0
          \/ timeout = -Timeout - 1 /\ event = -1
      BY Zenon DEF Init
    <2>3. event = -1 <=> timeout < 0
      BY <2>2, RingAssumption
    <2> QED
      BY <2>1, <2>3, Zenon DEF BreakInv, NonBlocking
  <1>2. BreakInv => NoLostBreak
    BY Zenon DEF BreakInv, NoLostBreak
  <1>3. IInv /\ BreakInv /\ [Next]_vars => BreakInv'
    BY BreakStep, Zenon
  <1> QED
    BY <1>1, <1>2, <1>3, Invariant, PTL DEF Spec

-----------------------------------------------------------------------------
(* Whose blocks are whose.  Positions are counted from the reader's        *)
(* offset, without the remainder, which the provers cannot reason about.   *)

Wrap(x) == IF x < CC THEN x ELSE x - CC

Distance(b) == IF b >= offset THEN b - offset ELSE b - offset + CC

(* RingInv with n blocks of the user *)
UserBlocks(n) ==
    /\ n \in 0..CC
    /\ khead = Wrap(offset + n)
    /\ \A b \in Blocks : ring[b].owner = "user" <=> Distance(b) < n
    /\ kopen => n < CC

(* A block is handed back by the one that owns it. *)
OwnInv ==
    /\ \E n \in 0..CC : UserBlocks(n)
    /\ pc = "release" => ring[offset].owner = "user"

(* The remainder of a number below twice the ring's size. *)
LEMMA WrapIsRemainder == \A x \in 0..(2 * CC - 1) : x % CC = Wrap(x)
  <1>1. CC \in Nat /\ CC > 0
    BY RingAssumption
  <1> SUFFICES ASSUME NEW x \in 0..(2 * CC - 1) PROVE x % CC = Wrap(x)
    BY Zenon
  <1>2. CASE x < CC
    BY <1>1, <1>2 DEF Wrap
  <1>3. CASE x >= CC
    <2> DEFINE y == x - CC
    <2>1. y \in 0..(CC - 1) /\ x = y + CC
      BY <1>1, <1>3
    <2>2. (y + CC) % CC = y
      BY <1>1, <2>1
    <2> QED
      BY <1>1, <1>3, <2>1, <2>2 DEF Wrap
  <1> QED
    BY <1>1, <1>2, <1>3

(* The successor of a block, the same way. *)
LEMMA NextIsWrap == \A b \in Blocks : Next1(b) = Wrap(b + 1)
  BY WrapIsRemainder, RingAssumption DEF Next1, Blocks

(* What the invariant says of the blocks is what RingInv says. *)
LEMMA OwnImpliesRing == TypeOK /\ OwnInv => RingInv
  <1> SUFFICES ASSUME TypeOK, OwnInv PROVE RingInv
    BY Zenon
  <1>1. PICK n \in 0..CC : UserBlocks(n)
    BY Zenon DEF OwnInv
  <1>2. CC \in Nat /\ CC > 0 /\ offset \in 0..(CC - 1)
    BY RingAssumption DEF TypeOK, HandleTypeOK, Blocks
  <1>3. khead = (offset + n) % CC
    BY <1>1, <1>2, WrapIsRemainder DEF UserBlocks
  <1>4. ASSUME NEW i \in Blocks
        PROVE  ring[(offset + i) % CC].owner = "user" <=> i < n
    <2>1. i \in 0..(CC - 1) /\ (offset + i) % CC = Wrap(offset + i)
      BY <1>2, WrapIsRemainder DEF Blocks
    <2>2. Wrap(offset + i) \in Blocks /\ Distance(Wrap(offset + i)) = i
      BY <1>2, <2>1 DEF Wrap, Distance, Blocks
    <2> QED
      BY <1>1, <2>1, <2>2, Zenon DEF UserBlocks
  <1> QED
    BY <1>1, <1>3, <1>4, Zenon DEF RingInv, UserBlocks

(* The kernel hands the block it is at over and moves to the next one; it  *)
(* may open that one only if it is its own.                                *)
LEMMA HandOver ==
    ASSUME TypeOK, NEW n \in 0..CC, UserBlocks(n),
           ring[khead].owner = "kernel",
           khead' = Next1(khead), offset' = offset,
           ring'[khead].owner = "user",
           \A b \in Blocks : b # khead => ring'[b].owner = ring[b].owner,
           kopen' => /\ Next1(khead) # khead
                     /\ ring[Next1(khead)].owner = "kernel"
    PROVE  \E m \in 0..CC : UserBlocks(m)'
  <1>1. CC \in Nat /\ CC > 0 /\ offset \in 0..(CC - 1) /\ khead \in 0..(CC - 1)
    BY RingAssumption DEF TypeOK, KernelTypeOK, HandleTypeOK, Blocks
  <1>2. n < CC
    <2> SUFFICES ASSUME n = CC PROVE FALSE
      BY <1>1
    <2>1. khead = offset /\ Distance(khead) < n
      BY <1>1 DEF UserBlocks, Wrap, Distance
    <2> QED
      BY <1>1, <2>1, Zenon DEF UserBlocks, Blocks
  <1>3. Distance(khead) = n /\ \A b \in Blocks : Distance(b) = n => b = khead
    BY <1>1, <1>2 DEF UserBlocks, Wrap, Distance, Blocks
  <1>4. khead' = Wrap(offset + n + 1)
    BY <1>1, <1>2, NextIsWrap DEF UserBlocks, Wrap, Blocks
  <1>5. ASSUME NEW b \in Blocks
        PROVE  ring'[b].owner = "user" <=> Distance(b) < n + 1
    <2>1. Distance(b) \in Int
      BY <1>1 DEF Distance, Blocks
    <2> QED
      BY <1>1, <1>3, <2>1 DEF UserBlocks
  <1>6. kopen' => n + 1 < CC
    <2> SUFFICES ASSUME kopen', n + 1 = CC PROVE FALSE
      BY <1>1, <1>2
    <2>1. khead' = offset
      BY <1>1, <1>4 DEF Wrap
    <2>2. ring[offset].owner = "kernel" /\ khead # offset
      BY <2>1, Zenon
    <2>3. Distance(offset) = 0 /\ n # 0
      BY <1>1, <1>2, <2>2 DEF Distance, UserBlocks, Wrap
    <2> QED
      BY <1>1, <2>2, <2>3 DEF UserBlocks, Blocks
  <1>7. UserBlocks(n + 1)'
    BY <1>1, <1>2, <1>4, <1>5, <1>6 DEF UserBlocks, Wrap, Distance
  <1> QED
    BY <1>1, <1>2, <1>7

(* Filling a block leaves every block with the one that has it. *)
LEMMA SameOwners ==
    ASSUME NEW n \in 0..CC, UserBlocks(n), UNCHANGED <<khead, offset>>,
           \A b \in Blocks : ring'[b].owner = ring[b].owner,
           kopen' => n < CC
    PROVE  \E m \in 0..CC : UserBlocks(m)'
  <1>1. UserBlocks(n)'
    BY Zenon DEF UserBlocks, Wrap, Distance
  <1> QED
    BY <1>1, Zenon

(* The kernel opens only a block of its own. *)
LEMMA OwnBlockLeft ==
    ASSUME TypeOK, NEW n \in 0..CC, UserBlocks(n),
           ring[khead].owner = "kernel"
    PROVE  n < CC
  <1>1. CC \in Nat /\ CC > 0 /\ offset \in 0..(CC - 1) /\ khead \in Blocks
    BY RingAssumption DEF TypeOK, KernelTypeOK, HandleTypeOK, Blocks
  <1> SUFFICES ASSUME n = CC PROVE FALSE
    BY <1>1
  <1>2. Distance(khead) < n
    BY <1>1 DEF UserBlocks, Wrap, Distance
  <1> QED
    BY <1>1, <1>2, Zenon DEF UserBlocks

(* Placing a packet keeps the user's blocks together. *)
LEMMA PlaceOwners ==
    ASSUME IInv, NEW n \in 0..CC, UserBlocks(n), NEW kind, Place(kind),
           offset' = offset
    PROVE  \E m \in 0..CC : UserBlocks(m)'
  <1> USE DEF IInv, TypeOK, KernelTypeOK
  <1>1. khead \in Blocks /\ Next1(khead) \in Blocks
    BY NextBlock, Zenon
  <1>2. CASE FillFrame(kind)
    <2>1. /\ ring[khead].owner = "kernel" /\ khead' = Next1(khead)
          /\ ring'[khead].owner = "user"
          /\ \A b \in Blocks : b # khead => ring'[b].owner = ring[b].owner
          /\ ~kopen'
      BY <1>1, <1>2, Zenon DEF FillFrame, Free, KernelInv
    <2> QED
      BY <2>1, HandOver, Zenon
  <1>3. CASE OpenBlock(kind)
    <2>1. /\ ring[khead].owner = "kernel" /\ khead' = khead
          /\ \A b \in Blocks : ring'[b].owner = ring[b].owner
      BY <1>1, <1>3, Zenon DEF OpenBlock, Free
    <2> QED
      BY <2>1, OwnBlockLeft, SameOwners, Zenon
  <1>4. CASE AppendToBlock(kind)
    <2>1. /\ ring[khead].owner = "kernel" /\ khead' = khead
          /\ \A b \in Blocks : ring'[b].owner = ring[b].owner
      BY <1>1, <1>4, Zenon DEF AppendToBlock, KernelInv
    <2> QED
      BY <2>1, OwnBlockLeft, SameOwners
  <1>5. CASE MoveOn(kind)
    <2>1. ring[khead].owner = "kernel" /\ khead' = Next1(khead)
      BY <1>5, Zenon DEF MoveOn, KernelInv, CloseBlock
    <2>2. CASE Next1(khead) # khead /\ Free(Next1(khead))
      <3> DEFINE after == Next1(khead)
      <3>1. /\ ring' = [ring EXCEPT ![khead].owner = "user",
                                    ![after].pkts = <<Arrived(kind)>>]
            /\ after # khead /\ after \in Blocks
        BY <1>1, <1>5, <2>2, Zenon DEF MoveOn
      <3> HIDE DEF after
      <3>2. /\ ring'[khead].owner = "user"
            /\ \A b \in Blocks : b # khead => ring'[b].owner = ring[b].owner
        BY <1>1, <3>1, Zenon
      <3> QED
        BY <2>1, <2>2, <3>2, HandOver, Zenon DEF Free
    <2>3. CASE ~(Next1(khead) # khead /\ Free(Next1(khead)))
      <3>1. /\ ring'[khead].owner = "user" /\ ~kopen'
            /\ \A b \in Blocks : b # khead => ring'[b].owner = ring[b].owner
        BY <1>1, <1>5, <2>3, Zenon DEF MoveOn, CloseBlock
      <3> QED
        BY <2>1, <3>1, HandOver, Zenon
    <2> QED
      BY <2>2, <2>3, Zenon
  <1>6. CASE Drop
    <2>1. /\ khead' = khead /\ ~kopen'
          /\ \A b \in Blocks : ring'[b].owner = ring[b].owner
      BY <1>6, Zenon DEF Drop
    <2> QED
      BY <2>1, SameOwners, Zenon
  <1> QED
    BY <1>2, <1>3, <1>4, <1>5, <1>6, Zenon DEF Place

(* The kernel's steps. *)
LEMMA KernelOwners == IInv /\ OwnInv /\ Kernel => OwnInv'
  <1> SUFFICES ASSUME IInv, OwnInv, Kernel PROVE OwnInv'
    BY Zenon
  <1>1. UNCHANGED <<offset, pc>> /\ offset \in Blocks
    BY Zenon DEF Kernel, walk, calls, IInv, TypeOK, HandleTypeOK
  <1>2. PICK n \in 0..CC : UserBlocks(n)
    BY Zenon DEF OwnInv
  <1>3. ASSUME NEW kind \in Kinds, KernelReceive(kind) PROVE OwnInv'
    <2>1. \E m \in 0..CC : UserBlocks(m)'
      BY <1>1, <1>2, <1>3, PlaceOwners, Zenon DEF KernelReceive
    <2>2. \A b \in Blocks : ring[b].owner = "user" => ring'[b] = ring[b]
      BY <1>3, PlaceLemma, Zenon DEF KernelReceive, IInv, TypeOK
    <2> QED
      BY <1>1, <2>1, <2>2, Zenon DEF OwnInv
  <1>4. ASSUME NEW c \in CPUs, NEW kind \in Kinds, KernelAccept(c, kind)
        PROVE  OwnInv'
    BY <1>1, <1>2, <1>4, SameOwners, Zenon DEF KernelAccept, OwnInv, UserBlocks
  <1>5. ASSUME NEW c \in CPUs, KernelFinish(c) PROVE OwnInv'
    <2>1. \E m \in 0..CC : UserBlocks(m)'
      BY <1>1, <1>2, <1>5, PlaceOwners, Zenon DEF KernelFinish
    <2>2. cpu[c] \in Kinds
      BY <1>5, Zenon DEF KernelFinish, IInv, TypeOK, KernelTypeOK
    <2>3. \A b \in Blocks : ring[b].owner = "user" => ring'[b] = ring[b]
      BY <1>5, <2>2, PlaceLemma, Zenon DEF KernelFinish, IInv, TypeOK
    <2> QED
      BY <1>1, <2>1, <2>3 DEF OwnInv
  <1>6. CASE KernelRetire
    <2>1. /\ ring[khead].owner = "kernel" /\ khead' = Next1(khead)
          /\ ring'[khead].owner = "user" /\ ~kopen'
          /\ \A b \in Blocks : b # khead => ring'[b] = ring[b]
      BY <1>6, Zenon DEF KernelRetire, CloseBlock, IInv, TypeOK, KernelTypeOK,
                  KernelInv
    <2>2. \E m \in 0..CC : UserBlocks(m)'
      BY <1>1, <1>2, <2>1, HandOver, Zenon DEF IInv
    <2> QED
      BY <1>1, <2>1, <2>2, Zenon DEF OwnInv
  <1> QED
    BY <1>3, <1>4, <1>5, <1>6, Zenon DEF Kernel

(* The reader hands back the first of the user's blocks. *)
LEMMA ReleaseOwners == IInv /\ OwnInv /\ Release => OwnInv'
  <1> SUFFICES ASSUME IInv, OwnInv, Release PROVE OwnInv'
    OBVIOUS
  <1>1. PICK n \in 0..CC : UserBlocks(n)
    BY DEF OwnInv
  <1>2. /\ CC \in Nat /\ CC > 0 /\ offset \in 0..(CC - 1) /\ offset \in Blocks
        /\ UNCHANGED <<khead, kopen>> /\ pc' = "break"
    BY RingAssumption DEF IInv, TypeOK, HandleTypeOK, Blocks, Release
  <1>3. CASE left <= 0
    <2>1. Distance(offset) = 0 /\ n > 0
      BY <1>1, <1>2 DEF OwnInv, Release, UserBlocks, Distance
    <2>2. /\ offset' = NextOffset /\ ring'[offset].owner = "kernel"
          /\ \A b \in Blocks : b # offset => ring'[b].owner = ring[b].owner
      BY <1>2, <1>3, Zenon DEF Release, IInv, TypeOK, KernelTypeOK
    <2>3. khead = Wrap(offset' + (n - 1))
      BY <1>1, <1>2, <2>1, <2>2 DEF UserBlocks, Wrap, NextOffset
    <2>4. ASSUME NEW b \in Blocks
          PROVE  ring'[b].owner = "user" <=> Distance(b)' < n - 1
      <3>1. CASE b = offset
        BY <1>2, <2>2, <3>1 DEF Distance, NextOffset
      <3>2. CASE b # offset
        <4>1. Distance(b)' = Distance(b) - 1 /\ Distance(b) \in Int
          BY <1>2, <2>2, <3>2 DEF Distance, NextOffset, Blocks
        <4> QED
          BY <1>1, <2>2, <3>2, <4>1 DEF UserBlocks
      <3> QED
        BY <3>1, <3>2, Zenon
    <2>5. UserBlocks(n - 1)'
      BY <1>1, <1>2, <2>1, <2>3, <2>4 DEF UserBlocks, Wrap
    <2> QED
      BY <1>2, <2>1, <2>5 DEF OwnInv
  <1>4. CASE ~(left <= 0)
    <2>1. UNCHANGED <<ring, offset>>
      BY <1>4, Zenon DEF Release
    <2> QED
      BY <1>1, <1>2, <2>1, SameOwners, Zenon DEF OwnInv, UserBlocks
  <1> QED
    BY <1>3, <1>4, Zenon

(* Every step keeps the blocks of the ring apart. *)
LEMMA OwnStep == IInv /\ OwnInv /\ [Next]_vars => OwnInv'
  <1> SUFFICES ASSUME IInv, OwnInv, [Next]_vars PROVE OwnInv'
    OBVIOUS
  <1>1. ASSUME UNCHANGED <<ring, khead, kopen, offset>>,
               pc' = "release" => ring[offset].owner = "user"
        PROVE  OwnInv'
    <2>1. PICK n \in 0..CC : UserBlocks(n)
      BY Zenon DEF OwnInv
    <2>2. \E m \in 0..CC : UserBlocks(m)'
      BY <1>1, <2>1, SameOwners, Zenon DEF UserBlocks
    <2> QED
      BY <1>1, <2>2, Zenon DEF OwnInv
  <1>2. CASE Kernel
    BY <1>2, KernelOwners, Zenon
  <1>3. CASE Release
    BY <1>3, ReleaseOwners, Zenon
  <1>4. CASE Device \/ SetBreak \/ WriteEvent \/ UNCHANGED vars
    BY <1>1, <1>4, Zenon DEF OwnInv, Device, SetBreak, WriteEvent, vars, kernel, walk,
                      calls
  <1>5. CASE NextPacket
    BY <1>1, <1>5, Zenon DEF NextPacket, IInv, WalkInv, kernel, walk
  <1>6. CASE HandlePacket
    BY <1>1, <1>6, Zenon DEF HandlePacket, IInv, WalkInv, kernel
  <1>7. CASE First \/ Acquire \/ EnterBlock \/ NextFrame \/ LoopBreak
    BY <1>1, <1>7, Zenon DEF First, Acquire, EnterBlock, NextFrame, LoopBreak, Return,
                      ReturnBreak, Waited, kernel, walk
  <1>8. CASE Wait
    BY <1>1, <1>8, Zenon DEF Wait, PollInterrupted, PollFails, PollNetDown,
                      PollReturns, ReadEvent, EventBreak, CheckDevice, Return,
                      ReturnBreak, Waited, kernel, walk
  <1>9. CASE Install
    BY <1>1, <1>9, Zenon DEF Install, TotalFilter, AttachFilter, CountBlocks, Return,
                      kernel, walk
  <1>10. CASE Call
    BY <1>1, <1>10, Zenon DEF Call, Dispatch, SetFilter, SetNonblock, Return, kernel,
                       walk
  <1> QED
    BY <1>2, <1>3, <1>4, <1>5, <1>6, <1>7, <1>8, <1>9, <1>10 DEF Next, Read

(* The ownership of the blocks holds in every state. *)
LEMMA OwnInvariant == Spec => []OwnInv
  <1>1. Init => OwnInv
    <2> SUFFICES ASSUME Init PROVE OwnInv
      OBVIOUS
    <2>1. UserBlocks(0)
      BY RingAssumption DEF Init, UserBlocks, Wrap, Distance, Blocks
    <2> QED
      BY <2>1, RingAssumption DEF OwnInv, Init
  <1>2. IInv /\ OwnInv /\ [Next]_vars => OwnInv'
    BY OwnStep, Zenon
  <1> QED
    BY <1>1, <1>2, Invariant, PTL DEF Spec

(* For every ring size, the blocks of the user are the ones from the       *)
(* reader's offset up to the block the kernel fills: the kernel and        *)
(* pcap_read_linux_mmap_v2/v3() never use a block together, and blocks are *)
(* read in the order they were filled.                                     *)
THEOREM BlocksKeptApart == Spec => []RingInv
  <1>1. IInv /\ OwnInv => RingInv
    BY OwnImpliesRing, Zenon DEF IInv
  <1> QED
    BY <1>1, Invariant, OwnInvariant, PTL

-----------------------------------------------------------------------------
(* What the ring holds.  A block is live while it has packets the reader   *)
(* has not given back: it is the user's, or it is the one being filled.    *)

Live(b) == ring[b].owner = "user" \/ (kopen /\ b = khead)

Size(b) == Len(ring[b].pkts)

(* The number of the first packet of a block *)
Low(b) == ring[b].pkts[1].id

(* The live blocks are the first m from the reader's offset on *)
LiveUpTo(m) == \A b \in Blocks : Live(b) <=> Distance(b) < m

(* Distances from the offset tell blocks apart. *)
LEMMA Distances ==
    ASSUME TypeOK
    PROVE  /\ CC \in Nat /\ CC > 0
           /\ \A b \in Blocks : Distance(b) \in 0..(CC - 1)
           /\ \A a, b \in Blocks : Distance(a) = Distance(b) => a = b
           /\ \A d \in 0..(CC - 1) : \E b \in Blocks : Distance(b) = d
           /\ offset \in Blocks /\ Distance(offset) = 0
           /\ khead \in Blocks
  <1>1. CC \in Nat /\ CC > 0 /\ offset \in 0..(CC - 1) /\ khead \in Blocks
    BY RingAssumption DEF TypeOK, KernelTypeOK, HandleTypeOK, Blocks
  <1>2. ASSUME NEW d \in 0..(CC - 1) PROVE \E b \in Blocks : Distance(b) = d
    <2>1. /\ Wrap(offset + d) \in Blocks
          /\ Distance(Wrap(offset + d)) = d
      BY <1>1 DEF Wrap, Distance, Blocks
    <2> QED
      BY <2>1, Zenon
  <1> QED
    BY <1>1, <1>2 DEF Distance, Blocks

(* A live block has packets, and they have numbers. *)
LEMMA LiveHasPackets ==
    ASSUME IInv, NEW b \in Blocks, Live(b)
    PROVE  /\ Size(b) \in Nat /\ Size(b) > 0 /\ Low(b) \in Nat
           /\ ring[b].pkts \in Seq(Packet)
  <1>1. ring[b].pkts \in Seq(Packet) /\ Len(ring[b].pkts) > 0
    BY Zenon DEF IInv, TypeOK, KernelTypeOK, KernelInv, Live
  <1>2. ring[b].pkts[1] \in Packet /\ Len(ring[b].pkts) \in Nat
    BY <1>1
  <1>3. MaxPkts \in Nat
    BY RingAssumption, Zenon
  <1> QED
    BY <1>1, <1>2, <1>3 DEF Size, Low, Packet

(* The live blocks are the user's and the one being filled after them. *)
LEMMA LiveFromOwners ==
    ASSUME IInv, NEW n \in 0..CC, UserBlocks(n)
    PROVE  /\ n < CC => Distance(khead) = n
           /\ LiveUpTo(IF kopen THEN n + 1 ELSE n)
  <1>1. CC \in Nat /\ CC > 0 /\ offset \in 0..(CC - 1)
    BY RingAssumption DEF IInv, TypeOK, HandleTypeOK, Blocks
  <1>2. n < CC => Distance(khead) = n
    BY <1>1 DEF UserBlocks, Wrap, Distance
  <1>3. CASE kopen
    <2>1. Distance(khead) = n /\ khead \in Blocks
      BY <1>2, <1>3, Zenon DEF UserBlocks, IInv, TypeOK, KernelTypeOK
    <2>2. ASSUME NEW b \in Blocks PROVE Live(b) <=> Distance(b) < n + 1
      <3>1. Distance(b) \in Int /\ (Distance(b) = n => b = khead)
        BY <2>1, Distances DEF IInv
      <3>2. ring[b].owner = "user" <=> Distance(b) < n
        BY Zenon DEF UserBlocks
      <3> QED
        BY <1>3, <2>1, <3>1, <3>2 DEF Live
    <2> QED
      BY <1>2, <1>3, <2>2, Zenon DEF LiveUpTo
  <1>4. CASE ~kopen
    BY <1>2, <1>4, Zenon DEF LiveUpTo, Live, UserBlocks
  <1> QED
    BY <1>3, <1>4, Zenon

-----------------------------------------------------------------------------
(* The three things that happen to the packets when the kernel places one. *)

(* Nothing: the packet is dropped, or the block in the way is handed over *)
KeepsPackets ==
    /\ \A b \in Blocks : Live(b)' <=> Live(b)
    /\ \A b \in Blocks : Live(b) => ring'[b].pkts = ring[b].pkts
    /\ placed' = placed

(* The packet goes into the block that is being filled, the last live one *)
AddsTo(b0, kind) ==
    /\ LiveUpTo(Distance(b0) + 1)
    /\ \A b \in Blocks : Live(b)' <=> Live(b)
    /\ \A b \in Blocks : b # b0 => ring'[b].pkts = ring[b].pkts
    /\ ring'[b0].pkts = Append(ring[b0].pkts, Arrived(kind))
    /\ Version # 2
    /\ placed' = placed + 1

(* It is the first of a block that comes right after the live ones *)
Begins(b0, kind) ==
    /\ LiveUpTo(Distance(b0))
    /\ \A b \in Blocks : Live(b)' <=> Live(b) \/ b = b0
    /\ \A b \in Blocks : Live(b) => ring'[b].pkts = ring[b].pkts
    /\ ring'[b0].pkts = <<Arrived(kind)>>
    /\ placed' = placed + 1

(* Handing the open block over does nothing to the packets. *)
LEMMA CloseKeeps ==
    ASSUME IInv, kopen, CloseBlock, placed' = placed
    PROVE  KeepsPackets
  <1>1. /\ khead \in Blocks /\ ~kopen'
        /\ ring'[khead].owner = "user"
        /\ \A b \in Blocks : ring'[b].pkts = ring[b].pkts
        /\ \A b \in Blocks : b # khead => ring'[b].owner = ring[b].owner
    BY Zenon DEF CloseBlock, IInv, TypeOK, KernelTypeOK
  <1> QED
    BY <1>1, Zenon DEF KeepsPackets, Live

(* Placing a packet does one of the three. *)
LEMMA PlaceShape ==
    ASSUME IInv, OwnInv, NEW kind \in Kinds, Place(kind), offset' = offset
    PROVE  \/ KeepsPackets
           \/ \E b \in Blocks : AddsTo(b, kind) \/ Begins(b, kind)
  <1>1. PICK n \in 0..CC : UserBlocks(n)
    BY Zenon DEF OwnInv
  <1>2. /\ CC \in Nat /\ CC > 0 /\ khead \in Blocks /\ Next1(khead) \in Blocks
        /\ offset \in Blocks
        /\ \A b \in Blocks : Distance(b) \in 0..(CC - 1)
        /\ TypeOK
    BY Distances, NextBlock, Zenon DEF IInv
  <1>3. ring[khead].owner = "kernel" => n < CC /\ Distance(khead) = n
    BY <1>1, <1>2, OwnBlockLeft, LiveFromOwners, Zenon
  <1>4. LiveUpTo(IF kopen THEN n + 1 ELSE n)
    BY <1>1, LiveFromOwners, Zenon
  <1>5. CASE FillFrame(kind)
    <2>1. /\ ring[khead].owner = "kernel" /\ ~kopen /\ ~kopen'
          /\ ring'[khead].owner = "user"
          /\ ring'[khead].pkts = <<Arrived(kind)>>
          /\ \A b \in Blocks : b # khead => ring'[b] = ring[b]
          /\ placed' = placed + 1
      BY <1>2, <1>5, Zenon DEF FillFrame, Free, IInv, TypeOK, KernelTypeOK,
                               KernelInv
    <2>2. LiveUpTo(Distance(khead))
      BY <1>3, <1>4, <2>1, Zenon
    <2>3. ~Live(khead)
      BY <2>1, Zenon DEF Live
    <2>4. Begins(khead, kind)
      BY <2>1, <2>2, <2>3, Zenon DEF Begins, Live
    <2> QED
      BY <1>2, <2>4, Zenon
  <1>6. CASE OpenBlock(kind)
    <2>1. /\ ring[khead].owner = "kernel" /\ ~kopen /\ kopen'
          /\ khead' = khead
          /\ \A b \in Blocks : ring'[b].owner = ring[b].owner
          /\ ring'[khead].pkts = <<Arrived(kind)>>
          /\ \A b \in Blocks : b # khead => ring'[b] = ring[b]
          /\ placed' = placed + 1
      BY <1>2, <1>6, Zenon DEF OpenBlock, Free, IInv, TypeOK, KernelTypeOK
    <2>2. LiveUpTo(Distance(khead))
      BY <1>3, <1>4, <2>1, Zenon
    <2>3. ~Live(khead)
      BY <2>1, Zenon DEF Live
    <2>4. Begins(khead, kind)
      BY <2>1, <2>2, <2>3, Zenon DEF Begins, Live
    <2> QED
      BY <1>2, <2>4, Zenon
  <1>7. CASE AppendToBlock(kind)
    <2>1. /\ ring[khead].owner = "kernel" /\ kopen /\ kopen'
          /\ khead' = khead
          /\ \A b \in Blocks : ring'[b].owner = ring[b].owner
          /\ ring'[khead].pkts = Append(ring[khead].pkts, Arrived(kind))
          /\ \A b \in Blocks : b # khead => ring'[b] = ring[b]
          /\ placed' = placed + 1 /\ Version # 2
      BY <1>2, <1>7, Zenon DEF AppendToBlock, IInv, TypeOK, KernelTypeOK,
                               KernelInv
    <2>2. Distance(khead) = n /\ LiveUpTo(n + 1)
      BY <1>3, <1>4, <2>1, Zenon
    <2>3. AddsTo(khead, kind)
      BY <2>1, <2>2, Zenon DEF AddsTo, Live
    <2> QED
      BY <1>2, <2>3, Zenon
  <1>8. CASE MoveOn(kind)
    <2> DEFINE next == Next1(khead)
    <2>1. kopen /\ ring[khead].owner = "kernel"
      BY <1>8, Zenon DEF MoveOn, IInv, KernelInv
    <2>2. CASE next # khead /\ Free(next)
      <3>1. /\ ring' = [ring EXCEPT ![khead].owner = "user",
                                    ![next].pkts = <<Arrived(kind)>>]
            /\ khead' = next /\ placed' = placed + 1 /\ kopen'
            /\ next \in Blocks /\ next # khead /\ ring[next].owner = "kernel"
        BY <1>2, <1>8, <2>1, <2>2, Zenon DEF MoveOn, Free
      <3>2. Distance(next) = n + 1
        <4>1. /\ n < CC /\ Distance(khead) = n /\ offset \in 0..(CC - 1)
              /\ khead \in 0..(CC - 1) /\ next = Wrap(khead + 1)
          BY <1>2, <1>3, <2>1, NextIsWrap, Zenon DEF Blocks
        <4>2. ~(Distance(next) < n)
          BY <1>1, <3>1, Zenon DEF UserBlocks
        <4> HIDE DEF next
        <4> QED
          BY <1>2, <4>1, <4>2, <3>1 DEF Distance, Wrap
      <3> HIDE DEF next
      <3>3. /\ ring'[khead].owner = "user"
            /\ ring'[next].owner = "kernel"
            /\ ring'[khead].pkts = ring[khead].pkts
            /\ ring'[next].pkts = <<Arrived(kind)>>
            /\ \A b \in Blocks : b # khead /\ b # next => ring'[b] = ring[b]
        BY <1>2, <3>1, Zenon DEF IInv, TypeOK, KernelTypeOK
      <3>4. LiveUpTo(Distance(next))
        BY <1>4, <2>1, <3>2, Zenon
      <3>5. \A b \in Blocks : Live(b)' <=> Live(b) \/ b = next
        BY <1>2, <2>1, <3>1, <3>3, Zenon DEF Live
      <3>6. \A b \in Blocks : Live(b) => ring'[b].pkts = ring[b].pkts
        BY <2>1, <3>1, <3>3, Zenon DEF Live
      <3>7. Begins(next, kind)
        BY <3>1, <3>3, <3>4, <3>5, <3>6, Zenon DEF Begins
      <3> QED
        BY <3>1, <3>7, Zenon
    <2>3. CASE ~(next # khead /\ Free(next))
      BY <1>8, <2>1, <2>3, CloseKeeps, Zenon DEF MoveOn
    <2> QED
      BY <2>2, <2>3, Zenon
  <1>9. CASE Drop
    BY <1>9, Zenon DEF Drop, KeepsPackets, Live
  <1> QED
    BY <1>5, <1>6, <1>7, <1>8, <1>9, Zenon DEF Place

-----------------------------------------------------------------------------
(* The numbers of the packets in the ring.                                 *)

(* Follows(a, b): b is the block after a, with a before it *)
Follows(a, b) == Distance(b) = Distance(a) + 1

(* The numbers in the live blocks go up by one from packet to packet and   *)
(* from block to block, up to the number of the last packet placed.        *)
WithinBlocks ==
    \A b \in Blocks : Live(b) =>
       /\ \A j \in 1..Size(b) : ring[b].pkts[j].id = Low(b) + (j - 1)
       /\ Version = 2 => Size(b) = 1

AcrossBlocks ==
    \A a, b \in Blocks :
       Live(a) /\ Live(b) /\ Follows(a, b) => Low(b) = Low(a) + Size(a)

UpToNewest ==
    \A a \in Blocks :
       Live(a) /\ (\A b \in Blocks : Live(b) => ~Follows(a, b)) =>
          Low(a) + Size(a) = placed + 1

(* Where the reader is in them: the last packet it handled is the one      *)
(* before its place in the block, or before the block.  A frame that does  *)
(* not pass the bounds check makes it begin the block again.               *)
Reached ==
    /\ ~Live(offset) => handled = placed
    /\ Live(offset) /\ current > 1 => handled = Low(offset) + (current - 2)
    /\ Live(offset) /\ Version = 2 /\ pc = "release" => handled = Low(offset)
    /\ Live(offset) /\ current <= 1 /\ ~(Version = 2 /\ pc = "release") =>
          /\ Low(offset) <= handled + 1
          /\ Corrupt = {} => Low(offset) = handled + 1

NumberInv == WithinBlocks /\ AcrossBlocks /\ UpToNewest /\ Reached

(* Steps of the kernel that leave the packets alone. *)
LEMMA KeepsNumbers ==
    ASSUME IInv, NumberInv, KeepsPackets,
           UNCHANGED <<offset, current, pc, handled>>
    PROVE  NumberInv'
  <1>1. /\ \A b \in Blocks : Live(b)' <=> Live(b)
        /\ \A b \in Blocks : Live(b) => Size(b)' = Size(b) /\ Low(b)' = Low(b)
        /\ \A b \in Blocks : Live(b) => ring'[b].pkts = ring[b].pkts
        /\ \A b \in Blocks : Distance(b)' = Distance(b)
        /\ offset \in Blocks /\ placed' = placed
    BY Zenon DEF KeepsPackets, Size, Low, Distance, IInv, TypeOK,
                 HandleTypeOK
  <1>2. WithinBlocks'
    BY <1>1, Zenon DEF NumberInv, WithinBlocks
  <1>3. AcrossBlocks'
    BY <1>1, Zenon DEF NumberInv, AcrossBlocks, Follows
  <1>4. UpToNewest'
    <2> SUFFICES ASSUME NEW a \in Blocks, Live(a)',
                        \A b \in Blocks : Live(b)' => ~Follows(a, b)'
                 PROVE  Low(a)' + Size(a)' = placed' + 1
      BY Zenon DEF UpToNewest
    <2>1. \A b \in Blocks : Live(b) => ~Follows(a, b)
      BY <1>1, Zenon DEF Follows
    <2>2. Low(a) + Size(a) = placed + 1
      BY <1>1, <2>1, Zenon DEF NumberInv, UpToNewest
    <2> QED
      BY <1>1, <2>2, Zenon
  <1>5. Reached'
    BY <1>1, Zenon DEF NumberInv, Reached
  <1> QED
    BY <1>2, <1>3, <1>4, <1>5, Zenon DEF NumberInv

(* A packet added to the last live block gets the next number. *)
LEMMA AddsNumber ==
    ASSUME IInv, NumberInv, NEW b0 \in Blocks, NEW kind, AddsTo(b0, kind),
           UNCHANGED <<offset, current, pc, handled>>
    PROVE  NumberInv'
  <1>1. /\ \A b \in Blocks : Live(b)' <=> Live(b)
        /\ \A b \in Blocks : b # b0 => Size(b)' = Size(b) /\ Low(b)' = Low(b)
        /\ \A b \in Blocks : b # b0 => ring'[b].pkts = ring[b].pkts
        /\ \A b \in Blocks : Distance(b)' = Distance(b)
        /\ offset \in Blocks /\ placed' = placed + 1 /\ Version # 2
        /\ placed \in Nat
    BY DEF AddsTo, Size, Low, Distance, IInv, TypeOK, HandleTypeOK,
           KernelTypeOK
  <1>2. /\ \A b \in Blocks : Distance(b) \in 0..(CC - 1)
        /\ \A d \in 0..(CC - 1) : \E b \in Blocks : Distance(b) = d
        /\ \A a, b \in Blocks : Distance(a) = Distance(b) => a = b
        /\ CC \in Nat
    BY Distances, Zenon DEF IInv
  <1>3. \A b \in Blocks : Live(b) <=> Distance(b) < Distance(b0) + 1
    BY Zenon DEF AddsTo, LiveUpTo
  <1>4. Live(b0)
    BY <1>2, <1>3
  <1>5. /\ Size(b0) \in Nat /\ Size(b0) > 0 /\ Low(b0) \in Nat
        /\ ring[b0].pkts \in Seq(Packet)
    BY <1>4, LiveHasPackets, Zenon
  <1>6. \A b \in Blocks : Live(b) => ~Follows(b0, b)
    BY <1>2, <1>3 DEF Follows
  <1>7. Low(b0) + Size(b0) = placed + 1
    BY <1>6, <1>4, Zenon DEF NumberInv, UpToNewest
  <1> DEFINE s == ring[b0].pkts
             e == Arrived(kind)
  <1>8. s \in Seq(Packet) /\ Len(s) > 0 /\ e.id = placed + 1
    BY <1>5, Zenon DEF Size, Arrived
  <1>9. ring'[b0].pkts = Append(s, e)
    BY Zenon DEF AddsTo
  <1> HIDE DEF s, e
  <1>10. /\ Len(Append(s, e)) = Len(s) + 1 /\ Append(s, e)[Len(s) + 1] = e
        /\ \A j \in 1..Len(s) : Append(s, e)[j] = s[j]
    BY <1>8
  <1>11. Size(b0)' = Size(b0) + 1 /\ Low(b0)' = Low(b0)
    BY <1>5, <1>8, <1>9, <1>10 DEF Size, Low, s
  <1>12. /\ \A j \in 1..Size(b0) : ring'[b0].pkts[j] = s[j]
         /\ ring'[b0].pkts[Size(b0) + 1].id = placed + 1
    BY <1>5, <1>8, <1>9, <1>10, Zenon DEF Size, s
  <1>13. \A j \in 1..Size(b0) : s[j].id = Low(b0) + (j - 1)
    BY <1>4, Zenon DEF NumberInv, WithinBlocks, s
  <1>14. \A j \in 1..Size(b0)' : ring'[b0].pkts[j].id = Low(b0)' + (j - 1)
    <2> SUFFICES ASSUME NEW j \in 1..Size(b0)'
                 PROVE  ring'[b0].pkts[j].id = Low(b0)' + (j - 1)
      BY Zenon
    <2>1. j \in 1..Size(b0) \/ j = Size(b0) + 1
      BY <1>5, <1>11
    <2>2. CASE j \in 1..Size(b0)
      BY <1>11, <1>12, <1>13, <2>2, Zenon
    <2>3. CASE j = Size(b0) + 1
      <3>1. placed \in Nat
        BY <1>1, Zenon
      <3>2. Low(b0)' + (j - 1) = placed + 1
        BY <1>5, <1>7, <1>11, <2>3, <3>1
      <3> QED
        BY <1>12, <2>3, <3>2, Zenon
    <2> QED
      BY <2>1, <2>2, <2>3, Zenon
  <1>15. ASSUME NEW a \in Blocks, NEW b \in Blocks, Live(a), Live(b),
                Follows(a, b)
         PROVE  Low(b)' = Low(a)' + Size(a)'
    <2>1. a # b0
      BY <1>6, <1>15, Zenon
    <2>2. Low(b) = Low(a) + Size(a)
      BY <1>15, Zenon DEF NumberInv, AcrossBlocks
    <2> QED
      BY <1>1, <2>1, <2>2, <1>11, <1>15, Zenon
  <1>16. ASSUME NEW a \in Blocks, Live(a),
                \A b \in Blocks : Live(b) => ~Follows(a, b)
         PROVE  Low(a)' + Size(a)' = placed' + 1
    <2>1. CASE a = b0
      <3>1. placed' = placed + 1 /\ placed \in Nat
        BY <1>1, Zenon
      <3>2. Low(b0)' + Size(b0)' = placed' + 1
        BY <1>5, <1>7, <1>11, <3>1
      <3> QED
        BY <2>1, <3>2, Zenon
    <2>2. CASE a # b0
      <3>1. Distance(a) < Distance(b0)
        BY <1>2, <1>16, <1>3, <2>2
      <3>2. PICK b \in Blocks : Distance(b) = Distance(a) + 1
        BY <1>2, <3>1
      <3>3. Live(b) /\ Follows(a, b)
        BY <1>2, <1>3, <3>1, <3>2 DEF Follows
      <3> QED
        BY <1>16, <3>3, Zenon
    <2> QED
      BY <2>1, <2>2, Zenon
  <1>17. WithinBlocks'
    <2> SUFFICES ASSUME NEW b \in Blocks, Live(b)'
                 PROVE  \A j \in 1..Size(b)' :
                           ring'[b].pkts[j].id = Low(b)' + (j - 1)
      BY <1>1, Zenon DEF WithinBlocks
    <2>1. CASE b = b0
      BY <1>14, <2>1, Zenon
    <2>2. CASE b # b0
      BY <1>1, <2>2, Zenon DEF NumberInv, WithinBlocks
    <2> QED
      BY <2>1, <2>2, Zenon
  <1>18. \A a, b \in Blocks : Follows(a, b)' <=> Follows(a, b)
    BY <1>1, Zenon DEF Follows
  <1>19. AcrossBlocks' /\ UpToNewest'
    BY <1>1, <1>15, <1>16, <1>18, Zenon DEF AcrossBlocks, UpToNewest
  <1>20. Reached'
    <2>1. Live(offset) /\ Live(offset)'
      <3>1. offset \in Blocks /\ Distance(offset) = 0 /\ Distance(b0) \in 0..(CC - 1)
        BY <1>2, Distances, Zenon DEF IInv
      <3>2. 0 < Distance(b0) + 1
        BY <1>2, <3>1
      <3> QED
        BY <1>1, <1>3, <3>1, <3>2, Zenon
    <2>2. Low(offset)' = Low(offset)
      BY <1>1, <1>11, Zenon
    <2> QED
      BY <1>1, <2>1, <2>2, Zenon DEF NumberInv, Reached
  <1> QED
    BY <1>17, <1>19, <1>20, Zenon DEF NumberInv

(* The first packet of a block gets the number after those before it. *)
LEMMA BeginsNumber ==
    ASSUME IInv, OwnInv, NumberInv, NEW b0 \in Blocks, NEW kind,
           Begins(b0, kind), UNCHANGED <<offset, current, pc, handled>>
    PROVE  NumberInv'
  <1>1. /\ \A b \in Blocks : Live(b)' <=> Live(b) \/ b = b0
        /\ \A b \in Blocks : Live(b) => Size(b)' = Size(b) /\ Low(b)' = Low(b)
        /\ \A b \in Blocks : Live(b) => ring'[b].pkts = ring[b].pkts
        /\ \A b \in Blocks : Distance(b)' = Distance(b)
        /\ \A b \in Blocks : Live(b) <=> Distance(b) < Distance(b0)
        /\ placed' = placed + 1
        /\ ring'[b0].pkts = <<Arrived(kind)>>
    BY Zenon DEF Begins, LiveUpTo, Size, Low, Distance
  <1>2. /\ Size(b0)' = 1 /\ Low(b0)' = placed + 1
        /\ \A j \in 1..Size(b0)' : ring'[b0].pkts[j].id = placed + 1 + (j - 1)
        /\ placed \in Nat /\ handled \in Nat /\ current \in Nat
    <2>1. placed \in Nat /\ handled \in Nat /\ current \in Nat
      <3>1. placed \in 0..MaxPkts /\ handled \in 0..MaxPkts /\ current \in Nat
        BY Zenon DEF IInv, TypeOK, KernelTypeOK, HandleTypeOK, GhostTypeOK
      <3> QED
        BY <3>1
    <2>2. PICK e : e = Arrived(kind)
      OBVIOUS
    <2>3. e.id = placed + 1
      BY <2>2, Zenon DEF Arrived
    <2>4. Len(<<e>>) = 1 /\ <<e>>[1] = e
      OBVIOUS
    <2>5. Size(b0)' = 1 /\ Low(b0)' = placed + 1
      BY <1>1, <2>2, <2>3, <2>4, Zenon DEF Size, Low
    <2>6. ASSUME NEW j \in 1..Size(b0)'
          PROVE  ring'[b0].pkts[j].id = placed + 1 + (j - 1)
      <3>1. j = 1 /\ placed + 1 + (1 - 1) = placed + 1
        BY <2>1, <2>5
      <3> QED
        BY <1>1, <2>2, <2>3, <2>4, <3>1, Zenon
    <2> QED
      BY <2>1, <2>5, <2>6, Zenon
  <1>3. /\ \A b \in Blocks : Distance(b) \in 0..(CC - 1)
        /\ \A d \in 0..(CC - 1) : \E b \in Blocks : Distance(b) = d
        /\ \A a, b \in Blocks : Distance(a) = Distance(b) => a = b
        /\ CC \in Nat /\ offset \in Blocks /\ Distance(offset) = 0
    BY Distances, Zenon DEF IInv
  <1>4. ~Live(b0) /\ \A b \in Blocks : Live(b) => ~Follows(b0, b)
    <2>1. Distance(b0) \in Nat
      BY <1>3
    <2>2. ~(Distance(b0) < Distance(b0))
      BY <2>1
    <2>3. ASSUME NEW b \in Blocks, Live(b) PROVE ~Follows(b0, b)
      <3>1. Distance(b) \in Nat
        BY <1>3
      <3>2. Distance(b) < Distance(b0)
        BY <1>1, <2>3, Zenon
      <3> QED
        BY <2>1, <3>1, <3>2 DEF Follows
    <2> QED
      BY <1>1, <2>2, <2>3, Zenon
  <1>5. \A a, b \in Blocks : Follows(a, b)' <=> Follows(a, b)
    BY <1>1, Zenon DEF Follows
  <1>6. ASSUME NEW a \in Blocks, Live(a)
        PROVE  \/ \E b \in Blocks : Live(b) /\ Follows(a, b)
               \/ Follows(a, b0) /\ Low(a) + Size(a) = placed + 1
    <2>1. Distance(a) < Distance(b0)
      BY <1>1, <1>6, Zenon
    <2>2. PICK c \in Blocks : Distance(c) = Distance(a) + 1
      BY <1>3, <2>1
    <2>3. CASE c = b0
      <3>1. \A b \in Blocks : Live(b) => ~Follows(a, b)
        BY <1>3, <1>4, <2>2, <2>3, Zenon DEF Follows
      <3> QED
        BY <1>6, <2>2, <2>3, <3>1, Zenon DEF Follows, NumberInv, UpToNewest
    <2>4. CASE c # b0
      <3>1. Distance(c) < Distance(b0)
        BY <1>3, <2>1, <2>2, <2>4
      <3> QED
        BY <1>1, <2>2, <3>1, Zenon DEF Follows
    <2> QED
      BY <2>3, <2>4, Zenon
  <1>7. WithinBlocks'
    <2> SUFFICES ASSUME NEW b \in Blocks, Live(b)'
                 PROVE  /\ \A j \in 1..Size(b)' :
                              ring'[b].pkts[j].id = Low(b)' + (j - 1)
                        /\ Version = 2 => Size(b)' = 1
      BY Zenon DEF WithinBlocks
    <2>1. CASE b = b0
      BY <1>2, <2>1, Zenon
    <2>2. CASE b # b0
      BY <1>1, <2>2, Zenon DEF NumberInv, WithinBlocks
    <2> QED
      BY <2>1, <2>2, Zenon
  <1>8. AcrossBlocks'
    <2> SUFFICES ASSUME NEW a \in Blocks, NEW b \in Blocks, Live(a)', Live(b)',
                        Follows(a, b)
                 PROVE  Low(b)' = Low(a)' + Size(a)'
      BY <1>5, Zenon DEF AcrossBlocks
    <2>1. a # b0
      <3>1. Distance(b0) \in Nat
        BY <1>3
      <3>2. ~Follows(b0, b0)
        BY <3>1 DEF Follows
      <3> QED
        BY <1>1, <1>4, <3>2, Zenon
    <2>2. Live(a)
      BY <1>1, <2>1, Zenon
    <2>3. CASE b = b0
      <3>1. \A c \in Blocks : Live(c) => ~Follows(a, c)
        BY <1>3, <1>4, <2>3, Zenon DEF Follows
      <3> QED
        BY <1>1, <1>2, <1>6, <2>2, <2>3, <3>1, Zenon
    <2>4. CASE b # b0
      BY <1>1, <2>2, <2>4, Zenon DEF NumberInv, AcrossBlocks
    <2> QED
      BY <2>3, <2>4, Zenon
  <1>9. UpToNewest'
    <2> SUFFICES ASSUME NEW a \in Blocks, Live(a)',
                        \A b \in Blocks : Live(b)' => ~Follows(a, b)
                 PROVE  Low(a)' + Size(a)' = placed' + 1
      BY <1>5, Zenon DEF UpToNewest
    <2>1. a = b0
      BY <1>1, <1>6, Zenon
    <2> QED
      BY <1>1, <1>2, <2>1, Zenon
  <1>10. Reached'
    <2>1. CASE b0 = offset
      <3>1. ~Live(offset) /\ Live(offset)'
        BY <1>1, <1>4, <2>1, Zenon
      <3>2. handled = placed /\ Low(offset)' = handled + 1
        BY <1>2, <2>1, <3>1, Zenon DEF NumberInv, Reached
      <3>3. current = 0 /\ pc # "release"
        BY <3>1, Zenon DEF IInv, WalkInv, OwnInv, Live
      <3> QED
        BY <1>2, <3>1, <3>2, <3>3 DEF Reached
    <2>2. CASE b0 # offset
      <3>1. Live(offset) /\ Live(offset)'
        <4>1. Distance(offset) = 0 /\ Distance(b0) # Distance(offset)
          BY <1>3, <2>2, Zenon
        <4>2. Distance(b0) \in Nat
          BY <1>3
        <4>3. Distance(offset) < Distance(b0)
          BY <4>1, <4>2
        <4> QED
          BY <1>1, <1>3, <4>3, Zenon
      <3>2. Low(offset)' = Low(offset)
        BY <1>1, <1>3, <3>1, Zenon
      <3> QED
        BY <3>1, <3>2, Zenon DEF NumberInv, Reached
    <2> QED
      BY <2>1, <2>2, Zenon
  <1> QED
    BY <1>7, <1>8, <1>9, <1>10, Zenon DEF NumberInv

(* The kernel's steps. *)
LEMMA KernelNumbers == IInv /\ OwnInv /\ NumberInv /\ Kernel => NumberInv'
  <1> SUFFICES ASSUME IInv, OwnInv, NumberInv, Kernel PROVE NumberInv'
    BY Zenon
  <1>1. UNCHANGED <<offset, current, pc, handled>>
    BY Zenon DEF Kernel, walk, ghosts
  <1>2. ASSUME NEW kind \in Kinds, Place(kind) PROVE NumberInv'
    BY <1>1, <1>2, PlaceShape, KeepsNumbers, AddsNumber, BeginsNumber, Zenon
  <1>3. ASSUME NEW kind \in Kinds, KernelReceive(kind) PROVE NumberInv'
    BY <1>2, <1>3, Zenon DEF KernelReceive
  <1>4. ASSUME NEW c \in CPUs, NEW kind \in Kinds, KernelAccept(c, kind)
        PROVE  NumberInv'
    <2>1. KeepsPackets
      BY <1>4, Zenon DEF KernelAccept, KeepsPackets, Live
    <2> QED
      BY <1>1, <2>1, KeepsNumbers, Zenon
  <1>5. ASSUME NEW c \in CPUs, KernelFinish(c) PROVE NumberInv'
    <2>1. cpu[c] \in Kinds
      BY <1>5, Zenon DEF KernelFinish, IInv, TypeOK, KernelTypeOK
    <2> QED
      BY <1>2, <1>5, <2>1, Zenon DEF KernelFinish
  <1>6. CASE KernelRetire
    BY <1>1, <1>6, CloseKeeps, KeepsNumbers, Zenon DEF KernelRetire
  <1> QED
    BY <1>3, <1>4, <1>5, <1>6, Zenon DEF Kernel

(* A step of the reader that handles no packet and gives no block back     *)
(* stays at its place, or goes from before a block to the start of it.     *)
LEMMA StaysNumbers ==
    ASSUME IInv, NumberInv,
           UNCHANGED <<ring, khead, kopen, placed, offset, handled>>,
           current' = current \/ {current, current'} \subseteq {0, 1},
           Version = 2 => pc' = pc \/ (pc # "release" /\ pc' # "release")
    PROVE  NumberInv'
  <1>1. /\ WithinBlocks' /\ AcrossBlocks'
    BY Zenon DEF NumberInv, WithinBlocks, AcrossBlocks, Live, Size, Low,
                 Follows, Distance
  <1>2. UpToNewest'
    BY Zenon DEF NumberInv, UpToNewest, Live, Size, Low, Follows, Distance
  <1>3. (Live(offset)' <=> Live(offset)) /\ Low(offset)' = Low(offset)
    BY Zenon DEF Live, Low
  <1>4. CASE current' = current
    BY <1>1, <1>2, <1>3, <1>4, Zenon DEF NumberInv, Reached
  <1>5. CASE {current, current'} \subseteq {0, 1}
    <2>1. (~(current' > 1)) /\ current <= 1
      BY <1>5
    <2> QED
      BY <1>1, <1>2, <1>3, <2>1, Zenon DEF NumberInv, Reached
  <1> QED
    BY <1>4, <1>5, Zenon

(* The packet that is handled is the one after the last one handled, but   *)
(* for a block that is begun again; then the reader is one farther.        *)
LEMMA HandleNumbers ==
    ASSUME IInv, OwnInv, NumberInv, HandlePacket
    PROVE  /\ NumberInv'
           /\ handled' # handled => handled' <= handled + 1
           /\ Corrupt = {} /\ handled' # handled => handled' = handled + 1
  <1>1. /\ offset \in Blocks /\ Live(offset) /\ handled \in Nat
        /\ current \in Nat /\ left \in Nat /\ toread \in Nat
        /\ pc = "handle" /\ Version \in {2, 3}
        /\ UNCHANGED <<ring, khead, kopen, placed, offset>>
    <2>1. Version \in {2, 3}
      BY RingAssumption, Zenon
    <2>2. /\ offset \in Blocks /\ handled \in 0..MaxPkts
          /\ current \in Nat /\ left \in Nat /\ toread \in Nat
      BY Zenon DEF IInv, TypeOK, HandleTypeOK, GhostTypeOK, ThreadTypeOK
    <2>3. pc = "handle" /\ UNCHANGED <<ring, khead, kopen, placed, offset>>
      BY Zenon DEF HandlePacket, kernel
    <2>4. Live(offset)
      BY <2>3, Zenon DEF IInv, WalkInv, Live
    <2>5. handled \in Nat
      BY <2>2
    <2> QED
      BY <2>1, <2>2, <2>3, <2>4, <2>5, Zenon
  <1>2. Size(offset) \in Nat /\ Size(offset) > 0 /\ Low(offset) \in Nat
    BY <1>1, LiveHasPackets, Zenon
  <1>3. /\ Version = 3 => /\ current > 0 /\ left > 0
                          /\ current + left = Size(offset) + 1
        /\ Version = 2 => current = 0
    <2>1. /\ Version = 3 => /\ current # 0 /\ toread < left
                            /\ current + left = Size(offset) + 1
          /\ Version = 2 => current = 0
      BY <1>1, Zenon DEF IInv, WalkInv, Size
    <2> QED
      BY <1>1, <2>1
  <1>4. Index \in 1..Size(offset)
    BY <1>1, <1>2, <1>3 DEF Index
  <1>5. ThisPacket.id = Low(offset) + (Index - 1)
    BY <1>1, <1>4, Zenon DEF NumberInv, WithinBlocks, ThisPacket
  <1>6. CASE ThisPacket.kind \in Corrupt
    <2>1. current' = 0 /\ pc' = "idle" /\ handled' = handled /\ Corrupt # {}
      BY <1>6, Zenon DEF HandlePacket, Return, ghosts
    <2>2. WithinBlocks' /\ AcrossBlocks' /\ UpToNewest'
      BY <1>1, Zenon DEF NumberInv, WithinBlocks, AcrossBlocks, UpToNewest,
                         Live, Size, Low, Follows, Distance
    <2>3. Live(offset)' /\ Low(offset)' = Low(offset)
      BY <1>1, Zenon DEF Live, Low
    <2>4. Reached'
      BY <1>1, <1>2, <1>3, <2>1, <2>3 DEF NumberInv, Reached
    <2> QED
      BY <2>1, <2>2, <2>4, Zenon DEF NumberInv
  <1>7. CASE ThisPacket.kind \notin Corrupt
    <2>1. /\ handled' = Low(offset) + (Index - 1)
          /\ Version = 3 => current' = current + 1 /\ pc' = "packet"
          /\ Version = 2 => current' = current /\ pc' = "release"
      BY <1>1, <1>5, <1>7 DEF HandlePacket
    <2>2. WithinBlocks' /\ AcrossBlocks' /\ UpToNewest'
      BY <1>1, Zenon DEF NumberInv, WithinBlocks, AcrossBlocks, UpToNewest,
                         Live, Size, Low, Follows, Distance
    <2>3. Live(offset)' /\ Low(offset)' = Low(offset)
      BY <1>1, Zenon DEF Live, Low
    <2>4. Reached'
      BY <1>1, <1>2, <1>3, <2>1, <2>3 DEF NumberInv, Reached, Index
    <2>5. /\ handled' <= handled + 1
          /\ Corrupt = {} => handled' = handled + 1
      BY <1>1, <1>2, <1>3, <2>1 DEF NumberInv, Reached, Index
    <2> QED
      BY <2>2, <2>4, <2>5, Zenon DEF NumberInv
  <1> QED
    BY <1>6, <1>7, Zenon

(* A block is given back when its last packet has been handled, so the     *)
(* next packet is the first of the next block, or the next to come.        *)
LEMMA ReleaseNumbers ==
    ASSUME IInv, OwnInv, NumberInv, Release
    PROVE  NumberInv'
  <1>1. /\ offset \in Blocks /\ Live(offset) /\ handled \in Nat
        /\ current \in Nat /\ left \in Nat /\ placed \in Nat
        /\ pc = "release" /\ pc' = "break" /\ Version \in {2, 3}
        /\ UNCHANGED <<khead, kopen, placed, handled>>
    <2>1. Version \in {2, 3}
      BY RingAssumption, Zenon
    <2>2. /\ offset \in Blocks /\ handled \in 0..MaxPkts
          /\ current \in Nat /\ left \in Nat /\ placed \in 0..MaxPkts
      BY Zenon DEF IInv, TypeOK, KernelTypeOK, HandleTypeOK, GhostTypeOK
    <2>3. handled \in Nat /\ placed \in Nat
      BY <2>2
    <2>4. /\ pc = "release" /\ pc' = "break"
          /\ UNCHANGED <<khead, kopen, placed, handled>> /\ Live(offset)
      BY Zenon DEF Release, OwnInv, Live, ghosts
    <2> QED
      BY <2>1, <2>2, <2>3, <2>4, Zenon
  <1>2. Size(offset) \in Nat /\ Size(offset) > 0 /\ Low(offset) \in Nat
    BY <1>1, LiveHasPackets, Zenon
  <1>3. /\ Version = 3 => /\ current > 0
                          /\ current + left = Size(offset) + 1
        /\ Version = 2 => left = 0 /\ Size(offset) = 1
    <2>1. /\ Version = 3 => /\ current # 0
                            /\ current + left = Size(offset) + 1
          /\ Version = 2 => left = 0 /\ Size(offset) = 1
      BY <1>1, Zenon DEF IInv, WalkInv, Size, NumberInv, WithinBlocks
    <2> QED
      BY <1>1, <2>1
  <1>4. CASE left <= 0
    <2>1. handled + 1 = Low(offset) + Size(offset)
      BY <1>1, <1>2, <1>3, <1>4 DEF NumberInv, Reached
    <2>2. /\ offset' = NextOffset /\ current' = 0
          /\ ring'[offset].owner = "kernel"
          /\ \A b \in Blocks : b # offset => ring'[b] = ring[b]
      BY <1>1, <1>4, Zenon DEF Release, IInv, TypeOK, KernelTypeOK
    <2>3. offset # khead \/ ~kopen
      BY <1>1, Zenon DEF IInv, KernelInv, OwnInv
    <2>4. /\ \A b \in Blocks : Live(b)' <=> Live(b) /\ b # offset
          /\ \A b \in Blocks : Live(b)' =>
                /\ Size(b)' = Size(b) /\ Low(b)' = Low(b)
                /\ ring'[b].pkts = ring[b].pkts
      BY <1>1, <2>2, <2>3, Zenon DEF Live, Size, Low
    <2>5. /\ \A b \in Blocks : Distance(b) \in 0..(CC - 1)
          /\ \A a, b \in Blocks : Distance(a) = Distance(b) => a = b
          /\ CC \in Nat /\ CC > 0 /\ Distance(offset) = 0
          /\ offset \in 0..(CC - 1)
      BY <1>1, Distances, Zenon DEF IInv, Blocks
    <2>6. \A b \in Blocks : b # offset => Distance(b)' = Distance(b) - 1
      BY <2>2, <2>5 DEF Distance, NextOffset, Blocks
    <2>7. \A a, b \in Blocks : a # offset /\ b # offset =>
             (Follows(a, b)' <=> Follows(a, b))
      BY <2>5, <2>6 DEF Follows
    <2>8. WithinBlocks'
      BY <2>4, Zenon DEF NumberInv, WithinBlocks
    <2>9. AcrossBlocks'
      BY <2>4, <2>7, Zenon DEF NumberInv, AcrossBlocks
    <2>10. UpToNewest'
      <3> SUFFICES ASSUME NEW a \in Blocks, Live(a)',
                          \A b \in Blocks : Live(b)' => ~Follows(a, b)'
                   PROVE  Low(a)' + Size(a)' = placed' + 1
        BY Zenon DEF UpToNewest
      <3>1. ~Follows(a, offset)
        BY <1>1, <2>5 DEF Follows
      <3>2. \A b \in Blocks : Live(b) => ~Follows(a, b)
        BY <2>4, <2>7, <3>1, Zenon
      <3> QED
        BY <1>1, <2>4, <3>2, Zenon DEF NumberInv, UpToNewest
    <2>11. PICK w \in Blocks : w = offset'
      BY <2>2, <2>5 DEF NextOffset, Blocks
    <2>12. (Live(offset)' <=> Live(w)') /\ Low(offset)' = Low(w)'
      BY <2>11, Zenon DEF Live, Low
    <2>13. w # offset => Follows(offset, w)
      BY <2>2, <2>5, <2>11 DEF Follows, Distance, NextOffset, Blocks
    <2>14. \A b \in Blocks : Follows(offset, b) => b = w
      BY <1>1, <2>2, <2>5, <2>11 DEF Follows, Distance, NextOffset, Blocks
    <2>15. ASSUME Live(w)' PROVE Reached'
      <3>1. w # offset /\ Live(w) /\ Low(w)' = Low(w)
        BY <2>4, <2>15, Zenon
      <3>2. Low(w) = handled + 1
        BY <1>1, <2>1, <2>13, <3>1, Zenon DEF NumberInv, AcrossBlocks
      <3>3. /\ Live(offset)' /\ Low(offset)' = handled' + 1
            /\ pc' # "release" /\ handled' \in Nat
        BY <1>1, <2>12, <2>15, <3>1, <3>2, Zenon
      <3>4. ~(current' > 1)
        BY <2>2
      <3>5. handled' + 1 <= handled' + 1
        BY <1>1
      <3> QED
        BY <3>3, <3>4, <3>5, Zenon DEF Reached
    <2>16. ASSUME ~Live(w)' PROVE Reached'
      <3>1. \A b \in Blocks : Live(b) => ~Follows(offset, b)
        <4> SUFFICES ASSUME NEW b \in Blocks, Live(b), Follows(offset, b)
                     PROVE  FALSE
          BY Zenon
        <4>1. b # offset /\ b = w
          BY <1>1, <2>5, <2>14 DEF Follows
        <4> QED
          BY <2>4, <2>16, <4>1, Zenon
      <3>2. Low(offset) + Size(offset) = placed + 1
        BY <1>1, <3>1, Zenon DEF NumberInv, UpToNewest
      <3>3. handled' = placed'
        BY <1>1, <1>2, <2>1, <3>2
      <3> QED
        BY <2>12, <2>16, <3>3, Zenon DEF Reached
    <2> QED
      BY <2>8, <2>9, <2>10, <2>15, <2>16, Zenon DEF NumberInv
  <1>5. CASE ~(left <= 0)
    <2>1. UNCHANGED <<ring, offset, current>> /\ Version # 2
      BY <1>1, <1>3, <1>5 DEF Release
    <2> QED
      BY <1>1, <2>1, StaysNumbers, Zenon
  <1> QED
    BY <1>4, <1>5, Zenon

(* Every step of the program keeps the numbers, and handles packets in     *)
(* their order.                                                            *)
LEMMA NumberStep ==
    IInv /\ OwnInv /\ NumberInv /\ [Next]_vars =>
       /\ NumberInv'
       /\ handled' # handled => handled' <= handled + 1
       /\ Corrupt = {} /\ handled' # handled => handled' = handled + 1
  <1> SUFFICES ASSUME IInv, OwnInv, NumberInv, [Next]_vars
               PROVE  /\ NumberInv'
                      /\ handled' # handled => handled' <= handled + 1
                      /\ Corrupt = {} /\ handled' # handled =>
                            handled' = handled + 1
    BY Zenon
  <1>1. CASE HandlePacket
    BY <1>1, HandleNumbers, Zenon
  <1>2. CASE Kernel
    BY <1>2, KernelNumbers, Zenon DEF Kernel, ghosts
  <1>3. CASE Release
    BY <1>3, ReleaseNumbers, Zenon DEF Release, ghosts
  <1>4. CASE EnterBlock
    <2>1. /\ UNCHANGED <<ring, khead, kopen, placed, offset, handled>>
          /\ pc # "release" /\ pc' # "release"
          /\ current' = current \/ (current = 0 /\ current' = 1)
      BY <1>4, Zenon DEF EnterBlock, StartAt, Return, kernel, ghosts
    <2>2. current' = current \/ {current, current'} \subseteq {0, 1}
      BY <2>1, Zenon
    <2> QED
      BY <2>1, <2>2, StaysNumbers, Zenon
  <1>5. ASSUME UNCHANGED <<ring, khead, kopen, placed, offset, handled,
                           current>>,
               Version = 2 => pc' = pc \/ (pc # "release" /\ pc' # "release")
        PROVE  NumberInv' /\ handled' = handled
    BY <1>5, StaysNumbers, Zenon
  <1>6. CASE Device \/ SetBreak \/ WriteEvent \/ UNCHANGED vars
    BY <1>5, <1>6, Zenon DEF Device, SetBreak, WriteEvent, vars, kernel, walk,
                             calls, ghosts
  <1>7. CASE Call
    BY <1>5, <1>7, Zenon DEF Call, Dispatch, SetFilter, SetNonblock, Return,
                             kernel, walk, ghosts
  <1>8. CASE Wait
    BY <1>5, <1>8, Zenon DEF Wait, PollInterrupted, PollFails, PollNetDown,
                             PollReturns, ReadEvent, EventBreak, CheckDevice,
                             Return, ReturnBreak, Waited, kernel, walk, ghosts
  <1>9. CASE Install
    BY <1>5, <1>9, Zenon DEF Install, TotalFilter, AttachFilter, CountBlocks,
                             Return, kernel, walk, ghosts
  <1>10. CASE First \/ Acquire \/ NextFrame \/ LoopBreak
    BY <1>5, <1>10, Zenon DEF First, Acquire, NextFrame, LoopBreak, Return,
                              ReturnBreak, Waited, kernel, walk, ghosts
  <1>11. CASE NextPacket
    BY <1>5, <1>11, Zenon DEF NextPacket, IInv, WalkInv, kernel, walk, ghosts
  <1> QED
    BY <1>1, <1>2, <1>3, <1>4, <1>6, <1>7, <1>8, <1>9, <1>10, <1>11, Zenon
       DEF Next, Read

(* The blocks of the ring and the numbers in it, in every state. *)
LEMMA NumbersInvariant == Spec => [](IInv /\ OwnInv /\ NumberInv)
  <1>1. Init => NumberInv
    <2> SUFFICES ASSUME Init PROVE NumberInv
      BY Zenon
    <2>1. /\ \A b \in Blocks : ~Live(b)
          /\ handled = placed /\ offset \in Blocks
      BY RingAssumption DEF Init, Live, Blocks
    <2> QED
      BY <2>1, Zenon DEF NumberInv, WithinBlocks, AcrossBlocks, UpToNewest,
                         Reached
  <1>2. IInv /\ OwnInv /\ NumberInv /\ [Next]_vars => NumberInv'
    BY NumberStep, Zenon
  <1> QED
    BY <1>1, <1>2, Invariant, OwnInvariant, PTL DEF Spec

(* No packet in the ring is skipped, whatever the ring's size and blocks,  *)
(* and even when frames fail the bounds check: pcap_read_linux_mmap_v2()   *)
(* and _v3() never go past a packet they have not handled.                 *)
THEOREM NonePassedOver == Spec => NothingSkipped
  <1>1. IInv /\ OwnInv /\ NumberInv /\ [Next]_vars =>
           [handled' <= handled + 1]_vars
    <2> SUFFICES ASSUME IInv, OwnInv, NumberInv, [Next]_vars
                 PROVE  handled' <= handled + 1
      BY Zenon
    <2>1. handled \in Int /\ (handled' # handled => handled' <= handled + 1)
      BY NumberStep DEF IInv, TypeOK, GhostTypeOK
    <2> QED
      BY <2>1
  <1> QED
    BY <1>1, NumbersInvariant, PTL DEF Spec, NothingSkipped

(* When no frame fails the bounds check, each packet in the ring is taken  *)
(* from it once, in the order of arrival.                                  *)
THEOREM EachOnceInOrder == ASSUME Corrupt = {} PROVE Spec => InOrder
  <1>1. IInv /\ OwnInv /\ NumberInv /\ [Next]_vars =>
           [handled' # handled => handled' = handled + 1]_vars
    BY NumberStep, Zenon
  <1> QED
    BY <1>1, NumbersInvariant, PTL DEF Spec, InOrder

-----------------------------------------------------------------------------
(* The userland catch-up after pcap_setfilter_linux().                     *)

(* No processor is between the filter and the ring, and a new program      *)
(* never finds the count of an older one: at most one is installed, or     *)
(* every one of them goes into the kernel and no system call fails.        *)
OneAtATime ==
    /\ CPUs = {}
    /\ MaxFilters <= 1 \/ (~Faults /\ KernelOK = Filters)

Installing == pc \in {"total", "attach", "count"}

(* The reader filters the packets of this block itself *)
Covered(b) == in_userland /\ (blocks = 0 \/ Distance(b) < blocks)

(* A packet that the installed program rejects is in a block the reader    *)
(* filters, and more of them can only come if it filters every block.      *)
MatchInv ==
    /\ ~Installing => kfilter \subseteq filter \/ (in_userland /\ blocks = 0)
    /\ ~Installing =>
          \A b \in Blocks : Live(b) => \A j \in 1..Size(b) :
             ring[b].pkts[j].kind \in filter \/ Covered(b)
    /\ pc = "count" => kfilter = filter
    /\ pc \in {"total", "attach"} => in_userland
    /\ MaxFilters <= 1 /\ pc \in {"total", "attach"} => blocks = 0
    /\ sets = 0 => blocks = 0 /\ ~Installing

(* The remainder of a negative number above minus the ring's size. *)
LEMMA NegativeRemainder == \A x \in (-CC)..(-1) : x % CC = x + CC
  <1>1. CC \in Nat /\ CC > 0
    BY RingAssumption
  <1> SUFFICES ASSUME NEW x \in (-CC)..(-1) PROVE x % CC = x + CC
    BY Zenon
  <1> DEFINE y == x + CC
  <1>2. y \in 0..(CC - 1) /\ x = y - CC
    BY <1>1
  <1>3. (y - CC) % CC = y
    BY <1>1, <1>2
  <1> QED
    BY <1>2, <1>3, Zenon

(* As many blocks as are counted free are free, one after the other. *)
LEMMA CountedAreFree ==
    \A i \in Nat : i < FreeBlocks => i < CC /\ Free((offset - 2 - i) % CC)
  <1> DEFINE S == {n \in 0..(CC - 1) :
                     \A m \in 0..n : Free((offset - 2 - m) % CC)}
  <1>1. CC \in Nat /\ CC > 0 /\ FreeBlocks = Cardinality(S)
    BY RingAssumption DEF FreeBlocks
  <1>2. \A n \in S : n \in 0..(CC - 1) /\ Free((offset - 2 - n) % CC)
    BY <1>1
  <1>3. \A n \in S : \A m \in 0..n : m \in S
    BY <1>1
  <1> SUFFICES ASSUME NEW i \in Nat, i < FreeBlocks, i \notin S PROVE FALSE
    BY <1>1, <1>2
  <1>4. S \subseteq 0..(i - 1)
    BY <1>1, <1>2, <1>3
  <1> HIDE DEF S
  <1>5. IsFiniteSet(0..(i - 1)) /\ Cardinality(0..(i - 1)) = i
    BY FS_Interval
  <1>6. Cardinality(S) <= i /\ Cardinality(S) \in Nat
    BY <1>4, <1>5, FS_Subset, FS_CardinalityType
  <1> QED
    BY <1>1, <1>6

(* Every live block is among the blocks to filter in userland. *)
LEMMA CountCovers ==
    ASSUME IInv, OwnInv, NEW b \in Blocks, Live(b)
    PROVE  Distance(b) < BlocksToFilter
  <1>1. PICK n \in 0..CC : UserBlocks(n)
    BY Zenon DEF OwnInv
  <1>2. /\ CC \in Nat /\ CC > 0 /\ Distance(b) \in 0..(CC - 1)
        /\ offset \in 0..(CC - 1)
    BY Distances, Zenon DEF IInv, Blocks
  <1>3. Distance(b) <= n
    <2>1. Distance(b) < (IF kopen THEN n + 1 ELSE n)
      BY <1>1, LiveFromOwners, Zenon DEF LiveUpTo
    <2> QED
      BY <1>2, <2>1
  <1>4. FreeBlocks \in 0..CC
    BY FreeBlocksBound, Zenon
  <1>5. CASE FreeBlocks = 0
    BY <1>2, <1>5 DEF BlocksToFilter
  <1>6. CASE FreeBlocks # 0 /\ CC = 1
    BY <1>2, <1>4, <1>6 DEF BlocksToFilter
  <1>7. CASE FreeBlocks # 0 /\ CC > 1
    <2> DEFINE i == IF FreeBlocks > CC - 1 THEN CC - 2 ELSE FreeBlocks - 1
    <2>1. i \in 0..(CC - 2) /\ i < FreeBlocks /\ i >= FreeBlocks - 2
      BY <1>2, <1>4, <1>7
    <2> HIDE DEF i
    <2> DEFINE x == offset - 2 - i
               f == IF x < 0 THEN x + CC ELSE x
    <2>2. x \in (-CC)..(CC - 2) /\ i \in Nat
      BY <1>2, <2>1
    <2>3. x % CC = f
      <3>1. CASE x < 0
        BY <2>2, <3>1, NegativeRemainder, <1>2
      <3>2. CASE x >= 0
        BY <2>2, <3>2, <1>2
      <3> QED
        BY <2>2, <3>1, <3>2
    <2>4. f \in Blocks /\ Distance(f) = CC - 2 - i
      BY <1>2, <2>1 DEF Distance, Blocks
    <2>5. Free(f)
      BY <2>1, <2>2, <2>3, CountedAreFree, Zenon
    <2> HIDE DEF x, f
    <2>6. ~(Distance(f) < n)
      BY <1>1, <2>4, <2>5 DEF UserBlocks, Free
    <2>7. n <= CC - FreeBlocks
      BY <1>2, <1>4, <2>1, <2>4, <2>6
    <2> QED
      BY <1>2, <1>3, <1>4, <1>7, <2>7 DEF BlocksToFilter
  <1> QED
    BY <1>2, <1>4, <1>5, <1>6, <1>7

(* What MatchInv says of the packets of a block *)
Matches(b) ==
    Live(b) => \A j \in 1..Size(b) :
                  ring[b].pkts[j].kind \in filter \/ Covered(b)

(* A packet the kernel's filter lets in matches, or is in a block that the *)
(* reader filters.                                                         *)
LEMMA PlaceMatches ==
    ASSUME IInv, OwnInv, NEW kind \in Kinds, Place(kind),
           UNCHANGED <<offset, filter, in_userland, blocks>>,
           kind \in filter \/ (in_userland /\ blocks = 0),
           \A b \in Blocks : Matches(b)
    PROVE  \A b \in Blocks : Matches(b)'
  <1>1. ASSUME NEW b \in Blocks
        PROVE  /\ Covered(b)' <=> Covered(b)
               /\ in_userland /\ blocks = 0 => Covered(b)
    BY Zenon DEF Covered, Distance
  <1>2. ASSUME NEW b \in Blocks, Live(b)' => Live(b),
               Live(b) => ring'[b].pkts = ring[b].pkts
        PROVE  Matches(b)'
    BY <1>1, <1>2, Zenon DEF Matches, Size
  <1>3. Arrived(kind).kind = kind
    BY Zenon DEF Arrived
  <1>4. CASE KeepsPackets
    BY <1>2, <1>4, Zenon DEF KeepsPackets
  <1>5. ASSUME NEW b0 \in Blocks, AddsTo(b0, kind)
        PROVE  \A b \in Blocks : Matches(b)'
    <2>1. /\ \A b \in Blocks : Live(b)' <=> Live(b)
          /\ \A b \in Blocks : b # b0 => ring'[b].pkts = ring[b].pkts
      BY <1>5, Zenon DEF AddsTo
    <2>2. Matches(b0)'
      <3> SUFFICES ASSUME Live(b0), NEW j \in 1..Size(b0)'
                   PROVE  ring'[b0].pkts[j].kind \in filter \/ Covered(b0)
        BY <1>1, <2>1, Zenon DEF Matches
      <3> DEFINE s == ring[b0].pkts
                 e == Arrived(kind)
      <3>1. s \in Seq(Packet) /\ ring'[b0].pkts = Append(s, e)
        BY <1>5, Zenon DEF AddsTo, IInv, TypeOK, KernelTypeOK
      <3>2. e.kind \in filter \/ Covered(b0)
        BY <1>1, <1>3, Zenon
      <3>3. \A i \in 1..Len(s) : s[i].kind \in filter \/ Covered(b0)
        BY Zenon DEF Matches, Size
      <3> HIDE DEF s, e
      <3>4. j \in 1..(Len(s) + 1)
        BY <3>1 DEF Size
      <3>5. CASE j \in 1..Len(s)
        BY <3>1, <3>3, <3>5
      <3>6. CASE j = Len(s) + 1
        BY <3>1, <3>2, <3>6
      <3> QED
        <4>1. j \in 1..Len(s) \/ j = Len(s) + 1
          BY <3>1, <3>4
        <4> QED
          BY <3>5, <3>6, <4>1, Zenon
    <2> QED
      BY <1>2, <2>1, <2>2, Zenon
  <1>6. ASSUME NEW b0 \in Blocks, Begins(b0, kind)
        PROVE  \A b \in Blocks : Matches(b)'
    <2>1. /\ \A b \in Blocks : Live(b)' <=> Live(b) \/ b = b0
          /\ \A b \in Blocks : Live(b) => ring'[b].pkts = ring[b].pkts
          /\ ring'[b0].pkts = <<Arrived(kind)>>
      BY <1>6, Zenon DEF Begins
    <2>2. Matches(b0)'
      <3>1. \A j \in 1..Size(b0)' : ring'[b0].pkts[j] = Arrived(kind)
        BY <2>1 DEF Size
      <3> QED
        BY <1>1, <1>3, <3>1, Zenon DEF Matches
    <2> QED
      BY <1>2, <2>1, <2>2, Zenon
  <1> QED
    BY <1>4, <1>5, <1>6, PlaceShape, Zenon

(* The kernel's steps. *)
LEMMA KernelMatches ==
    ASSUME OneAtATime, IInv, OwnInv, MatchInv, Kernel
    PROVE  MatchInv'
  <1>1. UNCHANGED <<offset, pc, filter, in_userland, blocks, sets>>
    BY Zenon DEF Kernel, walk, filters, counters
  <1>2. ASSUME kfilter' = kfilter,
               ~Installing => \A b \in Blocks : Matches(b)'
        PROVE  MatchInv'
    BY <1>1, <1>2, Zenon DEF MatchInv, Installing, Matches
  <1>3. ~Installing => \A b \in Blocks : Matches(b)
    BY Zenon DEF MatchInv, Matches
  <1>4. ASSUME NEW kind \in Kinds, KernelReceive(kind) PROVE MatchInv'
    <2>1. kfilter' = kfilter /\ kind \in kfilter /\ Place(kind)
      BY <1>4, Zenon DEF KernelReceive
    <2>2. ~Installing => kind \in filter \/ (in_userland /\ blocks = 0)
      BY <2>1, Zenon DEF MatchInv
    <2> QED
      BY <1>1, <1>2, <1>3, <2>1, <2>2, PlaceMatches, Zenon
  <1>5. CASE KernelRetire
    <2>1. KeepsPackets /\ kfilter' = kfilter
      BY <1>5, CloseKeeps, Zenon DEF KernelRetire
    <2>2. \A b \in Blocks : Matches(b) => Matches(b)'
      BY <1>1, <2>1, Zenon DEF KeepsPackets, Matches, Size, Covered, Distance
    <2> QED
      BY <1>2, <1>3, <2>1, <2>2, Zenon
  <1>6. CPUs = {}
    BY Zenon DEF OneAtATime
  <1> QED
    BY <1>4, <1>5, <1>6, Zenon DEF Kernel

(* The blocks the reader filters are counted down as they are given back. *)
LEMMA ReleaseMatches ==
    ASSUME IInv, OwnInv, MatchInv, Release
    PROVE  MatchInv'
  <1>1. /\ offset \in Blocks /\ pc = "release" /\ pc' = "break"
        /\ UNCHANGED <<khead, kopen, kfilter, filter, sets>>
        /\ blocks \in Nat /\ ~Installing /\ ~Installing'
    BY RingAssumption DEF Release, IInv, TypeOK, HandleTypeOK, Installing,
                          counters
  <1>2. CASE left <= 0
    <2>1. /\ offset' = NextOffset
          /\ ring'[offset].owner = "kernel"
          /\ \A b \in Blocks : b # offset => ring'[b] = ring[b]
          /\ blocks' = IF blocks > 0 THEN blocks - 1 ELSE blocks
          /\ in_userland' = (in_userland /\ blocks # 1)
      BY <1>1, <1>2, Zenon DEF Release, IInv, TypeOK, KernelTypeOK
    <2>2. offset # khead \/ ~kopen
      BY <1>1, Zenon DEF IInv, KernelInv, OwnInv
    <2>3. \A b \in Blocks : Live(b)' => Live(b) /\ b # offset
      BY <1>1, <2>1, <2>2, Zenon DEF Live
    <2>4. /\ \A b \in Blocks : Distance(b) \in 0..(CC - 1)
          /\ CC \in Nat /\ CC > 0 /\ offset \in 0..(CC - 1)
          /\ \A b \in Blocks : b # offset => Distance(b) # 0
      BY <1>1, Distances, Zenon DEF IInv, Blocks
    <2>5. \A b \in Blocks : b # offset => Distance(b)' = Distance(b) - 1
      BY <2>1, <2>4 DEF Distance, NextOffset, Blocks
    <2>6. ASSUME NEW b \in Blocks, b # offset, Covered(b)
          PROVE  Covered(b)'
      <3>1. in_userland /\ (blocks = 0 \/ Distance(b) < blocks)
        BY <2>6, Zenon DEF Covered
      <3>2. Distance(b) > 0 /\ Distance(b) \in Nat
        BY <2>4, <2>6
      <3>3. CASE blocks = 0
        <4>1. blocks # 1 /\ blocks' = 0
          BY <2>1, <3>3
        <4> QED
          BY <2>1, <3>1, <4>1, Zenon DEF Covered
      <3>4. CASE Distance(b) < blocks
        <4>1. blocks # 1 /\ Distance(b)' < blocks'
          BY <1>1, <2>1, <2>5, <2>6, <3>2, <3>4
        <4> QED
          BY <2>1, <3>1, <4>1, Zenon DEF Covered
      <3> QED
        BY <3>1, <3>3, <3>4, Zenon
    <2>7. \A b \in Blocks : Live(b)' => \A j \in 1..Size(b)' :
             ring'[b].pkts[j].kind \in filter' \/ Covered(b)'
      BY <1>1, <2>1, <2>3, <2>6, Zenon DEF MatchInv, Size
    <2>8. in_userland /\ blocks = 0 => in_userland' /\ blocks' = 0
      <3>1. blocks = 0 => blocks # 1 /\ blocks' = 0
        BY <2>1
      <3> QED
        BY <2>1, <3>1, Zenon
    <2>9. blocks = 0 => blocks' = 0
      BY <2>1
    <2> QED
      BY <1>1, <2>7, <2>8, <2>9, Zenon DEF MatchInv
  <1>3. CASE ~(left <= 0)
    <2>1. UNCHANGED <<ring, offset, blocks, in_userland>>
      BY <1>3, Zenon DEF Release
    <2> QED
      BY <1>1, <2>1, Zenon DEF MatchInv, Live, Size, Covered, Distance
  <1> QED
    BY <1>2, <1>3, Zenon

(* A step that changes neither the ring nor a filter, and neither begins   *)
(* nor ends the installation of one.                                       *)
LEMMA StaysMatched ==
    ASSUME MatchInv,
           UNCHANGED <<ring, khead, kopen, kfilter, offset, filters, sets>>,
           pc' = pc \/ (~Installing /\ ~Installing')
    PROVE  MatchInv'
  <1>1. UNCHANGED <<filter, in_userland, blocks>>
    BY Zenon DEF filters
  <1>2. \A b \in Blocks : /\ Live(b)' <=> Live(b)
                          /\ Size(b)' = Size(b)
                          /\ Covered(b)' <=> Covered(b)
    BY <1>1, Zenon DEF Live, Size, Covered, Distance
  <1>3. CASE pc' = pc
    BY <1>1, <1>2, <1>3, Zenon DEF MatchInv, Installing
  <1>4. CASE ~Installing /\ ~Installing'
    BY <1>1, <1>2, <1>4, Zenon DEF MatchInv, Installing
  <1> QED
    BY <1>3, <1>4, Zenon

(* Installing a program: the blocks counted cover what the old one let in, *)
(* and where the new one does not get into the kernel the reader filters   *)
(* every block.                                                            *)
LEMMA InstallMatches ==
    ASSUME OneAtATime, IInv, OwnInv, MatchInv,
           Install \/ \E F \in Filters : SetFilter(F)
    PROVE  MatchInv'
  <1>1. /\ MaxFilters \in Nat /\ sets \in 0..MaxFilters
        /\ KernelOK \subseteq Filters
    BY RingAssumption, Zenon DEF IInv, TypeOK, ThreadTypeOK
  <1>2. UNCHANGED <<ring, khead, kopen, offset>>
    BY Zenon DEF Install, SetFilter, TotalFilter, AttachFilter, CountBlocks,
                 kernel, walk
  <1>3. \A b \in Blocks : Live(b)' <=> Live(b)
    BY <1>2, Zenon DEF Live
  <1>4. ASSUME in_userland', blocks' = 0, pc' = "idle"
        PROVE  MatchInv'
    <2>1. \A b \in Blocks : Covered(b)'
      BY <1>4, Zenon DEF Covered
    <2> QED
      BY <1>4, <2>1, Zenon DEF MatchInv, Installing
  <1>5. ASSUME NEW F \in Filters, SetFilter(F) PROVE MatchInv'
    <2>1. /\ in_userland' /\ blocks' = blocks /\ sets' = sets + 1
          /\ sets < MaxFilters /\ filter' = F
      BY <1>5, Zenon DEF SetFilter
    <2>2. sets' # 0 /\ (MaxFilters <= 1 => blocks = 0)
      <3>1. sets' # 0 /\ (MaxFilters <= 1 => sets = 0)
        BY <1>1, <2>1
      <3> QED
        BY <3>1, Zenon DEF MatchInv
    <2>3. CASE F \in KernelOK
      <3>1. pc' = "total"
        BY <1>5, <2>3, Zenon DEF SetFilter
      <3> QED
        BY <2>1, <2>2, <3>1, Zenon DEF MatchInv, Installing
    <2>4. CASE F \notin KernelOK
      <3>1. pc' = "idle" /\ MaxFilters <= 1
        BY <1>5, <2>4, Zenon DEF SetFilter, Return, OneAtATime
      <3> QED
        BY <1>4, <2>1, <2>2, <3>1, Zenon
    <2> QED
      BY <2>3, <2>4, Zenon
  <1>6. CASE TotalFilter
    <2>1. /\ pc = "total" /\ UNCHANGED <<filter, in_userland, blocks, sets>>
          /\ pc' = "attach" \/ (Faults /\ pc' = "idle")
      BY <1>6, Zenon DEF TotalFilter, Return, filters, counters
    <2>2. in_userland /\ sets # 0 /\ (MaxFilters <= 1 => blocks = 0)
      BY <2>1, Zenon DEF MatchInv, Installing
    <2>3. CASE pc' = "attach"
      BY <2>1, <2>2, <2>3, Zenon DEF MatchInv, Installing
    <2>4. CASE Faults /\ pc' = "idle"
      <3>1. MaxFilters <= 1
        BY <2>4, Zenon DEF OneAtATime
      <3> QED
        BY <1>4, <2>1, <2>2, <2>4, <3>1, Zenon
    <2> QED
      BY <2>1, <2>3, <2>4, Zenon
  <1>7. CASE AttachFilter
    <2>1. /\ pc = "attach" /\ UNCHANGED <<filter, blocks, sets>>
          /\ \/ pc' = "count" /\ kfilter' = filter
             \/ Faults /\ pc' = "idle" /\ in_userland' = in_userland
      BY <1>7, Zenon DEF AttachFilter, Return, counters
    <2>2. in_userland /\ sets # 0 /\ (MaxFilters <= 1 => blocks = 0)
      BY <2>1, Zenon DEF MatchInv, Installing
    <2>3. CASE pc' = "count" /\ kfilter' = filter
      BY <2>1, <2>2, <2>3, Zenon DEF MatchInv, Installing
    <2>4. CASE Faults /\ pc' = "idle" /\ in_userland' = in_userland
      <3>1. MaxFilters <= 1
        BY <2>4, Zenon DEF OneAtATime
      <3> QED
        BY <1>4, <2>1, <2>2, <2>4, <3>1, Zenon
    <2> QED
      BY <2>1, <2>3, <2>4, Zenon
  <1>8. CASE CountBlocks
    <2>1. /\ pc = "count" /\ pc' = "idle" /\ in_userland'
          /\ blocks' = BlocksToFilter
          /\ UNCHANGED <<filter, kfilter, sets>>
      BY <1>8, Zenon DEF CountBlocks, Return, kernel, counters
    <2>2. kfilter = filter /\ sets # 0
      BY <2>1, Zenon DEF MatchInv, Installing
    <2>3. \A b \in Blocks : Live(b) => Distance(b) < BlocksToFilter
      BY CountCovers, Zenon
    <2>4. \A b \in Blocks : Live(b)' => Covered(b)'
      BY <1>2, <1>3, <2>1, <2>3, Zenon DEF Covered, Distance
    <2> QED
      BY <2>1, <2>2, <2>4 DEF MatchInv, Installing
  <1> QED
    BY <1>5, <1>6, <1>7, <1>8, Zenon DEF Install

(* The packet handed to the callback: filtered by the reader, or one that  *)
(* needs no filtering.                                                     *)
LEMMA HandleMatches ==
    ASSUME IInv, MatchInv, HandlePacket, delivered' # delivered
    PROVE  delivered'.kind \in filter
  <1>1. /\ offset \in Blocks /\ Live(offset) /\ ~Installing
        /\ current \in Nat /\ left \in Nat /\ toread \in Nat
        /\ Version \in {2, 3}
    <2>1. Version \in {2, 3}
      BY RingAssumption, Zenon
    <2>2. offset \in Blocks /\ current \in Nat /\ left \in Nat /\ toread \in Nat
      BY Zenon DEF IInv, TypeOK, HandleTypeOK, ThreadTypeOK
    <2>3. Live(offset) /\ ~Installing
      BY Zenon DEF HandlePacket, IInv, WalkInv, Live, Installing
    <2> QED
      BY <2>1, <2>2, <2>3, Zenon
  <1>2. Size(offset) \in Nat /\ Size(offset) > 0
    BY <1>1, LiveHasPackets, Zenon
  <1>3. Version = 3 => /\ current > 0 /\ left > 0
                       /\ current + left = Size(offset) + 1
    <2>1. Version = 3 => /\ current # 0 /\ toread < left
                         /\ current + left = Size(offset) + 1
      BY Zenon DEF HandlePacket, IInv, WalkInv, Size
    <2> QED
      BY <1>1, <2>1
  <1>4. Index \in 1..Size(offset)
    BY <1>1, <1>2, <1>3 DEF Index
  <1>5. ThisPacket.kind \in filter \/ in_userland
    BY <1>1, <1>4, Zenon DEF MatchInv, Covered, ThisPacket
  <1>6. delivered' = ThisPacket /\ Passes(ThisPacket)
    BY Zenon DEF HandlePacket, ghosts
  <1> QED
    BY <1>5, <1>6, Zenon DEF Passes

(* Every step keeps the match, and delivers only what the filter accepts. *)
LEMMA MatchStep ==
    ASSUME OneAtATime
    PROVE  IInv /\ OwnInv /\ MatchInv /\ [Next]_vars =>
              /\ MatchInv'
              /\ delivered' # delivered => delivered'.kind \in filter
  <1> SUFFICES ASSUME IInv, OwnInv, MatchInv, [Next]_vars
               PROVE  /\ MatchInv'
                      /\ delivered' # delivered => delivered'.kind \in filter
    BY Zenon
  <1>1. ASSUME UNCHANGED <<ring, khead, kopen, kfilter, offset, filters,
                           sets>>,
               pc' = pc \/ (~Installing /\ ~Installing')
        PROVE  MatchInv'
    BY <1>1, StaysMatched, Zenon
  <1>2. CASE Kernel
    BY <1>2, KernelMatches, Zenon DEF Kernel, ghosts
  <1>3. CASE Release
    BY <1>3, ReleaseMatches, Zenon DEF Release, ghosts
  <1>4. CASE Install \/ \E F \in Filters : SetFilter(F)
    BY <1>4, InstallMatches, Zenon
       DEF Install, SetFilter, TotalFilter, AttachFilter, CountBlocks, ghosts
  <1>5. CASE HandlePacket
    <2>1. /\ UNCHANGED <<ring, khead, kopen, kfilter, offset, filters, sets>>
          /\ pc = "handle" /\ pc' \in {"idle", "packet", "release"}
      BY <1>5, Zenon DEF HandlePacket, Return, kernel, counters
    <2>2. ~Installing /\ ~Installing'
      BY <2>1, Zenon DEF Installing
    <2> QED
      BY <1>1, <1>5, <2>1, <2>2, HandleMatches, Zenon
  <1>6. CASE Device \/ SetBreak \/ WriteEvent \/ UNCHANGED vars
    BY <1>1, <1>6, Zenon DEF Device, SetBreak, WriteEvent, vars, kernel, walk,
                             counters, ghosts
  <1>7. ASSUME UNCHANGED <<ring, khead, kopen, kfilter, offset, filters, sets,
                           delivered>>,
               pc \notin {"total", "attach", "count"},
               pc' \notin {"total", "attach", "count"}
        PROVE  MatchInv' /\ delivered' = delivered
    BY <1>1, <1>7, Zenon DEF Installing
  <1>8. CASE \/ \E cnt \in Counts : Dispatch(cnt)
             \/ \E mode \in Modes : SetNonblock(mode)
    BY <1>7, <1>8, Zenon DEF Dispatch, SetNonblock, Return, kernel, walk, counters,
                      ghosts
  <1>9. CASE PollInterrupted \/ PollFails \/ PollNetDown \/ PollReturns
    BY <1>7, <1>9 DEF PollInterrupted, PollFails, PollNetDown, PollReturns,
                      Return, ReturnBreak, Waited, kernel, walk, counters,
                      ghosts
  <1>10. CASE ReadEvent \/ EventBreak \/ CheckDevice
    BY <1>7, <1>10 DEF ReadEvent, EventBreak, CheckDevice, Return,
                       ReturnBreak, Waited, kernel, walk, counters, ghosts
  <1>11. CASE First \/ Acquire \/ EnterBlock
    BY <1>7, <1>11, Zenon DEF First, Acquire, EnterBlock, Return, Waited, kernel,
                       walk, counters, ghosts
  <1>12. CASE NextPacket \/ NextFrame \/ LoopBreak
    BY <1>7, <1>12 DEF NextPacket, NextFrame, LoopBreak, Return, ReturnBreak,
                       kernel, walk, counters, ghosts
  <1> QED
    BY <1>2, <1>3, <1>4, <1>5, <1>6, <1>8, <1>9, <1>10, <1>11, <1>12, Zenon
       DEF Next, Read, Wait, Call

(* The callback gets only packets that the installed program accepts,      *)
(* whatever the ring's size and whichever program let them in: the blocks  *)
(* pcap_setfilter_linux() counts are enough.  It holds as long as no other *)
(* processor is between the old filter and the ring, and no program is     *)
(* installed over the count of an older one.                               *)
THEOREM DeliversOnlyMatches ==
    ASSUME OneAtATime PROVE Spec => DeliveredMatches
  <1>1. Init => MatchInv
    <2> SUFFICES ASSUME Init PROVE MatchInv
      BY Zenon
    <2>1. /\ \A b \in Blocks : ~Live(b)
          /\ kfilter = filter /\ blocks = 0 /\ pc = "idle"
      BY Zenon DEF Init, Live
    <2> QED
      BY <2>1, Zenon DEF MatchInv, Installing
  <1>2. IInv /\ OwnInv /\ MatchInv /\ [Next]_vars => MatchInv'
    BY MatchStep, Zenon
  <1>3. IInv /\ OwnInv /\ MatchInv /\ [Next]_vars =>
           [delivered' # delivered => delivered'.kind \in filter]_vars
    BY MatchStep, Zenon
  <1> QED
    BY <1>1, <1>2, <1>3, Invariant, OwnInvariant, PTL
       DEF Spec, DeliveredMatches

=============================================================================
