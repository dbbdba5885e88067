------------------------------ MODULE Savefile ------------------------------
(***************************************************************************)
(* Savefiles in the pcap format: the dumper that writes them through a     *)
(* buffered stream to a disk that may fill up, appending to an existing    *)
(* file, and the reader, which copes with either byte order, two time      *)
(* stamp precisions, the older record layouts and damaged files.           *)
(*                                                                         *)
(* A file is a sequence of words.  A word is two octets of base Octet, so  *)
(* that the byte order matters; a packet's data are words too, which a     *)
(* reader that has lost its place takes for lengths.  The seconds of a     *)
(* time stamp, the fields of the headers that are not used and the         *)
(* adjustments that pcapint_post_process makes inside the data of a few    *)
(* link-layer types are left out.                                          *)
(***************************************************************************)
EXTENDS Linktype, Naturals, Sequences, FiniteSets, FiniteSetsExt

CONSTANTS
    Octet,          \* values of an octet
    IntMax,         \* INT_MAX
    Maximum,        \* max_snaplen_for_dlt()
    FirstBuffer,    \* the buffer a reader starts with: 2048
    Scale,          \* time stamp units in one of the coarser precision: 1000
    FakeHeader,     \* the Ethernet header the patched format may have added: 14
    Platform,       \* the platform of this library
    Handles,        \* the handles an application dumps with
    Packets,        \* the packets it dumps: see below
    Found,          \* the files, written by others, that there may be
    Rejected,       \* the packet data the reader's filter rejects
    Counts,         \* the packet counts it asks for; 0 is unlimited
    Rooms,          \* words of free space on the disk
    MaxDumps, MaxOpens, MaxCalls, MaxFree

\* A handle: [linktype, ext, snapshot, nano]; a packet: [frac, len, data], whose
\* captured length is the length of its data.
\* A file found: [words, packets, nano, snapshot, sound]; sound, if its author wrote
\* these packets in a format the reader claims to know.

\* The powers of 2 that a buffer's size is rounded up to.  The last is the largest
\* length that max_snaplen_for_dlt() returns.
LargestPower == 134217728
PowerOf2 == {1, 2, 4, 8, 16, 32, 64, 128, 256, 512, 1024, 2048, 4096, 8192, 16384, 32768,
             65536, 131072, 262144, 524288, 1048576, 2097152, 4194304, 8388608, 16777216,
             33554432, 67108864, LargestPower}

ASSUME SavefileAssumption ==
    /\ {Octet, IntMax, Maximum, FirstBuffer, Scale} \subseteq Nat \ {0}
    /\ FakeHeader \in Nat /\ FakeHeader <= IntMax
    /\ Maximum <= LargestPower /\ Maximum <= IntMax /\ IntMax < Octet * Octet
    /\ Platform \in Platforms
    /\ \A h \in Handles : h.snapshot \in 1 .. IntMax /\ h.ext \in Nat
    /\ \A pkt \in Packets : pkt.frac \in Nat /\ pkt.len \in Nat /\ pkt.data \in Seq(Nat)
    /\ \A f \in Found : f.words \in Seq(Nat)
    /\ Counts \subseteq Nat /\ Rooms \subseteq Nat

VARIABLES
    disk,   \* the file, the stream's buffer and the free space
    w,      \* the dumper
    meant,  \* the packets the file is meant to hold
    r,      \* the reading handle
    out     \* the packets its callback was given

vars == <<disk, w, meant, r, out>>

-----------------------------------------------------------------------------
Swap(v) == (v % Octet) * Octet + v \div Octet

TCPDUMP_MAGIC == 1
NSEC_TCPDUMP_MAGIC == 2
KUZNETZOV_TCPDUMP_MAGIC == 3
BT_SHB == Octet + 1     \* the first word of a pcapng file, the same in both byte orders
Magics == {TCPDUMP_MAGIC, NSEC_TCPDUMP_MAGIC, KUZNETZOV_TCPDUMP_MAGIC}

\* The word of the link-layer type: the type, a reserved bit that must be zero, and
\* the extension.
LT_LINKTYPE(v) == v % Octet
LT_RESERVED1(v) == (v \div Octet) % 2
LT_LINKTYPE_EXT(v) == v \div Octet
LinktypeWord(type, ext) == type + Octet * ext

\* The file header: magic, version_major, version_minor, snaplen, linktype.
HdrLen == 5

Header(h, linktype) ==
    <<IF h.nano THEN NSEC_TCPDUMP_MAGIC ELSE TCPDUMP_MAGIC, 2, 4, h.snapshot, linktype>>

\* A record: tv_usec, caplen, len, then the data.
Record(pkt) == <<pkt.frac, Len(pkt.data), pkt.len>>

Take(s, n) == SubSeq(s, 1, n)
Drop(s, n) == SubSeq(s, n + 1, Len(s))
Least(a, b) == IF a < b THEN a ELSE b

-----------------------------------------------------------------------------
(* The stream.  What fwrite is given joins the buffer, of which any part     *)
(* may be written at once; a write the disk has no room for puts what fits   *)
(* in the file, loses the rest and sets the stream's error indicator.        *)

Fwrite(d, words) ==
    LET all == d.buf \o words
        Some(n) == [d EXCEPT !.file = @ \o Take(all, n), !.buf = Drop(all, n), !.room = @ - n]
    IN  {[d |-> Some(n), ok |-> TRUE] : n \in 0 .. Least(d.room, Len(all))}
        \cup (IF d.room < Len(all)
              THEN {[d |-> [Some(d.room) EXCEPT !.buf = <<>>, !.ferror = TRUE], ok |-> FALSE]}
              ELSE {})

\* fflush writes all of the buffer, or fails in the same way.
Fflush(d) == {o \in Fwrite(d, <<>>) : o.ok => o.d.buf = <<>>}

Opened(d, file) == [d EXCEPT !.file = file, !.buf = <<>>, !.ferror = FALSE]

\* How many of the packets are in the file whole, and where the last of them ends.
EndOf(packets, k) ==
    HdrLen + MapThenSumSet(LAMBDA i : 3 + Len(packets[i].data), 1 .. k)
Whole(file, packets) ==
    Cardinality({k \in 1 .. Len(packets) : EndOf(packets, k) <= Len(file)})

-----------------------------------------------------------------------------
NoHandle == [linktype |-> -1, ext |-> 0, snapshot |-> 0, nano |-> FALSE]

NoPacket == [frac |-> 0, len |-> 0, data |-> <<>>]

Fresh == [pc |-> "none", swapped |-> FALSE, lengths_swapped |-> "NOT_SWAPPED",
          scale_type |-> "PASS_THROUGH", hdrsize |-> 3, snapshot |-> 0, linktype |-> -1,
          linktype_ext |-> 0, bufsize |-> 0, fill |-> 0, pos |-> 0, nano |-> FALSE,
          h |-> NoPacket, op |-> "none", cnt |-> 0, want |-> 0, n |-> 0, total |-> 0,
          ret |-> 0, break_loop |-> FALSE, broken |-> FALSE, after |-> 0,
          promised |-> 0, calls |-> 0, feof |-> FALSE,
          ng |-> FALSE, ifcount |-> 0, ifaces |-> <<>>, max_blocksize |-> 0, buffer |-> 0]

Init ==
    /\ r = Fresh /\ out = <<>>
    /\ w = [open |-> FALSE, h |-> NoHandle, opens |-> 0, told |-> 0, failed |-> FALSE,
            torn |-> FALSE, created |-> NoHandle, refused |-> FALSE, frees |-> 0,
            author |-> [sound |-> TRUE, nano |-> FALSE, snapshot |-> 1]]
    /\ meant = <<>>
    /\ \E room \in Rooms :
            disk = [file |-> <<>>, buf |-> <<>>, room |-> room, ferror |-> FALSE]

\* There is a file by another author.
Find(f) ==
    /\ r.pc = "none"
    /\ disk' = [disk EXCEPT !.file = f.words]
    /\ meant' = f.packets
    /\ w' = [w EXCEPT !.told = Len(f.packets), !.opens = 1,
                      !.author = [sound |-> f.sound, nano |-> f.nano, snapshot |-> f.snapshot]]
    /\ UNCHANGED <<r, out>>

-----------------------------------------------------------------------------
(* The dumper.                                                               *)

\* pcap_setup_dump: a new file, with its header in the buffer or already on the
\* disk; if the header cannot be written the stream is closed.
SetupDump(d, h, linktype) ==
    \E o \in Fwrite(d, Header(h, linktype)) :
        /\ disk' = [o.d EXCEPT !.ferror = FALSE]
        /\ w' = [w EXCEPT !.open = o.ok, !.h = h, !.opens = @ + 1, !.refused = FALSE,
                          !.told = 0, !.failed = ~o.ok, !.torn = FALSE, !.created = h,
                          !.author = [sound |-> TRUE, nano |-> h.nano, snapshot |-> h.snapshot]]
        /\ meant' = <<>>

MayOpen == ~w.open /\ w.opens < MaxOpens /\ r.pc = "none"

DumpOpen(h) ==
    /\ MayOpen
    /\ LET linktype == dlt_to_linktype(Platform, h.linktype)
       IN  IF linktype = -1
           THEN /\ w' = [w EXCEPT !.opens = @ + 1, !.refused = FALSE]
                /\ UNCHANGED <<disk, meant>>
           ELSE SetupDump(Opened(disk, <<>>), h, LinktypeWord(linktype, h.ext))
    /\ UNCHANGED <<r, out>>

\* Mutant: the type in the file is compared with the DLT_ value.
AppendUnmapped(h, linktype) ==
    /\ disk.file[1] = IF h.nano THEN NSEC_TCPDUMP_MAGIC ELSE TCPDUMP_MAGIC
    /\ disk.file[2] = 2 /\ disk.file[3] = 4
    /\ disk.file[5] = h.linktype
    /\ disk.file[4] = h.snapshot

\* The header of the file is one that this handle would have written.
CanAppend(h, linktype) ==
    /\ disk.file[1] = IF h.nano THEN NSEC_TCPDUMP_MAGIC ELSE TCPDUMP_MAGIC
    /\ disk.file[2] = 2 /\ disk.file[3] = 4
    /\ disk.file[5] = linktype
    /\ disk.file[4] = h.snapshot

DumpOpenAppend(h) ==
    /\ MayOpen
    /\ LET linktype == dlt_to_linktype(Platform, h.linktype)
           refuse == /\ w' = [w EXCEPT !.opens = @ + 1, !.refused = (h = w.created)]
                     /\ UNCHANGED <<disk, meant>>
           whole == Whole(disk.file, meant)
       IN  IF linktype = -1 \/ Len(disk.file) \in 1 .. HdrLen - 1 THEN refuse
           ELSE IF disk.file = <<>> THEN SetupDump(Opened(disk, <<>>), h, linktype)
           ELSE IF ~CanAppend(h, linktype) THEN refuse
           ELSE /\ disk' = Opened(disk, disk.file)
                /\ w' = [w EXCEPT !.open = TRUE, !.h = h, !.opens = @ + 1, !.refused = FALSE,
                                  !.told = whole, !.failed = FALSE,
                                  !.torn = @ \/ Len(disk.file) # EndOf(meant, whole)]
                /\ meant' = Take(meant, whole)
    /\ UNCHANGED <<r, out>>

\* The data are written if the header was.
DumpOnwards(pkt) ==
    \E o \in Fwrite(disk, Record(pkt)) :
        \E q \in (IF o.ok THEN Fwrite(o.d, pkt.data) ELSE {o}) :
            /\ disk' = q.d
            /\ w' = [w EXCEPT !.failed = @ \/ ~q.ok]

\* Neither is written if the stream is in error.
pcap_dump(pkt) ==
    \/ disk.ferror /\ UNCHANGED <<disk, w>>
    \/ ~disk.ferror /\ DumpOnwards(pkt)

Dump(pkt) ==
    /\ w.open /\ Len(meant) < MaxDumps
    /\ pcap_dump(pkt)
    /\ meant' = Append(meant, pkt)
    /\ UNCHANGED <<r, out>>

\* pcap_dump_flush, which succeeds if fflush does.
DumpFlush ==
    /\ w.open
    /\ \E o \in Fflush(disk) :
            /\ disk' = o.d
            /\ w' = [w EXCEPT !.told = IF o.ok THEN Len(meant) ELSE @, !.failed = @ \/ ~o.ok]
    /\ UNCHANGED <<meant, r, out>>

DumpClose ==
    /\ w.open
    /\ \E o \in Fflush(disk) :
            /\ disk' = [o.d EXCEPT !.ferror = FALSE]
            /\ w' = [w EXCEPT !.open = FALSE, !.failed = @ \/ ~o.ok,
                              !.told = IF o.ok /\ ~w.failed THEN Len(meant) ELSE @]
    /\ UNCHANGED <<meant, r, out>>

\* Somebody removes other files.
FreeSpace(room) ==
    /\ w.frees < MaxFree
    /\ disk' = [disk EXCEPT !.room = @ + room]
    /\ w' = [w EXCEPT !.frees = @ + 1]
    /\ UNCHANGED <<meant, r, out>>

-----------------------------------------------------------------------------
(* The reader.                                                               *)

pcapint_adjust_snapshot(snaplen) ==
    IF snaplen = 0 \/ snaplen > IntMax THEN Maximum ELSE snaplen

ScaleType(nano, magic) ==
    CASE nano = (magic = NSEC_TCPDUMP_MAGIC) -> "PASS_THROUGH"
      [] ~nano /\ magic = NSEC_TCPDUMP_MAGIC -> "SCALE_DOWN"
      [] OTHER -> "SCALE_UP"

LengthsSwapped(major, minor) ==
    CASE major = 543 \/ (major = 2 /\ minor < 3) -> "SWAPPED"
      [] major = 2 /\ minor = 3 -> "MAYBE_SWAPPED"
      [] OTHER -> "NOT_SWAPPED"

\* The snapshot length to read with: the patched format may have prepended a made-up
\* Ethernet header to what the snapshot length allowed.
Snapshot(magic, linktype, snaplen) ==
    LET adjusted == pcapint_adjust_snapshot(snaplen)
    IN  IF magic = KUZNETZOV_TCPDUMP_MAGIC /\ linktype = 1
        THEN IF adjusted <= IntMax - FakeHeader THEN adjusted + FakeHeader ELSE IntMax
        ELSE adjusted

\* The checks of pcap_check_header on the words of the header, in host order.
Acceptable(hdr) ==
    /\ \/ hdr[2] = 2 /\ hdr[3] <= 4
       \/ hdr[2] = 543 /\ hdr[3] = 0
    /\ LT_RESERVED1(hdr[5]) = 0

pcap_check_header(nano, hdr, swapped) ==
    LET linktype == linktype_to_dlt(Platform, LT_LINKTYPE(hdr[5]))
        snapshot == Snapshot(hdr[1], linktype, hdr[4])
    IN  [Fresh EXCEPT
            !.pc = "idle", !.swapped = swapped, !.nano = nano, !.pos = HdrLen,
            !.linktype = linktype, !.linktype_ext = LT_LINKTYPE_EXT(hdr[5]),
            !.snapshot = snapshot, !.scale_type = ScaleType(nano, hdr[1]),
            !.lengths_swapped = LengthsSwapped(hdr[2], hdr[3]),
            !.hdrsize = IF hdr[1] = KUZNETZOV_TCPDUMP_MAGIC THEN 5 ELSE 3,
            !.bufsize = Least(snapshot, FirstBuffer),
            !.promised = IF w.failed THEN 0 ELSE w.told]

OpenOffline(nano) ==
    /\ r.pc = "none" /\ w.opens > 0
    /\ disk.file # <<>> => disk.file[1] # BT_SHB
    /\ LET f == disk.file
           swapped == Len(f) > 0 /\ f[1] \notin Magics
           hdr == [i \in 1 .. HdrLen |-> IF swapped THEN Swap(f[i]) ELSE f[i]]
       IN  IF Len(f) >= HdrLen /\ hdr[1] \in Magics /\ Acceptable(hdr)
           THEN r' = pcap_check_header(nano, hdr, swapped)
           ELSE r' = [r EXCEPT !.pc = "refused"]
    /\ UNCHANGED <<disk, w, meant, out>>

Grown(caplen) ==
    IF caplen > r.snapshot THEN r.snapshot
    ELSE Least(CHOOSE p \in PowerOf2 : p >= caplen /\ p < 2 * caplen, r.snapshot)

\* The header of the record at r.pos.
RecordHeader ==
    LET Field(i) == IF r.swapped THEN Swap(disk.file[r.pos + i]) ELSE disk.file[r.pos + i]
        exchange == \/ r.lengths_swapped = "SWAPPED"
                    \/ r.lengths_swapped = "MAYBE_SWAPPED" /\ Field(2) > Field(3)
    IN  [frac   |-> CASE r.scale_type = "SCALE_UP" -> Field(1) * Scale
                      [] r.scale_type = "SCALE_DOWN" -> Field(1) \div Scale
                      [] OTHER -> Field(1),
         caplen |-> IF exchange THEN Field(3) ELSE Field(2),
         len    |-> IF exchange THEN Field(2) ELSE Field(3)]

\* pcapint_offline_read(cnt) returned n: what pcap_dispatch, pcap_loop and
\* pcap_next_ex make of it.
Result(q, n) == [q EXCEPT !.pc = "idle", !.ret = n]

Again(q, cnt) == [q EXCEPT !.pc = "top", !.cnt = cnt, !.n = 0]

\* Mutant: pcap_loop goes on after 0, as it does for a live capture.
ReturnedLive(q, n) ==
    CASE q.op = "dispatch" -> Result(q, n)
      [] q.op = "next_ex" -> Result(q, IF n = 0 THEN -2 ELSE n)
      [] q.op = "loop" /\ n < 0 -> Result(q, n)
      [] q.op = "loop" /\ n >= 0 /\ q.cnt = 0 -> Again(q, 0)
      [] q.op = "loop" /\ n >= 0 /\ q.cnt > 0 ->
            IF q.cnt - n <= 0 THEN Result(q, 0) ELSE Again(q, q.cnt - n)

Returned(q, n) ==
    CASE q.op = "dispatch" -> Result(q, n)
      [] q.op = "next_ex" -> Result(q, IF n = 0 THEN -2 ELSE n)
      [] q.op = "loop" /\ n <= 0 -> Result(q, n)
      [] q.op = "loop" /\ n > 0 /\ q.cnt = 0 -> Again(q, 0)
      [] q.op = "loop" /\ n > 0 /\ q.cnt > 0 ->
            IF q.cnt - n <= 0 THEN Result(q, 0) ELSE Again(q, q.cnt - n)

Call(op, cnt) ==
    /\ r.pc = "idle" /\ r.calls < MaxCalls
    /\ op = "next_ex" => cnt = 1
    /\ r' = [r EXCEPT !.pc = "top", !.op = op, !.cnt = cnt, !.want = cnt, !.n = 0,
                      !.total = 0, !.calls = @ + 1]
    /\ UNCHANGED <<disk, w, meant, out>>

\* The signal handler, the callback or another thread.
pcap_breakloop ==
    /\ r.pc \notin {"none", "refused", "error"} /\ ~r.broken
    /\ r' = [r EXCEPT !.break_loop = TRUE, !.broken = TRUE, !.after = 0]
    /\ UNCHANGED <<disk, w, meant, out>>

LoopTop ==
    /\ r.pc = "top"
    /\ CASE ~r.break_loop -> r' = [r EXCEPT !.pc = "next"]
         [] r.break_loop /\ r.n = 0 ->
                r' = Returned([r EXCEPT !.break_loop = FALSE, !.broken = FALSE, !.after = 0], -2)
         [] r.break_loop /\ r.n > 0 -> r' = Returned(r, r.n)
    /\ UNCHANGED <<disk, w, meant, out>>

Left == IF r.feof THEN 0 ELSE Len(disk.file) - r.pos

Failed(q) == [q EXCEPT !.pc = "error", !.ret = -1]

\* No header, or a part of one.
NextPacketEnd ==
    /\ r.pc = "next" /\ ~r.ng /\ Left < r.hdrsize
    /\ LET q == [r EXCEPT !.feof = TRUE, !.pos = Len(disk.file)]
       IN  r' = IF Left = 0 THEN Returned(q, r.n) ELSE Failed(q)
    /\ UNCHANGED <<disk, w, meant, out>>

\* A packet too large to be true.
NextPacketInsane ==
    /\ r.pc = "next" /\ ~r.ng /\ Left >= r.hdrsize /\ RecordHeader.caplen > Maximum
    /\ r' = Failed([r EXCEPT !.pos = @ + r.hdrsize])
    /\ UNCHANGED <<disk, w, meant, out>>

\* realloc fails.
NextPacketNoMemory ==
    /\ r.pc = "next" /\ ~r.ng /\ Left >= r.hdrsize
    /\ RecordHeader.caplen <= Maximum /\ RecordHeader.caplen > r.bufsize
    /\ r' = Failed([r EXCEPT !.pos = @ + r.hdrsize, !.promised = 0])
    /\ UNCHANGED <<disk, w, meant, out>>

\* Mutant: a packet larger than the snapshot length is handed over whole.
NextPacketUnclipped ==
    /\ r.pc = "next" /\ ~r.ng /\ Left >= r.hdrsize /\ RecordHeader.caplen <= Maximum
    /\ LET h == RecordHeader
           start == r.pos + r.hdrsize
           have == Least(h.caplen, Left - r.hdrsize)
           q == [r EXCEPT !.bufsize = IF h.caplen > @ THEN h.caplen ELSE @,
                          !.pos = start + have, !.fill = have, !.feof = have < h.caplen]
       IN  r' = IF have < h.caplen THEN Failed(q)
                ELSE [q EXCEPT !.pc = "callback",
                               !.h = [frac |-> h.frac, len |-> h.len,
                                      data |-> SubSeq(disk.file, start + 1, start + have)]]
    /\ UNCHANGED <<disk, w, meant, out>>

\* The data are read as far as the snapshot length goes; the rest is discarded.
NextPacket ==
    /\ r.pc = "next" /\ ~r.ng /\ Left >= r.hdrsize /\ RecordHeader.caplen <= Maximum
    /\ LET h == RecordHeader
           start == r.pos + r.hdrsize
           have == Least(h.caplen, Left - r.hdrsize)
           kept == Least(have, r.snapshot)
           q == [r EXCEPT !.bufsize = IF h.caplen > @ THEN Grown(h.caplen) ELSE @,
                          !.pos = start + have, !.fill = kept, !.feof = have < h.caplen]
       IN  r' = IF have < h.caplen THEN Failed(q)
                ELSE [q EXCEPT !.pc = "callback",
                               !.h = [frac |-> h.frac, len |-> h.len,
                                      data |-> SubSeq(disk.file, start + 1, start + kept)]]
    /\ UNCHANGED <<disk, w, meant, out>>

\* Mutant: one packet too many.
CallbackOneMore ==
    /\ r.pc = "callback"
    /\ out' = Append(out, r.h)
    /\ LET q == [r EXCEPT !.n = @ + 1, !.total = @ + 1]
       IN  r' = IF r.cnt > 0 /\ q.n > r.cnt THEN Returned(q, q.n) ELSE [q EXCEPT !.pc = "top"]
    /\ UNCHANGED <<disk, w, meant>>

Callback ==
    /\ r.pc = "callback"
    /\ IF r.h.data \in Rejected
       THEN r' = [r EXCEPT !.pc = "top"] /\ UNCHANGED out
       ELSE /\ out' = Append(out, r.h)
            /\ LET q == [r EXCEPT !.n = @ + 1, !.total = @ + 1,
                                  !.after = IF r.break_loop THEN @ + 1 ELSE 0]
               IN  r' = IF r.cnt > 0 /\ q.n >= r.cnt THEN Returned(q, q.n)
                        ELSE [q EXCEPT !.pc = "top"]
    /\ UNCHANGED <<disk, w, meant>>

Read == LoopTop \/ NextPacketEnd \/ NextPacketInsane \/ NextPacket \/ Callback

Next ==
    \/ w.opens = 0 /\ \E f \in Found : Find(f)
    \/ \E h \in Handles : DumpOpen(h) \/ DumpOpenAppend(h)
    \/ \E pkt \in Packets : Dump(pkt)
    \/ DumpFlush \/ DumpClose
    \/ \E room \in Rooms : FreeSpace(room)
    \/ \E nano \in BOOLEAN : OpenOffline(nano)
    \/ \E op \in {"dispatch", "loop", "next_ex"}, cnt \in Counts : Call(op, cnt)
    \/ pcap_breakloop
    \/ NextPacketNoMemory
    \/ Read

Spec == Init /\ [][Next]_vars

\* The thread that reads is scheduled.
Fair == Spec /\ WF_vars(Read)

-----------------------------------------------------------------------------
(* Properties.                                                               *)

\* The variables have their types.
TypeOK ==
    /\ disk.file \in Seq(Nat) /\ disk.buf \in Seq(Nat)
    /\ disk.room \in Nat /\ disk.ferror \in BOOLEAN
    /\ w.open \in BOOLEAN /\ w.told \in 0 .. Len(meant)
    /\ r.pc \in {"none", "refused", "idle", "top", "next", "callback", "error"}
    /\ r.scale_type \in {"PASS_THROUGH", "SCALE_UP", "SCALE_DOWN"}
    /\ r.lengths_swapped \in {"NOT_SWAPPED", "MAYBE_SWAPPED", "SWAPPED"}
    /\ r.pos \in 0 .. Len(disk.file)
    /\ r.ret \in Nat \cup {-1, -2} /\ r.n \in Nat /\ r.n <= Len(out)

\* What the author of the file meant a reader of it to be given.
Expected ==
    LET given == [i \in DOMAIN meant |->
            [frac |-> CASE r.nano /\ ~w.author.nano -> meant[i].frac * Scale
                        [] ~r.nano /\ w.author.nano -> meant[i].frac \div Scale
                        [] OTHER -> meant[i].frac,
             len  |-> meant[i].len,
             data |-> Take(meant[i].data, Least(Len(meant[i].data), w.author.snapshot))]]
    IN  SelectSeq(given, LAMBDA pkt : pkt.data \notin Rejected)

\* Those among the first k packets.
ExpectedOf(k) ==
    Cardinality({i \in 1 .. k :
        Take(meant[i].data, Least(Len(meant[i].data), w.author.snapshot)) \notin Rejected})

\* Whatever the byte order, the precision and the record layout of the file
\* (pcap_check_header, pcap_next_packet), and whatever became of the disk while it
\* was written (pcap_dump writes nothing after a record it could not finish), the
\* callback is given packets that were dumped, in order, with their lengths and
\* their time stamps in the unit asked for, and none besides.  When the end of the
\* file is reached, or an error met, the packets that a successful pcap_dump_flush
\* or pcap_dump_close had put in the file before it was opened have all been given.
ReadsWhatWasMeant ==
    w.author.sound /\ ~w.torn /\ ~r.ng =>
        /\ Len(out) <= Len(Expected) /\ out = Take(Expected, Len(out))
        /\ r.pc = "error" \/ (r.feof /\ r.pc = "idle") => Len(out) >= ExpectedOf(r.promised)

\* "we don't want to hand our caller a packet bigger than the snapshot length", for
\* any contents of the file: the packet handed over fits the snapshot length, which
\* is positive and an int, and was read into a buffer that holds it.
HandsOverWhatFits ==
    r.pc \notin {"none", "refused"} =>
        /\ r.snapshot \in 1 .. IntMax
        /\ \A i \in DOMAIN out : Len(out[i].data) <= r.snapshot
        /\ IF r.ng THEN r.fill <= r.buffer
           ELSE r.fill <= r.bufsize /\ r.bufsize <= r.snapshot

\* A file that pcap_dump_open made opens with the link-layer type, its extension and
\* the snapshot length of the handle it was made with.
HeaderAgrees ==
    (w.created # NoHandle /\ r.pc \notin {"none", "refused"}) =>
        <<r.linktype, r.linktype_ext, r.snapshot>> =
            <<w.created.linktype, w.created.ext, w.created.snapshot>>

\* A call gives as many packets as it reports and no more than it was asked for;
\* pcap_loop returns 0 only when it has given them all or the file has ended; and
\* after pcap_breakloop at most one more packet is given before a call reports it.
CountsExact ==
    /\ r.after <= 1
    /\ r.pc = "idle" /\ r.op # "none" =>
        /\ r.want > 0 => r.total <= r.want
        /\ r.op = "dispatch" /\ r.ret >= 0 => r.ret = r.total
        /\ r.op = "loop" /\ r.ret = 0 => r.feof \/ (r.want > 0 /\ r.total = r.want)

\* pcap_loop, pcap_dispatch and pcap_next_ex on a savefile return.
CallsReturn == (r.pc \in {"top", "next", "callback"}) ~> (r.pc \in {"idle", "error"})

\* "pcap_dump_open_append() is like pcap_dump_open() but, if the file already exists,
\* and is a pcap file with the same byte order as the host opening the file, and has
\* the same time stamp precision, link-layer header type, and snapshot length as p,
\* it will write new packets at the end of the file": it does not refuse a file that
\* pcap_dump_open wrote with the same handle, unless its header is not all there.
AppendAccepted == w.refused => Len(disk.file) < HdrLen

\* What pcap_dump_open wrote is known again, both by a reader and by
\* pcap_dump_open_append.
FileRecognised == HeaderAgrees /\ AppendAccepted

=============================================================================
