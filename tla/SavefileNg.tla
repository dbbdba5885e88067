----------------------------- MODULE SavefileNg -----------------------------
(***************************************************************************)
(* Savefiles in the pcapng format (sf-pcapng.c): sections of blocks, each  *)
(* with its length in front and behind; a section describes its own        *)
(* interfaces, each with a time stamp resolution and an offset.  The loops *)
(* around the reader are those of Savefile.                                *)
(*                                                                         *)
(* Every field takes a word and lengths count words, so that they need no  *)
(* padding; the length of an option's value counts bytes, four to a word.  *)
(* Time stamps have a scale of their own: Half stands for 2^32.            *)
(***************************************************************************)
EXTENDS Savefile, SequencesExt

CONSTANTS
    Half,           \* values of half a time stamp
    MaxShift,       \* the finest binary resolution: 2^-63
    MaxPower,       \* the finest decimal resolution: 10^-19
    FirstBlock,     \* the buffer a reader starts with: 2048
    InitialMax,     \* INITIAL_MAX_BLOCKSIZE
    OptionRoom,     \* the room for options in the largest block: 131072
    ShbMax          \* BT_SHB_INSANE_MAX

Wide == Half * Half

ASSUME NgAssumption ==
    /\ {Half, FirstBlock, InitialMax, ShbMax} \subseteq Nat \ {0}
    /\ {MaxShift, MaxPower, OptionRoom} \subseteq Nat
    /\ 2 ^ MaxShift < Wide /\ 10 ^ MaxPower < Wide
    /\ FirstBlock <= InitialMax /\ ShbMax <= InitialMax

BT_IDB == 1
BT_PB == 2
BT_SPB == 3
BT_EPB == 6
BYTE_ORDER_MAGIC == 7

OPT_ENDOFOPT == 0
IF_TSRESOL == 9
IF_TSOFFSET == 14
Binary == 128       \* the bit of the resolution that says it is a power of 2

\* PCAP_TSTAMP_PRECISION_MICRO and _NANO: 10^6 and 10^9 in the code.
user_tsresol(nano) == IF nano THEN Scale * Scale ELSE Scale

\* The word at place i, in host order.
At(q, i) == IF q.swapped THEN Swap(disk.file[i]) ELSE disk.file[i]

NgLeft(q) == IF q.feof THEN 0 ELSE Len(disk.file) - q.pos

-----------------------------------------------------------------------------
(* read_block(): status, the handle afterwards, and a cursor over the       *)
(* block's contents: its type, where they begin and how many words remain.  *)

Block(status, q, type, at, remaining) ==
    [status |-> status, q |-> q, type |-> type, at |-> at, remaining |-> remaining]

ReadError(q) == Block(-1, q, 0, 0, 0)

ReadToEnd(q) == [q EXCEPT !.pos = Len(disk.file), !.feof = TRUE]

read_block(q) ==
    IF NgLeft(q) = 0 THEN Block(0, ReadToEnd(q), 0, 0, 0)
    ELSE IF NgLeft(q) < 2 THEN ReadError(ReadToEnd(q))
    ELSE LET total_length == At(q, q.pos + 2)
             after == [q EXCEPT !.pos = @ + total_length, !.fill = total_length,
                                !.buffer = IF q.bufsize < total_length THEN total_length
                                           ELSE @]
         IN  IF \/ total_length < 3
                \/ total_length > q.bufsize /\ total_length > q.max_blocksize
             THEN ReadError([q EXCEPT !.pos = @ + 2])
             ELSE IF NgLeft(q) < total_length THEN ReadError(ReadToEnd(q))
             ELSE IF At(q, q.pos + total_length) # total_length THEN ReadError(after)
             ELSE Block(1, after, At(q, q.pos + 1), q.pos + 3, total_length - 3)

-----------------------------------------------------------------------------
(* process_idb_options(): o is what the options before place at said        *)

OptionError(o) == [o EXCEPT !.ok = FALSE]

Tsresol(o, length, opt) ==
    CASE length # 1 \/ o.saw_tsresol -> OptionError(o)
      [] length = 1 /\ ~o.saw_tsresol /\ opt >= Binary ->
            IF opt - Binary > MaxShift THEN OptionError(o)
            ELSE [o EXCEPT !.tsresol = 2 ^ (opt - Binary), !.is_binary = TRUE,
                           !.saw_tsresol = TRUE]
      [] length = 1 /\ ~o.saw_tsresol /\ opt < Binary ->
            IF opt > MaxPower THEN OptionError(o)
            ELSE [o EXCEPT !.tsresol = 10 ^ opt, !.is_binary = FALSE, !.saw_tsresol = TRUE]

\* The value is 8 bytes: two words, of which the second is not used here.
Tsoffset(o, length, value) ==
    IF length # 8 \/ o.saw_tsoffset THEN OptionError(o)
    ELSE [o EXCEPT !.tsoffset = value, !.saw_tsoffset = TRUE]

RECURSIVE process_idb_options(_, _, _, _)
process_idb_options(q, at, remaining, o) ==
    IF remaining = 0 \/ ~o.ok THEN o
    ELSE IF remaining < 2 THEN OptionError(o)
    ELSE LET code == At(q, at)
             length == At(q, at + 1)
             padded == (length + 3) \div 4
             Further(p) ==
                process_idb_options(q, at + 2 + padded, remaining - 2 - padded, p)
         IN  IF remaining - 2 < padded THEN OptionError(o)
             ELSE CASE code = OPT_ENDOFOPT -> [o EXCEPT !.ok = (length = 0)]
                    [] code = IF_TSRESOL -> Further(Tsresol(o, length, At(q, at + 2)))
                    [] code = IF_TSOFFSET -> Further(Tsoffset(o, length, At(q, at + 2)))
                    [] OTHER -> Further(o)

-----------------------------------------------------------------------------
(* add_interface(): ifaces is the array, ifcount the part of it in use.     *)

NoIface == [tsresol |-> 0, tsoffset |-> 0, scale_type |-> "NONE", scale_factor |-> 0]

\* The array is made twice as large when it is full.
GrowIfaces(ifaces) ==
    IF ifaces = <<>> THEN <<NoIface>> ELSE ifaces \o [i \in DOMAIN ifaces |-> NoIface]

\* The code has two names for SCALE_BIN, up and down, and does the same for both.
Iface(o, user) ==
    [tsresol |-> o.tsresol, tsoffset |-> o.tsoffset,
     scale_type |-> CASE o.tsresol = user -> "PASS_THROUGH"
                      [] o.tsresol # user /\ o.is_binary -> "SCALE_BIN"
                      [] o.tsresol > user /\ ~o.is_binary -> "SCALE_DOWN_DEC"
                      [] o.tsresol < user /\ ~o.is_binary -> "SCALE_UP_DEC",
     scale_factor |-> IF o.tsresol > user THEN o.tsresol \div user ELSE user \div o.tsresol]

add_interface(q, at, remaining) ==
    LET n == q.ifcount + 1
        o == process_idb_options(q, at, remaining,
                [ok |-> TRUE, tsresol |-> user_tsresol(FALSE), tsoffset |-> 0,
                 is_binary |-> FALSE, saw_tsresol |-> FALSE, saw_tsoffset |-> FALSE])
        grown == [q EXCEPT !.ifcount = n,
                           !.ifaces = IF n > Len(@) THEN GrowIfaces(@) ELSE @]
    IN  [ok |-> o.ok,
         q |-> IF o.ok THEN [grown EXCEPT !.ifaces[n] = Iface(o, user_tsresol(q.nano))]
               ELSE grown]

-----------------------------------------------------------------------------
(* pcap_ng_check_header()                                                   *)

ShbLen == 4     \* byte_order_magic, major_version, minor_version, section_length
IdbLen == 3     \* linktype, reserved, snaplen

NgRefused == [Fresh EXCEPT !.pc = "refused"]

MaxBlock ==
    LET epb == 2 + 5 + Maximum + OptionRoom + 1
    IN  IF epb > InitialMax THEN epb ELSE InitialMax

\* The handle takes the link-layer type and the snapshot length of its first
\* interface.
FirstInterface(b) ==
    LET linktype == linktype_to_dlt(Platform, At(b.q, b.at))
        added == add_interface(b.q, b.at + IdbLen, b.remaining - IdbLen)
    IN  IF b.remaining < IdbLen THEN NgRefused
        ELSE IF ~added.ok THEN NgRefused
        ELSE [added.q EXCEPT !.pc = "idle", !.linktype = linktype,
                             !.snapshot = pcapint_adjust_snapshot(At(b.q, b.at + 2)),
                             !.max_blocksize = MaxBlock]

\* Blocks are skipped up to the first interface.
RECURSIVE UpToInterface(_)
UpToInterface(q) ==
    LET b == read_block(q)
    IN  IF b.status # 1 THEN NgRefused
        ELSE CASE b.type = BT_IDB -> FirstInterface(b)
               [] b.type \in {BT_EPB, BT_SPB, BT_PB} -> NgRefused
               [] OTHER -> UpToInterface(b.q)

pcap_ng_check_header(nano) ==
    LET swapped == disk.file[3] # BYTE_ORDER_MAGIC
        q == [Fresh EXCEPT !.ng = TRUE, !.nano = nano, !.swapped = swapped]
        total_length == At(q, 2)
        most == IF total_length > FirstBlock THEN total_length ELSE FirstBlock
    IN  IF \/ Len(disk.file) < 3
           \/ At(q, 3) # BYTE_ORDER_MAGIC
           \/ total_length < 2 + ShbLen + 1 \/ total_length > ShbMax
           \/ Len(disk.file) < total_length
           \/ At(q, 4) # 1 \/ At(q, 5) \notin {0, 2}
        THEN NgRefused
        ELSE UpToInterface([q EXCEPT !.bufsize = most, !.buffer = most,
                                     !.max_blocksize = InitialMax, !.pos = total_length,
                                     !.promised = w.told])

OpenOfflineNg(nano) ==
    /\ r.pc = "none" /\ w.opens > 0
    /\ disk.file # <<>> /\ disk.file[1] = BT_SHB
    /\ r' = pcap_ng_check_header(nano)
    /\ UNCHANGED <<disk, w, meant, out>>

-----------------------------------------------------------------------------
(* pcap_ng_next_packet(): an action for each block it reads                 *)

EpbLen == 5     \* interface_id, timestamp_high, timestamp_low, caplen, len
SpbLen == 1     \* len
PbLen == 6      \* interface_id, drops_count, and then as in an EPB

\* Seconds, and fractions in the unit asked for; the arithmetic is unsigned and 64
\* bits wide.
Timestamp(iface, user, t) ==
    LET frac == t % iface.tsresol
    IN  [sec |-> (t \div iface.tsresol + iface.tsoffset) % Wide,
         frac |-> CASE iface.scale_type = "PASS_THROUGH" -> frac
                    [] iface.scale_type = "SCALE_UP_DEC" -> (frac * iface.scale_factor) % Wide
                    [] iface.scale_type = "SCALE_DOWN_DEC" -> frac \div iface.scale_factor
                    [] iface.scale_type = "SCALE_BIN" ->
                            ((frac * user) % Wide) \div iface.tsresol]

\* A packet was found: fixed is the size of what comes before its data.
NgFound(b, fixed, interface_id, t, caplen, len) ==
    IF \/ interface_id >= b.q.ifcount \/ caplen > b.q.snapshot
       \/ b.remaining - fixed < caplen
    THEN Failed(b.q)
    ELSE LET ts == Timestamp(b.q.ifaces[interface_id + 1], user_tsresol(b.q.nano), t)
         IN  [b.q EXCEPT !.pc = "callback",
                         !.h = [frac |-> <<ts.sec, ts.frac>>, len |-> len,
                                data |-> SubSeq(disk.file, b.at + fixed,
                                                b.at + fixed + caplen - 1)]]

NgPacket(b) ==
    LET F(i) == At(b.q, b.at + i)
        T(i) == ((F(i) % Half) * Half + F(i + 1)) % Wide
        fixed == CASE b.type = BT_EPB -> EpbLen [] b.type = BT_SPB -> SpbLen
                   [] b.type = BT_PB -> PbLen
    IN  IF b.remaining < fixed THEN Failed(b.q)
        ELSE CASE b.type = BT_EPB -> NgFound(b, EpbLen, F(0), T(1), F(3), F(4))
               [] b.type = BT_SPB ->
                    NgFound(b, SpbLen, 0, 0, Least(F(0), b.q.snapshot), F(0))
               [] b.type = BT_PB -> NgFound(b, PbLen, F(0), T(2), F(4), F(5))

\* Another interface; its link-layer type is compared with the DLT_ value of the
\* first.
NgInterface(b) ==
    LET added == add_interface(b.q, b.at + IdbLen, b.remaining - IdbLen)
    IN  IF \/ b.remaining < IdbLen
           \/ b.q.linktype # At(b.q, b.at)
           \/ b.q.snapshot # pcapint_adjust_snapshot(At(b.q, b.at + 2))
        THEN Failed(b.q)
        ELSE IF added.ok THEN added.q ELSE Failed(added.q)

\* A mutant: the interfaces of the section before remain.
SectionKeeps(b) ==
    IF b.remaining < ShbLen \/ At(b.q, b.at) # BYTE_ORDER_MAGIC \/ At(b.q, b.at + 1) # 1
    THEN Failed(b.q) ELSE b.q

\* A new section, with interfaces of its own.
NgSection(b) ==
    IF b.remaining < ShbLen \/ At(b.q, b.at) # BYTE_ORDER_MAGIC \/ At(b.q, b.at + 1) # 1
    THEN Failed(b.q) ELSE [b.q EXCEPT !.ifcount = 0]

NgNextBlock ==
    /\ r.pc = "next" /\ r.ng
    /\ \E b \in {read_block(r)} :
          r' = CASE b.status = 0 -> Returned(b.q, r.n)
                 [] b.status = -1 -> Failed(b.q)
                 [] b.status = 1 /\ b.type \in {BT_EPB, BT_SPB, BT_PB} -> NgPacket(b)
                 [] b.status = 1 /\ b.type = BT_IDB -> NgInterface(b)
                 [] b.status = 1 /\ b.type = BT_SHB -> NgSection(b)
                 [] OTHER -> b.q
    /\ UNCHANGED <<disk, w, meant, out>>

\* A read fails, or there is no memory for the block or for the interface.
NgFails ==
    /\ r.pc = "next" /\ r.ng
    /\ r' = Failed([r EXCEPT !.promised = 0])
    /\ UNCHANGED <<disk, w, meant, out>>

-----------------------------------------------------------------------------
NgNext ==
    \/ \E nano \in BOOLEAN : OpenOfflineNg(nano)
    \/ NgNextBlock \/ NgFails

NgSpec == Init /\ [][Next \/ NgNext]_vars

-----------------------------------------------------------------------------
(* Properties.  The packets of a sound pcapng file are                      *)
(* [frac, res, offset, len, data]: what the author wrote, frac in ticks of  *)
(* the interface, whose resolution and offset are res and offset.           *)

\* What the author meant a reader that asks for precision user to be given.
Meant(pkt, user) ==
    [frac |-> <<pkt.frac \div pkt.res + pkt.offset,
              ((pkt.frac % pkt.res) * user) \div pkt.res>>,
     len |-> pkt.len, data |-> pkt.data]

NgExpected ==
    SelectSeq([i \in DOMAIN meant |-> Meant(meant[i], user_tsresol(r.nano))],
              LAMBDA pkt : pkt.data \notin Rejected)

\* A pcapng file in either byte order, of several sections with several interfaces
\* each: every packet is given in order, with the time that its own interface in its
\* own section says, as long as a fraction times the precision asked for fits 64
\* bits; and all of them are, when the end is reached.
NgReadsWhatWasMeant ==
    w.author.sound /\ r.ng /\ r.pc # "refused" =>
        /\ IsPrefix(out, NgExpected)
        /\ r.pc = "error" \/ (r.feof /\ r.pc = "idle") =>
              (r.promised = 0 \/ Len(out) = Len(NgExpected))

\* Whatever a pcapng file says and however the arithmetic wraps, the fraction of a
\* second in a time stamp is less than a second.
FractionOfASecond ==
    r.ng => \A i \in DOMAIN out : out[i].frac[2] < user_tsresol(r.nano)

\* A file of either format is read as its author meant it.
ReadsEitherFormat == ReadsWhatWasMeant /\ NgReadsWhatWasMeant

\* Whatever is in the file, what the reader keeps and hands over is sound: lengths
\* fit their buffers and the snapshot length, and a time stamp has a fraction of a
\* second.
SoundWhateverIsRead == TypeOK /\ HandsOverWhatFits /\ FractionOfASecond

=============================================================================
