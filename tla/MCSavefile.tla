----------------------------- MODULE MCSavefile -----------------------------
(* Small instances of SavefileNg for TLC.  Octets of base 600 leave room for  *)
(* the version numbers and link-layer types of the code.                    *)
EXTENDS SavefileNg

Handle(linktype, ext, snapshot, nano) ==
    [linktype |-> linktype, ext |-> ext, snapshot |-> snapshot, nano |-> nano]

\* Ethernet; raw IP, whose number in the file is another one; a type that has no
\* number in savefiles.
Plain == {Handle(1, 0, 3, FALSE), Handle(12, 0, 3, TRUE), Handle(17, 0, 3, FALSE)}

Packet(frac, len, data) == [frac |-> frac, len |-> len, data |-> data]

Few == {Packet(7, 4, <<1, 2, 1>>), Packet(9, 0, <<>>)}
\* One is larger than the snapshot length, one is rejected by the filter.
Some == {Packet(7, 2, <<2, 1>>), Packet(40, 9, <<1, 1, 0, 3, 1>>), Packet(9, 3, <<5>>)}

-----------------------------------------------------------------------------
(* Files by other authors.                                                   *)

Word(swapped, v) == IF swapped THEN Swap(v) ELSE v

FileOf(magic, swapped, version, exchanged, snaplen, packets) ==
    LET rec(pkt) ==
            LET lens == IF exchanged THEN <<pkt.len, Len(pkt.data)>> ELSE <<Len(pkt.data), pkt.len>>
                extra == IF magic = KUZNETZOV_TCPDUMP_MAGIC THEN <<0, 3>> ELSE <<>>
                hdr == <<pkt.frac>> \o lens \o extra
            IN  [i \in DOMAIN hdr |-> Word(swapped, hdr[i])] \o pkt.data
        hdr == <<magic, version[1], version[2], snaplen, 1>>
        fits == IF snaplen = 0 \/ snaplen > IntMax THEN Maximum ELSE snaplen
    IN  [words |-> FoldLeft(LAMBDA f, pkt : f \o rec(pkt),
                            [i \in DOMAIN hdr |-> Word(swapped, hdr[i])], packets),
         packets |-> packets,
         nano |-> magic = NSEC_TCPDUMP_MAGIC,
         snapshot |-> IF magic = KUZNETZOV_TCPDUMP_MAGIC THEN fits + FakeHeader ELSE fits,
         sound |-> TRUE]

\* Version 2.4, 2.3 with the lengths in either order, the older ones and DG/UX's.
Layouts == {<<<<2, 4>>, FALSE>>, <<<<2, 3>>, FALSE>>, <<<<2, 3>>, TRUE>>, <<<<2, 2>>, TRUE>>,
            <<<<543, 0>>, TRUE>>}

Sound ==
    {FileOf(magic, swapped, layout[1], layout[2], snaplen, packets) :
        magic \in Magics, swapped \in BOOLEAN, layout \in Layouts,
        snaplen \in {0, 2, 3, IntMax + 1},
        packets \in UNION {[1 .. n -> Some] : n \in 0 .. 2}}

\* A good header and then anything, or another header.
Damage(headers, rests) ==
    {[words |-> hdr \o rest, packets |-> <<>>, nano |-> FALSE, snapshot |-> 1, sound |-> FALSE] :
        hdr \in headers, rest \in rests}

Damaged ==
    Damage({<<m, 2, minor, snaplen, 1>> : m \in {1, 3}, minor \in {3, 4},
                                          snaplen \in {0, 1, 5, IntMax + 1}},
           [1 .. 6 -> {0, 7}] \cup [1 .. 5 -> {0, 1}] \cup [1 .. 3 -> {1, 4}])
    \cup Damage({<<m, v[1], v[2], 5, lt>> : m \in {1, 2, 5, 600},
                                            v \in {<<1, 0>>, <<2, 4>>, <<2, 5>>, <<543, 1>>},
                                            lt \in {1, 600}} \cup {<<1, 2, 4>>},
                {<<>>, <<0, 1, 1, 1>>})

\* What the filter rejects.
DropSome == {<<1>>, <<5>>}

-----------------------------------------------------------------------------
(* pcapng files by other authors.                                            *)

NgBlock(swapped, type, fields, data) ==
    LET n == 3 + Len(fields) + Len(data)
        hdr == <<type, n>> \o fields
    IN  [i \in DOMAIN hdr |-> Word(swapped, hdr[i])] \o data \o <<Word(swapped, n)>>

Shb(swapped, major) == NgBlock(swapped, BT_SHB, <<BYTE_ORDER_MAGIC, major, 0, 0>>, <<>>)
Idb(swapped, linktype, snaplen, options) ==
    NgBlock(swapped, BT_IDB, <<linktype, 0, snaplen>> \o options, <<>>)

Ng(options, res, offset) == [options |-> options, res |-> res, offset |-> offset]
Default == Ng(<<>>, Scale, 0)
Eighths == Ng(<<1, 3, 99, IF_TSRESOL, 1, Binary + 3, 0, 0>>, 8, 0)
Fine == Ng(<<IF_TSRESOL, 1, 3>>, 1000, 0)
Later == Ng(<<IF_TSOFFSET, 8, 5, 0, IF_TSRESOL, 1, 0>>, 1, 5)
Finest == Ng(<<IF_TSRESOL, 1, Binary + MaxShift>>, 2 ^ MaxShift, 0)

\* What a packet is written as, and what its author meant.
Written(swapped, pkt) ==
    LET when == <<pkt.t \div Half, pkt.t % Half>>
        lens == <<Len(pkt.data), pkt.len>>
    IN  CASE pkt.type = BT_EPB ->
                NgBlock(swapped, BT_EPB, <<pkt.on - 1>> \o when \o lens, pkt.data)
          [] pkt.type = BT_PB ->
                NgBlock(swapped, BT_PB, <<pkt.on - 1, 0>> \o when \o lens, pkt.data)
          [] pkt.type = BT_SPB -> NgBlock(swapped, BT_SPB, <<pkt.len>>, pkt.data)

Intent(section, pkt) ==
    [frac |-> pkt.t, res |-> section.ifs[pkt.on].res, offset |-> section.ifs[pkt.on].offset,
     len |-> pkt.len, data |-> pkt.data]

NgPkt(type, on, t, len, data) ==
    [type |-> type, on |-> on, t |-> t, len |-> len, data |-> data]

Section(ifs, pkts) == [ifs |-> ifs, pkts |-> pkts]

\* A block of another type comes before the interfaces and the packets.
SectionWords(swapped, section) ==
    FoldLeft(LAMBDA f, pkt : f \o Written(swapped, pkt),
             FoldLeft(LAMBDA f, if : f \o Idb(swapped, 1, 3, if.options),
                      Shb(swapped, 1) \o NgBlock(swapped, 5, <<4>>, <<>>), section.ifs),
             section.pkts)

NgFile(swapped, sections, sound) ==
    [words |-> FoldLeft(LAMBDA f, s : f \o SectionWords(swapped, s), <<>>, sections),
     packets |-> FoldLeft(LAMBDA f, s : f \o [i \in DOMAIN s.pkts |-> Intent(s, s.pkts[i])],
                          <<>>, sections),
     nano |-> FALSE, snapshot |-> 3, sound |-> sound]

OfTwo ==
    {NgPkt(BT_EPB, 1, 2 * Half + 5, 4, <<1, 2, 1>>), NgPkt(BT_PB, 2, 37, 1, <<5>>),
     NgPkt(BT_EPB, 2, Half - 1, 2, <<6, 2>>), NgPkt(BT_SPB, 1, 0, 2, <<2, 1>>),
     NgPkt(BT_SPB, 1, 0, 7, <<3, 1, 4>>)}

Sections ==
    {Section(ifs, <<pkt>>) : ifs \in {<<Default, Eighths>>, <<Fine, Later>>}, pkt \in OfTwo}
    \cup {Section(<<Later>>, <<NgPkt(BT_EPB, 1, 3, 1, <<7>>)>>), Section(<<Fine>>, <<>>)}

SoundNg ==
    {NgFile(swapped, <<s1, s2>>, TRUE) :
        swapped \in BOOLEAN, s1 \in Sections, s2 \in Sections}
    \cup {NgFile(FALSE, <<Section(<<Fine, Later>>, <<a, b>>)>>, TRUE) :
            a \in OfTwo, b \in OfTwo}

\* A resolution with which the arithmetic wraps.
OddNg ==
    {NgFile(FALSE, <<Section(<<Finest>>, <<NgPkt(BT_EPB, 1, t, 1, <<1>>)>>)>>, FALSE) :
        t \in {1, 40, 2 ^ MaxShift - 1, 2 ^ MaxShift, Wide - 1}}

BareNg(words) == [words |-> words, packets |-> <<>>, nano |-> FALSE, snapshot |-> 3,
                  sound |-> FALSE]

Sample == NgFile(FALSE, <<Section(<<Default, Eighths>>, <<NgPkt(BT_PB, 2, 37, 1, <<5>>)>>)>>,
                 TRUE).words

\* Truncated, or with one word changed; and other headers, interfaces and options.
DamagedNg ==
    {BareNg(SubSeq(Sample, 1, n)) : n \in DOMAIN Sample}
    \cup {BareNg([Sample EXCEPT ![n] = v]) : n \in 2 .. Len(Sample), v \in {0, 2, 6, 8, 30}}
    \cup {BareNg(Shb(FALSE, 1) \o Idb(FALSE, 1, 3, Fine.options) \o Shb(FALSE, 1)
                 \o Written(FALSE, pkt)) : pkt \in OfTwo}
    \cup {BareNg(Shb(FALSE, 1) \o Idb(FALSE, 1, 3, <<>>) \o Shb(swapped, major)) :
            swapped \in BOOLEAN, major \in {1, 2}}
    \cup {BareNg(Shb(FALSE, 1) \o Idb(FALSE, 1, 3, <<>>) \o Idb(FALSE, lt, snaplen, options)) :
            lt \in {1, 101}, snaplen \in {0, 3},
            options \in {<<IF_TSRESOL, 1, 3, IF_TSRESOL, 1, 3>>, <<IF_TSRESOL, 2, 3>>,
                        <<IF_TSRESOL, 1, Binary + MaxShift + 1>>, <<IF_TSRESOL, 1, MaxPower + 1>>,
                        <<IF_TSOFFSET, 8, 1, 0, IF_TSOFFSET, 8, 1, 0>>, <<IF_TSOFFSET, 4, 1>>,
                        <<0, 1, 1>>, <<1, 9, 1>>, <<1>>}}

AnyFile == Sound \cup Damaged \cup SoundNg \cup OddNg \cup DamagedNg

None == {}
=============================================================================
