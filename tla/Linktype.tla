------------------------------ MODULE Linktype ------------------------------
(***************************************************************************)
(* The link-layer header type of a handle (a DLT_ value, which differs     *)
(* between platforms for historical reasons) and of a savefile (a          *)
(* LINKTYPE_ value, the same everywhere), and the two mappings between     *)
(* them.                                                                   *)
(***************************************************************************)
EXTENDS Integers

Platforms == {"Linux", "FreeBSD", "NetBSD", "OpenBSD", "Darwin"}

LowMatching == 0 .. 10
HighMatching == 104 .. 301

\* The DLT_ values that depend on the platform, or that are not in a matching
\* range: a function from the name to the number.
DLT(platform) ==
    [ATM_RFC1483 |-> 11,
     RAW         |-> IF platform = "OpenBSD" THEN 14 ELSE 12,
     SLIP_BSDOS  |-> IF platform \in {"NetBSD", "FreeBSD"} THEN 13 ELSE 15,
     PPP_BSDOS   |-> IF platform \in {"NetBSD", "FreeBSD"} THEN 14 ELSE 16,
     PFSYNC      |-> CASE platform = "FreeBSD" -> 121
                       [] platform \in {"NetBSD", "OpenBSD", "Darwin"} -> 18
                       [] OTHER -> 246,
     PKTAP       |-> IF platform = "Darwin" THEN 149 ELSE 258,
     HDLC        |-> IF platform = "NetBSD" THEN 16 ELSE 112,
     LOOP        |-> IF platform = "OpenBSD" THEN 12 ELSE 108,
     ENC         |-> IF platform = "OpenBSD" THEN 13 ELSE 109,
     ATM_CLIP    |-> 19]

\* The LINKTYPE_ values of the same names.
LINKTYPE ==
    [ATM_RFC1483 |-> 100, RAW |-> 101, SLIP_BSDOS |-> 102, PPP_BSDOS |-> 103,
     PFSYNC |-> 246, PKTAP |-> 258, HDLC |-> 112, LOOP |-> 108, ENC |-> 109,
     ATM_CLIP |-> 106]

\* Types with the same number on both sides although outside the ranges.
Itself == {32, 50, 51, 99}

\* The types that are looked for by name.  The number DLT_HDLC has on NetBSD is
\* the one that PPP_BSDOS has elsewhere, and so on, but no number has two of these
\* names on one platform, so the order of the tests does not matter.
Tested == {"ATM_RFC1483", "RAW", "SLIP_BSDOS", "PPP_BSDOS", "HDLC", "LOOP", "ENC",
           "ATM_CLIP"}

Named(numbers, n) == \E name \in Tested : numbers[name] = n
NameOf(numbers, n) == CHOOSE name \in Tested : numbers[name] = n

dlt_to_linktype(platform, dlt) ==
    CASE dlt \in LowMatching -> dlt
      [] dlt \notin LowMatching /\ dlt = DLT(platform).PFSYNC -> LINKTYPE.PFSYNC
      [] dlt \notin LowMatching /\ dlt = DLT(platform).PKTAP -> LINKTYPE.PKTAP
      [] OTHER -> IF dlt \in HighMatching \cup Itself THEN dlt
                  ELSE IF Named(DLT(platform), dlt)
                       THEN LINKTYPE[NameOf(DLT(platform), dlt)] ELSE -1

linktype_to_dlt(platform, linktype) ==
    CASE linktype \in LowMatching -> linktype
      [] linktype = LINKTYPE.PFSYNC -> DLT(platform).PFSYNC
      [] linktype = LINKTYPE.PKTAP -> DLT(platform).PKTAP
      [] OTHER -> IF Named(LINKTYPE, linktype)
                  THEN DLT(platform)[NameOf(LINKTYPE, linktype)] ELSE linktype

\* The DLT_ numbers that mean something on a platform: the matching ranges
\* without the numbers reserved in them for LINKTYPE_ values of other numbers.
DLTs(platform) ==
    LET named == {DLT(platform)[name] : name \in DOMAIN LINKTYPE}
        taken == {LINKTYPE[name] : name \in DOMAIN LINKTYPE}
    IN  LowMatching \cup named \cup Itself \cup (HighMatching \ taken)
=============================================================================
