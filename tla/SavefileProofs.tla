--------------------------- MODULE SavefileProofs ---------------------------
(***************************************************************************)
(* Savefiles, for any handles, packets and files.  A link-layer type       *)
(* survives being written and read back, on every platform, and every      *)
(* platform means the same type by a number in a file (Linktype); a call   *)
(* that reads counts what it gives; and a file that was written is known   *)
(* again by who reads it and by who appends to it, and no packet is given  *)
(* that does not fit (Savefile).                                           *)
(***************************************************************************)
EXTENDS Savefile, SequenceTheorems, TLAPS

-----------------------------------------------------------------------------
(* Link-layer types in files.                                                *)

\* The number a type outside the matching ranges has on a platform is the one of
\* the name that is found for it, and this name's number in files leads back to it.
LEMMA NameFound ==
    ASSUME NEW platform \in Platforms, NEW n \in Int,
           Named(DLT(platform), n)
    PROVE  /\ NameOf(DLT(platform), n) \in Tested
           /\ DLT(platform)[NameOf(DLT(platform), n)] = n
  BY Zenon DEF Named, NameOf

\* The numbers in files are different for different names.
LEMMA LinktypesDiffer ==
    \A a, b \in Tested : LINKTYPE[a] = LINKTYPE[b] => a = b
  BY DEF Tested, LINKTYPE

\* The number of a name in files is found under this name.
LEMMA NameBack ==
    ASSUME NEW name \in Tested
    PROVE  /\ Named(LINKTYPE, LINKTYPE[name])
           /\ NameOf(LINKTYPE, LINKTYPE[name]) = name
<1>1. Named(LINKTYPE, LINKTYPE[name])
  BY DEF Named
<1>2. /\ NameOf(LINKTYPE, LINKTYPE[name]) \in Tested
      /\ LINKTYPE[NameOf(LINKTYPE, LINKTYPE[name])] = LINKTYPE[name]
  BY <1>1, Zenon DEF Named, NameOf
<1>3. QED
  BY <1>1, <1>2, LinktypesDiffer

\* What linktype_to_dlt() makes of the number in files of a type with a name, and
\* of a number that is no such type's.
LEMMA FromFile ==
    ASSUME NEW platform \in Platforms
    PROVE  /\ linktype_to_dlt(platform, LINKTYPE.PFSYNC) = DLT(platform).PFSYNC
           /\ linktype_to_dlt(platform, LINKTYPE.PKTAP) = DLT(platform).PKTAP
           /\ \A name \in Tested :
                 linktype_to_dlt(platform, LINKTYPE[name]) = DLT(platform)[name]
           /\ \A n \in Int \ {LINKTYPE[name] : name \in DOMAIN LINKTYPE} :
                 linktype_to_dlt(platform, n) = n
<1>1. linktype_to_dlt(platform, LINKTYPE.PFSYNC) = DLT(platform).PFSYNC
  BY DEF linktype_to_dlt, LINKTYPE, LowMatching
<1>2. linktype_to_dlt(platform, LINKTYPE.PKTAP) = DLT(platform).PKTAP
  BY DEF linktype_to_dlt, LINKTYPE, LowMatching
<1>3. ASSUME NEW name \in Tested
      PROVE  linktype_to_dlt(platform, LINKTYPE[name]) = DLT(platform)[name]
  <2>1. /\ LINKTYPE[name] \notin LowMatching
        /\ LINKTYPE[name] # LINKTYPE.PFSYNC /\ LINKTYPE[name] # LINKTYPE.PKTAP
    BY DEF Tested, LINKTYPE, LowMatching
  <2>2. Named(LINKTYPE, LINKTYPE[name]) /\ NameOf(LINKTYPE, LINKTYPE[name]) = name
    BY NameBack
  <2>3. QED
    BY <2>1, <2>2 DEF linktype_to_dlt
<1>4. ASSUME NEW n \in Int \ {LINKTYPE[name] : name \in DOMAIN LINKTYPE}
      PROVE  linktype_to_dlt(platform, n) = n
  <2>1. n # LINKTYPE.PFSYNC /\ n # LINKTYPE.PKTAP /\ ~Named(LINKTYPE, n)
    BY DEF Named, Tested, LINKTYPE
  <2>2. QED
    BY <2>1 DEF linktype_to_dlt
<1>5. QED
  BY <1>1, <1>2, <1>3, <1>4

\* What dlt_to_linktype() makes of a type the platform has: the type's number in
\* files if it has a name, and else the number itself.
LEMMA ToFile ==
    ASSUME NEW platform \in Platforms, NEW dlt \in DLTs(platform)
    PROVE  \/ /\ dlt_to_linktype(platform, dlt) = dlt /\ dlt \in Int
              /\ dlt \notin {LINKTYPE[name] : name \in DOMAIN LINKTYPE}
              /\ dlt \notin {DLT(platform)[name] : name \in DOMAIN LINKTYPE}
           \/ \E name \in DOMAIN LINKTYPE :
                 /\ dlt_to_linktype(platform, dlt) = LINKTYPE[name]
                 /\ dlt = DLT(platform)[name]
<1>1. dlt \in Int
  BY DEF DLTs, DLT, LINKTYPE, LowMatching, HighMatching, Itself, Platforms
<1>2. CASE dlt \in LowMatching
  <2>1. dlt_to_linktype(platform, dlt) = dlt
    BY <1>2 DEF dlt_to_linktype
  <2>2. dlt \notin {LINKTYPE[name] : name \in DOMAIN LINKTYPE}
    BY <1>2 DEF LowMatching, LINKTYPE
  <2>3. dlt \notin {DLT(platform)[name] : name \in DOMAIN LINKTYPE}
    BY <1>2 DEF LowMatching, LINKTYPE, DLT, Platforms
  <2>4. QED
    BY <1>1, <2>1, <2>2, <2>3
<1>3. CASE dlt \notin LowMatching /\ dlt = DLT(platform).PFSYNC
  <2>1. DLT(platform).PFSYNC # DLT(platform).PKTAP
    BY DEF DLT, Platforms
  <2>2. dlt_to_linktype(platform, dlt) = LINKTYPE.PFSYNC
    BY <1>3, <2>1 DEF dlt_to_linktype
  <2>3. QED
    BY <1>3, <2>2 DEF LINKTYPE
<1>4. CASE dlt \notin LowMatching /\ dlt # DLT(platform).PFSYNC /\ dlt = DLT(platform).PKTAP
  <2>1. dlt_to_linktype(platform, dlt) = LINKTYPE.PKTAP
    BY <1>4 DEF dlt_to_linktype
  <2>2. QED
    BY <1>4, <2>1 DEF LINKTYPE
<1>5. CASE /\ dlt \notin LowMatching /\ dlt # DLT(platform).PFSYNC
           /\ dlt # DLT(platform).PKTAP /\ dlt \in HighMatching \cup Itself
  <2>1. dlt_to_linktype(platform, dlt) = dlt
    BY <1>5 DEF dlt_to_linktype
  <2>2. \A name \in DOMAIN LINKTYPE : dlt = DLT(platform)[name] => dlt = LINKTYPE[name]
    BY <1>5 DEF LINKTYPE, DLT, Platforms, HighMatching, Itself
  <2>3. CASE dlt \notin {DLT(platform)[name] : name \in DOMAIN LINKTYPE}
    <3>1. dlt \notin {LINKTYPE[name] : name \in DOMAIN LINKTYPE}
      BY <1>5, <2>3 DEF DLTs, Itself, LINKTYPE
    <3>2. QED
      BY <1>1, <2>1, <2>3, <3>1
  <2>4. CASE dlt \in {DLT(platform)[name] : name \in DOMAIN LINKTYPE}
    BY <2>1, <2>2, <2>4
  <2>5. QED
    BY <2>3, <2>4
<1>6. CASE /\ dlt \notin LowMatching /\ dlt # DLT(platform).PFSYNC
           /\ dlt # DLT(platform).PKTAP /\ dlt \notin HighMatching \cup Itself
  <2>1. PICK name \in DOMAIN LINKTYPE : dlt = DLT(platform)[name]
    BY <1>6 DEF DLTs
  <2>2. name \in Tested
    BY <1>6, <2>1 DEF LINKTYPE, Tested
  <2>3. Named(DLT(platform), dlt)
    BY <2>1, <2>2 DEF Named
  <2>4. /\ NameOf(DLT(platform), dlt) \in Tested
        /\ DLT(platform)[NameOf(DLT(platform), dlt)] = dlt
    BY <1>1, <2>3, NameFound
  <2>5. dlt_to_linktype(platform, dlt) = LINKTYPE[NameOf(DLT(platform), dlt)]
    BY <1>6, <2>3 DEF dlt_to_linktype
  <2>6. NameOf(DLT(platform), dlt) \in DOMAIN LINKTYPE
    BY <2>4 DEF Tested, LINKTYPE
  <2>7. QED
    BY <2>4, <2>5, <2>6
<1>7. QED
  BY <1>2, <1>3, <1>4, <1>5, <1>6

\* A handle's type survives being written to a savefile and read back on the same
\* platform (dlt_to_linktype, linktype_to_dlt).
THEOREM RoundTrip ==
    \A platform \in Platforms : \A dlt \in DLTs(platform) :
        /\ dlt_to_linktype(platform, dlt) # -1
        /\ linktype_to_dlt(platform, dlt_to_linktype(platform, dlt)) = dlt
<1> SUFFICES ASSUME NEW platform \in Platforms, NEW dlt \in DLTs(platform)
             PROVE  /\ dlt_to_linktype(platform, dlt) # -1
                    /\ linktype_to_dlt(platform, dlt_to_linktype(platform, dlt)) = dlt
  OBVIOUS
<1>1. dlt # -1
  BY DEF DLTs, DLT, LINKTYPE, LowMatching, HighMatching, Itself, Platforms
<1>2. CASE /\ dlt_to_linktype(platform, dlt) = dlt /\ dlt \in Int
           /\ dlt \notin {LINKTYPE[name] : name \in DOMAIN LINKTYPE}
  BY <1>1, <1>2, FromFile
<1>3. ASSUME NEW name \in DOMAIN LINKTYPE,
             dlt_to_linktype(platform, dlt) = LINKTYPE[name],
             dlt = DLT(platform)[name]
      PROVE  /\ dlt_to_linktype(platform, dlt) # -1
             /\ linktype_to_dlt(platform, dlt_to_linktype(platform, dlt)) = dlt
  <2>1. LINKTYPE[name] # -1
    BY DEF LINKTYPE
  <2>2. name \in Tested \cup {"PFSYNC", "PKTAP"}
    BY DEF LINKTYPE, Tested
  <2>3. linktype_to_dlt(platform, LINKTYPE[name]) = DLT(platform)[name]
    BY <2>2, FromFile
  <2>4. QED
    BY <1>3, <2>1, <2>3
<1>4. QED
  BY <1>2, <1>3, ToFile

\* The numbers in files that another platform reads as a type of its own: HHDLC on
\* FreeBSD, where its number is PFSYNC's, and USER2 on Darwin, where it is PKTAP's.
\* The comments of dlt_to_linktype() own up to both.
Collisions == {<<121, "FreeBSD">>, <<149, "Darwin">>}

\* What a platform writes for a type is what every other platform writes for that
\* type after reading it: "raw IP packets will have LINKTYPE_RAW as the code in all
\* savefiles".
THEOREM SameInEveryFile ==
    ASSUME NEW writer \in Platforms, NEW reader \in Platforms,
           NEW dlt \in DLTs(writer),
           <<dlt_to_linktype(writer, dlt), reader>> \notin Collisions
    PROVE  LET linktype == dlt_to_linktype(writer, dlt)
           IN  dlt_to_linktype(reader, linktype_to_dlt(reader, linktype)) = linktype
<1> DEFINE linktype == dlt_to_linktype(writer, dlt)
<1>1. CASE \E name \in DOMAIN LINKTYPE : linktype = LINKTYPE[name]
  <2>1. PICK name \in DOMAIN LINKTYPE : linktype = LINKTYPE[name]
    BY <1>1
  <2>2. name \in Tested \cup {"PFSYNC", "PKTAP"}
    BY DEF LINKTYPE, Tested
  <2>3. linktype_to_dlt(reader, linktype) = DLT(reader)[name]
    BY <2>1, <2>2, FromFile
  <2>4. dlt_to_linktype(reader, DLT(reader)[name]) = LINKTYPE[name]
    <3>1. DLT(reader)[name] \in DLTs(reader)
      BY DEF DLTs
    <3>2. CASE \E other \in DOMAIN LINKTYPE :
                  /\ dlt_to_linktype(reader, DLT(reader)[name]) = LINKTYPE[other]
                  /\ DLT(reader)[name] = DLT(reader)[other]
      <4>1. \A a, b \in DOMAIN LINKTYPE : DLT(reader)[a] = DLT(reader)[b] => a = b
        BY DEF LINKTYPE, DLT, Platforms
      <4>2. QED
        BY <3>2, <4>1
    <3>3. QED
      BY <3>1, <3>2, ToFile
  <2>5. QED
    BY <2>1, <2>3, <2>4
<1>2. CASE /\ linktype = dlt /\ dlt \in Int
           /\ dlt \notin {LINKTYPE[name] : name \in DOMAIN LINKTYPE}
           /\ dlt \notin {DLT(writer)[name] : name \in DOMAIN LINKTYPE}
  <2>1. linktype_to_dlt(reader, linktype) = dlt
    BY <1>2, FromFile
  <2>2. dlt \in LowMatching \cup Itself \cup HighMatching /\ dlt \in DLTs(reader)
    BY <1>2 DEF DLTs
  <2>3. \A name \in DOMAIN LINKTYPE : dlt # DLT(reader)[name]
    BY <1>2, <2>2 DEF DLT, LINKTYPE, Platforms, Collisions, LowMatching, HighMatching, Itself
  <2>4. dlt_to_linktype(reader, dlt) = dlt
    BY <2>2, <2>3, ToFile
  <2>5. QED
    BY <1>2, <2>1, <2>4
<1>3. QED
  BY <1>1, <1>2, ToFile

-----------------------------------------------------------------------------
(* The counts of pcap_loop, pcap_dispatch and pcap_next_ex on a savefile.    *)

\* The fields of a handle that say how far a call has got.
Fields == {"pc", "op", "cnt", "want", "n", "total", "ret", "break_loop", "after", "feof"}

HasFields(q) ==
    /\ Fields \subseteq DOMAIN q
    /\ q.cnt \in Nat /\ q.want \in Nat /\ q.n \in Nat /\ q.total \in Nat
    /\ q.after \in Nat
    /\ q.op \in {"none", "dispatch", "loop", "next_ex"}

\* A packet given after pcap_breakloop means that the loop is at its top, or over.
Broken(q) ==
    /\ q.after <= 1
    /\ q.pc \in {"next", "callback"} \/ ~q.break_loop => q.after = 0

\* What was asked for and is still to be given, and what was given in this round
\* of pcap_loop and in the whole call.
Counted(q) ==
    /\ q.op # "none"
    /\ q.want = 0 <=> q.cnt = 0
    /\ q.op # "loop" => q.cnt = q.want /\ q.total = q.n
    /\ q.op = "loop" /\ q.want > 0 => q.total + q.cnt = q.want + q.n

Running(q) == q.pc \in {"top", "next", "callback"}

\* What a call that has returned leaves.
Reported(q) ==
    /\ q.want > 0 => q.total <= q.want
    /\ q.op = "dispatch" /\ q.ret >= 0 => q.ret = q.total
    /\ q.op = "loop" /\ q.ret = 0 => q.feof \/ (q.want > 0 /\ q.total = q.want)

CallOK(q) ==
    /\ HasFields(q)
    /\ Broken(q)
    /\ Running(q) => Counted(q) /\ (q.cnt > 0 => q.n < q.cnt)
    /\ q.pc = "idle" /\ q.op # "none" => Reported(q)

CallInv == CallOK(r)

\* The fields that Result sets, and those it leaves.
LEMMA ResultFields ==
    ASSUME NEW q, NEW n, NEW z, Fields \subseteq DOMAIN q, z = Result(q, n)
    PROVE  /\ Fields \subseteq DOMAIN z
           /\ z.pc = "idle" /\ z.ret = n
           /\ z.op = q.op /\ z.cnt = q.cnt /\ z.want = q.want /\ z.n = q.n
           /\ z.total = q.total /\ z.break_loop = q.break_loop /\ z.after = q.after
           /\ z.feof = q.feof
  BY DEF Result, Fields

\* The fields that Again sets, and those it leaves.
LEMMA AgainFields ==
    ASSUME NEW q, NEW cnt, NEW z, Fields \subseteq DOMAIN q, z = Again(q, cnt)
    PROVE  /\ Fields \subseteq DOMAIN z
           /\ z.pc = "top" /\ z.cnt = cnt /\ z.n = 0
           /\ z.op = q.op /\ z.want = q.want /\ z.ret = q.ret
           /\ z.total = q.total /\ z.break_loop = q.break_loop /\ z.after = q.after
           /\ z.feof = q.feof
  BY DEF Again, Fields

\* What pcap_dispatch, pcap_loop and pcap_next_ex make of what
\* pcapint_offline_read returns: n is the count of this round or -2, and 0 only
\* at the end of the file.
LEMMA ReturnedOK ==
    ASSUME NEW q, NEW n \in Int, HasFields(q), Counted(q),
           q.after <= 1, ~q.break_loop => q.after = 0,
           q.cnt > 0 => q.n <= q.cnt,
           n = q.n \/ n = -2, n = 0 => q.feof
    PROVE  CallOK(Returned(q, n))
  <1>1. PICK z : z = Returned(q, n)
    OBVIOUS
  <1>2. Fields \subseteq DOMAIN q
    BY Zenon DEF HasFields
  <1>3. ASSUME NEW m \in Int, z = Result(q, m),
               q.op = "dispatch" => m = n,
               q.op = "loop" /\ m = 0 => n = 0 \/ (q.cnt > 0 /\ q.n = q.cnt)
        PROVE  CallOK(z)
    <2>1. /\ Fields \subseteq DOMAIN z
          /\ z.pc = "idle" /\ z.ret = m
          /\ z.op = q.op /\ z.cnt = q.cnt /\ z.want = q.want /\ z.n = q.n
          /\ z.total = q.total /\ z.break_loop = q.break_loop /\ z.after = q.after
          /\ z.feof = q.feof
      BY <1>2, <1>3, ResultFields
    <2>2. HasFields(z)
      BY <2>1, Zenon DEF HasFields
    <2>3. Broken(z)
      BY <2>1 DEF Broken
    <2>4. ~Running(z)
      BY <2>1 DEF Running
    <2>5. q.want > 0 => q.total <= q.want
      BY DEF HasFields, Counted
    <2>6. q.op = "dispatch" /\ m >= 0 => m = q.total
      BY <1>3 DEF HasFields, Counted
    <2>7. q.op = "loop" /\ m = 0 => q.feof \/ (q.want > 0 /\ q.total = q.want)
      BY <1>3 DEF HasFields, Counted
    <2>8. Reported(z)
      BY <2>1, <2>5, <2>6, <2>7, Zenon DEF Reported
    <2> QED
      BY <2>2, <2>3, <2>4, <2>8, Zenon DEF CallOK
  <1>4. ASSUME NEW c \in Nat, z = Again(q, c), q.op = "loop", n = q.n,
               IF q.cnt = 0 THEN c = 0 ELSE c = q.cnt - q.n /\ c > 0
        PROVE  CallOK(z)
    <2>1. /\ Fields \subseteq DOMAIN z
          /\ z.pc = "top" /\ z.cnt = c /\ z.n = 0
          /\ z.op = q.op /\ z.want = q.want /\ z.ret = q.ret
          /\ z.total = q.total /\ z.break_loop = q.break_loop /\ z.after = q.after
          /\ z.feof = q.feof
      BY <1>2, <1>4, AgainFields
    <2>2. HasFields(z)
      BY <2>1 DEF HasFields
    <2>3. Broken(z)
      BY <2>1 DEF Broken
    <2>4. Counted(z)
      BY <2>1, <1>4 DEF HasFields, Counted
    <2>5. z.cnt > 0 => z.n < z.cnt
      BY <2>1, <1>4
    <2> QED
      BY <2>1, <2>2, <2>3, <2>4, <2>5 DEF CallOK
  <1>5. CASE q.op = "dispatch"
    BY <1>1, <1>3, <1>5 DEF Returned
  <1>6. CASE q.op = "next_ex"
    BY <1>1, <1>3, <1>6 DEF Returned
  <1>7. CASE q.op = "loop" /\ n <= 0
    BY <1>1, <1>3, <1>7 DEF Returned
  <1>8. CASE q.op = "loop" /\ n > 0 /\ q.cnt = 0
    BY <1>1, <1>4, <1>8 DEF Returned
  <1>9. CASE q.op = "loop" /\ n > 0 /\ q.cnt > 0 /\ q.cnt - n <= 0
    <2>1. z = Result(q, 0)
      BY <1>1, <1>9 DEF Returned
    <2>2. q.n = q.cnt
      BY <1>9 DEF HasFields
    <2>3. /\ 0 \in Int /\ q.op # "dispatch"
          /\ q.op = "loop" /\ 0 = 0 => n = 0 \/ (q.cnt > 0 /\ q.n = q.cnt)
      BY <1>9, <2>2
    <2> QED
      BY <1>1, <1>3, <2>1, <2>3, Zenon
  <1>10. CASE q.op = "loop" /\ n > 0 /\ q.cnt > 0 /\ q.cnt - n > 0
    <2>1. z = Again(q, q.cnt - n)
      BY <1>1, <1>10 DEF Returned, HasFields
    <2>2. n = q.n /\ q.cnt - n \in Nat
      BY <1>10 DEF HasFields
    <2>3. IF q.cnt = 0 THEN q.cnt - n = 0 ELSE q.cnt - n = q.cnt - q.n /\ q.cnt - n > 0
      BY <1>10, <2>2 DEF HasFields
    <2>4. q.op = "loop"
      BY <1>10
    <2> QED
      BY <1>1, <1>4, <2>1, <2>2, <2>3, <2>4, Zenon
  <1> QED
    BY <1>1, <1>5, <1>6, <1>7, <1>8, <1>9, <1>10 DEF HasFields, Counted

\* The counts of q are those of p.
SameCounts(p, q) ==
    /\ Fields \subseteq DOMAIN q
    /\ q.op = p.op /\ q.cnt = p.cnt /\ q.want = p.want /\ q.n = p.n
    /\ q.total = p.total /\ q.break_loop = p.break_loop /\ q.after = p.after

\* From within a call, a step that counts nothing.
LEMMA CountsKept ==
    ASSUME NEW p, NEW q, CallOK(p), SameCounts(p, q),
           \/ Running(p) /\ q.pc \in {"top", "callback"} /\ (q.pc = "callback" => p.after = 0)
           \/ p.pc = "top" /\ q.pc = "next" /\ ~p.break_loop
           \/ q.pc \in {"error", "refused"}
    PROVE  CallOK(q)
  <1>1. HasFields(q)
    BY Zenon DEF CallOK, HasFields, SameCounts
  <1>2. Broken(q)
    BY DEF CallOK, Broken, SameCounts
  <1>3. Running(q) => Counted(q) /\ (q.cnt > 0 => q.n < q.cnt)
    BY DEF CallOK, Counted, SameCounts, Running
  <1>4. q.pc # "idle"
    OBVIOUS
  <1> QED
    BY <1>1, <1>2, <1>3, <1>4, Zenon DEF CallOK

\* Every step keeps the counts of the call.
LEMMA CallStep == CallInv /\ [Next]_vars => CallInv'
  <1> SUFFICES ASSUME CallOK(r), [Next]_vars
               PROVE  \E q : q = r' /\ CallOK(q)
    BY DEF CallInv, CallOK
  <1>1. PICK q : q = r'
    OBVIOUS
  <1>2. Fields \subseteq DOMAIN r
    BY Zenon DEF CallOK, HasFields
  <1>3. r' = r => CallOK(q)
    BY <1>1, Zenon
  <1>4. ASSUME NEW nano, OpenOffline(nano)
        PROVE  CallOK(q)
    <2>1. CASE r' = [r EXCEPT !.pc = "refused"]
      <3>1. SameCounts(r, q) /\ q.pc = "refused"
        BY <1>1, <1>2, <2>1 DEF SameCounts, Fields
      <3> QED
        BY <3>1, CountsKept, Zenon
    <2>2. ASSUME NEW hdr, NEW swapped, r' = pcap_check_header(nano, hdr, swapped)
          PROVE  CallOK(q)
      <3>1. /\ Fields \subseteq DOMAIN q /\ q.pc = "idle" /\ q.op = "none" /\ q.cnt = 0
            /\ q.want = 0 /\ q.n = 0 /\ q.total = 0 /\ q.after = 0
        BY <1>1, <2>2 DEF pcap_check_header, Fresh, Fields
      <3> QED
        BY <3>1 DEF CallOK, HasFields, Broken, Running
    <2> QED
      BY <1>4, <2>1, <2>2, Zenon DEF OpenOffline
  <1>5. ASSUME NEW op \in {"dispatch", "loop", "next_ex"}, NEW cnt \in Counts, Call(op, cnt)
        PROVE  CallOK(q)
    <2>1. /\ Fields \subseteq DOMAIN q /\ q.pc = "top" /\ q.op = op /\ q.cnt = cnt
          /\ q.want = cnt /\ q.n = 0 /\ q.total = 0
          /\ q.after = r.after /\ q.break_loop = r.break_loop
      BY <1>1, <1>2, <1>5 DEF Call, Fields
    <2>2. cnt \in Nat
      BY SavefileAssumption DEF SavefileAssumption
    <2>3. HasFields(q)
      BY <2>1, <2>2 DEF HasFields, CallOK
    <2>4. Broken(q)
      BY <2>1 DEF Broken, CallOK
    <2>5. Counted(q) /\ (q.cnt > 0 => q.n < q.cnt)
      BY <2>1, <2>2 DEF Counted
    <2> QED
      BY <2>1, <2>3, <2>4, <2>5 DEF CallOK
  <1>6. ASSUME pcap_breakloop
        PROVE  CallOK(q)
    <2>1. /\ Fields \subseteq DOMAIN q /\ q.break_loop = TRUE /\ q.after = 0
          /\ q.op = r.op /\ q.cnt = r.cnt /\ q.want = r.want /\ q.n = r.n
          /\ q.total = r.total /\ q.pc = r.pc /\ q.ret = r.ret /\ q.feof = r.feof
      BY <1>1, <1>2, <1>6 DEF pcap_breakloop, Fields
    <2>2. HasFields(q)
      BY <2>1 DEF HasFields, CallOK
    <2>3. Broken(q)
      BY <2>1 DEF Broken
    <2>4. Running(q) => Counted(q) /\ (q.cnt > 0 => q.n < q.cnt)
      BY <2>1, Zenon DEF CallOK, Counted, Running
    <2>5. q.pc = "idle" /\ q.op # "none" => Reported(q)
      BY <2>1, Zenon DEF CallOK, Reported
    <2> QED
      BY <2>2, <2>3, <2>4, <2>5, Zenon DEF CallOK
  <1>7. ASSUME LoopTop
        PROVE  CallOK(q)
    <2>1. CASE ~r.break_loop
      <3>1. r' = [r EXCEPT !.pc = "next"] /\ r.pc = "top"
        BY <1>7, <2>1 DEF LoopTop
      <3>2. SameCounts(r, q) /\ q.pc = "next"
        BY <1>1, <1>2, <3>1 DEF SameCounts, Fields
      <3> QED
        BY <2>1, <3>1, <3>2, CountsKept, Zenon
    <2>2. CASE r.break_loop /\ r.n = 0
      <3>1. PICK p : p = [r EXCEPT !.break_loop = FALSE, !.broken = FALSE, !.after = 0]
        OBVIOUS
      <3>2. q = Returned(p, -2)
        BY <1>1, <1>7, <2>2, <3>1 DEF LoopTop
      <3>3. /\ Fields \subseteq DOMAIN p /\ p.after = 0
            /\ p.op = r.op /\ p.cnt = r.cnt /\ p.want = r.want /\ p.n = r.n
            /\ p.total = r.total
        BY <1>2, <3>1 DEF Fields
      <3>4. HasFields(p)
        BY <3>3 DEF HasFields, CallOK
      <3>5. Counted(p) /\ (p.cnt > 0 => p.n <= p.cnt)
        BY <1>7, <3>3 DEF LoopTop, CallOK, Counted, Running, HasFields
      <3>6. -2 \in Int /\ -2 # 0 /\ p.after = 0 /\ p.after <= 1
        BY <3>3
      <3> QED
        BY <3>2, <3>4, <3>5, <3>6, ReturnedOK
    <2>3. CASE r.break_loop /\ r.n > 0
      <3>1. r.n # 0
        BY <2>3 DEF CallOK, HasFields
      <3>2. q = Returned(r, r.n)
        BY <1>1, <1>7, <2>3, <3>1, Zenon DEF LoopTop
      <3>3. Counted(r) /\ (r.cnt > 0 => r.n <= r.cnt) /\ HasFields(r)
        BY <1>7 DEF LoopTop, CallOK, Running, HasFields
      <3>4. r.n \in Int /\ r.n # 0 /\ r.after <= 1
        BY <2>3 DEF CallOK, HasFields, Broken
      <3> QED
        BY <2>3, <3>2, <3>3, <3>4, ReturnedOK
    <2> QED
      BY <2>1, <2>2, <2>3 DEF CallOK, HasFields
  <1>8. ASSUME NEW p, r.pc = "next", SameCounts(r, p), q = Failed(p)
        PROVE  CallOK(q)
    <2>1. SameCounts(r, q) /\ q.pc = "error"
      BY <1>8 DEF SameCounts, Failed, Fields
    <2> QED
      BY <2>1, CountsKept, Zenon
  <1>9. ASSUME NextPacketEnd
        PROVE  CallOK(q)
    <2>1. PICK p : p = [r EXCEPT !.feof = TRUE, !.pos = Len(disk.file)]
      OBVIOUS
    <2>2. SameCounts(r, p) /\ p.feof
      BY <1>2, <2>1 DEF SameCounts, Fields
    <2>3. r.pc = "next" /\ (q = Failed(p) \/ q = Returned(p, r.n))
      BY <1>1, <1>9, <2>1 DEF NextPacketEnd
    <2>4. CASE q = Returned(p, r.n)
      <3>1. HasFields(p)
        BY <2>2, Zenon DEF HasFields, CallOK, SameCounts
      <3>2. Counted(p) /\ (p.cnt > 0 => p.n <= p.cnt)
        BY <2>2, <2>3 DEF CallOK, Counted, SameCounts, Running, HasFields
      <3>3. r.n \in Int /\ r.n = p.n /\ p.after = 0
        BY <2>2, <2>3 DEF CallOK, HasFields, Broken, SameCounts
      <3> QED
        BY <2>2, <2>4, <3>1, <3>2, <3>3, ReturnedOK
    <2> QED
      BY <1>8, <2>2, <2>3, <2>4, Zenon
  <1>10. ASSUME NextPacketInsane \/ NextPacketNoMemory
         PROVE  CallOK(q)
    <2>1. PICK p :
             /\ \/ p = [r EXCEPT !.pos = @ + r.hdrsize]
                \/ p = [r EXCEPT !.pos = @ + r.hdrsize, !.promised = 0]
             /\ r.pc = "next" /\ q = Failed(p)
      BY <1>1, <1>10, Zenon DEF NextPacketInsane, NextPacketNoMemory
    <2>2. SameCounts(r, p)
      BY <1>2, <2>1 DEF SameCounts, Fields
    <2> QED
      BY <1>8, <2>1, <2>2, Zenon
  <1>11. ASSUME NextPacket
         PROVE  CallOK(q)
    <2>1. PICK bufsize, pos, fill, feof, h :
             LET p == [r EXCEPT !.bufsize = bufsize, !.pos = pos, !.fill = fill, !.feof = feof]
             IN  r.pc = "next" /\ (q = Failed(p) \/ q = [p EXCEPT !.pc = "callback", !.h = h])
      BY <1>1, <1>11 DEF NextPacket
    <2>2. PICK p : p = [r EXCEPT !.bufsize = bufsize, !.pos = pos, !.fill = fill, !.feof = feof]
      OBVIOUS
    <2>3. SameCounts(r, p)
      BY <1>2, <2>2 DEF SameCounts, Fields
    <2>4. r.pc = "next" /\ (q = Failed(p) \/ q = [p EXCEPT !.pc = "callback", !.h = h])
      BY <2>1, <2>2, Zenon
    <2>5. CASE q = [p EXCEPT !.pc = "callback", !.h = h]
      <3>1. SameCounts(r, q) /\ q.pc = "callback"
        BY <2>3, <2>5 DEF SameCounts, Fields
      <3>2. Running(r) /\ r.after = 0
        BY <2>4 DEF Running, CallOK, Broken
      <3> QED
        BY <3>1, <3>2, CountsKept
    <2> QED
      BY <1>8, <2>3, <2>4, <2>5, Zenon
  <1>12. ASSUME Callback
         PROVE  CallOK(q)
    <2>1. r.pc = "callback" /\ Running(r) /\ r.after = 0 /\ Counted(r)
      BY <1>12 DEF Callback, Running, CallOK, Broken
    <2>2. CASE r' = [r EXCEPT !.pc = "top"]
      <3>1. SameCounts(r, q) /\ q.pc = "top"
        BY <1>1, <1>2, <2>2 DEF SameCounts, Fields
      <3> QED
        BY <2>1, <3>1, CountsKept
    <2>3. CASE r.h.data \notin Rejected
      <3>1. PICK p : p = [r EXCEPT !.n = @ + 1, !.total = @ + 1,
                                   !.after = IF r.break_loop THEN @ + 1 ELSE 0]
        OBVIOUS
      <3>2. IF r.cnt > 0 /\ p.n >= r.cnt THEN q = Returned(p, p.n) ELSE q = [p EXCEPT !.pc = "top"]
        BY <1>1, <1>12, <2>3, <3>1 DEF Callback
      <3>3. /\ Fields \subseteq DOMAIN p
            /\ p.op = r.op /\ p.cnt = r.cnt /\ p.want = r.want /\ p.n = r.n + 1
            /\ p.total = r.total + 1 /\ p.break_loop = r.break_loop
            /\ p.after = IF r.break_loop THEN r.after + 1 ELSE 0
        BY <1>2, <3>1 DEF Fields
      <3>4. HasFields(p) /\ p.after <= 1 /\ (~p.break_loop => p.after = 0)
        BY <2>1, <3>3 DEF HasFields, CallOK
      <3>5. Counted(p) /\ (p.cnt > 0 => p.n <= p.cnt)
        BY <2>1, <3>3 DEF CallOK, Counted, HasFields
      <3>6. p.n \in Int /\ p.n # 0
        BY <3>3 DEF CallOK, HasFields
      <3>7. CASE q = Returned(p, p.n)
        BY <3>4, <3>5, <3>6, <3>7, ReturnedOK
      <3>8. CASE q = [p EXCEPT !.pc = "top"] /\ ~(r.cnt > 0 /\ p.n >= r.cnt)
        <4>1. /\ Fields \subseteq DOMAIN q /\ q.pc = "top"
              /\ q.op = p.op /\ q.cnt = p.cnt /\ q.want = p.want /\ q.n = p.n
              /\ q.total = p.total /\ q.break_loop = p.break_loop /\ q.after = p.after
          BY <3>3, <3>8 DEF Fields
        <4>2. HasFields(q)
          BY <3>4, <4>1, Zenon DEF HasFields
        <4>3. Broken(q)
          BY <3>4, <4>1 DEF Broken
        <4>4. Counted(q)
          BY <3>5, <4>1, Zenon DEF Counted
        <4>5. q.cnt > 0 => q.n < q.cnt
          BY <3>3, <3>8, <4>1 DEF CallOK, HasFields
        <4> QED
          BY <4>1, <4>2, <4>3, <4>4, <4>5 DEF CallOK
      <3> QED
        BY <3>2, <3>7, <3>8
    <2> QED
      BY <1>12, <2>2, <2>3 DEF Callback
  <1>13. ASSUME UNCHANGED vars
         PROVE  CallOK(q)
    BY <1>3, <1>13 DEF vars
  <1>14. ASSUME NEW f, Find(f) PROVE CallOK(q)
    BY <1>3, <1>14 DEF Find
  <1>15. ASSUME NEW h, DumpOpen(h) \/ DumpOpenAppend(h) PROVE CallOK(q)
    BY <1>3, <1>15, Zenon DEF DumpOpen, DumpOpenAppend
  <1>16. ASSUME NEW pkt, Dump(pkt) PROVE CallOK(q)
    BY <1>3, <1>16, Zenon DEF Dump
  <1>17. ASSUME NEW room, FreeSpace(room) PROVE CallOK(q)
    BY <1>3, <1>17, Zenon DEF FreeSpace
  <1>18. ASSUME DumpFlush \/ DumpClose
         PROVE  CallOK(q)
    BY <1>3, <1>18, Zenon DEF DumpFlush, DumpClose
  <1>19. CallOK(q)
    BY <1>4, <1>5, <1>6, <1>7, <1>9, <1>10, <1>11, <1>12, <1>13, <1>14, <1>15, <1>16,
       <1>17, <1>18, Zenon DEF Next, Read
  <1> QED
    BY <1>1, <1>19, Zenon

\* The counts of the call are kept.
LEMMA CallInvariant == Spec => []CallInv
  <1>1. Init => CallInv
    BY DEF Init, Fresh, CallInv, CallOK, HasFields, Fields, Broken, Running
  <1> QED
    BY <1>1, CallStep, PTL DEF Spec

\* A call on a savefile gives as many packets as it reports and no more than it was
\* asked for, pcap_loop returns 0 only when it has given them all or the file has
\* ended, and after pcap_breakloop one more packet is given at most: for any file,
\* any handles, packets and counts, and however often and wherever the loop is
\* broken (pcapint_offline_read, pcap_loop, pcap_dispatch, pcap_next_ex,
\* pcap_breakloop).
THEOREM ReadsAreCounted == Spec => []CountsExact
  <1>1. CallInv => CountsExact
    BY Zenon DEF CallInv, CallOK, Broken, Reported, CountsExact
  <1> QED
    BY <1>1, CallInvariant, PTL

-----------------------------------------------------------------------------
(* What a reader keeps while it reads.                                       *)

HandleFields == {"pc", "linktype", "linktype_ext", "snapshot", "ng", "hdrsize"}

SameHandle(p, q) ==
    /\ HandleFields \subseteq DOMAIN q
    /\ q.linktype = p.linktype /\ q.linktype_ext = p.linktype_ext /\ q.snapshot = p.snapshot
    /\ q.ng = p.ng /\ q.hdrsize = p.hdrsize

BufferFields == HandleFields \cup {"bufsize", "fill", "pos", "h"}

SameBuffer(p, q) ==
    /\ BufferFields \subseteq DOMAIN q
    /\ SameHandle(p, q)
    /\ q.bufsize = p.bufsize /\ q.fill = p.fill /\ q.h = p.h

\* pcap_dispatch, pcap_loop and pcap_next_ex leave the buffer and the file alone.
LEMMA ReturnedSame ==
    ASSUME NEW q, NEW n \in Int, BufferFields \subseteq DOMAIN q, q.cnt \in Nat,
           q.op \in {"dispatch", "loop", "next_ex"}, NEW z, z = Returned(q, n)
    PROVE  SameBuffer(q, z) /\ z.pos = q.pos /\ z.pc \in {"idle", "top"}
  <1>1. ASSUME NEW m, z = Result(q, m)
        PROVE  SameBuffer(q, z) /\ z.pos = q.pos /\ z.pc \in {"idle", "top"}
    BY <1>1 DEF Result, SameBuffer, SameHandle, BufferFields, HandleFields
  <1>2. ASSUME NEW m, z = Again(q, m)
        PROVE  SameBuffer(q, z) /\ z.pos = q.pos /\ z.pc \in {"idle", "top"}
    BY <1>2 DEF Again, SameBuffer, SameHandle, BufferFields, HandleFields
  <1>3. (\E m : z = Result(q, m)) \/ (\E m : z = Again(q, m))
    <2>1. CASE q.op = "dispatch"
      BY <2>1 DEF Returned
    <2>2. CASE q.op = "next_ex"
      BY <2>2 DEF Returned
    <2>3. CASE q.op = "loop" /\ n <= 0
      BY <2>3 DEF Returned
    <2>4. CASE q.op = "loop" /\ n > 0 /\ q.cnt = 0
      BY <2>4 DEF Returned
    <2>5. CASE q.op = "loop" /\ n > 0 /\ q.cnt > 0
      BY <2>5 DEF Returned
    <2> QED
      BY <2>1, <2>2, <2>3, <2>4, <2>5
  <1> QED
    BY <1>1, <1>2, <1>3, Zenon

\* A step of the reader that reads no packet.
Waits == \/ \E op \in {"dispatch", "loop", "next_ex"}, cnt \in Counts : Call(op, cnt)
         \/ pcap_breakloop \/ NextPacketNoMemory
         \/ LoopTop \/ NextPacketEnd \/ NextPacketInsane \/ Callback

\* It leaves the buffer alone, and goes on in the file.
LEMMA WaitsSame ==
    ASSUME CallInv, BufferFields \subseteq DOMAIN r, Waits, NEW q, q = r'
    PROVE  /\ SameBuffer(r, q)
           /\ r.pc \notin {"none", "refused"} /\ q.pc \notin {"none", "refused"}
           /\ q.pc = "callback" => r.pc = "callback"
           /\ q.pos \in {r.pos, Len(disk.file), r.pos + r.hdrsize}
  <1> DEFINE Goal == /\ SameBuffer(r, q)
                     /\ r.pc \notin {"none", "refused"} /\ q.pc \notin {"none", "refused"}
                     /\ q.pc = "callback" => r.pc = "callback"
                     /\ q.pos \in {r.pos, Len(disk.file), r.pos + r.hdrsize}
  <1>1. ASSUME NEW op, NEW cnt, Call(op, cnt) PROVE Goal
    BY <1>1 DEF Call, SameBuffer, SameHandle, BufferFields, HandleFields
  <1>2. CASE pcap_breakloop
    BY <1>2 DEF pcap_breakloop, SameBuffer, SameHandle, BufferFields, HandleFields
  <1>3. CASE NextPacketInsane \/ NextPacketNoMemory
    BY <1>3 DEF NextPacketInsane, NextPacketNoMemory, Failed, SameBuffer, SameHandle,
                BufferFields, HandleFields
  <1>4. ASSUME NEW p, NEW n \in Int, SameBuffer(r, p), p.pos \in {r.pos, Len(disk.file)},
               p.op = r.op, p.cnt = r.cnt, Running(r), q = Returned(p, n)
        PROVE  Goal
    <2>1. p.cnt \in Nat /\ p.op \in {"dispatch", "loop", "next_ex"}
      BY <1>4 DEF CallInv, CallOK, HasFields, Counted
    <2>2. BufferFields \subseteq DOMAIN p
      BY <1>4, Zenon DEF SameBuffer
    <2>3. SameBuffer(p, q) /\ q.pos = p.pos /\ q.pc \in {"idle", "top"}
      BY <1>4, <2>1, <2>2, ReturnedSame, Zenon
    <2>4. SameBuffer(r, q)
      BY <1>4, <2>3, Zenon DEF SameBuffer, SameHandle
    <2> QED
      BY <1>4, <2>3, <2>4 DEF Running
  <1>5. CASE LoopTop
    <2>1. r.pc = "top" /\ Running(r) /\ r.n \in Nat
      BY <1>5 DEF LoopTop, Running, CallInv, CallOK, HasFields
    <2>2. CASE ~r.break_loop
      <3>1. q = [r EXCEPT !.pc = "next"]
        BY <1>5, <2>2 DEF LoopTop
      <3> QED
        BY <2>1, <3>1 DEF SameBuffer, SameHandle, BufferFields, HandleFields
    <2>3. CASE r.break_loop /\ r.n = 0
      <3>1. PICK p : p = [r EXCEPT !.break_loop = FALSE, !.broken = FALSE, !.after = 0]
        OBVIOUS
      <3>2. q = Returned(p, -2) /\ -2 \in Int
        BY <1>5, <2>3, <3>1 DEF LoopTop
      <3>3. Fields \subseteq DOMAIN r
        BY Zenon DEF CallInv, CallOK, HasFields
      <3>4. SameBuffer(r, p) /\ p.pos = r.pos /\ p.op = r.op /\ p.cnt = r.cnt
        BY <3>1, <3>3 DEF SameBuffer, SameHandle, BufferFields, HandleFields, Fields
      <3> QED
        BY <1>4, <2>1, <3>2, <3>4, Zenon
    <2>4. CASE r.break_loop /\ r.n # 0
      <3>1. r.n > 0 /\ r.n \in Int
        BY <2>1, <2>4
      <3>2. q = Returned(r, r.n)
        BY <1>5, <2>4, <3>1, Zenon DEF LoopTop
      <3>3. SameBuffer(r, r)
        BY DEF SameBuffer, SameHandle, BufferFields
      <3> QED
        BY <1>4, <2>1, <3>1, <3>2, <3>3, Zenon
    <2> QED
      BY <2>2, <2>3, <2>4, Zenon
  <1>6. CASE NextPacketEnd
    <2>1. PICK p : p = [r EXCEPT !.feof = TRUE, !.pos = Len(disk.file)]
      OBVIOUS
    <2>2. /\ r.pc = "next" /\ (q = Failed(p) \/ q = Returned(p, r.n)) /\ Running(r)
          /\ r.n \in Int
      BY <1>6, <2>1 DEF NextPacketEnd, Running, CallInv, CallOK, HasFields
    <2>3. Fields \subseteq DOMAIN r
      BY Zenon DEF CallInv, CallOK, HasFields
    <2>4. SameBuffer(r, p) /\ p.pos = Len(disk.file) /\ p.op = r.op /\ p.cnt = r.cnt
      BY <2>1, <2>3 DEF SameBuffer, SameHandle, BufferFields, HandleFields, Fields
    <2>5. CASE q = Failed(p)
      BY <2>2, <2>4, <2>5 DEF Failed, SameBuffer, SameHandle, BufferFields, HandleFields
    <2>6. CASE q = Returned(p, r.n)
      BY <1>4, <2>2, <2>4, <2>6, Zenon
    <2> QED
      BY <2>2, <2>5, <2>6, Zenon
  <1>7. CASE Callback
    <2>1. r.pc = "callback" /\ Running(r) /\ r.n \in Nat /\ Fields \subseteq DOMAIN r
      BY <1>7 DEF Callback, Running, CallInv, CallOK, HasFields
    <2>2. CASE q = [r EXCEPT !.pc = "top"]
      BY <2>1, <2>2 DEF SameBuffer, SameHandle, BufferFields, HandleFields
    <2>3. CASE r.h.data \notin Rejected
      <3>1. PICK p : p = [r EXCEPT !.n = @ + 1, !.total = @ + 1,
                                   !.after = IF r.break_loop THEN @ + 1 ELSE 0]
        OBVIOUS
      <3>2. q = Returned(p, p.n) \/ q = [p EXCEPT !.pc = "top"]
        BY <1>7, <2>3, <3>1, Zenon DEF Callback
      <3>3. /\ SameBuffer(r, p) /\ p.pos = r.pos /\ p.op = r.op /\ p.cnt = r.cnt
            /\ p.n = r.n + 1
        BY <2>1, <3>1 DEF SameBuffer, SameHandle, BufferFields, HandleFields, Fields
      <3>4. p.n \in Int
        BY <2>1, <3>3
      <3>5. CASE q = [p EXCEPT !.pc = "top"]
        BY <2>1, <3>3, <3>5 DEF SameBuffer, SameHandle, BufferFields, HandleFields
      <3>6. CASE q = Returned(p, p.n)
        BY <1>4, <2>1, <3>3, <3>4, <3>6, Zenon
      <3> QED
        BY <3>2, <3>5, <3>6, Zenon
    <2> QED
      BY <1>7, <2>2, <2>3, Zenon DEF Callback
  <1> QED
    BY <1>1, <1>2, <1>3, <1>5, <1>6, <1>7, Zenon DEF Waits

\* A step that reads a packet leaves the rest of the handle alone.
LEMMA NextPacketSame ==
    ASSUME BufferFields \subseteq DOMAIN r, NextPacket, NEW q, q = r'
    PROVE  /\ SameHandle(r, q) /\ BufferFields \subseteq DOMAIN q
           /\ r.pc = "next" /\ q.pc \in {"error", "callback"}
  <1>1. PICK bufsize, pos, fill, feof, h :
           LET p == [r EXCEPT !.bufsize = bufsize, !.pos = pos, !.fill = fill, !.feof = feof]
           IN  r.pc = "next" /\ (q = Failed(p) \/ q = [p EXCEPT !.pc = "callback", !.h = h])
    BY DEF NextPacket
  <1>2. PICK p : p = [r EXCEPT !.bufsize = bufsize, !.pos = pos, !.fill = fill, !.feof = feof]
    OBVIOUS
  <1>3. SameHandle(r, p) /\ BufferFields \subseteq DOMAIN p
    BY <1>2 DEF SameHandle, BufferFields, HandleFields
  <1>4. r.pc = "next" /\ (q = Failed(p) \/ q = [p EXCEPT !.pc = "callback", !.h = h])
    BY <1>1, <1>2, Zenon
  <1> QED
    BY <1>3, <1>4 DEF Failed, SameHandle, BufferFields, HandleFields

-----------------------------------------------------------------------------
(* What is written, and how much of it is on the disk.                       *)

Disks == [file : Seq(Nat), buf : Seq(Nat), room : Nat, ferror : BOOLEAN]

\* What was written, on the disk or not.
Stream(d) == d.file \o d.buf

\* The file is the beginning of a stream.
BeginsAs(file, stream) ==
    /\ Len(file) <= Len(stream)
    /\ \A i \in 1..Len(file) : file[i] = stream[i]

\* Concatenation is associative.
LEMMA Joined ==
    \A a, b, c \in Seq(Nat) : (a \o b) \o c = a \o (b \o c)
  BY ConcatAssociative

\* Cut in two and put together, a sequence is what it was.
LEMMA CutAndJoined ==
    ASSUME NEW s \in Seq(Nat), NEW n \in 0..Len(s)
    PROVE  /\ Take(s, n) \in Seq(Nat) /\ Drop(s, n) \in Seq(Nat)
           /\ Take(s, n) \o Drop(s, n) = s /\ Len(Drop(s, n)) <= Len(s)
  <1>1. Len(s) \in Nat /\ n \in Nat /\ n <= Len(s)
    OBVIOUS
  <1>2. SubSeq(s, 1, n) \in Seq(Nat) /\ SubSeq(s, n + 1, Len(s)) \in Seq(Nat)
    BY <1>1
  <1>3. SubSeq(s, 1, n) \o SubSeq(s, n + 1, Len(s)) = SubSeq(s, 1, Len(s))
    <2>1. 1 \in 1 .. Len(s) + 1 /\ n \in 1 - 1 .. Len(s) /\ Len(s) \in n .. Len(s)
      BY <1>1
    <2> QED
      BY <2>1, ConcatAdjacentSubSeq, Zenon
  <1>4. SubSeq(s, 1, Len(s)) = s
    BY SubSeqFull
  <1>5. Len(SubSeq(s, n + 1, Len(s))) <= Len(s)
    BY <1>1
  <1> QED
    BY <1>2, <1>3, <1>4, <1>5, Zenon DEF Take, Drop

\* The beginning of a longer sequence.
LEMMA PrefixBegins ==
    ASSUME NEW a \in Seq(Nat), NEW b \in Seq(Nat), NEW s, s = a \o b
    PROVE  s \in Seq(Nat) /\ BeginsAs(a, s)
  <1>1. /\ s \in Seq(Nat)
        /\ Len(s) = Len(a) + Len(b)
        /\ \A i \in 1 .. Len(a) + Len(b) : s[i] = IF i <= Len(a) THEN a[i] ELSE b[i - Len(a)]
    BY ConcatProperties
  <1>2. Len(a) \in Nat /\ Len(b) \in Nat
    OBVIOUS
  <1> QED
    BY <1>1, <1>2 DEF BeginsAs

\* What fwrite leaves: when it succeeds nothing that was written is lost, and in any
\* case the file is the beginning of what was written.
LEMMA FwriteStream ==
    ASSUME NEW d \in Disks, NEW words \in Seq(Nat), NEW o \in Fwrite(d, words),
           NEW s, s = Stream(d) \o words
    PROVE  /\ o.d \in Disks /\ o.ok \in BOOLEAN
           /\ o.ok => Stream(o.d) = s /\ o.d.ferror = d.ferror
           /\ ~o.ok => o.d.buf = <<>> /\ o.d.ferror
           /\ s \in Seq(Nat) /\ BeginsAs(o.d.file, s)
           /\ Len(o.d.buf) <= Len(d.buf \o words)
  <1>1. PICK all : all = d.buf \o words
    OBVIOUS
  <1>2. all \in Seq(Nat) /\ Len(all) \in Nat
    BY <1>1 DEF Disks
  <1>3. d.file \in Seq(Nat) /\ d.buf \in Seq(Nat) /\ d.room \in Nat /\ d.ferror \in BOOLEAN
    BY Zenon DEF Disks
  <1>4. s = d.file \o all /\ s \in Seq(Nat)
    <2>1. s = (d.file \o d.buf) \o words
      BY Zenon DEF Stream
    <2>2. (d.file \o d.buf) \o words = d.file \o (d.buf \o words)
      BY <1>3, Joined, Zenon
    <2>3. s = d.file \o all
      BY <1>1, <2>1, <2>2, Zenon
    <2> QED
      BY <1>2, <1>3, <2>3, ConcatProperties
  <1>5. /\ 0 .. Least(d.room, Len(all)) \subseteq 0 .. Len(all)
        /\ \A n \in 0 .. Least(d.room, Len(all)) : d.room - n \in Nat
    BY <1>2, <1>3 DEF Least
  <1>6. ASSUME NEW n \in 0 .. Len(all)
        PROVE  /\ Take(all, n) \in Seq(Nat) /\ Drop(all, n) \in Seq(Nat)
               /\ d.file \o Take(all, n) \in Seq(Nat)
               /\ (d.file \o Take(all, n)) \o Drop(all, n) = s
               /\ BeginsAs(d.file \o Take(all, n), s) /\ Len(Drop(all, n)) <= Len(all)
    <2>1. /\ Take(all, n) \in Seq(Nat) /\ Drop(all, n) \in Seq(Nat)
          /\ Take(all, n) \o Drop(all, n) = all /\ Len(Drop(all, n)) <= Len(all)
      BY <1>2, CutAndJoined
    <2>2. d.file \o Take(all, n) \in Seq(Nat)
      BY <1>3, <2>1, ConcatProperties
    <2>3. (d.file \o Take(all, n)) \o Drop(all, n) = d.file \o (Take(all, n) \o Drop(all, n))
      BY <1>3, <2>1, Joined, Zenon
    <2>4. (d.file \o Take(all, n)) \o Drop(all, n) = s
      BY <1>4, <2>1, <2>3, Zenon
    <2>5. BeginsAs(d.file \o Take(all, n), s)
      BY <2>1, <2>2, <2>4, PrefixBegins, Zenon
    <2> QED
      BY <2>1, <2>2, <2>4, <2>5, Zenon
  <1>7. \/ \E n \in 0 .. Least(d.room, Len(all)) :
              o = [d |-> [d EXCEPT !.file = @ \o Take(all, n), !.buf = Drop(all, n),
                                   !.room = @ - n], ok |-> TRUE]
        \/ /\ d.room < Len(all)
           /\ o = [d |-> [[d EXCEPT !.file = @ \o Take(all, d.room), !.buf = Drop(all, d.room),
                                    !.room = @ - d.room]
                          EXCEPT !.buf = <<>>, !.ferror = TRUE], ok |-> FALSE]
    BY <1>1, Zenon DEF Fwrite
  <1>8. ASSUME NEW n \in 0 .. Least(d.room, Len(all)),
               o = [d |-> [d EXCEPT !.file = @ \o Take(all, n), !.buf = Drop(all, n),
                                    !.room = @ - n], ok |-> TRUE]
        PROVE  /\ o.d \in Disks /\ o.ok = TRUE
               /\ Stream(o.d) = s /\ o.d.ferror = d.ferror
               /\ BeginsAs(o.d.file, s) /\ Len(o.d.buf) <= Len(all)
    <2>1. /\ Take(all, n) \in Seq(Nat) /\ Drop(all, n) \in Seq(Nat)
          /\ d.file \o Take(all, n) \in Seq(Nat)
          /\ (d.file \o Take(all, n)) \o Drop(all, n) = s
          /\ BeginsAs(d.file \o Take(all, n), s) /\ d.room - n \in Nat
          /\ Len(Drop(all, n)) <= Len(all)
      BY <1>5, <1>6
    <2>2. /\ o.ok = TRUE /\ o.d.file = d.file \o Take(all, n) /\ o.d.buf = Drop(all, n)
          /\ o.d.ferror = d.ferror
          /\ o.d = [file |-> d.file \o Take(all, n), buf |-> Drop(all, n),
                    room |-> d.room - n, ferror |-> d.ferror]
      BY <1>8 DEF Disks
    <2>3. o.d \in Disks
      BY <1>3, <2>1, <2>2 DEF Disks
    <2> QED
      BY <2>1, <2>2, <2>3, Zenon DEF Stream
  <1>9. ASSUME d.room < Len(all),
               o = [d |-> [[d EXCEPT !.file = @ \o Take(all, d.room), !.buf = Drop(all, d.room),
                                     !.room = @ - d.room]
                           EXCEPT !.buf = <<>>, !.ferror = TRUE], ok |-> FALSE]
        PROVE  /\ o.d \in Disks /\ o.ok = FALSE
               /\ o.d.buf = <<>> /\ o.d.ferror = TRUE
               /\ BeginsAs(o.d.file, s) /\ Len(o.d.buf) <= Len(all)
    <2>1. /\ d.room \in 0 .. Len(all) /\ d.room - d.room \in Nat /\ <<>> \in Seq(Nat)
          /\ Len(<<>>) <= Len(all)
      BY <1>2, <1>3, <1>9
    <2>2. d.file \o Take(all, d.room) \in Seq(Nat) /\ BeginsAs(d.file \o Take(all, d.room), s)
      BY <1>6, <2>1
    <2>3. /\ o.ok = FALSE /\ o.d.file = d.file \o Take(all, d.room) /\ o.d.buf = <<>>
          /\ o.d.ferror = TRUE
          /\ o.d = [file |-> d.file \o Take(all, d.room), buf |-> <<>>,
                    room |-> d.room - d.room, ferror |-> TRUE]
      BY <1>9 DEF Disks
    <2>4. o.d \in Disks
      BY <2>1, <2>2, <2>3 DEF Disks
    <2> QED
      BY <2>1, <2>2, <2>3, <2>4, Zenon
  <1> QED
    BY <1>1, <1>4, <1>7, <1>8, <1>9, Zenon

\* The stream is open, or it is closed or in error and its buffer is empty.
Tidy(d, open) == d \in Disks /\ (~open \/ d.ferror => d.buf = <<>>)

\* The file is one that begins with a header, as far as it goes; and while the
\* stream accepts data, all of the header is in it.
Headed(d, open, hdr) ==
    /\ \A i \in 1..HdrLen : i <= Len(d.file) => d.file[i] = hdr[i]
    /\ open /\ ~d.ferror => BeginsAs(hdr, Stream(d))

\* Two beginnings of one stream agree.
LEMMA BeginningsAgree ==
    ASSUME NEW s \in Seq(Nat), NEW file \in Seq(Nat), NEW hdr \in Seq(Nat), Len(hdr) = HdrLen,
           BeginsAs(file, s), BeginsAs(hdr, s)
    PROVE  \A i \in 1..HdrLen : i <= Len(file) => file[i] = hdr[i]
  <1> SUFFICES ASSUME NEW i \in 1..HdrLen, i <= Len(file)
               PROVE  file[i] = hdr[i]
    BY Zenon
  <1>1. i \in 1..Len(file) /\ i \in 1..Len(hdr)
    BY DEF HdrLen
  <1> QED
    BY <1>1, Zenon DEF BeginsAs

\* A stream goes on as it began.
LEMMA BeginsOnwards ==
    ASSUME NEW a \in Seq(Nat), NEW b \in Seq(Nat), NEW hdr \in Seq(Nat), BeginsAs(hdr, a)
    PROVE  BeginsAs(hdr, a \o b)
  <1>1. PICK s : s = a \o b
    OBVIOUS
  <1>2. s \in Seq(Nat) /\ BeginsAs(a, s)
    BY <1>1, PrefixBegins
  <1>3. BeginsAs(hdr, s)
    BY <1>2 DEF BeginsAs
  <1> QED
    BY <1>1, <1>3, Zenon

\* Writing leaves the beginning of the file alone.
LEMMA WriteHeaded ==
    ASSUME NEW d, Tidy(d, TRUE), NEW words \in Seq(Nat), NEW o \in Fwrite(d, words),
           ~d.ferror \/ words = <<>>
    PROVE  /\ Tidy(o.d, TRUE) /\ o.ok \in BOOLEAN /\ (~o.ok => o.d.buf = <<>> /\ o.d.ferror)
           /\ o.ok => o.d.ferror = d.ferror
           /\ \A hdr \in Seq(Nat) : Len(hdr) = HdrLen /\ Headed(d, TRUE, hdr)
                                    => Headed(o.d, TRUE, hdr)
  <1>1. PICK s : s = Stream(d) \o words
    OBVIOUS
  <1>2. d \in Disks /\ d.file \in Seq(Nat) /\ d.buf \in Seq(Nat) /\ d.ferror \in BOOLEAN
    BY Zenon DEF Tidy, Disks
  <1>3. /\ o.d \in Disks /\ o.ok \in BOOLEAN
        /\ o.ok => Stream(o.d) = s /\ o.d.ferror = d.ferror
        /\ ~o.ok => o.d.buf = <<>> /\ o.d.ferror
        /\ s \in Seq(Nat) /\ BeginsAs(o.d.file, s)
        /\ Len(o.d.buf) <= Len(d.buf \o words)
    BY <1>1, <1>2, FwriteStream, Zenon
  <1>4. o.d.file \in Seq(Nat) /\ o.d.buf \in Seq(Nat) /\ Stream(d) \in Seq(Nat)
    BY <1>2, <1>3 DEF Disks, Stream
  <1>5. Tidy(o.d, TRUE)
    <2>1. CASE ~o.ok
      BY <1>3, <2>1 DEF Tidy
    <2>2. CASE o.ok /\ ~d.ferror
      BY <1>3, <2>2 DEF Tidy
    <2>3. CASE o.ok /\ d.ferror
      <3>1. d.buf = <<>> /\ words = <<>>
        BY <2>3 DEF Tidy
      <3>2. Len(o.d.buf) <= 0
        BY <1>3, <3>1
      <3>3. o.d.buf = <<>>
        BY <1>4, <3>2
      <3> QED
        BY <1>3, <3>3, Zenon DEF Tidy
    <2> QED
      BY <2>1, <2>2, <2>3, <1>3, Zenon
  <1>6. ASSUME NEW hdr \in Seq(Nat), Len(hdr) = HdrLen, Headed(d, TRUE, hdr)
        PROVE  Headed(o.d, TRUE, hdr)
    <2>1. CASE ~d.ferror
      <3>1. BeginsAs(hdr, Stream(d))
        BY <1>6, <2>1, Zenon DEF Headed
      <3>2. BeginsAs(hdr, s)
        BY <1>1, <1>4, <3>1, BeginsOnwards, Zenon
      <3>3. \A i \in 1..HdrLen : i <= Len(o.d.file) => o.d.file[i] = hdr[i]
        <4>1. PICK file : file = o.d.file
          OBVIOUS
        <4>2. file \in Seq(Nat) /\ BeginsAs(file, s) /\ s \in Seq(Nat) /\ Len(hdr) = HdrLen
          BY <1>3, <1>4, <1>6, <4>1, Zenon
        <4>3. \A i \in 1..HdrLen : i <= Len(file) => file[i] = hdr[i]
          BY <3>2, <4>2, BeginningsAgree
        <4> QED
          BY <4>1, <4>3, Zenon
      <3> QED
        BY <1>3, <3>2, <3>3, Zenon DEF Headed
    <2>2. CASE d.ferror
      <3>1. d.buf = <<>> /\ words = <<>>
        BY <2>2 DEF Tidy
      <3>2. s = d.file
        BY <1>1, <1>2, <3>1 DEF Stream
      <3>3. \A i \in 1..HdrLen : i <= Len(o.d.file) => o.d.file[i] = hdr[i]
        <4> SUFFICES ASSUME NEW i \in 1..HdrLen, i <= Len(o.d.file)
                     PROVE  o.d.file[i] = hdr[i]
          BY Zenon
        <4>1. BeginsAs(o.d.file, d.file)
          BY <1>3, <3>2, Zenon
        <4>2. i \in 1..Len(o.d.file) /\ i <= Len(d.file)
          BY <1>2, <1>4, <4>1 DEF BeginsAs, HdrLen
        <4> QED
          BY <1>6, <4>1, <4>2, Zenon DEF Headed, BeginsAs
      <3>4. o.d.ferror
        BY <1>3, <2>2
      <3> QED
        BY <3>3, <3>4, Zenon DEF Headed
    <2> QED
      BY <2>1, <2>2, Zenon
  <1> QED
    BY <1>3, <1>5, <1>6, Zenon

-----------------------------------------------------------------------------
(* How a file begins.                                                        *)

\* The handles have no extension of the type, which pcap_dump_open_append does not
\* look at, and a type of this platform's or one that savefiles do not have; and
\* every type fits the word it is written in.
PlainHandles ==
    /\ 301 < Octet
    /\ \A h \in Handles :
          /\ h.ext = 0
          /\ \/ h.linktype \in DLTs(Platform)
             \/ dlt_to_linktype(Platform, h.linktype) = -1

MagicOf(h) == IF h.nano THEN NSEC_TCPDUMP_MAGIC ELSE TCPDUMP_MAGIC

HeaderOf(h) == Header(h, dlt_to_linktype(Platform, h.linktype))

\* The dumper.
DumpFields == {"open", "opens", "created", "refused"}

WriterOK(d, v) ==
    /\ DumpFields \subseteq DOMAIN v
    /\ v.open \in BOOLEAN /\ v.opens \in Nat
    /\ Tidy(d, v.open)
    /\ v.refused => ~v.open /\ Len(d.file) < HdrLen
    /\ v.opens = 0 => v.created = NoHandle /\ ~v.open /\ ~v.refused
    /\ v.created # NoHandle =>
          /\ v.created \in Handles
          /\ dlt_to_linktype(Platform, v.created.linktype) # -1
          /\ Headed(d, v.open, HeaderOf(v.created))

WriteInv == WriterOK(disk, w)

\* The numbers of link-layer types in files.
LEMMA ToFileRange ==
    ASSUME NEW platform \in Platforms, NEW dlt \in DLTs(platform)
    PROVE  dlt_to_linktype(platform, dlt) \in 0..301
  <1>1. \A name \in DOMAIN LINKTYPE : LINKTYPE[name] \in 0..301
    BY DEF LINKTYPE
  <1>2. dlt \in 0..301 \/ dlt \in {DLT(platform)[name] : name \in DOMAIN LINKTYPE}
    BY DEF DLTs, LowMatching, HighMatching, Itself
  <1> QED
    BY <1>1, <1>2, ToFile

\* The type of a handle whose packets a savefile can hold.
LEMMA HandleType ==
    ASSUME PlainHandles, NEW h \in Handles,
           NEW lt, lt = dlt_to_linktype(Platform, h.linktype), lt # -1
    PROVE  /\ h.ext = 0 /\ h.linktype \in DLTs(Platform) /\ lt \in Nat /\ lt < Octet
           /\ h # NoHandle /\ LinktypeWord(lt, h.ext) = lt
           /\ h.snapshot \in 1..IntMax /\ IntMax \in Nat /\ Octet \in Nat
  <1>1. h.ext = 0 /\ h.linktype \in DLTs(Platform)
    BY DEF PlainHandles
  <1>2. lt \in 0..301
    BY <1>1, SavefileAssumption, ToFileRange
  <1>3. lt < Octet /\ h.snapshot \in 1..IntMax /\ Octet \in Nat /\ IntMax \in Nat
    <2>1. {Octet, IntMax} \subseteq Nat /\ h.snapshot \in 1..IntMax /\ 301 < Octet
      BY SavefileAssumption, Zenon DEF PlainHandles
    <2> QED
      BY <1>2, <2>1
  <1>4. h # NoHandle
    BY <1>3 DEF NoHandle
  <1>5. LinktypeWord(lt, h.ext) = lt
    BY <1>1, <1>2, <1>3 DEF LinktypeWord
  <1>6. lt \in Nat
    BY <1>2
  <1> QED
    BY <1>1, <1>3, <1>4, <1>5, <1>6, Zenon

\* The header that pcap_setup_dump writes, and that pcap_dump_open_append expects.
LEMMA HeaderWords ==
    ASSUME PlainHandles, NEW h \in Handles,
           NEW lt, lt = dlt_to_linktype(Platform, h.linktype), lt # -1
    PROVE  /\ HeaderOf(h) = Header(h, lt)
           /\ Header(h, lt) \in Seq(Nat) /\ Len(Header(h, lt)) = HdrLen
           /\ Header(h, lt)[1] = MagicOf(h) /\ Header(h, lt)[2] = 2 /\ Header(h, lt)[3] = 4
           /\ Header(h, lt)[4] = h.snapshot /\ Header(h, lt)[5] = lt
  <1>1. lt \in Nat /\ h.snapshot \in Nat
    BY HandleType
  <1>2. HeaderOf(h) = Header(h, lt)
    BY DEF HeaderOf
  <1>3. /\ Header(h, lt) \in Seq(Nat) /\ Len(Header(h, lt)) = HdrLen
        /\ Header(h, lt)[1] = MagicOf(h) /\ Header(h, lt)[2] = 2 /\ Header(h, lt)[3] = 4
        /\ Header(h, lt)[4] = h.snapshot /\ Header(h, lt)[5] = lt
    BY <1>1 DEF Header, HdrLen, MagicOf, NSEC_TCPDUMP_MAGIC, TCPDUMP_MAGIC
  <1> QED
    BY <1>2, <1>3, Zenon

\* A disk whose file, buffer and error flag have changed.
LEMMA ChangedDisk ==
    ASSUME NEW d \in Disks, NEW file \in Seq(Nat), NEW buf \in Seq(Nat), NEW e \in BOOLEAN,
           NEW z, z = [d EXCEPT !.file = file, !.buf = buf, !.ferror = e]
    PROVE  z \in Disks
  BY DEF Disks

\* What fopen leaves of a file that stays.
LEMMA OpenedIsDisk ==
    ASSUME NEW d \in Disks, NEW file \in Seq(Nat)
    PROVE  /\ Opened(d, file) \in Disks /\ Opened(d, file).file = file
           /\ Opened(d, file).buf = <<>> /\ Opened(d, file).ferror = FALSE
  <1>1. PICK z : z = [d EXCEPT !.file = file, !.buf = <<>>, !.ferror = FALSE]
    OBVIOUS
  <1>2. <<>> \in Seq(Nat) /\ FALSE \in BOOLEAN
    OBVIOUS
  <1>3. z \in Disks
    BY <1>1, <1>2, ChangedDisk, Zenon
  <1>4. z.file = file /\ z.buf = <<>> /\ z.ferror = FALSE
    BY <1>1 DEF Disks
  <1> QED
    BY <1>1, <1>3, <1>4, Zenon DEF Opened

\* What fopen leaves of a file that is truncated.
LEMMA ClearedIsDisk ==
    ASSUME NEW d \in Disks
    PROVE  /\ Opened(d, <<>>) \in Disks /\ Opened(d, <<>>).file = <<>>
           /\ Opened(d, <<>>).buf = <<>> /\ Opened(d, <<>>).ferror = FALSE
  <1>1. <<>> \in Seq(Nat)
    OBVIOUS
  <1> QED
    BY <1>1, OpenedIsDisk, Zenon

\* A new file begins with its header.
LEMMA SetupHeaded ==
    ASSUME PlainHandles, WriteInv, NEW h \in Handles,
           NEW lt, lt = dlt_to_linktype(Platform, h.linktype), lt # -1,
           SetupDump(Opened(disk, <<>>), h, lt)
    PROVE  WriteInv'
  <1>1. PICK hdr : hdr = Header(h, lt)
    OBVIOUS
  <1>2. /\ hdr \in Seq(Nat) /\ Len(hdr) = HdrLen /\ HeaderOf(h) = hdr
    BY <1>1, HeaderWords, Zenon
  <1>3. PICK d : d = Opened(disk, <<>>)
    OBVIOUS
  <1>4. d \in Disks /\ d.file = <<>> /\ d.buf = <<>> /\ d.ferror = FALSE
    <2>1. disk \in Disks
      BY Zenon DEF WriteInv, WriterOK, Tidy
    <2> QED
      BY <1>3, <2>1, ClearedIsDisk, Zenon
  <1>5. PICK o \in Fwrite(d, hdr) :
          /\ disk' = [o.d EXCEPT !.ferror = FALSE]
          /\ w' = [w EXCEPT !.open = o.ok, !.h = h, !.opens = @ + 1, !.refused = FALSE,
                            !.told = 0, !.failed = ~o.ok, !.torn = FALSE, !.created = h,
                            !.author = [sound |-> TRUE, nano |-> h.nano, snapshot |-> h.snapshot]]
    BY <1>1, <1>3, Zenon DEF SetupDump
  <1>6. PICK s : s = Stream(d) \o hdr
    OBVIOUS
  <1>7. s = hdr
    BY <1>2, <1>4, <1>6 DEF Stream
  <1>8. /\ o.d \in Disks /\ o.ok \in BOOLEAN
        /\ o.ok => Stream(o.d) = s /\ o.d.ferror = d.ferror
        /\ ~o.ok => o.d.buf = <<>> /\ o.d.ferror
        /\ BeginsAs(o.d.file, s)
    BY <1>2, <1>4, <1>6, FwriteStream, Zenon
  <1>9. /\ disk' \in Disks /\ disk'.file = o.d.file /\ disk'.buf = o.d.buf /\ disk'.ferror = FALSE
    BY <1>5, <1>8 DEF Disks
  <1>10. Stream(disk') = Stream(o.d)
    BY <1>9, Zenon DEF Stream
  <1>11. /\ DumpFields \subseteq DOMAIN w' /\ w'.open = o.ok /\ w'.opens = w.opens + 1
         /\ w'.refused = FALSE /\ w'.created = h
    BY <1>5 DEF WriteInv, WriterOK, DumpFields
  <1>12. w'.opens \in Nat /\ w'.opens # 0
    BY <1>11 DEF WriteInv, WriterOK
  <1>13. BeginsAs(hdr, hdr)
    BY <1>2 DEF BeginsAs, HdrLen
  <1>14. \A i \in 1..HdrLen : i <= Len(disk'.file) => disk'.file[i] = hdr[i]
    <2>1. disk'.file \in Seq(Nat)
      BY <1>9, Zenon DEF Disks
    <2> QED
      BY <1>2, <1>7, <1>8, <1>9, <1>13, <2>1, BeginningsAgree
  <1>15. Headed(disk', w'.open, HeaderOf(w'.created))
    BY <1>2, <1>7, <1>8, <1>10, <1>11, <1>13, <1>14, Zenon DEF Headed
  <1>16. Tidy(disk', w'.open)
    BY <1>8, <1>9, <1>11, Zenon DEF Tidy
  <1>17. WriterOK(disk', w')
    BY <1>8, <1>11, <1>12, <1>15, <1>16, Zenon DEF WriterOK
  <1> QED
    BY <1>17, Zenon DEF WriteInv

\* The dumper goes on with the same file.
LEMMA SameWriter ==
    ASSUME WriteInv, NEW d, NEW z, DumpFields \subseteq DOMAIN z,
           z.open = w.open, z.opens = w.opens, z.created = w.created, z.refused = w.refused,
           Tidy(d, w.open),
           w.refused => Len(d.file) < HdrLen,
           w.created # NoHandle => Headed(d, w.open, HeaderOf(w.created))
    PROVE  WriterOK(d, z)
  BY Zenon DEF WriteInv, WriterOK

\* The header of the file there is, if this library made it.
LEMMA MadeHeader ==
    ASSUME PlainHandles, WriteInv, w.created # NoHandle
    PROVE  /\ HeaderOf(w.created) \in Seq(Nat) /\ Len(HeaderOf(w.created)) = HdrLen
           /\ Headed(disk, w.open, HeaderOf(w.created))
  <1>1. /\ w.created \in Handles
        /\ dlt_to_linktype(Platform, w.created.linktype) # -1
        /\ Headed(disk, w.open, HeaderOf(w.created))
    BY Zenon DEF WriteInv, WriterOK
  <1>2. PICK lt : lt = dlt_to_linktype(Platform, w.created.linktype)
    OBVIOUS
  <1>3. /\ HeaderOf(w.created) = Header(w.created, lt)
        /\ Header(w.created, lt) \in Seq(Nat) /\ Len(Header(w.created, lt)) = HdrLen
    BY <1>1, <1>2, HeaderWords
  <1> QED
    BY <1>1, <1>3, Zenon

\* pcap_dump.
LEMMA DumpStep ==
    ASSUME PlainHandles, WriteInv, NEW pkt \in Packets, Dump(pkt)
    PROVE  WriteInv'
  <1>1. /\ w.open = TRUE /\ Tidy(disk, TRUE) /\ DumpFields \subseteq DOMAIN w
        /\ ~w.refused
    BY Zenon DEF WriteInv, WriterOK, Dump
  <1>2. CASE disk.ferror /\ UNCHANGED <<disk, w>>
    BY <1>2, Zenon DEF WriteInv
  <1>3. CASE ~disk.ferror /\ DumpOnwards(pkt)
    <2>1. Record(pkt) \in Seq(Nat) /\ pkt.data \in Seq(Nat)
      BY SavefileAssumption DEF Record
    <2>2. PICK o \in Fwrite(disk, Record(pkt)) :
            \E q \in (IF o.ok THEN Fwrite(o.d, pkt.data) ELSE {o}) :
                /\ disk' = q.d
                /\ w' = [w EXCEPT !.failed = @ \/ ~q.ok]
      BY <1>3, Zenon DEF DumpOnwards
    <2>3. PICK q \in (IF o.ok THEN Fwrite(o.d, pkt.data) ELSE {o}) :
            /\ disk' = q.d
            /\ w' = [w EXCEPT !.failed = @ \/ ~q.ok]
      BY <2>2, Zenon
    <2>4. /\ Tidy(o.d, TRUE) /\ o.ok \in BOOLEAN /\ (o.ok => o.d.ferror = disk.ferror)
          /\ \A hdr \in Seq(Nat) : Len(hdr) = HdrLen /\ Headed(disk, TRUE, hdr)
                                   => Headed(o.d, TRUE, hdr)
      BY <1>1, <1>3, <2>1, WriteHeaded, Zenon
    <2>5. /\ Tidy(q.d, TRUE)
          /\ \A hdr \in Seq(Nat) : Len(hdr) = HdrLen /\ Headed(disk, TRUE, hdr)
                                   => Headed(q.d, TRUE, hdr)
      <3>1. CASE o.ok
        <4>1. q \in Fwrite(o.d, pkt.data) /\ ~o.d.ferror
          BY <1>3, <2>3, <2>4, <3>1, Zenon
        <4>2. /\ Tidy(q.d, TRUE)
              /\ \A hdr \in Seq(Nat) : Len(hdr) = HdrLen /\ Headed(o.d, TRUE, hdr)
                                       => Headed(q.d, TRUE, hdr)
          BY <2>1, <2>4, <4>1, WriteHeaded, Zenon
        <4> QED
          BY <2>4, <4>2, Zenon
      <3>2. CASE ~o.ok
        BY <2>3, <2>4, <3>2, Zenon
      <3> QED
        BY <3>1, <3>2, Zenon
    <2>6. /\ DumpFields \subseteq DOMAIN w' /\ w'.open = w.open /\ w'.opens = w.opens
          /\ w'.created = w.created /\ w'.refused = w.refused
      BY <1>1, <2>3 DEF DumpFields
    <2>7. w.created # NoHandle => Headed(disk', w.open, HeaderOf(w.created))
      BY <1>1, <2>3, <2>5, MadeHeader, Zenon
    <2>8. Tidy(disk', w.open)
      BY <1>1, <2>3, <2>5, Zenon
    <2>9. WriterOK(disk', w')
      BY <1>1, <2>6, <2>7, <2>8, SameWriter, Zenon
    <2> QED
      BY <2>9, Zenon DEF WriteInv
  <1> QED
    BY <1>2, <1>3, Zenon DEF Dump, pcap_dump

\* What fflush leaves.
LEMMA FlushHeaded ==
    ASSUME NEW d, Tidy(d, TRUE), NEW o \in Fflush(d)
    PROVE  /\ Tidy(o.d, TRUE) /\ o.ok \in BOOLEAN /\ o.d.buf = <<>> /\ (~o.ok => o.d.ferror)
           /\ \A hdr \in Seq(Nat) : Len(hdr) = HdrLen /\ Headed(d, TRUE, hdr)
                                    => Headed(o.d, TRUE, hdr)
  <1>1. o \in Fwrite(d, <<>>) /\ (o.ok => o.d.buf = <<>>)
    BY Zenon DEF Fflush
  <1>2. <<>> \in Seq(Nat)
    OBVIOUS
  <1> QED
    BY <1>1, <1>2, WriteHeaded, Zenon

\* pcap_dump_flush.
LEMMA FlushStep ==
    ASSUME PlainHandles, WriteInv, DumpFlush
    PROVE  WriteInv'
  <1>1. /\ w.open = TRUE /\ Tidy(disk, TRUE) /\ DumpFields \subseteq DOMAIN w
        /\ ~w.refused
    BY Zenon DEF WriteInv, WriterOK, DumpFlush
  <1>2. PICK o \in Fflush(disk) :
          /\ disk' = o.d
          /\ w' = [w EXCEPT !.told = IF o.ok THEN Len(meant) ELSE @, !.failed = @ \/ ~o.ok]
    BY Zenon DEF DumpFlush
  <1>3. /\ Tidy(o.d, TRUE)
        /\ \A hdr \in Seq(Nat) : Len(hdr) = HdrLen /\ Headed(disk, TRUE, hdr)
                                 => Headed(o.d, TRUE, hdr)
    BY <1>1, FlushHeaded, Zenon
  <1>4. /\ DumpFields \subseteq DOMAIN w' /\ w'.open = w.open /\ w'.opens = w.opens
        /\ w'.created = w.created /\ w'.refused = w.refused
    BY <1>1, <1>2 DEF DumpFields
  <1>5. w.created # NoHandle => Headed(disk', w.open, HeaderOf(w.created))
    BY <1>1, <1>2, <1>3, MadeHeader, Zenon
  <1>6. Tidy(disk', w.open)
    BY <1>1, <1>2, <1>3, Zenon
  <1>7. WriterOK(disk', w')
    BY <1>1, <1>4, <1>5, <1>6, SameWriter, Zenon
  <1> QED
    BY <1>7, Zenon DEF WriteInv

\* pcap_dump_close.
LEMMA CloseStep ==
    ASSUME PlainHandles, WriteInv, DumpClose
    PROVE  WriteInv'
  <1>1. /\ w.open = TRUE /\ Tidy(disk, TRUE) /\ DumpFields \subseteq DOMAIN w
        /\ ~w.refused /\ w.opens # 0 /\ w.opens \in Nat
    BY Zenon DEF WriteInv, WriterOK, DumpClose
  <1>2. PICK o \in Fflush(disk) :
          /\ disk' = [o.d EXCEPT !.ferror = FALSE]
          /\ w' = [w EXCEPT !.open = FALSE, !.failed = @ \/ ~o.ok,
                            !.told = IF o.ok /\ ~w.failed THEN Len(meant) ELSE @]
    BY Zenon DEF DumpClose
  <1>3. /\ Tidy(o.d, TRUE) /\ o.d.buf = <<>>
        /\ \A hdr \in Seq(Nat) : Len(hdr) = HdrLen /\ Headed(disk, TRUE, hdr)
                                 => Headed(o.d, TRUE, hdr)
    BY <1>1, FlushHeaded, Zenon
  <1>4. o.d \in Disks
    BY <1>3, Zenon DEF Tidy
  <1>5. disk' \in Disks /\ disk'.file = o.d.file /\ disk'.buf = <<>>
    BY <1>2, <1>3, <1>4 DEF Disks
  <1>6. /\ DumpFields \subseteq DOMAIN w' /\ w'.open = FALSE /\ w'.opens = w.opens
        /\ w'.created = w.created /\ w'.refused = w.refused
    BY <1>1, <1>2 DEF DumpFields
  <1>7. w.created # NoHandle => Headed(disk', FALSE, HeaderOf(w.created))
    <2>1. w.created # NoHandle => Headed(o.d, TRUE, HeaderOf(w.created))
      BY <1>1, <1>3, MadeHeader, Zenon
    <2> QED
      BY <1>5, <2>1, Zenon DEF Headed
  <1>8. Tidy(disk', FALSE)
    BY <1>5, Zenon DEF Tidy
  <1>9. WriterOK(disk', w')
    BY <1>1, <1>6, <1>7, <1>8, Zenon DEF WriteInv, WriterOK
  <1> QED
    BY <1>9, Zenon DEF WriteInv

\* There is more room, or a file by another author.
LEMMA OutsideStep ==
    ASSUME PlainHandles, WriteInv,
           \/ \E room \in Rooms : FreeSpace(room)
           \/ w.opens = 0 /\ \E f \in Found : Find(f)
    PROVE  WriteInv'
  <1>1. disk \in Disks /\ disk.file \in Seq(Nat) /\ DumpFields \subseteq DOMAIN w
    BY Zenon DEF WriteInv, WriterOK, Tidy, Disks
  <1>2. CASE \E room \in Rooms : FreeSpace(room)
    <2>1. PICK room \in Rooms : FreeSpace(room)
      BY <1>2
    <2>2. room \in Nat
      BY SavefileAssumption, Zenon
    <2>3. /\ disk' \in Disks /\ disk'.file = disk.file /\ disk'.buf = disk.buf
          /\ disk'.ferror = disk.ferror
      BY <1>1, <2>1, <2>2 DEF FreeSpace, Disks
    <2>4. /\ DumpFields \subseteq DOMAIN w' /\ w'.open = w.open /\ w'.opens = w.opens
          /\ w'.created = w.created /\ w'.refused = w.refused
      BY <1>1, <2>1 DEF FreeSpace, DumpFields
    <2>5. Tidy(disk', w.open)
      BY <2>3, Zenon DEF WriteInv, WriterOK, Tidy
    <2>6. w.created # NoHandle => Headed(disk', w.open, HeaderOf(w.created))
      BY <2>3, Zenon DEF WriteInv, WriterOK, Headed, Stream
    <2>7. w.refused => Len(disk'.file) < HdrLen
      BY <2>3, Zenon DEF WriteInv, WriterOK
    <2>8. WriterOK(disk', w')
      BY <2>4, <2>5, <2>6, <2>7, SameWriter, Zenon
    <2> QED
      BY <2>8, Zenon DEF WriteInv
  <1>3. CASE w.opens = 0 /\ \E f \in Found : Find(f)
    <2>1. PICK f \in Found : Find(f)
      BY <1>3
    <2>2. f.words \in Seq(Nat)
      BY SavefileAssumption, Zenon
    <2>3. disk' \in Disks /\ disk'.buf = disk.buf
      BY <1>1, <2>1, <2>2 DEF Find, Disks
    <2>4. /\ DumpFields \subseteq DOMAIN w' /\ w'.open = w.open /\ w'.opens = 1
          /\ w'.created = w.created /\ w'.refused = w.refused
      BY <1>1, <2>1 DEF Find, DumpFields
    <2>5. w.created = NoHandle /\ ~w.open /\ ~w.refused /\ disk.buf = <<>> /\ w.open \in BOOLEAN
      BY <1>3, Zenon DEF WriteInv, WriterOK, Tidy
    <2>6. Tidy(disk', w'.open)
      BY <2>3, <2>5, Zenon DEF Tidy
    <2>7. 1 \in Nat /\ 1 # 0
      OBVIOUS
    <2>8. WriterOK(disk', w')
      BY <2>4, <2>5, <2>6, <2>7, Zenon DEF WriterOK
    <2> QED
      BY <2>8, Zenon DEF WriteInv
  <1> QED
    BY <1>2, <1>3, Zenon

\* The file is refused: it stays as it was.
LEMMA RefuseStep ==
    ASSUME WriteInv, NEW b \in BOOLEAN, b => ~w.open /\ Len(disk.file) < HdrLen,
           w' = [w EXCEPT !.opens = @ + 1, !.refused = b], UNCHANGED disk
    PROVE  WriteInv'
  <1>1. /\ DumpFields \subseteq DOMAIN w' /\ w'.open = w.open /\ w'.opens = w.opens + 1
        /\ w'.created = w.created /\ w'.refused = b
    BY DEF WriteInv, WriterOK, DumpFields
  <1>2. w'.opens \in Nat /\ w'.opens # 0
    BY <1>1 DEF WriteInv, WriterOK
  <1>3. WriterOK(disk', w')
    BY <1>1, <1>2, Zenon DEF WriteInv, WriterOK
  <1> QED
    BY <1>3, Zenon DEF WriteInv

\* pcap_dump_open.
LEMMA OpenStep ==
    ASSUME PlainHandles, WriteInv, NEW h \in Handles, DumpOpen(h)
    PROVE  WriteInv'
  <1>1. PICK lt : lt = dlt_to_linktype(Platform, h.linktype)
    OBVIOUS
  <1>2. CASE lt = -1
    <2>1. w' = [w EXCEPT !.opens = @ + 1, !.refused = FALSE] /\ UNCHANGED disk
      BY <1>1, <1>2, Zenon DEF DumpOpen
    <2> QED
      BY <2>1, RefuseStep, Zenon
  <1>3. CASE lt # -1
    <2>1. SetupDump(Opened(disk, <<>>), h, LinktypeWord(lt, h.ext))
      BY <1>1, <1>3, Zenon DEF DumpOpen
    <2>2. LinktypeWord(lt, h.ext) = lt
      BY <1>1, <1>3, HandleType, Zenon
    <2> QED
      BY <1>1, <1>3, <2>1, <2>2, SetupHeaded, Zenon
  <1> QED
    BY <1>2, <1>3, Zenon

\* A length is 0, that of a part of a header, or enough for one.
LEMMA HeaderThere ==
    \A n \in Nat : n \notin 1 .. HdrLen - 1 <=> n = 0 \/ n >= HdrLen
  <1>1. ASSUME NEW n \in Nat PROVE n \in 1 .. 4 <=> ~(n = 0 \/ n >= 5)
    OBVIOUS
  <1>2. HdrLen = 5 /\ HdrLen - 1 = 4
    BY DEF HdrLen
  <1> QED
    BY <1>1, <1>2, Zenon

\* pcap_dump_open_append: the header it expects is the one that was written.
LEMMA AppendStep ==
    ASSUME PlainHandles, WriteInv, NEW h \in Handles, DumpOpenAppend(h)
    PROVE  WriteInv'
  <1>1. PICK lt : lt = dlt_to_linktype(Platform, h.linktype)
    OBVIOUS
  <1>2. /\ disk \in Disks /\ disk.file \in Seq(Nat) /\ disk.buf = <<>>
        /\ ~w.open /\ w.open \in BOOLEAN /\ DumpFields \subseteq DOMAIN w
    BY Zenon DEF WriteInv, WriterOK, Tidy, Disks, DumpOpenAppend, MayOpen
  <1>3. CASE \/ lt = -1 \/ Len(disk.file) \in 1 .. HdrLen - 1
             \/ disk.file # <<>> /\ ~CanAppend(h, lt)
    <2>1. CASE ~(disk.file = <<>> /\ lt # -1)
      <3>1. /\ w' = [w EXCEPT !.opens = @ + 1, !.refused = (h = w.created)]
            /\ UNCHANGED disk
        BY <1>1, <1>3, <2>1, Zenon DEF DumpOpenAppend
      <3>2. ASSUME h = w.created PROVE Len(disk.file) < HdrLen
        <4>1. SUFFICES ASSUME Len(disk.file) >= HdrLen PROVE FALSE
          BY <1>2 DEF HdrLen
        <4>2. CASE h = NoHandle
          <5>1. NoHandle.snapshot = 0 /\ h.snapshot \in 1..IntMax /\ IntMax \in Nat
            BY SavefileAssumption, Zenon DEF NoHandle
          <5> QED
            BY <4>2, <5>1
        <4>3. CASE h # NoHandle
          <5>1. lt # -1 /\ Headed(disk, w.open, HeaderOf(h))
            BY <1>1, <3>2, <4>3, Zenon DEF WriteInv, WriterOK
          <5>2. /\ HeaderOf(h) = Header(h, lt)
                /\ Header(h, lt)[1] = MagicOf(h)
                /\ Header(h, lt)[2] = 2 /\ Header(h, lt)[3] = 4
                /\ Header(h, lt)[4] = h.snapshot /\ Header(h, lt)[5] = lt
            BY <1>1, <5>1, HeaderWords
          <5>3. \A i \in 1..HdrLen : disk.file[i] = Header(h, lt)[i]
            <6>1. \A i \in 1..HdrLen : i <= Len(disk.file)
              BY <1>2, <4>1 DEF HdrLen
            <6> QED
              BY <5>1, <5>2, <6>1, Zenon DEF Headed
          <5>4. 1 \in 1..HdrLen /\ 2 \in 1..HdrLen /\ 3 \in 1..HdrLen /\ 4 \in 1..HdrLen
                /\ 5 \in 1..HdrLen
            BY DEF HdrLen
          <5>5. CanAppend(h, lt)
            BY <5>2, <5>3, <5>4, Zenon DEF CanAppend, MagicOf
          <5>6. Len(disk.file) \notin 1 .. HdrLen - 1
            <6>1. Len(disk.file) \in Nat
              BY <1>2
            <6> QED
              BY <4>1, <6>1, HeaderThere, Zenon
          <5> QED
            BY <1>3, <5>1, <5>5, <5>6, Zenon
        <4> QED
          BY <4>2, <4>3, Zenon
      <3>3. PICK b \in BOOLEAN : b = (h = w.created)
        OBVIOUS
      <3>4. w' = [w EXCEPT !.opens = @ + 1, !.refused = b]
        BY <3>1, <3>3, Zenon
      <3> QED
        BY <1>2, <3>1, <3>2, <3>3, <3>4, RefuseStep, Zenon
    <2>2. CASE disk.file = <<>> /\ lt # -1
      <3>1. Len(disk.file) \notin 1 .. HdrLen - 1
        BY <2>2 DEF HdrLen
      <3> QED
        BY <1>3, <2>2, <3>1, Zenon
    <2> QED
      BY <2>1, <2>2, Zenon
  <1>4. CASE lt # -1 /\ disk.file = <<>>
    <2>1. Len(disk.file) \notin 1 .. HdrLen - 1
      BY <1>4 DEF HdrLen
    <2>2. SetupDump(Opened(disk, <<>>), h, lt)
      BY <1>1, <1>4, <2>1, Zenon DEF DumpOpenAppend
    <2> QED
      BY <1>1, <1>4, <2>2, SetupHeaded, Zenon
  <1>5. CASE /\ lt # -1 /\ Len(disk.file) \notin 1 .. HdrLen - 1
             /\ disk.file # <<>> /\ CanAppend(h, lt)
    <2>1. PICK whole : whole = Whole(disk.file, meant)
      OBVIOUS
    <2>2. /\ disk' = Opened(disk, disk.file)
          /\ w' = [w EXCEPT !.open = TRUE, !.h = h, !.opens = @ + 1, !.refused = FALSE,
                            !.told = whole, !.failed = FALSE,
                            !.torn = @ \/ Len(disk.file) # EndOf(meant, whole)]
      BY <1>1, <1>5, <2>1, Zenon DEF DumpOpenAppend
    <2>3. disk' \in Disks /\ disk'.file = disk.file /\ disk'.buf = <<>> /\ disk'.ferror = FALSE
      BY <1>2, <2>2, OpenedIsDisk, Zenon
    <2>4. /\ DumpFields \subseteq DOMAIN w' /\ w'.open = TRUE /\ w'.opens = w.opens + 1
          /\ w'.created = w.created /\ w'.refused = FALSE
      BY <1>2, <2>2 DEF DumpFields
    <2>5. w'.opens \in Nat /\ w'.opens # 0
      BY <2>4 DEF WriteInv, WriterOK
    <2>6. Tidy(disk', TRUE)
      BY <2>3, Zenon DEF Tidy
    <2>7. ASSUME w.created # NoHandle PROVE Headed(disk', TRUE, HeaderOf(w.created))
      <3>1. PICK hdr : hdr = HeaderOf(w.created)
        OBVIOUS
      <3>2. /\ hdr \in Seq(Nat) /\ Len(hdr) = HdrLen
            /\ \A i \in 1..HdrLen : i <= Len(disk.file) => disk.file[i] = hdr[i]
        BY <2>7, <3>1, MadeHeader, Zenon DEF Headed
      <3>3. Len(disk.file) >= HdrLen
        <4>1. Len(disk.file) \in Nat /\ Len(disk.file) # 0
          BY <1>2, <1>5
        <4>2. Len(disk.file) \notin 1 .. HdrLen - 1
          BY <1>5, Zenon
        <4> QED
          BY <4>1, <4>2, HeaderThere, Zenon
      <3>4. Stream(disk') = disk.file
        BY <1>2, <2>3 DEF Stream
      <3>5. \A i \in 1..HdrLen : hdr[i] = disk.file[i]
        <4>1. \A i \in 1..HdrLen : i <= Len(disk.file)
          BY <3>3 DEF HdrLen
        <4> QED
          BY <3>2, <4>1, Zenon
      <3>6. BeginsAs(hdr, disk.file)
        BY <3>2, <3>3, <3>5, Zenon DEF BeginsAs
      <3> QED
        BY <2>3, <3>1, <3>2, <3>4, <3>6, Zenon DEF Headed
    <2>8. WriterOK(disk', w')
      BY <2>4, <2>5, <2>6, <2>7, Zenon DEF WriteInv, WriterOK
    <2> QED
      BY <2>8, Zenon DEF WriteInv
  <1> QED
    BY <1>3, <1>4, <1>5, Zenon

\* The file is written, or left alone.
LEMMA WriteStep == PlainHandles /\ WriteInv /\ [Next]_vars => WriteInv'
  <1> SUFFICES ASSUME PlainHandles, WriteInv, [Next]_vars
               PROVE  WriteInv'
    BY Zenon
  <1>1. UNCHANGED <<disk, w>> => WriteInv'
    BY Zenon DEF WriteInv
  <1>2. ASSUME NEW h \in Handles, DumpOpen(h) \/ DumpOpenAppend(h) PROVE WriteInv'
    BY <1>2, OpenStep, AppendStep, Zenon
  <1>3. ASSUME NEW pkt \in Packets, Dump(pkt) PROVE WriteInv'
    BY <1>3, DumpStep, Zenon
  <1>4. ASSUME DumpFlush \/ DumpClose PROVE WriteInv'
    BY <1>4, FlushStep, CloseStep, Zenon
  <1>5. ASSUME \/ \E room \in Rooms : FreeSpace(room)
               \/ w.opens = 0 /\ \E f \in Found : Find(f)
        PROVE  WriteInv'
    BY <1>5, OutsideStep, Zenon
  <1>6. ASSUME \/ \E nano \in BOOLEAN : OpenOffline(nano)
               \/ \E op \in {"dispatch", "loop", "next_ex"}, cnt \in Counts : Call(op, cnt)
               \/ pcap_breakloop \/ NextPacketNoMemory
        PROVE  WriteInv'
    BY <1>1, <1>6, Zenon DEF OpenOffline, Call, pcap_breakloop, NextPacketNoMemory
  <1>7. ASSUME Read PROVE WriteInv'
    BY <1>1, <1>7, Zenon DEF Read, LoopTop, NextPacketEnd, NextPacketInsane, NextPacket, Callback
  <1>8. ASSUME UNCHANGED vars PROVE WriteInv'
    BY <1>1, <1>8, Zenon DEF vars
  <1> QED
    BY <1>2, <1>3, <1>4, <1>5, <1>6, <1>7, <1>8, Zenon DEF Next

\* The reader found what the dumper wrote.
HeaderInv == BufferFields \subseteq DOMAIN r /\ HeaderAgrees

-----------------------------------------------------------------------------
(* Who reads the file finds the handle that it was written with.             *)

\* The type in the low octet of its word.
LEMMA SmallWord ==
    \A a, b \in Nat : a < b => a % b = a /\ a \div b = 0
  OBVIOUS

\* pcap_check_header makes of a header the handle that it was written with.
LEMMA HeaderRead ==
    ASSUME PlainHandles, WriteInv, w.created # NoHandle, NEW nano, NEW hdr, NEW swapped,
           Len(disk.file) >= HdrLen, swapped = (disk.file[1] \notin Magics),
           hdr = [i \in 1 .. HdrLen |-> IF swapped THEN Swap(disk.file[i]) ELSE disk.file[i]],
           NEW q, q = pcap_check_header(nano, hdr, swapped)
    PROVE  /\ q.linktype = w.created.linktype /\ q.linktype_ext = w.created.ext
           /\ q.snapshot = w.created.snapshot
  <1>1. PICK h : h = w.created
    OBVIOUS
  <1>2. PICK lt : lt = dlt_to_linktype(Platform, h.linktype)
    OBVIOUS
  <1>3. /\ h \in Handles /\ lt # -1 /\ Headed(disk, w.open, HeaderOf(h)) /\ disk \in Disks
        /\ disk.file \in Seq(Nat)
    BY <1>1, <1>2, Zenon DEF WriteInv, WriterOK, Tidy, Disks
  <1>4. /\ HeaderOf(h) = Header(h, lt) /\ Header(h, lt)[1] = MagicOf(h)
        /\ Header(h, lt)[4] = h.snapshot /\ Header(h, lt)[5] = lt
    BY <1>2, <1>3, HeaderWords, Zenon
  <1>5. 1 \in 1..HdrLen /\ 4 \in 1..HdrLen /\ 5 \in 1..HdrLen
    BY DEF HdrLen
  <1>6. \A i \in 1..HdrLen : disk.file[i] = Header(h, lt)[i]
    <2>1. \A i \in 1..HdrLen : i <= Len(disk.file)
      BY <1>3 DEF HdrLen
    <2> QED
      BY <1>3, <1>4, <2>1, Zenon DEF Headed
  <1>7. disk.file[1] \in {TCPDUMP_MAGIC, NSEC_TCPDUMP_MAGIC}
    BY <1>4, <1>5, <1>6, Zenon DEF MagicOf
  <1>8. ~swapped
    BY <1>7, Zenon DEF Magics
  <1>9. hdr[1] = disk.file[1] /\ hdr[4] = h.snapshot /\ hdr[5] = lt
    BY <1>4, <1>5, <1>6, <1>8, Zenon
  <1>10. hdr[1] # KUZNETZOV_TCPDUMP_MAGIC
    BY <1>7, <1>9 DEF KUZNETZOV_TCPDUMP_MAGIC, TCPDUMP_MAGIC, NSEC_TCPDUMP_MAGIC
  <1>11. /\ h.ext = 0 /\ h.linktype \in DLTs(Platform) /\ lt \in Nat /\ lt < Octet
         /\ h.snapshot \in 1..IntMax /\ IntMax \in Nat /\ Octet \in Nat
         /\ lt % Octet = lt /\ lt \div Octet = 0
    <2>1. /\ h.ext = 0 /\ h.linktype \in DLTs(Platform) /\ lt \in Nat /\ lt < Octet
          /\ h.snapshot \in 1..IntMax /\ IntMax \in Nat /\ Octet \in Nat
      BY <1>2, <1>3, HandleType
    <2>2. lt % Octet = lt /\ lt \div Octet = 0
      BY <2>1, SmallWord, Zenon
    <2> QED
      BY <2>1, <2>2, Zenon
  <1>12. linktype_to_dlt(Platform, lt) = h.linktype
    BY <1>2, <1>11, RoundTrip, SavefileAssumption, Zenon
  <1>13. pcapint_adjust_snapshot(h.snapshot) = h.snapshot
    BY <1>11 DEF pcapint_adjust_snapshot
  <1>14. PICK dlt : dlt = linktype_to_dlt(Platform, LT_LINKTYPE(hdr[5]))
    OBVIOUS
  <1>15. dlt = h.linktype
    BY <1>9, <1>11, <1>12, <1>14, Zenon DEF LT_LINKTYPE
  <1>16. Snapshot(hdr[1], dlt, hdr[4]) = h.snapshot
    BY <1>9, <1>10, <1>13, Zenon DEF Snapshot
  <1>17. LT_LINKTYPE_EXT(hdr[5]) = 0
    BY <1>9, <1>11, Zenon DEF LT_LINKTYPE_EXT
  <1>18. /\ q.linktype = dlt /\ q.linktype_ext = LT_LINKTYPE_EXT(hdr[5])
         /\ q.snapshot = Snapshot(hdr[1], dlt, hdr[4])
    BY <1>14 DEF pcap_check_header, Fresh
  <1> QED
    BY <1>1, <1>11, <1>15, <1>16, <1>17, <1>18, Zenon

\* The handle that reads stays the one of the header.
LEMMA HeaderStep ==
    ASSUME PlainHandles, CallInv, WriteInv, HeaderInv, [Next]_vars
    PROVE  HeaderInv'
  <1>1. PICK q : q = r'
    OBVIOUS
  <1> DEFINE Goal == /\ BufferFields \subseteq DOMAIN q
                     /\ w'.created # NoHandle /\ q.pc \notin {"none", "refused"} =>
                          /\ q.linktype = w'.created.linktype
                          /\ q.linktype_ext = w'.created.ext
                          /\ q.snapshot = w'.created.snapshot
  <1>2. /\ BufferFields \subseteq DOMAIN r
        /\ w.created # NoHandle /\ r.pc \notin {"none", "refused"} =>
             /\ r.linktype = w.created.linktype
             /\ r.linktype_ext = w.created.ext
             /\ r.snapshot = w.created.snapshot
    BY DEF HeaderInv, HeaderAgrees
  <1>3. DumpFields \subseteq DOMAIN w
    BY Zenon DEF WriteInv, WriterOK
  <1>4. ASSUME r' = r, r.pc = "none" \/ w'.created = w.created PROVE Goal
    BY <1>1, <1>2, <1>4, Zenon
  <1>5. ASSUME NEW h, DumpOpen(h) \/ DumpOpenAppend(h) PROVE Goal
    BY <1>4, <1>5, Zenon DEF DumpOpen, DumpOpenAppend, MayOpen
  <1>6. ASSUME NEW f, Find(f) PROVE Goal
    BY <1>4, <1>6, Zenon DEF Find
  <1>7. ASSUME NEW pkt, Dump(pkt) PROVE Goal
    <2>1. w'.created = w.created
      BY <1>3, <1>7 DEF Dump, pcap_dump, DumpOnwards, DumpFields
    <2> QED
      BY <1>4, <1>7, <2>1, Zenon DEF Dump
  <1>8. ASSUME DumpFlush \/ DumpClose PROVE Goal
    <2>1. w'.created = w.created
      BY <1>3, <1>8 DEF DumpFlush, DumpClose, DumpFields
    <2> QED
      BY <1>4, <1>8, <2>1, Zenon DEF DumpFlush, DumpClose
  <1>9. ASSUME NEW room, FreeSpace(room) PROVE Goal
    <2>1. w'.created = w.created
      BY <1>3, <1>9 DEF FreeSpace, DumpFields
    <2> QED
      BY <1>4, <1>9, <2>1, Zenon DEF FreeSpace
  <1>10. ASSUME Waits \/ NextPacket PROVE Goal
    <2>1. SameHandle(r, q) /\ BufferFields \subseteq DOMAIN q /\ r.pc \notin {"none", "refused"}
      <3>1. CASE Waits
        BY <1>1, <1>2, <3>1, WaitsSame, Zenon DEF SameBuffer
      <3>2. CASE NextPacket
        <4>1. SameHandle(r, q) /\ BufferFields \subseteq DOMAIN q /\ r.pc = "next"
          BY <1>1, <1>2, <3>2, NextPacketSame, Zenon
        <4> QED
          BY <4>1
      <3> QED
        BY <1>10, <3>1, <3>2, Zenon
    <2>2. w' = w
      BY <1>10, Zenon DEF Waits, Call, pcap_breakloop, NextPacketNoMemory, LoopTop,
                          NextPacketEnd, NextPacketInsane, NextPacket, Callback
    <2> QED
      BY <1>2, <2>1, <2>2, Zenon DEF SameHandle
  <1>11. ASSUME NEW nano, OpenOffline(nano) PROVE Goal
    <2>1. PICK swapped : swapped = (Len(disk.file) > 0 /\ disk.file[1] \notin Magics)
      OBVIOUS
    <2>2. PICK hdr : hdr = [i \in 1 .. HdrLen |-> IF swapped THEN Swap(disk.file[i])
                                                  ELSE disk.file[i]]
      OBVIOUS
    <2>3. \/ q = [r EXCEPT !.pc = "refused"]
          \/ Len(disk.file) >= HdrLen /\ q = pcap_check_header(nano, hdr, swapped)
      BY <1>1, <1>11, <2>1, <2>2 DEF OpenOffline
    <2>4. w' = w
      BY <1>11, Zenon DEF OpenOffline
    <2>5. CASE q = [r EXCEPT !.pc = "refused"]
      BY <1>2, <2>5 DEF BufferFields, HandleFields
    <2>6. CASE Len(disk.file) >= HdrLen /\ q = pcap_check_header(nano, hdr, swapped)
      <3>1. BufferFields \subseteq DOMAIN q
        BY <2>6 DEF pcap_check_header, Fresh, BufferFields, HandleFields
      <3>2. Len(disk.file) \in Nat
        BY DEF WriteInv, WriterOK, Tidy, Disks
      <3>3. swapped = (disk.file[1] \notin Magics)
        BY <2>1, <2>6, <3>2 DEF HdrLen
      <3>4. w.created # NoHandle =>
              /\ q.linktype = w.created.linktype /\ q.linktype_ext = w.created.ext
              /\ q.snapshot = w.created.snapshot
        BY <2>2, <2>6, <3>3, HeaderRead, Zenon
      <3> QED
        BY <2>4, <3>1, <3>4, Zenon
    <2> QED
      BY <2>3, <2>5, <2>6, Zenon
  <1>12. ASSUME UNCHANGED vars PROVE Goal
    BY <1>4, <1>12, Zenon DEF vars
  <1>13. Goal
    BY <1>5, <1>6, <1>7, <1>8, <1>9, <1>10, <1>11, <1>12, Zenon DEF Next, Read, Waits
  <1> QED
    BY <1>1, <1>13, Zenon DEF HeaderInv, HeaderAgrees

\* What pcap_dump_open wrote is known again, by a reader, who finds the type, the
\* extension and the snapshot length of the handle it was made with, and by
\* pcap_dump_open_append, which refuses it only when its header is not all there:
\* for any plain handles and packets, any files found, and however the disk fills
\* up (pcap_setup_dump, pcap_dump_open_append, pcap_check_header).
THEOREM KnownAgain ==
    ASSUME PlainHandles
    PROVE  Spec => []FileRecognised
  <1>1. Init => WriteInv /\ HeaderInv
    <2> SUFFICES ASSUME Init PROVE WriteInv /\ HeaderInv
      BY Zenon
    <2>1. HeaderInv
      BY DEF Init, Fresh, HeaderInv, HeaderAgrees, BufferFields, HandleFields
    <2>2. PICK room \in Rooms :
             disk = [file |-> <<>>, buf |-> <<>>, room |-> room, ferror |-> FALSE]
      BY Zenon DEF Init
    <2>3. room \in Nat /\ <<>> \in Seq(Nat) /\ disk.buf = <<>>
      BY <2>2, SavefileAssumption
    <2>4. disk \in Disks
      BY <2>2, <2>3 DEF Disks
    <2>5. /\ DumpFields \subseteq DOMAIN w /\ w.open = FALSE /\ w.opens = 0
          /\ w.refused = FALSE /\ w.created = NoHandle
      BY DEF Init, DumpFields
    <2>6. 0 \in Nat
      OBVIOUS
    <2>7. WriteInv
      BY <2>3, <2>4, <2>5, <2>6, Zenon DEF WriteInv, WriterOK, Tidy
    <2> QED
      BY <2>1, <2>7, Zenon
  <1>2. CallInv /\ WriteInv /\ HeaderInv /\ [Next]_vars => WriteInv' /\ HeaderInv'
    BY WriteStep, HeaderStep, Zenon
  <1>3. WriteInv /\ HeaderInv => FileRecognised
    BY Zenon DEF WriteInv, WriterOK, HeaderInv, FileRecognised, AppendAccepted
  <1> QED
    BY <1>1, <1>2, <1>3, CallInvariant, PTL DEF Spec

-----------------------------------------------------------------------------
(* A packet fits the snapshot length and the buffer.                         *)

\* A handle's type has a number in files that is a word's, or none.
LEMMA InFile ==
    ASSUME NEW platform \in Platforms, NEW dlt
    PROVE  dlt_to_linktype(platform, dlt) \in Nat \cup {-1}
  <1>1. \A name \in DOMAIN LINKTYPE : LINKTYPE[name] \in Nat
    BY DEF LINKTYPE
  <1>2. Tested \subseteq DOMAIN LINKTYPE /\ "PFSYNC" \in DOMAIN LINKTYPE /\ "PKTAP" \in DOMAIN LINKTYPE
    BY DEF Tested, LINKTYPE
  <1>3. dlt \in LowMatching \cup HighMatching \cup Itself => dlt \in Nat
    BY DEF LowMatching, HighMatching, Itself
  <1>4. Named(DLT(platform), dlt) => NameOf(DLT(platform), dlt) \in Tested
    BY Zenon DEF Named, NameOf
  <1>5. -1 \in Nat \cup {-1}
    OBVIOUS
  <1> QED
    BY <1>1, <1>2, <1>3, <1>4, <1>5 DEF dlt_to_linktype

\* pcap_setup_dump leaves a disk.
LEMMA SetupDisk ==
    ASSUME disk \in Disks, NEW h \in Handles, NEW lt \in Nat,
           SetupDump(Opened(disk, <<>>), h, lt)
    PROVE  disk' \in Disks
  <1>1. PICK o \in Fwrite(Opened(disk, <<>>), Header(h, lt)) :
           disk' = [o.d EXCEPT !.ferror = FALSE]
    BY Zenon DEF SetupDump
  <1>2. h.snapshot \in Nat
    BY SavefileAssumption
  <1>3. Header(h, lt) \in Seq(Nat)
    BY <1>2 DEF Header, NSEC_TCPDUMP_MAGIC, TCPDUMP_MAGIC
  <1>4. o.d \in Disks
    BY <1>3, ClearedIsDisk, FwriteStream, Zenon
  <1> QED
    BY <1>1, <1>4 DEF Disks

\* Every step leaves a disk: whole numbers are written.
LEMMA DiskStep ==
    ASSUME disk \in Disks, [Next]_vars
    PROVE  disk' \in Disks
  <1>1. ASSUME NEW f \in Found, Find(f) PROVE disk' \in Disks
    <2>1. f.words \in Seq(Nat)
      BY SavefileAssumption, Zenon
    <2> QED
      BY <1>1, <2>1 DEF Find, Disks
  <1>2. ASSUME NEW h \in Handles, DumpOpen(h) \/ DumpOpenAppend(h) PROVE disk' \in Disks
    <2>1. PICK lt : lt = dlt_to_linktype(Platform, h.linktype)
      OBVIOUS
    <2>2. lt # -1 => lt \in Nat
      BY <2>1, InFile, SavefileAssumption
    <2>3. h.ext \in Nat /\ Octet \in Nat
      BY SavefileAssumption
    <2>4. lt # -1 => LinktypeWord(lt, h.ext) \in Nat
      BY <2>2, <2>3 DEF LinktypeWord
    <2>5. \/ UNCHANGED disk
          \/ lt # -1 /\ SetupDump(Opened(disk, <<>>), h, LinktypeWord(lt, h.ext))
          \/ lt # -1 /\ SetupDump(Opened(disk, <<>>), h, lt)
          \/ disk' = Opened(disk, disk.file)
      BY <1>2, <2>1, Zenon DEF DumpOpen, DumpOpenAppend
    <2>6. Opened(disk, disk.file) \in Disks
      <3>1. disk.file \in Seq(Nat)
        BY Zenon DEF Disks
      <3> QED
        BY <3>1, OpenedIsDisk, Zenon
    <2> QED
      BY <2>2, <2>4, <2>5, <2>6, SetupDisk, Zenon
  <1>3. ASSUME NEW pkt \in Packets, Dump(pkt) PROVE disk' \in Disks
    <2>1. Record(pkt) \in Seq(Nat) /\ pkt.data \in Seq(Nat)
      BY SavefileAssumption DEF Record
    <2>2. CASE UNCHANGED disk
      BY <2>2, Zenon
    <2>3. CASE DumpOnwards(pkt)
      <3>1. PICK o \in Fwrite(disk, Record(pkt)) :
              \E q \in (IF o.ok THEN Fwrite(o.d, pkt.data) ELSE {o}) : disk' = q.d
        BY <2>3, Zenon DEF DumpOnwards
      <3>2. o.d \in Disks /\ o.ok \in BOOLEAN
        BY <2>1, FwriteStream, Zenon
      <3>3. PICK q : /\ q \in Fwrite(o.d, pkt.data) \/ q = o
                     /\ disk' = q.d
        BY <3>1, <3>2, Zenon
      <3>4. CASE q = o
        BY <3>2, <3>3, <3>4, Zenon
      <3>5. CASE q \in Fwrite(o.d, pkt.data)
        <4>1. q.d \in Disks
          BY <2>1, <3>2, <3>5, FwriteStream, Zenon
        <4> QED
          BY <3>3, <4>1, Zenon
      <3> QED
        BY <3>3, <3>4, <3>5, Zenon
    <2> QED
      BY <1>3, <2>2, <2>3, Zenon DEF Dump, pcap_dump
  <1>4. ASSUME DumpFlush \/ DumpClose PROVE disk' \in Disks
    <2>1. PICK o \in Fflush(disk) : disk' = o.d \/ disk' = [o.d EXCEPT !.ferror = FALSE]
      BY <1>4, Zenon DEF DumpFlush, DumpClose
    <2>2. o \in Fwrite(disk, <<>>)
      BY Zenon DEF Fflush
    <2>3. <<>> \in Seq(Nat)
      OBVIOUS
    <2>4. o.d \in Disks
      BY <2>2, <2>3, FwriteStream, Zenon
    <2> QED
      BY <2>1, <2>4 DEF Disks
  <1>5. ASSUME NEW room \in Rooms, FreeSpace(room) PROVE disk' \in Disks
    <2>1. room \in Nat
      BY SavefileAssumption, Zenon
    <2>2. disk' = [disk EXCEPT !.room = @ + room]
      BY <1>5, Zenon DEF FreeSpace
    <2> QED
      BY <2>1, <2>2 DEF Disks
  <1>6. ASSUME \/ \E nano \in BOOLEAN : OpenOffline(nano)
               \/ \E op, cnt : Call(op, cnt)
               \/ pcap_breakloop \/ NextPacketNoMemory \/ Read \/ UNCHANGED vars
        PROVE  disk' \in Disks
    BY <1>6, Zenon DEF OpenOffline, Call, pcap_breakloop, NextPacketNoMemory, Read, LoopTop,
                       NextPacketEnd, NextPacketInsane, NextPacket, Callback, vars
  <1> QED
    BY <1>1, <1>2, <1>3, <1>4, <1>5, <1>6, Zenon DEF Next

\* A packet the callback may be given.
Given == [frac : Int, len : Int, data : Seq(Nat)]

\* The buffer of a reader, and the packet that was read into it.
BufferOK(q) ==
    /\ BufferFields \subseteq DOMAIN q
    /\ q.ng = FALSE
    /\ q.pc \notin {"none", "refused"} =>
          /\ q.snapshot \in 1..IntMax
          /\ q.hdrsize \in {3, 5} /\ q.pos \in Nat /\ q.bufsize \in Nat /\ q.fill \in Nat
          /\ q.fill <= q.bufsize /\ q.bufsize <= q.snapshot
          /\ q.h \in Given /\ Len(q.h.data) <= q.snapshot

\* The packets that were given.
GivenOK(s, q) ==
    /\ s \in Seq(Given)
    /\ q.pc \in {"none", "refused"} => s = <<>>
    /\ \A i \in DOMAIN s : Len(s[i].data) <= q.snapshot

FitInv == disk \in Disks /\ BufferOK(r) /\ GivenOK(out, r)

\* A word of the other byte order is a word.
LEMMA SwapIsWord ==
    ASSUME NEW v \in Nat
    PROVE  Swap(v) \in Nat
  <1>1. Octet \in Nat /\ Octet > 0
    BY SavefileAssumption
  <1>2. v % Octet \in Nat /\ v \div Octet \in Nat
    BY <1>1
  <1>3. (v % Octet) * Octet \in Nat
    BY <1>1, <1>2
  <1> QED
    BY <1>2, <1>3 DEF Swap

\* pcapint_adjust_snapshot and the room for a made-up header leave a positive int.
LEMMA SnapshotRange ==
    ASSUME NEW magic, NEW linktype, NEW snaplen \in Nat
    PROVE  Snapshot(magic, linktype, snaplen) \in 1..IntMax
  <1>1. /\ IntMax \in Nat /\ Maximum \in 1..IntMax /\ FakeHeader \in 0..IntMax
    BY SavefileAssumption
  <1>2. PICK a : a = pcapint_adjust_snapshot(snaplen)
    OBVIOUS
  <1>3. a \in 1..IntMax
    BY <1>1, <1>2 DEF pcapint_adjust_snapshot
  <1> QED
    BY <1>1, <1>2, <1>3 DEF Snapshot

\* There is a power of 2 to round a length up to.
LEMMA PowerFound ==
    ASSUME NEW n \in Nat, 1 <= n, n <= LargestPower
    PROVE  \E p \in PowerOf2 : p >= n /\ p < 2 * n
  <1>1. CASE n <= 32768
    <2>1. \E p \in {1, 2, 4, 8, 16, 32, 64, 128, 256, 512, 1024, 2048, 4096, 8192, 16384,
                     32768} : p >= n /\ p < 2 * n
      BY <1>1, SMT
    <2> QED
      BY <2>1, SMT DEF PowerOf2
  <1>2. CASE n > 32768
    <2>1. \E p \in {65536, 131072, 262144, 524288, 1048576, 2097152, 4194304, 8388608,
                     16777216, 33554432, 67108864, LargestPower} : p >= n /\ p < 2 * n
      BY <1>2, SMT DEF LargestPower
    <2> QED
      BY <2>1, SMT DEF PowerOf2
  <1> QED
    BY <1>1, <1>2, SMT DEF LargestPower

\* grow_buffer: no more than the snapshot length, and enough for what is kept.
LEMMA GrownFits ==
    ASSUME r.snapshot \in 1..IntMax, NEW caplen \in 1..Maximum, NEW z, z = Grown(caplen)
    PROVE  z \in Nat /\ z <= r.snapshot /\ (z >= caplen \/ z = r.snapshot)
  <1>1. r.snapshot \in Nat /\ caplen \in Nat /\ 1 <= caplen /\ caplen <= LargestPower
    <2>1. Maximum \in Nat /\ Maximum <= LargestPower /\ IntMax \in Nat
      BY SavefileAssumption, Zenon
    <2>2. LargestPower \in Nat
      BY SMT DEF LargestPower
    <2> QED
      BY <2>1, <2>2
  <1>2. CASE caplen > r.snapshot
    BY <1>1, <1>2 DEF Grown
  <1>3. CASE ~(caplen > r.snapshot)
    <2>1. PICK p : p = CHOOSE k \in PowerOf2 : k >= caplen /\ k < 2 * caplen
      OBVIOUS
    <2>2. p \in PowerOf2 /\ p >= caplen
      BY <1>1, <2>1, PowerFound, Zenon
    <2>3. p \in Nat
      BY <2>2, SMT DEF PowerOf2, LargestPower
    <2>4. z = Least(p, r.snapshot)
      BY <1>3, <2>1, Zenon DEF Grown
    <2> QED
      BY <1>1, <2>2, <2>3, <2>4 DEF Least
  <1> QED
    BY <1>2, <1>3, Zenon

\* A place within a record's header, and what follows the header.
LEMMA Within ==
    \A pos, size, len \in Nat : pos + size <= len =>
        /\ size >= 3 => \A i \in 1..3 : pos + i \in 1..len
        /\ pos + size \in Nat /\ (len - pos) - size = len - (pos + size)
  OBVIOUS

\* The header of a record, if there is all of one.
LEMMA RecordWords ==
    ASSUME disk \in Disks, BufferOK(r), r.pc = "next", Left >= r.hdrsize
    PROVE  /\ RecordHeader.frac \in Int /\ RecordHeader.len \in Int
           /\ RecordHeader.caplen \in Nat
           /\ r.pos + r.hdrsize <= Len(disk.file) /\ Left = Len(disk.file) - r.pos
  <1>1. /\ r.pos \in Nat /\ r.hdrsize \in {3, 5} /\ disk.file \in Seq(Nat)
        /\ Len(disk.file) \in Nat
    BY DEF BufferOK, Disks
  <1>2. Left = Len(disk.file) - r.pos /\ r.pos + r.hdrsize <= Len(disk.file)
    <2>1. Left # 0
      BY <1>1
    <2> QED
      BY <1>1, <2>1 DEF Left
  <1> DEFINE Field(i) == IF r.swapped THEN Swap(disk.file[r.pos + i]) ELSE disk.file[r.pos + i]
  <1>3. ASSUME NEW i \in 1..3 PROVE Field(i) \in Nat
    <2>1. r.pos + i \in 1..Len(disk.file)
      <3>1. r.hdrsize \in Nat /\ r.hdrsize >= 3
        BY <1>1
      <3> QED
        BY <1>1, <1>2, <3>1, Within, Zenon
    <2>2. disk.file[r.pos + i] \in Nat
      BY <1>1, <2>1
    <2> QED
      BY <2>2, SwapIsWord
  <1>4. PICK f1, f2, f3 : f1 = Field(1) /\ f2 = Field(2) /\ f3 = Field(3)
    OBVIOUS
  <1>5. f1 \in Nat /\ f2 \in Nat /\ f3 \in Nat
    BY <1>3, <1>4
  <1>6. Scale \in Nat /\ Scale > 0
    BY SavefileAssumption
  <1>7. f1 * Scale \in Int /\ f1 \div Scale \in Int
    BY <1>5, <1>6
  <1>8. /\ RecordHeader.frac \in {f1 * Scale, f1 \div Scale, f1}
        /\ RecordHeader.caplen \in {f2, f3} /\ RecordHeader.len \in {f2, f3}
    BY <1>4 DEF RecordHeader
  <1> QED
    BY <1>2, <1>5, <1>7, <1>8

\* What pcap_next_packet reads fits the buffer it has grown.
LEMMA ReadFits ==
    ASSUME FitInv, NextPacket, NEW q, q = r'
    PROVE  BufferOK(q)
  <1>1. BufferOK(r) /\ disk \in Disks
    BY Zenon DEF FitInv
  <1>2. SameHandle(r, q) /\ BufferFields \subseteq DOMAIN q /\ q.pc \in {"error", "callback"}
    <2>1. BufferFields \subseteq DOMAIN r
      BY <1>1, Zenon DEF BufferOK
    <2> QED
      BY <2>1, NextPacketSame, Zenon
  <1>3. r.pc = "next" /\ Left >= r.hdrsize /\ RecordHeader.caplen <= Maximum
    BY Zenon DEF NextPacket
  <1>4. /\ RecordHeader.frac \in Int /\ RecordHeader.len \in Int
        /\ RecordHeader.caplen \in Nat
        /\ r.pos + r.hdrsize <= Len(disk.file) /\ Left = Len(disk.file) - r.pos
    BY <1>1, <1>3, RecordWords, Zenon
  <1>5. /\ r.snapshot \in 1..IntMax /\ r.hdrsize \in {3, 5} /\ r.pos \in Nat
        /\ r.bufsize \in Nat /\ r.bufsize <= r.snapshot /\ r.fill \in Nat
        /\ r.h \in Given /\ Len(r.h.data) <= r.snapshot /\ r.ng = FALSE
    BY <1>1, <1>3 DEF BufferOK
  <1>6. r.snapshot \in Nat /\ IntMax \in Nat /\ Maximum \in Nat
    BY <1>5, SavefileAssumption
  <1>7. PICK caplen : caplen = RecordHeader.caplen
    OBVIOUS
  <1>8. PICK start : start = r.pos + r.hdrsize
    OBVIOUS
  <1>9. PICK have : have = Least(caplen, Left - r.hdrsize)
    OBVIOUS
  <1>10. PICK kept : kept = Least(have, r.snapshot)
    OBVIOUS
  <1>11. PICK bufsize : bufsize = IF caplen > r.bufsize THEN Grown(caplen) ELSE r.bufsize
    OBVIOUS
  <1>12. PICK data : data = SubSeq(disk.file, start + 1, start + kept)
    OBVIOUS
  <1>13. PICK h : h = [frac |-> RecordHeader.frac, len |-> RecordHeader.len, data |-> data]
    OBVIOUS
  <1>14. PICK p : p = [r EXCEPT !.bufsize = bufsize, !.pos = start + have, !.fill = kept,
                                !.feof = have < caplen]
    OBVIOUS
  <1>15. q = Failed(p) \/ q = [p EXCEPT !.pc = "callback", !.h = h]
    BY <1>7, <1>8, <1>9, <1>10, <1>11, <1>12, <1>13, <1>14 DEF NextPacket
  <1>16. /\ start \in Nat /\ have \in Nat /\ have <= caplen /\ kept \in Nat /\ kept <= have
         /\ kept <= r.snapshot /\ start + have <= Len(disk.file) /\ Len(disk.file) \in Nat
    <2>1. Len(disk.file) \in Nat /\ r.hdrsize \in Nat
      BY <1>1, <1>5 DEF Disks
    <2>2. PICK len \in Nat : len = Len(disk.file)
      BY <2>1, Zenon
    <2>3. start \in Nat /\ start <= len /\ Left - r.hdrsize = len - start
      <3>1. r.pos + r.hdrsize <= len /\ Left = len - r.pos /\ r.pos \in Nat
        BY <1>4, <1>5, <2>2, Zenon
      <3>2. /\ r.pos + r.hdrsize \in Nat
            /\ (len - r.pos) - r.hdrsize = len - (r.pos + r.hdrsize)
        BY <2>1, <3>1, Within, Zenon
      <3> QED
        BY <1>8, <3>1, <3>2, Zenon
    <2>4. have = Least(caplen, len - start) /\ caplen \in Nat
      BY <1>4, <1>7, <1>9, <2>3, Zenon
    <2>5. have \in Nat /\ have <= caplen /\ start + have <= len
      BY <2>3, <2>4 DEF Least
    <2>6. kept \in Nat /\ kept <= have /\ kept <= r.snapshot
      BY <1>6, <1>10, <2>5 DEF Least
    <2> QED
      BY <2>1, <2>2, <2>3, <2>5, <2>6, Zenon
  <1>17. bufsize \in Nat /\ bufsize <= r.snapshot /\ kept <= bufsize
    <2>1. CASE caplen > r.bufsize
      <3>1. caplen \in 1..Maximum
        BY <1>3, <1>4, <1>5, <1>6, <1>7, <2>1
      <3>2. bufsize = Grown(caplen)
        BY <1>11, <2>1, Zenon
      <3>3. bufsize \in Nat /\ bufsize <= r.snapshot /\ (bufsize >= caplen \/ bufsize = r.snapshot)
        BY <1>5, <3>1, <3>2, GrownFits, Zenon
      <3> QED
        BY <1>4, <1>6, <1>7, <1>16, <3>3
    <2>2. CASE ~(caplen > r.bufsize)
      <3>1. bufsize = r.bufsize
        BY <1>11, <2>2, Zenon
      <3> QED
        BY <1>4, <1>5, <1>6, <1>7, <1>16, <2>2, <3>1
    <2> QED
      BY <2>1, <2>2, Zenon
  <1>18. data \in Seq(Nat) /\ Len(data) = kept
    <2>1. disk.file \in Seq(Nat)
      BY <1>1, Zenon DEF Disks
    <2>2. start + 1 \in Nat /\ 1 <= start + 1 /\ start + kept <= Len(disk.file) /\ start + kept \in Nat
      BY <1>16
    <2>3. Len(data) = kept
      BY <1>12, <1>16, <2>1, <2>2, SubSeqProperties
    <2> QED
      BY <1>12, <1>16, <2>1, <2>2, <2>3, SubSeqProperties
  <1>19. h \in Given /\ h.data = data
    BY <1>4, <1>13, <1>18 DEF Given
  <1>20. BufferFields \subseteq DOMAIN r
    BY <1>1, Zenon DEF BufferOK
  <1>21. /\ q.bufsize = bufsize /\ q.pos = start + have /\ q.fill = kept
         /\ q.h = r.h \/ q.h = h
    BY <1>14, <1>15, <1>20 DEF Failed, BufferFields, HandleFields
  <1>22. q.snapshot = r.snapshot /\ q.ng = FALSE /\ q.hdrsize = r.hdrsize
    BY <1>2, <1>5, Zenon DEF SameHandle
  <1>23. q.h \in Given /\ Len(q.h.data) <= r.snapshot
    BY <1>5, <1>16, <1>18, <1>19, <1>21, Zenon
  <1>24. q.pos \in Nat /\ q.bufsize \in Nat /\ q.fill \in Nat
    BY <1>16, <1>17, <1>21
  <1> QED
    BY <1>2, <1>5, <1>16, <1>17, <1>21, <1>22, <1>23, <1>24, Zenon DEF BufferOK

\* So does what pcap_check_header starts with.
LEMMA StartFits ==
    ASSUME FitInv, NEW nano, OpenOffline(nano), NEW q, q = r'
    PROVE  BufferOK(q)
  <1>1. BufferOK(r) /\ disk.file \in Seq(Nat)
    BY Zenon DEF FitInv, Disks
  <1>2. PICK swapped : swapped = (Len(disk.file) > 0 /\ disk.file[1] \notin Magics)
    OBVIOUS
  <1>3. PICK hdr : hdr = [i \in 1 .. HdrLen |-> IF swapped THEN Swap(disk.file[i])
                                                ELSE disk.file[i]]
    OBVIOUS
  <1>4. \/ q = [r EXCEPT !.pc = "refused"]
        \/ Len(disk.file) >= HdrLen /\ q = pcap_check_header(nano, hdr, swapped)
    BY <1>2, <1>3 DEF OpenOffline
  <1>5. CASE q = [r EXCEPT !.pc = "refused"]
    <2>1. /\ BufferFields \subseteq DOMAIN q /\ q.pc = "refused" /\ q.ng = r.ng
      BY <1>1, <1>5 DEF BufferOK, BufferFields, HandleFields
    <2> QED
      BY <1>1, <2>1 DEF BufferOK
  <1>6. CASE Len(disk.file) >= HdrLen /\ q = pcap_check_header(nano, hdr, swapped)
    <2>1. 4 \in 1..HdrLen /\ 4 \in 1..Len(disk.file)
      BY <1>1, <1>6 DEF HdrLen
    <2>2. disk.file[4] \in Nat
      BY <1>1, <2>1
    <2>3. hdr[4] \in Nat
      <3>1. hdr[4] = IF swapped THEN Swap(disk.file[4]) ELSE disk.file[4]
        BY <1>3, <2>1, Zenon
      <3>2. Swap(disk.file[4]) \in Nat
        BY <2>2, SwapIsWord, Zenon
      <3> QED
        BY <2>2, <3>1, <3>2, Zenon
    <2>4. PICK linktype : linktype = linktype_to_dlt(Platform, LT_LINKTYPE(hdr[5]))
      OBVIOUS
    <2>5. PICK snapshot : snapshot = Snapshot(hdr[1], linktype, hdr[4])
      OBVIOUS
    <2>6. snapshot \in 1..IntMax
      BY <2>3, <2>5, SnapshotRange, Zenon
    <2>7. /\ BufferFields \subseteq DOMAIN q /\ q.snapshot = snapshot /\ q.ng = FALSE
          /\ q.hdrsize \in {3, 5} /\ q.pos = HdrLen /\ q.fill = 0 /\ q.h = NoPacket
          /\ q.bufsize = Least(snapshot, FirstBuffer)
      <3>1. BufferFields \subseteq DOMAIN q
        BY <1>6 DEF pcap_check_header, Fresh, BufferFields, HandleFields
      <3>2. q.snapshot = snapshot /\ q.bufsize = Least(snapshot, FirstBuffer)
        BY <1>6, <2>4, <2>5 DEF pcap_check_header, Fresh
      <3>3. /\ q.ng = FALSE /\ q.hdrsize \in {3, 5} /\ q.pos = HdrLen /\ q.fill = 0
            /\ q.h = NoPacket
        BY <1>6 DEF pcap_check_header, Fresh
      <3> QED
        BY <3>1, <3>2, <3>3, Zenon
    <2>8. /\ q.bufsize \in Nat /\ q.fill <= q.bufsize /\ q.bufsize <= q.snapshot
          /\ q.pos \in Nat /\ q.fill \in Nat /\ 0 <= q.snapshot
      <3>1. IntMax \in Nat /\ FirstBuffer \in Nat
        BY SavefileAssumption
      <3> QED
        BY <2>6, <2>7, <3>1 DEF Least, HdrLen
    <2>9. q.h \in Given /\ Len(q.h.data) = 0
      BY <2>7 DEF NoPacket, Given
    <2> QED
      BY <2>6, <2>7, <2>8, <2>9, Zenon DEF BufferOK
  <1> QED
    BY <1>4, <1>5, <1>6, Zenon

\* Every step keeps what was read within the buffer and the snapshot length.
LEMMA FitStep ==
    ASSUME CallInv, FitInv, [Next]_vars
    PROVE  FitInv'
  <1>1. disk' \in Disks
    BY DiskStep, Zenon DEF FitInv
  <1>2. PICK q : q = r'
    OBVIOUS
  <1>3. BufferOK(r) /\ GivenOK(out, r) /\ BufferFields \subseteq DOMAIN r
    BY Zenon DEF FitInv, BufferOK
  <1> DEFINE Goal == BufferOK(q) /\ GivenOK(out', q)
  <1>4. ASSUME UNCHANGED <<r, out>> PROVE Goal
    BY <1>2, <1>3, <1>4, Zenon
  <1>5. ASSUME \/ \E f \in Found : Find(f)
               \/ \E h \in Handles : DumpOpen(h) \/ DumpOpenAppend(h)
               \/ \E pkt \in Packets : Dump(pkt)
               \/ DumpFlush \/ DumpClose
               \/ \E room \in Rooms : FreeSpace(room)
               \/ UNCHANGED vars
        PROVE  Goal
    <2>1. UNCHANGED <<r, out>>
      BY <1>5, Zenon DEF Find, DumpOpen, DumpOpenAppend, Dump, DumpFlush, DumpClose, FreeSpace, vars
    <2> QED
      BY <1>4, <2>1, Zenon
  <1>6. ASSUME NEW nano \in BOOLEAN, OpenOffline(nano) PROVE Goal
    <2>1. BufferOK(q)
      BY <1>2, <1>6, StartFits, Zenon
    <2>2. out' = out /\ r.pc = "none"
      BY <1>6, Zenon DEF OpenOffline
    <2>3. out = <<>>
      BY <1>3, <2>2 DEF GivenOK
    <2>4. out \in Seq(Given) /\ DOMAIN out = {}
      BY <2>3
    <2> QED
      BY <2>1, <2>2, <2>3, <2>4, Zenon DEF GivenOK
  <1>7. ASSUME NextPacket PROVE Goal
    <2>1. BufferOK(q)
      BY <1>2, <1>7, ReadFits, Zenon
    <2>2. SameHandle(r, q) /\ q.pc \in {"error", "callback"}
      BY <1>2, <1>3, <1>7, NextPacketSame, Zenon
    <2>3. q.pc \notin {"none", "refused"} /\ q.snapshot = r.snapshot
      BY <2>2 DEF SameHandle
    <2>4. out' = out
      BY <1>7, Zenon DEF NextPacket
    <2> QED
      BY <1>3, <2>1, <2>3, <2>4, Zenon DEF GivenOK
  <1>8. ASSUME Waits PROVE Goal
    <2>1. /\ SameBuffer(r, q)
          /\ r.pc \notin {"none", "refused"} /\ q.pc \notin {"none", "refused"}
          /\ q.pos \in {r.pos, Len(disk.file), r.pos + r.hdrsize}
      BY <1>2, <1>3, <1>8, WaitsSame, Zenon
    <2>2. /\ r.snapshot \in 1..IntMax
          /\ r.hdrsize \in {3, 5} /\ r.pos \in Nat /\ r.bufsize \in Nat /\ r.fill \in Nat
          /\ r.fill <= r.bufsize /\ r.bufsize <= r.snapshot
          /\ r.h \in Given /\ Len(r.h.data) <= r.snapshot /\ r.ng = FALSE
      BY <1>3, <2>1, Zenon DEF BufferOK
    <2>3. q.pos \in Nat
      <3>1. Len(disk.file) \in Nat /\ r.hdrsize \in Nat
        BY <2>2 DEF FitInv, Disks
      <3>2. r.pos + r.hdrsize \in Nat
        BY <2>2, <3>1
      <3> QED
        BY <2>1, <2>2, <3>1, <3>2, Zenon
    <2>4. BufferOK(q)
      BY <2>1, <2>2, <2>3, Zenon DEF BufferOK, SameBuffer, SameHandle
    <2>5. q.snapshot = r.snapshot
      BY <2>1, Zenon DEF SameBuffer, SameHandle
    <2>6. out' = out \/ out' = Append(out, r.h)
      BY <1>8, Zenon DEF Waits, Call, pcap_breakloop, NextPacketNoMemory, LoopTop,
                         NextPacketEnd, NextPacketInsane, Callback
    <2>7. CASE out' = out
      BY <1>3, <2>1, <2>4, <2>5, <2>7, Zenon DEF GivenOK
    <2>8. CASE out' = Append(out, r.h)
      <3>1. PICK s : s = out'
        OBVIOUS
      <3>2. out \in Seq(Given) /\ (\A i \in DOMAIN out : Len(out[i].data) <= r.snapshot)
        BY <1>3, Zenon DEF GivenOK
      <3>3. /\ s \in Seq(Given) /\ DOMAIN s = 1..(Len(out) + 1) /\ DOMAIN out = 1..Len(out)
            /\ \A i \in DOMAIN s : s[i] = IF i = Len(out) + 1 THEN r.h ELSE out[i]
        BY <2>2, <2>8, <3>1, <3>2, AppendProperties
      <3>4. ASSUME NEW i \in DOMAIN s PROVE Len(s[i].data) <= q.snapshot
        <4>1. CASE i = Len(out) + 1
          BY <2>2, <2>5, <3>3, <4>1, Zenon
        <4>2. CASE i # Len(out) + 1
          <5>1. Len(out) \in Nat
            BY <3>2
          <5>2. i \in DOMAIN out
            BY <3>3, <4>2, <5>1
          <5> QED
            BY <2>5, <3>2, <3>3, <4>2, <5>2, Zenon
        <4> QED
          BY <4>1, <4>2, Zenon
      <3>5. GivenOK(s, q)
        BY <2>1, <3>3, <3>4, Zenon DEF GivenOK
      <3> QED
        BY <2>4, <3>1, <3>5, Zenon
    <2> QED
      BY <2>6, <2>7, <2>8, Zenon
  <1>9. Goal
    BY <1>5, <1>6, <1>7, <1>8, Zenon DEF Next, Read, Waits
  <1> QED
    BY <1>1, <1>2, <1>9, Zenon DEF FitInv

\* "we don't want to hand our caller a packet bigger than the snapshot length": for
\* any contents of a pcap file, in either byte order, the snapshot length is a
\* positive int, every packet the callback is given fits it, and was read into a
\* buffer that holds it and is no larger (pcap_check_header, pcap_next_packet,
\* grow_buffer).
THEOREM PacketsFit == Spec => []HandsOverWhatFits
  <1>1. Init => FitInv
    <2> SUFFICES ASSUME Init PROVE FitInv
      BY Zenon
    <2>1. PICK room \in Rooms :
             disk = [file |-> <<>>, buf |-> <<>>, room |-> room, ferror |-> FALSE]
      BY Zenon DEF Init
    <2>2. room \in Nat /\ <<>> \in Seq(Nat)
      BY SavefileAssumption
    <2>3. disk \in Disks
      BY <2>1, <2>2 DEF Disks
    <2>4. r.pc = "none" /\ r.ng = FALSE /\ BufferFields \subseteq DOMAIN r
      BY DEF Init, Fresh, BufferFields, HandleFields
    <2>5. out = <<>>
      BY Zenon DEF Init
    <2>6. <<>> \in Seq(Given) /\ DOMAIN <<>> = {}
      OBVIOUS
    <2>7. BufferOK(r)
      BY <2>4 DEF BufferOK
    <2>8. GivenOK(out, r)
      BY <2>5, <2>6, Zenon DEF GivenOK
    <2> QED
      BY <2>3, <2>7, <2>8, Zenon DEF FitInv
  <1>2. FitInv => HandsOverWhatFits
    BY Zenon DEF FitInv, BufferOK, GivenOK, HandsOverWhatFits
  <1> QED
    BY <1>1, <1>2, FitStep, CallInvariant, PTL DEF Spec

=============================================================================
