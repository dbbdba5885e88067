--------------------------- MODULE SourcesProofs ----------------------------
(***************************************************************************)
(* Every read loop of module Sources, proved to implement the contract of  *)
(* ReadLoop for any number of packets, any filter, counts and bursts, and  *)
(* with failing system calls: first the loops that walk a buffer, then     *)
(* those that read a packet, or a batch of packets, at a time, and at the  *)
(* end the theorem for all of them.                                        *)
(*                                                                         *)
(* The invariant says, for each source and each place of its loop, up to   *)
(* which packet the source has come (UpTo): no packet beyond it was handed *)
(* over and none before it was left out.  The rest of the invariant is     *)
(* what the clauses on counts and breaks need.                             *)
(***************************************************************************)
EXTENDS Sources, TLAPS

Pcs == {"idle", "enter", "read", "wait", "packet", "handle", "counted", "shm",
        "select", "late", "rotate", "last", "end", "one", "data", "garbage",
        "flush", "poll", "posted", "again", "grab", "more"}

CallRec == [pc : Pcs, cnt : Nat, n : Nat, done : Nat, bp : Int, ep : Int,
            from : Int, aux : Nat, sig : BOOLEAN]

TypeOK ==
    /\ kind \in Kinds /\ match \subseteq Numbers
    /\ came \in Nat /\ taken \in Nat
    /\ hd \in [bp : Int, ep : Int, ev : BOOLEAN]
    /\ c \in CallRec
    /\ app \in [in : {"out", "dispatch", "loop"}, cnt : Nat]
    /\ handed \in Seq(Int) /\ brk \in BOOLEAN /\ over \in Nat /\ ret \in Int

CallInv ==
    /\ app.in = "out" => c.pc = "idle"
    /\ over > 0 => brk

-----------------------------------------------------------------------------
Binds(clause) == clause \notin Lax[kind]

\* Packet x was passed, and all before it; none after it was.
HandedUpTo(x) == \A i \in DOMAIN handed : handed[i] <= x
NoneLeft(x) == \A q \in match : q = 0 \/ q > x \/ \E i \in DOMAIN handed : handed[i] = q
UpTo(x) == (Binds("again") => HandedUpTo(x)) /\ (Binds("drops") => NoneLeft(x))

\* The sources with a loop over a buffer; those that drop it on a break.
LossyKinds == {"npf", "airpcap", "dlpi", "libdlpi"}
LoopKinds == LossyKinds \cup {"bpf", "zbpf", "netfilter"}
OneKinds == {"usb", "bt", "btmon", "haiku", "hurd", "dbus"}

\* The last packet the library has seen: with zero-copy buffers, of the one in
\* hand, or before the one to come.
Limit ==
    IF kind # "zbpf" THEN taken
    ELSE IF hd.ev THEN zb.pub[zb.cur][2]
    ELSE IF Published(NextBuffer(zb.cur)) THEN zb.pub[NextBuffer(zb.cur)][1]
    ELSE taken

Rest == IF Buffered THEN hd.bp ELSE Limit
InLoop == c.pc \in {"packet", "handle", "counted"}

LoopInv ==
    /\ c.n = c.done
    /\ c.pc \in {"packet", "handle"} => ~Reached
    /\ c.pc = "handle" => c.bp < c.ep /\ over = 0
    /\ ~InLoop /\ c.pc # "idle" => c.n = 0
    /\ Buffered => hd.ep = Limit
    /\ ~InLoop /\ c.pc \notin {"idle", "enter"} => ~Buffered
    /\ ~InLoop => UpTo(Rest)
    /\ InLoop => /\ c.bp <= c.ep
                 /\ c.bp < c.ep => c.ep = Limit
                 /\ UpTo(IF c.bp < c.ep THEN c.bp ELSE Limit)
                 /\ kind \in LossyKinds /\ c.n = 0 => UpTo(Rest)

\* The buffer the library has or takes next, and the other: the kernel fills
\* them in turn, without a gap.
Lead == IF hd.ev THEN zb.cur ELSE NextBuffer(zb.cur)

ZbufInv ==
    /\ zb \in [cur : {0, 1, 2}, pub : [{1, 2} -> Nat \X Nat], nxt : {1, 2}, intr : BOOLEAN]
    /\ taken <= came
    /\ hd.ev => zb.cur # 0 /\ Published(zb.cur)
    /\ Buffered \/ InLoop => hd.ev
    /\ c.pc \notin {"idle", "enter", "read"} /\ ~InLoop => ~hd.ev
    /\ \A i \in {1, 2} : Published(i) => zb.pub[i][1] < zb.pub[i][2]
    /\ IF Published(Lead)
       THEN IF Published(Other(Lead))
            THEN zb.pub[Other(Lead)] = <<zb.pub[Lead][2], taken>> /\ zb.nxt = Lead
            ELSE zb.pub[Lead][2] = taken /\ zb.nxt = Other(Lead)
       ELSE ~Published(Other(Lead)) /\ zb.nxt = Lead

WinDagInv ==
    /\ c.n = c.done
    /\ c.pc \in {"packet", "handle", "end"} => ~Reached
    /\ c.pc = "handle" => over = 0
    /\ c.pc \in {"enter", "read"} => c.n = 0

\* A window that the handle keeps: TurboCap and DAG.
WindowInv ==
    /\ c.n = c.done
    /\ c.pc \in {"packet", "handle"} => ~Reached
    /\ c.pc = "handle" => Buffered /\ over = 0
    /\ c.pc \in {"enter", "read"} => c.n = 0
    /\ hd.bp <= hd.ep
    /\ UpTo(Rest)
    /\ kind = "tc" => (c.pc = "read" => ~hd.ev) /\ (c.pc = "handle" => hd.ev)
    /\ kind = "tc" /\ ~hd.ev => ~Buffered
    /\ kind = "dag" => (c.pc = "read" => ~Buffered)
    /\ kind = "dag" /\ Limited /\ c.pc # "idle" => c.n <= c.cnt
    /\ Buffered => hd.ep = taken

Dlpi1Inv ==
    /\ c.n = c.done
    /\ c.pc \notin {"idle", "counted", "one"} => c.n = 0
    /\ Buffered => hd.bp = -1
    /\ c.pc = "packet" => \/ c.bp + 1 = taken /\ UpTo(c.bp)
                          \/ c.bp + 1 = 0 /\ UpTo(taken)
    /\ c.pc # "packet" => UpTo(taken)

OneInv ==
    /\ c.n = c.done
    /\ c.pc \notin {"idle", "one"} => c.n = 0
    /\ UpTo(IF c.pc = "handle" THEN taken - 1 ELSE taken)
    /\ c.pc = "handle" /\ Binds("slow") => over = 0
    /\ c.pc = "read" /\ kind \in {"haiku", "hurd"} => over = 0

SitaInv ==
    /\ c.n = c.done
    /\ c.pc \notin {"idle", "one"} => c.n = 0
    /\ c.pc \in {"data", "handle"} => ~hd.ev
    /\ ~hd.ev => UpTo(IF c.pc \in {"data", "handle"} THEN taken - 1 ELSE taken)

UsbMmapInv ==
    /\ c.n = c.done
    /\ c.pc \in {"enter", "read"} => ~Reached
    /\ c.pc = "handle" => c.bp <= c.ep /\ (Limited => c.n + (c.ep - c.bp) <= c.cnt)

NetmapInv ==
    /\ c.pc \in {"enter", "poll"} => c.done = 0
    /\ c.pc = "handle" =>
          /\ c.from <= c.bp /\ c.bp <= c.ep /\ c.ep = taken
          /\ c.done <= c.bp - c.from
          /\ Limited => c.ep - c.from <= c.cnt
    /\ UpTo(IF c.pc = "handle" THEN c.bp ELSE taken)

RdmaInv ==
    /\ c.n = c.done
    /\ over > 0 => c.pc = "posted"
    /\ UpTo(taken)

SnfInv ==
    /\ c.n = c.done
    /\ c.pc \in {"read", "handle"} => ~Reached /\ over = 0
    /\ UpTo(IF c.pc = "handle" THEN taken - 1 ELSE taken)

DpdkInv ==
    /\ c.pc = "handle" => c.from <= c.bp /\ c.bp <= c.ep /\ c.ep = taken
    /\ UpTo(IF c.pc = "handle" THEN c.bp ELSE taken)

SeptelInv ==
    /\ c.done <= c.n
    /\ c.pc \in {"enter", "grab"} => c.cnt = 0 \/ c.n < c.cnt
    /\ c.pc = "grab" => over = 0
    /\ UpTo(taken)

KindInv ==
    /\ kind \in LoopKinds => LoopInv
    /\ kind = "zbpf" => ZbufInv
    /\ kind = "windag" => WinDagInv
    /\ kind \in {"tc", "dag"} => WindowInv
    /\ kind = "dlpi1" => Dlpi1Inv
    /\ kind \in OneKinds => OneInv
    /\ kind = "sita" => SitaInv
    /\ kind = "usbmmap" => UsbMmapInv
    /\ kind = "netmap" => NetmapInv
    /\ kind = "rdma" => RdmaInv
    /\ kind = "snf" => SnfInv
    /\ kind = "dpdk" => DpdkInv
    /\ kind = "septel" => SeptelInv

Inv == TypeOK /\ CallInv /\ KindInv

-----------------------------------------------------------------------------
(* Steps of the contract.                                                   *)

AbsStep == [Contract!Next]_(Contract!rvars)

\* The call goes on and nothing of the contract's changes.
GoesOn ==
    /\ c' \in CallRec /\ c'.pc # "idle" /\ c'.cnt = c.cnt /\ c'.done = c.done
    /\ UNCHANGED <<ret, handed, brk, over>>

\* What the contract asks when the packet after x is handed over, of a count
\* that is returned, and of a break.
MayHand(x) ==
    /\ Binds("count") => c.cnt = 0 \/ c.done < c.cnt
    /\ UpTo(x)
    /\ Binds("slow") => over = 0
MayReturn(r) == r = PCAP_ERROR \/ (r \in Nat /\ (Binds("number") => r = c.done))
MayBreak == Binds("late") => c.done = 0

\* What a step of a read loop leaves alone.
Around ==
    /\ TypeOK /\ CallInv /\ c.pc # "idle"
    /\ UNCHANGED <<const, came, app>>
    /\ hd' \in [bp : Int, ep : Int, ev : BOOLEAN] /\ taken' \in Nat

Kept == TypeOK' /\ CallInv' /\ AbsStep

\* Going on is a stutter of the contract.
LEMMA GoesOnKept ==
    ASSUME Around, GoesOn
    PROVE  Kept
  <1>1. TypeOK'
    BY Zenon DEF Around, GoesOn, TypeOK, const
  <1>2. CallInv'
    BY Zenon DEF Around, GoesOn, TypeOK, CallInv
  <1>3. AbsStep
    BY Zenon DEF Around, GoesOn, AbsStep, Contract!rvars, const
  <1> QED
    BY <1>1, <1>2, <1>3, Zenon DEF Kept

\* Where a call is, and that no signal came, are all that changes of it.
LEMMA CallMoves ==
    ASSUME c \in CallRec, NEW p \in Pcs, c' = [c EXCEPT !.pc = p, !.sig = FALSE]
    PROVE  /\ c' \in CallRec /\ c'.pc = p
           /\ c'.cnt = c.cnt /\ c'.n = c.n /\ c'.done = c.done
           /\ c'.bp = c.bp /\ c'.ep = c.ep /\ c'.from = c.from /\ c'.aux = c.aux
  <1>1. FALSE \in BOOLEAN
    BY Zenon
  <1> QED
    BY <1>1, Zenon DEF CallRec

\* A return with a count or an error.
LEMMA LeaveKept ==
    ASSUME Around, NEW r, Leave(r), MayReturn(r)
    PROVE  Kept
  <1>1. /\ c' \in CallRec /\ c'.pc = "idle" /\ c'.cnt = c.cnt /\ c'.done = c.done
        /\ ret' \in Int
    BY CallMoves DEF Around, Leave, TypeOK, Pcs, MayReturn, PCAP_ERROR
  <1>2. TypeOK'
    BY <1>1, Zenon DEF Around, Leave, TypeOK, const
  <1>3. CallInv'
    BY <1>1, Zenon DEF Around, Leave, TypeOK, CallInv
  <1>4. AbsStep
    BY <1>1, Zenon DEF Around, Leave, MayReturn, PCAP_ERROR, Binds, AbsStep, const,
       Contract!rvars, Contract!Next, Contract!ReturnCount, Contract!ReturnError,
       Contract!PCAP_ERROR, Contract!Binds
  <1> QED
    BY <1>2, <1>3, <1>4, Zenon DEF Kept

\* A return because of a break.
LEMMA BrokenKept ==
    ASSUME Around, LeaveBroken, MayBreak
    PROVE  Kept
  <1>1. /\ c' \in CallRec /\ c'.pc = "idle" /\ c'.cnt = c.cnt /\ c'.done = c.done
        /\ ret' \in Int /\ over' = 0
    BY CallMoves DEF Around, LeaveBroken, TypeOK, Pcs, PCAP_ERROR_BREAK
  <1>2. brk' \in BOOLEAN
    BY Zenon DEF LeaveBroken
  <1>3. TypeOK'
    BY <1>1, <1>2 DEF Around, LeaveBroken, TypeOK, const
  <1>4. CallInv'
    BY <1>1 DEF Around, TypeOK, CallInv
  <1>5. AbsStep
    BY <1>1, Zenon DEF Around, LeaveBroken, MayBreak, PCAP_ERROR_BREAK, Binds, AbsStep, const,
       Contract!rvars, Contract!Next, Contract!ReturnBreak,
       Contract!PCAP_ERROR_BREAK, Contract!Binds
  <1> QED
    BY <1>3, <1>4, <1>5, Zenon DEF Kept

\* What a packet does to the call.
Took(p, own, passed, skipped) ==
    /\ c' \in CallRec /\ c'.cnt = c.cnt /\ c'.bp = p
    /\ c'.ep = c.ep /\ c'.from = c.from /\ c'.aux = c.aux
    /\ IF p \in match
       THEN /\ c'.pc = passed /\ c'.n = c.n + own /\ c'.done = c.done + 1
            /\ handed' = Append(handed, p)
            /\ over' = IF brk THEN over + 1 ELSE over
       ELSE /\ c'.pc = skipped /\ c'.n = c.n /\ c'.done = c.done
            /\ UNCHANGED <<handed, over>>
    /\ UNCHANGED <<ret, brk>>

\* The fields, one by one.
LEMMA HandTook ==
    ASSUME c \in CallRec, NEW p \in Int, NEW own \in Nat,
           NEW passed \in Pcs, NEW skipped \in Pcs,
           HandOver(p, own, passed, skipped)
    PROVE  Took(p, own, passed, skipped)
  <1>1. CASE p \in match
    <2> DEFINE n == c.n + own
               done == c.done + 1
    <2>1. c' = [c EXCEPT !.pc = passed, !.bp = p, !.n = n, !.done = done]
      BY <1>1, Zenon DEF HandOver
    <2>2. n \in Nat /\ done \in Nat
      BY DEF CallRec
    <2> HIDE DEF n, done
    <2>3. /\ c' \in CallRec /\ c'.cnt = c.cnt /\ c'.bp = p
          /\ c'.ep = c.ep /\ c'.from = c.from /\ c'.aux = c.aux
          /\ c'.pc = passed /\ c'.n = n /\ c'.done = done
      BY <2>1, <2>2, Zenon DEF CallRec
    <2> QED
      BY <1>1, <2>3, Zenon DEF HandOver, Took, n, done
  <1>2. CASE p \notin match
    <2>1. c' = [c EXCEPT !.pc = skipped, !.bp = p]
      BY <1>2, Zenon DEF HandOver
    <2>2. /\ c' \in CallRec /\ c'.cnt = c.cnt /\ c'.bp = p
          /\ c'.ep = c.ep /\ c'.from = c.from /\ c'.aux = c.aux
          /\ c'.pc = skipped /\ c'.n = c.n /\ c'.done = c.done
      BY <2>1, Zenon DEF CallRec
    <2> QED
      BY <1>2, <2>2, Zenon DEF HandOver, Took
  <1> QED
    BY <1>1, <1>2, Zenon

\* A packet that may be handed over.
LEMMA HandKept ==
    ASSUME Around, NEW p \in Int, NEW own \in Nat,
           NEW passed \in Pcs \ {"idle"}, NEW skipped \in Pcs \ {"idle"},
           Took(p, own, passed, skipped), NEW x \in Int, p = x + 1, MayHand(x)
    PROVE  Kept
  <1>1. CASE p \in match
    <2>1. p \in Numbers /\ handed \in Seq(Int)
      BY <1>1, Zenon DEF Around, TypeOK
    <2>2. handed' \in Seq(Int) /\ over' \in Nat
      <3>1. handed' \in Seq(Int)
        BY <1>1, <2>1 DEF Took
      <3>2. over' = over + 1 \/ over' = over
        BY <1>1, Zenon DEF Took
      <3> QED
        BY <3>1, <3>2 DEF Around, TypeOK
    <2>3. TypeOK'
      BY <1>1, <2>2, Zenon DEF Around, Took, TypeOK, const
    <2>4. CallInv'
      BY <1>1, Zenon DEF Around, Took, TypeOK, CallInv
    <2>5. Binds("again") => \A i \in DOMAIN handed : handed[i] < p
      <3>1. \A i \in DOMAIN handed : handed[i] \in Int
        BY <2>1
      <3> QED
        BY <1>1, <3>1 DEF MayHand, UpTo, HandedUpTo
    <2>6. Binds("drops") => \A q \in match : q >= p \/ q = 0 \/ Contract!WasHanded(q)
      BY <1>1 DEF MayHand, UpTo, NoneLeft, Contract!WasHanded, Around, TypeOK, Numbers
    <2>7. Contract!HandOver(p)
      BY <1>1, <2>5, <2>6, Zenon DEF Around, Took, MayHand, Binds, const, Contract!HandOver,
         Contract!Binds
    <2>8. AbsStep
      BY <2>1, <2>7, Zenon DEF AbsStep, Contract!Next
    <2> QED
      BY <2>3, <2>4, <2>8, Zenon DEF Kept
  <1>2. CASE p \notin match
    BY <1>2, GoesOnKept, Zenon DEF Took, GoesOn
  <1> QED
    BY <1>1, <1>2, Zenon

\* The source comes from one packet to the next.
LEMMA HandPasses ==
    ASSUME Around, NEW p \in Int, NEW own, NEW passed, NEW skipped,
           Took(p, own, passed, skipped), NEW x \in Int, UpTo(x), p = x + 1
    PROVE  UpTo(p)'
  <1>1. handed \in Seq(Int) /\ kind' = kind /\ match' = match /\ match \subseteq Int
    BY DEF Around, TypeOK, const, Numbers
  <1>2. CASE p \in match
    <2>1. handed' = Append(handed, p)
      BY <1>2, Zenon DEF Took
    <2>2. /\ DOMAIN handed' = 1..(Len(handed) + 1) /\ DOMAIN handed = 1..Len(handed)
          /\ Len(handed) \in Nat
          /\ handed'[Len(handed) + 1] = p
          /\ \A i \in 1..Len(handed) : handed'[i] = handed[i] /\ handed[i] \in Int
      BY <1>1, <2>1
    <2>3. HandedUpTo(x) => HandedUpTo(p)'
      BY <2>2 DEF HandedUpTo
    <2>4. NoneLeft(x) => NoneLeft(p)'
      BY <1>1, <2>2 DEF NoneLeft
    <2> QED
      BY <1>1, <2>3, <2>4, Zenon DEF UpTo, Binds
  <1>3. CASE p \notin match
    <2>1. handed' = handed
      BY <1>3, Zenon DEF Took
    <2>2. \A i \in DOMAIN handed : handed[i] \in Int
      BY <1>1
    <2>3. HandedUpTo(x) => HandedUpTo(p)'
      BY <2>1, <2>2 DEF HandedUpTo
    <2>4. NoneLeft(x) => NoneLeft(p)'
      BY <1>1, <1>3, <2>1 DEF NoneLeft
    <2> QED
      BY <1>1, <2>3, <2>4 DEF UpTo, Binds
  <1> QED
    BY <1>2, <1>3, Zenon

\* A source that repeats packets leaves none out for that.
LEMMA HandRepeats ==
    ASSUME Around, NEW p \in Int, NEW own, NEW passed, NEW skipped, NEW x \in Int,
           Took(p, own, passed, skipped), UpTo(x), ~Binds("again")
    PROVE  UpTo(x)'
  <1>1. handed \in Seq(Int) /\ kind' = kind /\ match' = match /\ match \subseteq Int
    BY DEF Around, TypeOK, const, Numbers
  <1>2. \A i \in DOMAIN handed : i \in DOMAIN handed' /\ handed'[i] = handed[i]
    BY <1>1 DEF Took
  <1>3. NoneLeft(x) => NoneLeft(x)'
    BY <1>1, <1>2, Zenon DEF NoneLeft
  <1> QED
    BY <1>1, <1>3, Zenon DEF UpTo, Binds

\* Where nothing is handed over the source is where it was.
LEMMA UpToStays ==
    ASSUME UNCHANGED <<const, handed>>, NEW x, UpTo(x)
    PROVE  UpTo(x)'
  BY Zenon DEF const, UpTo, HandedUpTo, NoneLeft, Binds

-----------------------------------------------------------------------------
(* Loops over a buffer.                                                     *)

\* A step of a read loop, and what is to be shown of it.
Stepping(kinds) == Inv /\ kind \in kinds /\ c.pc # "idle" /\ UNCHANGED <<const, came, app>>
Good == Kept /\ KindInv'

\* Only the invariant of the source at hand is at stake.
LEMMA LoopOnly ==
    ASSUME kind' \in LoopKinds, LoopInv', kind' = "zbpf" => ZbufInv'
    PROVE  KindInv'
  BY Zenon DEF KindInv, LoopKinds, LossyKinds, OneKinds

\* The limit moves only with the buffers.
LEMMA LimitStays ==
    ASSUME UNCHANGED <<kind, zb, taken>>, hd'.ev = hd.ev
    PROVE  Limit' = Limit
  BY DEF Limit, Published, NextBuffer, Nothing

\* In the loop the library has a zero-copy buffer, and goes on having it.
LEMMA ZbufStays ==
    ASSUME ZbufInv, hd.ev, UNCHANGED <<zb, taken, came>>, hd'.ev = hd.ev,
           c'.pc \in {"idle", "packet", "handle", "counted"}
    PROVE  ZbufInv'
  BY Zenon DEF ZbufInv, InLoop, Lead, Published, NextBuffer, Nothing, Other, Buffered

\* A loop is left with the rest of the buffer kept, with nothing left, or
\* before any packet was handed over.
LEMMA LoopLeaves ==
    ASSUME Stepping(LoopKinds), InLoop, c' \in CallRec, c'.pc = "idle",
           c'.n = c.n, c'.done = c.done, UNCHANGED <<handed, taken, zb>>,
           hd' \in [bp : Int, ep : Int, ev : BOOLEAN], hd'.ev = hd.ev,
           \/ hd'.bp = c.bp /\ hd'.ep = c.ep
           \/ hd'.bp = hd.ep /\ hd'.ep = hd.ep /\ c.bp = c.ep
           \/ hd' = hd /\ kind \in LossyKinds /\ c.n = 0
           \/ hd' = hd /\ kind = "netfilter"
    PROVE  KindInv'
  <1> USE DEF Stepping, Inv, TypeOK, const
  <1>1. LoopInv
    BY Zenon DEF KindInv
  <1>2. Limit' = Limit
    BY LimitStays, Zenon
  <1>3. kind = "zbpf" => hd.ev
    BY Zenon DEF KindInv, ZbufInv
  <1>4. kind' = "zbpf" => ZbufInv'
    BY <1>3, ZbufStays, Zenon DEF KindInv
  <1>5. UpTo(Rest)'
    <2>1. CASE hd'.bp = c.bp /\ hd'.ep = c.ep
      <3>1. Rest' = IF c.bp < c.ep THEN c.bp ELSE Limit
        BY <1>2, <2>1, Zenon DEF Rest, Buffered
      <3> QED
        BY <1>1, <3>1, UpToStays, Zenon DEF LoopInv
    <2>2. CASE hd'.bp = hd.ep /\ hd'.ep = hd.ep /\ c.bp = c.ep
      <3>1. Rest' = Limit /\ (IF c.bp < c.ep THEN c.bp ELSE Limit) = Limit
        BY <1>2, <2>2 DEF Rest, Buffered, CallRec
      <3> QED
        BY <1>1, <3>1, UpToStays, Zenon DEF LoopInv
    <2>3. CASE hd' = hd /\ kind \in LossyKinds /\ c.n = 0
      <3>1. Rest' = Rest
        BY <1>2, <2>3, Zenon DEF Rest, Buffered
      <3> QED
        BY <1>1, <2>3, <3>1, UpToStays, Zenon DEF LoopInv
    <2>4. CASE kind = "netfilter"
      BY <2>4, Zenon DEF UpTo, Binds, Lax
    <2> QED
      BY <2>1, <2>2, <2>3, <2>4, Zenon
  <1>6. LoopInv'
    BY <1>1, <1>2, <1>5 DEF LoopInv, InLoop, Buffered
  <1> QED
    BY <1>4, <1>6, LoopOnly, Zenon

\* What a test of the flag or of the buffer finds is a step of the loop.
LEMMA LoopGoes ==
    ASSUME Stepping(LoopKinds), InLoop, c' \in CallRec,
           c'.pc \in {"packet", "handle"}, c'.cnt = c.cnt, c'.n = c.n, c'.done = c.done,
           c'.bp = c.bp, c'.ep = c.ep, UNCHANGED <<handed, over, hd, taken, zb>>,
           ~Reached, c'.pc = "handle" => c.bp < c.ep /\ over = 0
    PROVE  KindInv'
  <1> USE DEF Stepping, Inv, TypeOK, const
  <1>1. LoopInv
    BY Zenon DEF KindInv
  <1>2. Limit' = Limit
    BY LimitStays, Zenon
  <1>3. kind = "zbpf" => hd.ev
    BY Zenon DEF KindInv, ZbufInv
  <1>4. kind' = "zbpf" => ZbufInv'
    BY <1>3, ZbufStays, Zenon DEF KindInv
  <1>5. Rest' = Rest
    BY <1>2, Zenon DEF Rest, Buffered
  <1>6. UpTo(IF c.bp < c.ep THEN c.bp ELSE Limit)'
    BY <1>1, <1>2, UpToStays, Zenon DEF LoopInv
  <1>7. kind \in LossyKinds /\ c.n = 0 => UpTo(Rest)'
    BY <1>1, <1>5, UpToStays, Zenon DEF LoopInv
  <1>8. LoopInv'
    BY <1>1, <1>2, <1>6, <1>7, Zenon DEF LoopInv, InLoop, Buffered, Reached, Limited
  <1> QED
    BY <1>4, <1>8, LoopOnly, Zenon

\* The packet after bp is taken out of the buffer.
LEMMA LoopHands ==
    ASSUME Stepping(LoopKinds), c.pc = "handle", Took(c.bp + 1, 1, "counted", "packet"),
           UNCHANGED <<hd, taken, zb>>
    PROVE  Good
  <1> USE DEF Stepping, Inv, TypeOK, const
  <1>1. LoopInv /\ InLoop
    BY Zenon DEF KindInv, InLoop
  <1>2. Limit' = Limit
    BY LimitStays, Zenon
  <1>3. kind = "zbpf" => hd.ev
    BY <1>1, Zenon DEF KindInv, ZbufInv
  <1>4. c'.pc \in {"counted", "packet"} /\ c'.cnt = c.cnt /\ c'.bp = c.bp + 1 /\ c'.ep = c.ep
    BY Zenon DEF Took
  <1>5. kind' = "zbpf" => ZbufInv'
    BY <1>3, <1>4, ZbufStays, Zenon DEF KindInv
  <1>6. /\ c.bp \in Int /\ c.ep \in Int /\ c.bp < c.ep /\ UpTo(c.bp) /\ over = 0
        /\ c.ep = Limit /\ ~Reached /\ c.n = c.done /\ c.cnt \in Nat /\ c.n \in Nat
    BY <1>1, Zenon DEF LoopInv, CallRec
  <1>7. Around
    BY Zenon DEF Around
  <1>8. UpTo(c.bp)'
    BY <1>4, <1>6, <1>7, HandPasses
  <1>9. UpTo(IF c.bp < c.ep THEN c.bp ELSE Limit)'
    <2>1. (IF c.bp < c.ep THEN c.bp ELSE Limit)' = c'.bp
      BY <1>2, <1>4, <1>6
    <2> QED
      BY <1>8, <2>1, Zenon
  <1>10. kind \in LossyKinds /\ c'.n = 0 => UpTo(Rest)'
    <2>1. SUFFICES ASSUME kind \in LossyKinds, c'.n = 0
                   PROVE  UpTo(Rest)'
      BY Zenon
    <2>2. UNCHANGED handed /\ c.n = 0
      BY <1>6, <2>1 DEF Took
    <2>3. Rest' = Rest
      BY <1>2, Zenon DEF Rest, Buffered
    <2> QED
      BY <1>1, <2>1, <2>2, <2>3, UpToStays, Zenon DEF LoopInv
  <1>11. LoopInv'
    BY <1>1, <1>2, <1>4, <1>6, <1>9, <1>10 DEF LoopInv, InLoop, Buffered, Reached,
       Limited, Took
  <1>12. MayHand(c.bp)
    BY <1>6 DEF MayHand, Reached, Limited
  <1>13. Kept
    BY <1>6, <1>7, <1>12, HandKept DEF Pcs
  <1> QED
    BY <1>5, <1>11, <1>13, LoopOnly, Zenon DEF Good

\* What the handle keeps of the buffer.
LEMMA SaveFields ==
    ASSUME TypeOK, Save
    PROVE  /\ hd' \in [bp : Int, ep : Int, ev : BOOLEAN]
           /\ hd'.bp = c.bp /\ hd'.ep = c.ep /\ hd'.ev = hd.ev /\ UNCHANGED <<taken, zb>>
  BY Zenon DEF TypeOK, CallRec, Save

\* And of a buffer read to its end.
LEMMA DrainFields ==
    ASSUME TypeOK, Drain
    PROVE  /\ hd' \in [bp : Int, ep : Int, ev : BOOLEAN]
           /\ hd'.bp = hd.ep /\ hd'.ep = hd.ep /\ hd'.ev = hd.ev /\ UNCHANGED <<taken, zb>>
  BY Zenon DEF TypeOK, Drain

\* The loop over the packets of a buffer, in each of its forms.
LEMMA PacketLoopStep ==
    ASSUME Stepping(LoopKinds), NEW saves \in BOOLEAN, NEW first \in BOOLEAN,
           kind \in LossyKinds \/ saves, PacketLoop(saves, first)
    PROVE  Good
  <1> USE DEF Stepping, Inv, TypeOK
  <1>1. LoopInv
    BY Zenon DEF KindInv
  <1>2. c.n = c.done /\ c.n \in Nat /\ c.bp \in Int /\ c.ep \in Int
    BY <1>1, Zenon DEF LoopInv, CallRec
  <1>3. ASSUME InLoop, Leave(c.n), Save \/ (Drain /\ c.bp = c.ep)
        PROVE  Good
    <2>1. /\ hd' \in [bp : Int, ep : Int, ev : BOOLEAN] /\ hd'.ev = hd.ev
          /\ UNCHANGED <<taken, zb>>
          /\ \/ hd'.bp = c.bp /\ hd'.ep = c.ep
             \/ hd'.bp = hd.ep /\ hd'.ep = hd.ep /\ c.bp = c.ep
      BY <1>3, SaveFields, DrainFields, Zenon
    <2>2. /\ c' \in CallRec /\ c'.pc = "idle" /\ c'.n = c.n /\ c'.done = c.done
          /\ UNCHANGED handed
      BY <1>3, CallMoves, Zenon DEF Leave, Pcs
    <2>3. KindInv'
      BY <1>3, <2>1, <2>2, LoopLeaves, Zenon
    <2>4. Around /\ MayReturn(c.n)
      BY <1>2, <2>1, Zenon DEF Around, MayReturn
    <2> QED
      BY <1>3, <2>3, <2>4, LeaveKept, Zenon DEF Good
  <1>4. ASSUME InLoop, c.n = 0, LeaveBroken, (Save /\ saves) \/ (Keep /\ ~saves)
        PROVE  Good
    <2>1. /\ hd' \in [bp : Int, ep : Int, ev : BOOLEAN] /\ hd'.ev = hd.ev
          /\ UNCHANGED <<taken, zb>>
          /\ \/ hd'.bp = c.bp /\ hd'.ep = c.ep
             \/ hd' = hd /\ kind \in LossyKinds
      BY <1>4, SaveFields, Zenon DEF Keep
    <2>2. /\ c' \in CallRec /\ c'.pc = "idle" /\ c'.n = c.n /\ c'.done = c.done
          /\ UNCHANGED handed
      BY <1>4, CallMoves, Zenon DEF LeaveBroken, Pcs
    <2>3. KindInv'
      BY <1>4, <2>1, <2>2, LoopLeaves, Zenon
    <2>4. Around /\ MayBreak
      BY <1>2, <1>4, <2>1, Zenon DEF Around, MayBreak
    <2> QED
      BY <1>4, <2>3, <2>4, BrokenKept, Zenon DEF Good
  <1>5. ASSUME InLoop, NEW p \in {"packet", "handle"}, Stay(p), Keep, ~Reached,
               p = "handle" => c.bp < c.ep /\ ~brk
        PROVE  Good
    <2>1. /\ c' \in CallRec /\ c'.pc = p /\ c'.cnt = c.cnt /\ c'.n = c.n /\ c'.done = c.done
          /\ c'.bp = c.bp /\ c'.ep = c.ep
          /\ UNCHANGED <<ret, handed, brk, over, hd, taken, zb>>
      BY <1>5, CallMoves, Zenon DEF Stay, Keep, Pcs
    <2>2. p = "handle" => over = 0
      BY <1>5 DEF CallInv
    <2>3. KindInv'
      BY <1>5, <2>1, <2>2, LoopGoes, Zenon
    <2>4. Around /\ GoesOn
      BY <1>5, <2>1, Zenon DEF Around, GoesOn
    <2> QED
      BY <2>3, <2>4, GoesOnKept, Zenon DEF Good
  <1>6. CASE c.pc = "packet"
    <2>1. InLoop /\ ~Reached
      BY <1>1, <1>6, Zenon DEF InLoop, LoopInv
    <2>2. CASE brk /\ BreakInLoop(saves)
      BY <1>3, <1>4, <2>1, <2>2, Zenon DEF BreakInLoop
    <2>3. CASE c.bp = c.ep /\ Leave(c.n) /\ Drain
      BY <1>3, <2>1, <2>3, Zenon
    <2>4. CASE c.bp < c.ep /\ ~brk /\ Stay("handle") /\ Keep
      BY <1>5, <2>1, <2>4, Zenon
    <2> QED
      BY <1>6, <2>2, <2>3, <2>4, Zenon DEF PacketLoop, BreakInLoop
  <1>7. CASE c.pc = "handle"
    <2>1. HandOver(c.bp + 1, 1, "counted", "packet") /\ Keep
      BY <1>7, Zenon DEF PacketLoop
    <2>2. Took(c.bp + 1, 1, "counted", "packet")
      BY <1>2, <2>1, HandTook DEF Pcs
    <2> QED
      BY <1>7, <2>1, <2>2, LoopHands, Zenon DEF Keep
  <1>8. CASE c.pc = "counted"
    <2>1. InLoop
      BY <1>8, Zenon DEF InLoop
    <2>2. CASE Leave(c.n) /\ Save
      BY <1>3, <2>1, <2>2, Zenon
    <2>3. CASE ~Reached /\ Stay("packet") /\ Keep
      BY <1>5, <2>1, <2>3, Zenon
    <2> QED
      BY <1>8, <2>2, <2>3, Zenon DEF PacketLoop
  <1> QED
    BY <1>6, <1>7, <1>8, Zenon DEF PacketLoop

-----------------------------------------------------------------------------
(* Before the loop: the flag, the buffer, the device.                       *)

\* Nothing is touched before there is a buffer.
LEMMA OutMoves ==
    ASSUME Stepping(LoopKinds), ~InLoop, c' \in CallRec, ~InLoop',
           c'.pc \in {"idle", "enter"} \/ ~Buffered, c'.n = c.n, c'.done = c.done,
           UNCHANGED handed, hd'.bp = hd.bp, hd'.ep = hd.ep, Limit' = Limit,
           kind = "zbpf" => ZbufInv'
    PROVE  KindInv'
  <1> USE DEF Stepping, Inv, TypeOK, const
  <1>1. LoopInv
    BY Zenon DEF KindInv
  <1>2. UpTo(Rest)'
    <2>1. Rest' = Rest
      BY Zenon DEF Rest, Buffered
    <2> QED
      BY <1>1, <2>1, UpToStays, Zenon DEF LoopInv
  <1>3. LoopInv'
    BY <1>1, <1>2, Zenon DEF LoopInv, InLoop, Buffered
  <1> QED
    BY <1>3, LoopOnly, Zenon

\* The loop is entered with the buffer of an earlier call.
LEMMA ResumeStep ==
    ASSUME Stepping(LoopKinds), c.pc = "enter", Resume
    PROVE  Good
  <1> USE DEF Stepping, Inv, TypeOK, const
  <1>1. LoopInv /\ ~InLoop
    BY Zenon DEF KindInv, InLoop
  <1>2. hd.bp \in Int /\ hd.ep \in Int /\ hd.bp < hd.ep /\ hd.ep = Limit /\ UpTo(hd.bp)
    BY <1>1, Zenon DEF Resume, LoopInv, Rest, Buffered
  <1>3. /\ c' \in CallRec /\ c'.pc = "packet" /\ c'.bp = hd.bp /\ c'.ep = hd.ep
        /\ c'.cnt = c.cnt /\ c'.n = c.n /\ c'.done = c.done
        /\ UNCHANGED <<ret, handed, brk, over, hd, taken, zb>>
    <2>1. c \in CallRec /\ c' = [c EXCEPT !.pc = "packet", !.bp = hd.bp, !.ep = hd.ep]
      BY Zenon DEF Resume
    <2>2. "packet" \in Pcs
      BY Zenon DEF Pcs
    <2> HIDE DEF Stepping, Inv, TypeOK, const
    <2> QED
      BY <1>2, <2>1, <2>2 DEF CallRec, Resume, Keep
  <1>4. Limit' = Limit
    BY <1>3, LimitStays, Zenon
  <1>5. UpTo(IF c.bp < c.ep THEN c.bp ELSE Limit)'
    <2>1. (IF c.bp < c.ep THEN c.bp ELSE Limit)' = hd.bp
      BY <1>2, <1>3, Zenon
    <2> QED
      BY <1>2, <1>3, <2>1, UpToStays, Zenon
  <1>6. UpTo(Rest)'
    <2>1. Rest' = hd.bp
      BY <1>2, <1>3, Zenon DEF Rest, Buffered
    <2> QED
      BY <1>2, <1>3, <2>1, UpToStays, Zenon
  <1>7. ~Reached'
    BY <1>1, <1>3 DEF LoopInv, Reached, Limited, CallRec
  <1>8. LoopInv'
    BY <1>1, <1>2, <1>3, <1>4, <1>5, <1>6, <1>7 DEF LoopInv, InLoop, Buffered
  <1>9. kind' = "zbpf" => ZbufInv'
    <2>1. kind = "zbpf" => ZbufInv /\ hd.ev
      BY <1>2, Zenon DEF KindInv, ZbufInv, Buffered
    <2> QED
      BY <1>3, <2>1, ZbufStays, Zenon
  <1>10. Around /\ GoesOn
    BY <1>3, Zenon DEF Around, GoesOn
  <1> QED
    BY <1>8, <1>9, <1>10, GoesOnKept, LoopOnly, Zenon DEF Good

\* What a read gives: an interval of packets, from the last one taken on.
LEMMA FetchFields ==
    ASSUME TypeOK, NEW most \in Nat, NEW p \in Pcs, Fetch(most, p)
    PROVE  /\ c' \in CallRec /\ c'.pc = p /\ c'.cnt = c.cnt /\ c'.n = c.n
           /\ c'.done = c.done /\ c'.bp = taken /\ c'.from = taken /\ c'.ep = taken'
           /\ taken' \in Nat /\ taken < taken' /\ taken' - taken <= most
           /\ UNCHANGED <<ret, handed, brk, over, hd, zb>>
  <1> USE DEF TypeOK
  <1>1. PICK hi \in (taken + 1)..came :
           /\ hi - taken <= most /\ taken' = hi
           /\ c' = [c EXCEPT !.pc = p, !.bp = taken, !.from = taken, !.ep = hi, !.sig = FALSE]
    BY Zenon DEF Fetch
  <1>2. hi \in Nat /\ taken < hi
    BY <1>1
  <1>3. /\ c' \in CallRec /\ c'.pc = p /\ c'.cnt = c.cnt /\ c'.n = c.n
        /\ c'.done = c.done /\ c'.bp = taken /\ c'.from = taken /\ c'.ep = hi
    <2>1. FALSE \in BOOLEAN
      BY Zenon
    <2>2. c \in CallRec /\ hi \in Int /\ taken \in Int
      BY <1>2
    <2>3. c' = [c EXCEPT !.pc = p, !.bp = taken, !.from = taken, !.ep = hi, !.sig = FALSE]
      BY <1>1, Zenon
    <2> HIDE DEF TypeOK
    <2> QED
      BY <2>1, <2>2, <2>3, Zenon DEF CallRec
  <1> QED
    BY <1>1, <1>2, <1>3, Zenon DEF Fetch

\* The loop is entered with a buffer just read.
LEMMA FetchStep ==
    ASSUME Stepping(LoopKinds), c.pc = "read", kind # "zbpf", Fetch(MaxPkt, "packet")
    PROVE  Good
  <1> USE DEF Stepping, Inv, TypeOK, const
  <1>1. LoopInv /\ ~InLoop
    BY Zenon DEF KindInv, InLoop
  <1>2. ~Buffered /\ UpTo(taken) /\ c.n = 0
    BY <1>1, Zenon DEF LoopInv, Rest, Limit
  <1>3. /\ c' \in CallRec /\ c'.pc = "packet" /\ c'.cnt = c.cnt /\ c'.n = c.n
        /\ c'.done = c.done /\ c'.bp = taken /\ c'.ep = taken'
        /\ taken' \in Nat /\ taken < taken'
        /\ UNCHANGED <<ret, handed, brk, over, hd, zb>>
    BY FetchFields, SourcesAssumption DEF Pcs
  <1>4. Limit' = taken' /\ ~Buffered'
    BY <1>2, <1>3, Zenon DEF Limit, Buffered
  <1>5. UpTo(IF c.bp < c.ep THEN c.bp ELSE Limit)'
    <2>1. (IF c.bp < c.ep THEN c.bp ELSE Limit)' = taken
      BY <1>3, Zenon
    <2> QED
      BY <1>2, <1>3, <2>1, UpToStays, Zenon
  <1>6. kind \in LossyKinds => UpTo(Rest)'
    <2>1. SUFFICES ASSUME kind \in LossyKinds
                   PROVE  UpTo(Rest)'
      BY Zenon
    <2>2. HandedUpTo(taken) => \A i \in DOMAIN handed' : handed'[i] <= taken'
      BY <1>3 DEF HandedUpTo
    <2>3. ~Binds("drops") /\ Binds("again")
      BY <2>1, Zenon DEF Binds, Lax, LossyKinds
    <2>4. Rest' = taken'
      BY <1>4, Zenon DEF Rest
    <2> QED
      BY <1>2, <2>2, <2>3, <2>4, Zenon DEF UpTo, HandedUpTo, Binds
  <1>7. ~Reached'
    BY <1>2, <1>3 DEF Reached, Limited, CallRec
  <1>8. LoopInv'
    BY <1>1, <1>3, <1>4, <1>5, <1>6, <1>7 DEF LoopInv, InLoop
  <1>9. Around /\ GoesOn
    BY <1>3, Zenon DEF Around, GoesOn
  <1> QED
    BY <1>8, <1>9, GoesOnKept, LoopOnly, Zenon DEF Good

\* Outside the loop the library need not have a zero-copy buffer.
LEMMA ZbufIdle ==
    ASSUME ZbufInv, UNCHANGED <<zb, taken, came, hd>>, ~InLoop',
           c'.pc \in {"idle", "enter", "read"} \/ ~hd.ev
    PROVE  ZbufInv'
  <1>1. Buffered' => hd'.ev
    BY Zenon DEF ZbufInv, Buffered
  <1>2. c'.pc \notin {"idle", "enter", "read"} => ~hd'.ev
    BY Zenon
  <1> QED
    BY <1>1, <1>2, Zenon DEF ZbufInv, InLoop, Lead, Published, NextBuffer, Nothing, Other

\* A return before the loop.
LEMMA OutLeave ==
    ASSUME Stepping(LoopKinds), ~InLoop, Keep, LeaveBroken \/ Leave(0) \/ Leave(PCAP_ERROR)
    PROVE  Good
  <1> USE DEF Stepping, Inv, TypeOK
  <1>1. c.n = 0 /\ c.done = 0
    BY Zenon DEF KindInv, LoopInv
  <1>2. /\ c' \in CallRec /\ c'.pc = "idle" /\ c'.n = c.n /\ c'.done = c.done
        /\ UNCHANGED <<handed, hd, taken, zb>>
    BY CallMoves, Zenon DEF Leave, LeaveBroken, Keep, Pcs
  <1>3. ~InLoop'
    BY <1>2, Zenon DEF InLoop
  <1>4. kind = "zbpf" => ZbufInv'
    BY <1>2, <1>3, ZbufIdle, Zenon DEF KindInv
  <1>5. KindInv'
    <2>1. Limit' = Limit
      BY <1>2, LimitStays, Zenon DEF const
    <2> QED
      BY <1>2, <1>3, <1>4, <2>1, OutMoves, Zenon
  <1>6. Around /\ MayBreak /\ MayReturn(0) /\ MayReturn(PCAP_ERROR)
    BY <1>1, <1>2, Zenon DEF Around, MayBreak, MayReturn
  <1> QED
    BY <1>5, <1>6, LeaveKept, BrokenKept, Zenon DEF Good

Outside == {"enter", "read", "wait", "shm", "select", "late", "rotate", "last"}

\* A step from place to place before the loop.
LEMMA OutStay ==
    ASSUME Stepping(LoopKinds), ~InLoop, Keep, NEW p \in Outside, Stay(p),
           p = "enter" \/ ~Buffered,
           kind # "zbpf" \/ p \in {"enter", "read"} \/ ~hd.ev
    PROVE  Good
  <1> USE DEF Stepping, Inv, TypeOK
  <1>1. p \in Pcs /\ p # "idle"
    BY Zenon DEF Pcs, Outside
  <1>2. /\ c' \in CallRec /\ c'.pc = p /\ c'.cnt = c.cnt /\ c'.n = c.n /\ c'.done = c.done
        /\ UNCHANGED <<ret, handed, brk, over, hd, taken, zb>>
    BY <1>1, CallMoves, Zenon DEF Stay, Keep
  <1>3. ~InLoop'
    BY <1>2, Zenon DEF InLoop, Outside
  <1>4. kind = "zbpf" => ZbufInv'
    BY <1>2, <1>3, ZbufIdle, Zenon DEF KindInv
  <1>5. KindInv'
    <2>1. Limit' = Limit
      BY <1>2, LimitStays, Zenon DEF const
    <2> QED
      BY <1>2, <1>3, <1>4, <2>1, OutMoves, Zenon
  <1>6. Around /\ GoesOn
    BY <1>1, <1>2, Zenon DEF Around, GoesOn
  <1> QED
    BY <1>5, <1>6, GoesOnKept, Zenon DEF Good

\* Nothing was read: an empty buffer.
LEMMA NoBytesStep ==
    ASSUME Stepping(LossyKinds), c.pc = "read", NoBytes
    PROVE  Good
  <1> USE DEF Stepping, Inv, TypeOK, const
  <1>1. LoopInv /\ ~InLoop /\ kind \in LoopKinds /\ kind # "zbpf"
    BY Zenon DEF KindInv, InLoop, LoopKinds, LossyKinds
  <1>2. ~Buffered /\ UpTo(taken) /\ c.n = 0
    BY <1>1, Zenon DEF LoopInv, Rest, Limit
  <1>3. /\ c' \in CallRec /\ c'.pc = "packet" /\ c'.cnt = c.cnt /\ c'.n = c.n
        /\ c'.done = c.done /\ c'.bp = 0 /\ c'.ep = 0
        /\ UNCHANGED <<ret, handed, brk, over, hd, taken, zb>>
    <2> DEFINE z == 0
    <2>1. c \in CallRec /\ c' = [c EXCEPT !.pc = "packet", !.bp = z, !.ep = z] /\ z \in Int
      BY DEF NoBytes
    <2>2. "packet" \in Pcs
      BY Zenon DEF Pcs
    <2> HIDE DEF Stepping, Inv, TypeOK, const, z
    <2>3. /\ c' \in CallRec /\ c'.pc = "packet" /\ c'.cnt = c.cnt /\ c'.n = c.n
          /\ c'.done = c.done /\ c'.bp = z /\ c'.ep = z
      BY <2>1, <2>2, Zenon DEF CallRec
    <2> QED
      BY <2>3, Zenon DEF NoBytes, Keep, z
  <1>4. Limit' = taken /\ ~Buffered'
    BY <1>1, <1>2, <1>3, Zenon DEF Limit, Buffered
  <1>5. UpTo(IF c.bp < c.ep THEN c.bp ELSE Limit)'
    <2>1. (IF c.bp < c.ep THEN c.bp ELSE Limit)' = taken
      BY <1>3, <1>4
    <2> QED
      BY <1>2, <1>3, <2>1, UpToStays, Zenon
  <1>6. UpTo(Rest)'
    <2>1. Rest' = taken
      BY <1>4, Zenon DEF Rest
    <2> QED
      BY <1>2, <1>3, <2>1, UpToStays, Zenon
  <1>7. ~Reached'
    BY <1>2, <1>3 DEF Reached, Limited, CallRec
  <1>8. LoopInv'
    BY <1>1, <1>3, <1>4, <1>5, <1>6, <1>7 DEF LoopInv, InLoop
  <1>9. Around /\ GoesOn
    BY <1>3, Zenon DEF Around, GoesOn
  <1> QED
    BY <1>1, <1>8, <1>9, GoesOnKept, LoopOnly, Zenon DEF Good

\* The flag and the buffer of pcap_read_bpf and netfilter_read_linux.
LEMMA AgainStep ==
    ASSUME Stepping(LoopKinds), c.pc = "enter",
           \/ LeaveBroken /\ Keep
           \/ ~brk /\ Resume
           \/ ~brk /\ ~Buffered /\ Stay("read") /\ Keep
    PROVE  Good
  <1>1. ~InLoop /\ "read" \in Outside
    BY Zenon DEF InLoop, Outside
  <1>2. CASE LeaveBroken /\ Keep
    BY <1>1, <1>2, OutLeave, Zenon
  <1>3. CASE Resume
    BY <1>3, ResumeStep, Zenon
  <1>4. CASE ~Buffered /\ Stay("read") /\ Keep
    BY <1>1, <1>4, OutStay, Zenon
  <1> QED
    BY <1>2, <1>3, <1>4, Zenon

\* BPF without zero-copy buffers: pcap_read_bpf.
LEMMA BpfStep ==
    ASSUME Stepping({"bpf"}), PcapReadBpf
    PROVE  Good
  <1>1. Stepping(LoopKinds) /\ kind = "bpf" /\ kind # "zbpf"
    BY Zenon DEF Stepping, LoopKinds
  <1>2. CASE BpfAgain
    BY <1>1, <1>2, AgainStep, Zenon DEF BpfAgain
  <1>3. CASE BpfPackets
    BY <1>1, <1>3, PacketLoopStep, Zenon DEF BpfPackets
  <1>4. CASE BpfReadDevice
    <2>1. ~InLoop /\ "enter" \in Outside /\ c.pc = "read"
      BY <1>4, Zenon DEF InLoop, Outside, BpfReadDevice
    <2>2. CASE Fetch(MaxPkt, "packet")
      BY <1>1, <2>1, <2>2, FetchStep, Zenon
    <2>3. CASE Stay("enter") /\ Keep
      BY <1>1, <2>1, <2>3, OutStay, Zenon
    <2>4. CASE (Leave(0) \/ Leave(PCAP_ERROR)) /\ Keep
      BY <1>1, <2>1, <2>4, OutLeave, Zenon
    <2> QED
      BY <1>4, <2>2, <2>3, <2>4, Zenon DEF BpfReadDevice
  <1> QED
    BY <1>1, <1>2, <1>3, <1>4, Zenon DEF PcapReadBpf

\* Npcap and AirPcap: the read happens when the buffer is used up.
LEMMA DrainedStep ==
    ASSUME Stepping({"npf", "airpcap"}), ReadWhenDrained(NoBytes) \/ PacketLoop(FALSE, TRUE)
    PROVE  Good
  <1>1. /\ Stepping(LoopKinds) /\ Stepping(LossyKinds) /\ kind # "zbpf"
        /\ kind \in LossyKinds
    BY Zenon DEF Stepping, LoopKinds, LossyKinds
  <1>2. CASE PacketLoop(FALSE, TRUE)
    BY <1>1, <1>2, PacketLoopStep, Zenon
  <1>3. CASE c.pc = "enter" /\ ReadWhenDrained(NoBytes)
    <2>1. ~InLoop /\ "read" \in Outside
      BY <1>3, Zenon DEF InLoop, Outside
    <2>2. CASE Resume
      BY <1>1, <1>3, <2>2, ResumeStep, Zenon
    <2>3. CASE LeaveBroken /\ Keep
      BY <1>1, <2>1, <2>3, OutLeave, Zenon
    <2>4. CASE ~Buffered /\ Stay("read") /\ Keep
      BY <1>1, <2>1, <2>4, OutStay, Zenon
    <2> QED
      BY <1>3, <2>2, <2>3, <2>4, Zenon DEF ReadWhenDrained
  <1>4. CASE c.pc = "read" /\ ReadWhenDrained(NoBytes)
    <2>1. ~InLoop
      BY <1>4, Zenon DEF InLoop
    <2>2. CASE Fetch(MaxPkt, "packet")
      BY <1>1, <1>4, <2>2, FetchStep, Zenon
    <2>3. CASE NoBytes
      BY <1>1, <1>4, <2>3, NoBytesStep, Zenon
    <2>4. CASE Leave(PCAP_ERROR) /\ Keep
      BY <1>1, <2>1, <2>4, OutLeave, Zenon
    <2> QED
      BY <1>4, <2>2, <2>3, <2>4, Zenon DEF ReadWhenDrained
  <1> QED
    BY <1>2, <1>3, <1>4, Zenon DEF ReadWhenDrained

\* DLPI with bufmod, and libdlpi.
LEMMA DlpiStep ==
    ASSUME Stepping({"dlpi", "libdlpi"}), PcapReadDlpi \/ PcapReadLibdlpi \/ ProcessPkts
    PROVE  Good
  <1>1. /\ Stepping(LoopKinds) /\ kind # "zbpf" /\ kind # "dlpi1"
        /\ kind \in LossyKinds /\ kind \in {"dlpi", "libdlpi"}
    BY Zenon DEF Stepping, LoopKinds, LossyKinds
  <1>2. CASE ProcessPkts
    BY <1>1, <1>2, PacketLoopStep, Zenon DEF ProcessPkts
  <1>3. CASE DlpiWait
    <2>1. /\ ~InLoop /\ "wait" \in Outside /\ "read" \in Outside
          /\ c.pc = "wait" => ~Buffered
      BY <1>1, <1>3, Zenon DEF InLoop, Outside, DlpiWait, Stepping, Inv, KindInv, LoopInv
    <2>2. CASE c.pc = "enter" /\ Resume
      BY <1>1, <2>2, ResumeStep, Zenon
    <2>3. CASE LeaveBroken /\ Keep
      BY <1>1, <2>1, <2>3, OutLeave, Zenon
    <2>4. CASE ~Buffered /\ (Stay("wait") \/ Stay("read")) /\ Keep
      BY <1>1, <2>1, <2>4, OutStay, Zenon
    <2> QED
      BY <1>3, <2>1, <2>2, <2>3, <2>4, Zenon DEF DlpiWait
  <1>4. CASE c.pc = "read" /\ (PcapReadDlpi \/ PcapReadLibdlpi)
    <2>1. ~InLoop /\ "wait" \in Outside /\ ~Buffered
      BY <1>1, <1>4, Zenon DEF InLoop, Outside, Stepping, Inv, KindInv, LoopInv
    <2>2. CASE Fetch(MaxPkt, "packet")
      BY <1>1, <1>4, <2>2, FetchStep, Zenon
    <2>3. CASE Stay("wait") /\ Keep
      BY <1>1, <2>1, <2>3, OutStay, Zenon
    <2>4. CASE (Leave(0) \/ Leave(PCAP_ERROR)) /\ Keep
      BY <1>1, <2>1, <2>4, OutLeave, Zenon
    <2> QED
      BY <1>1, <1>4, <2>2, <2>3, <2>4, Zenon DEF PcapReadDlpi, PcapReadLibdlpi, DlpiWait
  <1> QED
    BY <1>2, <1>3, <1>4, Zenon DEF PcapReadDlpi, PcapReadLibdlpi

\* netfilter_read_linux.
LEMMA NetfilterStep ==
    ASSUME Stepping({"netfilter"}), NetfilterRead
    PROVE  Good
  <1>1. Stepping(LoopKinds) /\ kind = "netfilter" /\ kind # "zbpf"
    BY Zenon DEF Stepping, LoopKinds
  <1>2. TypeOK /\ CallInv /\ LoopInv /\ kind' = kind
    BY <1>1, Zenon DEF Stepping, Inv, KindInv, const
  <1>3. CASE PacketLoop(TRUE, FALSE)
    BY <1>1, <1>3, PacketLoopStep, Zenon
  <1>4. CASE c.pc = "packet" /\ Leave(PCAP_ERROR) /\ Keep
    <2>1. /\ c' \in CallRec /\ c'.pc = "idle" /\ c'.n = c.n /\ c'.done = c.done
          /\ UNCHANGED <<handed, hd, taken, zb>>
      BY <1>2, <1>4, CallMoves, Zenon DEF Leave, Keep, Pcs, TypeOK
    <2>2. InLoop
      BY <1>4, Zenon DEF InLoop
    <2>3. hd' \in [bp : Int, ep : Int, ev : BOOLEAN]
      BY <1>2, <2>1, Zenon DEF TypeOK
    <2>4. KindInv'
      BY <1>1, <2>1, <2>2, <2>3, LoopLeaves, Zenon
    <2>5. Around /\ MayReturn(PCAP_ERROR)
      BY <1>1, <1>2, <2>1, Zenon DEF Around, MayReturn, Stepping, TypeOK
    <2> QED
      BY <1>4, <2>4, <2>5, LeaveKept, Zenon DEF Good
  <1>5. CASE c.pc = "enter" /\ NetfilterReceive
    BY <1>1, <1>5, AgainStep, Zenon DEF NetfilterReceive
  <1>6. CASE c.pc = "read" /\ NetfilterReceive
    <2>1. ~InLoop /\ "read" \in Outside /\ ~Buffered
      BY <1>2, <1>6, Zenon DEF InLoop, Outside, LoopInv
    <2>2. CASE Fetch(MaxPkt, "packet")
      BY <1>1, <1>6, <2>2, FetchStep, Zenon
    <2>3. ASSUME NEW hi \in (taken + 1)..came, taken' = hi, LeaveBroken, UNCHANGED <<hd, zb>>
          PROVE  Good
      <3>1. /\ c' \in CallRec /\ c'.pc = "idle" /\ c'.n = c.n /\ c'.done = c.done
            /\ UNCHANGED handed
        BY <1>2, <2>3, CallMoves, Zenon DEF LeaveBroken, Pcs, TypeOK
      <3>2. taken' \in Nat /\ ~Buffered' /\ ~InLoop'
        BY <1>2, <2>1, <2>3, <3>1 DEF TypeOK, Buffered, InLoop
      <3>3. UpTo(Rest)'
        BY <1>1, <1>2, Zenon DEF UpTo, Binds, Lax, TypeOK
      <3>4. LoopInv'
        BY <1>2, <2>1, <3>1, <3>2, <3>3, Zenon DEF LoopInv, InLoop
      <3>5. Around /\ MayBreak
        BY <1>1, <1>2, <1>6, <2>1, <2>3, <3>2, Zenon DEF Around, MayBreak, Stepping, TypeOK, LoopInv
      <3> QED
        BY <1>1, <1>2, <2>3, <3>4, <3>5, BrokenKept, LoopOnly DEF Good, Stepping
    <2>4. CASE Stay("read") /\ Keep
      BY <1>1, <2>1, <2>4, OutStay, Zenon
    <2>5. CASE (LeaveBroken \/ Leave(PCAP_ERROR)) /\ Keep
      BY <1>1, <2>1, <2>5, OutLeave, Zenon
    <2> QED
      BY <1>6, <2>2, <2>3, <2>4, <2>5, Zenon DEF NetfilterReceive
  <1> QED
    BY <1>3, <1>4, <1>5, <1>6, Zenon DEF NetfilterRead, NetfilterMessages, NetfilterReceive

-----------------------------------------------------------------------------
(* Zero-copy buffers.                                                       *)

\* The kernel makes a buffer available that the library does not have: what the
\* library has seen, and what it sees next, stay.
LEMMA RotatedKeeps ==
    ASSUME kind = "zbpf", ZbufInv, taken \in Nat, came \in Nat, Rotated,
           UNCHANGED <<kind, came, hd>>,
           InLoop' => InLoop, c'.pc \notin {"idle", "enter", "read"} /\ ~InLoop' => ~hd.ev
    PROVE  ZbufInv' /\ Limit' = Limit /\ taken' \in Nat
  <1>1. CASE Empty \/ Published(zb.nxt)
    <2>1. UNCHANGED <<zb, taken>>
      BY <1>1, Zenon DEF Rotated
    <2>2. ZbufInv'
      BY <2>1 DEF ZbufInv, InLoop, Lead, Published, NextBuffer, Nothing, Other, Buffered
    <2> QED
      BY <2>1, <2>2, LimitStays, Zenon
  <1>2. CASE ~Empty /\ ~Published(zb.nxt)
    <2>1. PICK n \in {1, 2}, o \in {1, 2} : n = zb.nxt /\ o = Other(n) /\ n # o /\ n = Other(o)
      BY DEF ZbufInv, Other
    <2>2. /\ taken < came /\ taken' = came
          /\ zb' = [zb EXCEPT !.pub[n] = <<taken, came>>, !.nxt = o]
      BY <1>2, <2>1 DEF Rotated, ZbufInv, Empty
    <2> DEFINE pair == <<taken, came>>
               pub == [zb.pub EXCEPT ![n] = pair]
    <2>3. pair \in Nat \X Nat /\ pair[1] = taken /\ pair[2] = came /\ pair # Nothing
      BY <2>2 DEF Nothing
    <2>4. zb' = [zb EXCEPT !.pub = pub, !.nxt = o]
      BY <2>2, Zenon
    <2>5. /\ zb.pub \in [{1, 2} -> Nat \X Nat]
          /\ zb \in [cur : {0, 1, 2}, pub : [{1, 2} -> Nat \X Nat], nxt : {1, 2},
                     intr : BOOLEAN]
      BY Zenon DEF ZbufInv
    <2>6. pub \in [{1, 2} -> Nat \X Nat] /\ pub[n] = pair /\ pub[o] = zb.pub[o]
      <3> HIDE DEF pair
      <3> QED
        BY <2>1, <2>3, <2>5, Zenon
    <2>7. /\ zb'.cur = zb.cur /\ zb'.nxt = o /\ zb'.pub = pub
          /\ zb' \in [cur : {0, 1, 2}, pub : [{1, 2} -> Nat \X Nat], nxt : {1, 2},
                      intr : BOOLEAN]
      <3> HIDE DEF pub
      <3> QED
        BY <2>1, <2>4, <2>5, <2>6, Zenon
    <2>8. Lead' = Lead /\ Lead \in {n, o} /\ NextBuffer(zb.cur) \in {n, o}
      BY <2>1, <2>5, <2>7, Zenon DEF Lead, NextBuffer, ZbufInv
    <2>9. /\ zb'.pub[n] = pair /\ zb'.pub[o] = zb.pub[o]
          /\ zb'.pub[n] # Nothing /\ zb.pub[n] = Nothing
      BY <1>2, <2>1, <2>3, <2>6, <2>7 DEF Published
    <2> HIDE DEF pair, pub
    <2>10. \/ Lead = n /\ zb.pub[o] = Nothing /\ ~hd.ev
           \/ Lead = o /\ zb.pub[o] # Nothing /\ zb.pub[o][2] = taken
      BY <2>1, <2>8, <2>9, Zenon DEF ZbufInv, Lead, Published
    <2>11. Limit' = Limit
      BY <2>1, <2>3, <2>7, <2>8, <2>9, <2>10 DEF Limit, Lead, NextBuffer, Published, Nothing
    <2>12. ZbufInv'
      <3>1. zb'.pub[o] = <<zb'.pub[o][1], zb'.pub[o][2]>> /\ pair = <<taken, came>>
        BY <2>1, <2>5, <2>9 DEF pair
      <3>2. \A i \in {1, 2} : zb'.pub[i] # Nothing => zb'.pub[i][1] < zb'.pub[i][2]
        BY <2>1, <2>2, <2>3, <2>9, Zenon DEF ZbufInv, Published
      <3>3. IF zb'.pub[Lead] # Nothing
            THEN IF zb'.pub[Other(Lead)] # Nothing
                 THEN zb'.pub[Other(Lead)] = <<zb'.pub[Lead][2], taken'>> /\ zb'.nxt = Lead
                 ELSE zb'.pub[Lead][2] = taken' /\ zb'.nxt = Other(Lead)
            ELSE zb'.pub[Other(Lead)] = Nothing /\ zb'.nxt = Lead
        BY <2>1, <2>2, <2>3, <2>7, <2>9, <2>10, <3>1
      <3>4. hd'.ev => zb'.cur # 0 /\ zb'.pub[zb'.cur] # Nothing
        BY <2>1, <2>5, <2>7, <2>9 DEF ZbufInv, Published
      <3>5. (Buffered \/ InLoop)' => hd'.ev
        BY Zenon DEF ZbufInv, Buffered
      <3> QED
        BY <2>2, <2>7, <2>8, <3>2, <3>3, <3>4, <3>5 DEF ZbufInv, Published, Nothing, Other
    <2> QED
      BY <2>2, <2>11, <2>12, Zenon
  <1> QED
    BY <1>1, <1>2, Zenon

\* pcap_ack_zbuf: the next buffer begins where the one given back ended.
LEMMA AckZbufStep ==
    ASSUME Stepping({"zbpf"}), AckZbuf
    PROVE  Good
  <1>1. /\ Stepping(LoopKinds) /\ kind = "zbpf" /\ ~InLoop /\ TypeOK /\ ZbufInv /\ LoopInv
        /\ CallInv /\ c.pc = "read" /\ kind' = kind /\ came' = came /\ taken' = taken
    BY Zenon DEF Stepping, LoopKinds, Inv, KindInv, AckZbuf, InLoop, const
  <1>2. ~Buffered
    BY <1>1, Zenon DEF LoopInv
  <1>3. /\ hd' \in [bp : Int, ep : Int, ev : BOOLEAN]
        /\ hd'.bp = hd.bp /\ hd'.ep = hd.ep /\ hd'.ev = FALSE
    <2>1. FALSE \in BOOLEAN
      BY Zenon
    <2> QED
      BY <1>1, <2>1, Zenon DEF AckZbuf, TypeOK
  <1>4. /\ c' \in CallRec /\ c'.pc = "shm" /\ c'.cnt = c.cnt /\ c'.n = c.n /\ c'.done = c.done
        /\ UNCHANGED <<ret, handed, brk, over>> /\ ~InLoop'
    BY <1>1, CallMoves, Zenon DEF AckZbuf, Stay, Pcs, TypeOK, InLoop
  <1>5. ~Buffered'
    BY <1>2, <1>3, Zenon DEF Buffered
  <1>6. ZbufInv' /\ Limit' = Limit
    <2>1. CASE ~hd.ev
      <3>1. zb' = zb
        BY <2>1, Zenon DEF AckZbuf
      <3>2. Lead' = Lead
        BY <1>3, <2>1, <3>1, Zenon DEF Lead
      <3>3. Limit' = Limit
        BY <1>1, <1>3, <2>1, <3>1, Zenon DEF Limit, Published, NextBuffer, Nothing
      <3> QED
        BY <1>1, <1>3, <1>4, <1>5, <3>1, <3>2, <3>3, Zenon DEF ZbufInv, Published, Nothing, Other
    <2>2. CASE hd.ev
      <3>1. PICK n \in {1, 2}, o \in {1, 2} : n = zb.cur /\ o = Other(n) /\ n # o /\ n = Other(o)
                                               /\ o = NextBuffer(n)
        BY <1>1, <2>2 DEF ZbufInv, Other, NextBuffer
      <3> DEFINE pub == [zb.pub EXCEPT ![n] = Nothing]
      <3>2. zb' = [zb EXCEPT !.pub = pub]
        BY <2>2, <3>1, Zenon DEF AckZbuf
      <3>3. /\ zb.pub \in [{1, 2} -> Nat \X Nat]
            /\ zb \in [cur : {0, 1, 2}, pub : [{1, 2} -> Nat \X Nat], nxt : {1, 2},
                       intr : BOOLEAN]
        BY <1>1, Zenon DEF ZbufInv
      <3>4. pub \in [{1, 2} -> Nat \X Nat] /\ pub[n] = Nothing /\ pub[o] = zb.pub[o]
        <4>1. Nothing \in Nat \X Nat
          BY Zenon DEF Nothing
        <4> QED
          BY <3>1, <3>3, <4>1, Zenon
      <3>5. /\ zb'.cur = n /\ zb'.nxt = zb.nxt /\ zb'.pub = pub
            /\ zb' \in [cur : {0, 1, 2}, pub : [{1, 2} -> Nat \X Nat], nxt : {1, 2},
                        intr : BOOLEAN]
        <4> HIDE DEF pub
        <4> QED
          BY <3>1, <3>2, <3>3, <3>4, Zenon
      <3>6. Lead = n /\ Lead' = o
        BY <1>3, <2>2, <3>1, <3>5, Zenon DEF Lead
      <3>7. zb.pub[n] # Nothing
        BY <1>1, <2>2, <3>1, Zenon DEF ZbufInv, Published
      <3> HIDE DEF pub
      <3>8. IF zb.pub[o] # Nothing
            THEN zb.pub[o] = <<zb.pub[n][2], taken>> /\ zb.nxt = n
            ELSE zb.pub[n][2] = taken /\ zb.nxt = o
        BY <1>1, <3>1, <3>6, <3>7, Zenon DEF ZbufInv, Published
      <3>9. Limit = zb.pub[n][2]
        BY <1>1, <2>2, <3>1, Zenon DEF Limit
      <3>10. Limit' = Limit
        <4>1. NextBuffer(zb.cur)' = o
          BY <3>1, <3>5, Zenon
        <4>2. Limit' = IF zb'.pub[o] # Nothing THEN zb'.pub[o][1] ELSE taken
          BY <1>1, <1>3, <4>1, Zenon DEF Limit, Published, Nothing
        <4> QED
          BY <3>4, <3>5, <3>8, <3>9, <4>2
      <3>11. IF zb'.pub[o] # Nothing
             THEN zb'.pub[o][2] = taken /\ zb'.nxt = n
             ELSE zb'.pub[n] = Nothing /\ zb'.nxt = o
        BY <3>4, <3>5, <3>8
      <3>12. \A i \in {1, 2} : zb'.pub[i] # Nothing => zb'.pub[i][1] < zb'.pub[i][2]
        BY <1>1, <3>1, <3>4, <3>5 DEF ZbufInv, Published
      <3> QED
        BY <1>1, <1>3, <1>4, <1>5, <3>1, <3>4, <3>5, <3>6, <3>10, <3>11, <3>12
           DEF ZbufInv, Published, Nothing, Other
    <2> QED
      BY <2>1, <2>2, Zenon
  <1>7. KindInv'
    BY <1>1, <1>2, <1>3, <1>4, <1>6, OutMoves, Zenon
  <1>8. Around /\ GoesOn
    BY <1>1, <1>3, <1>4, Zenon DEF Around, GoesOn, Stepping, TypeOK
  <1> QED
    BY <1>7, <1>8, GoesOnKept, Zenon DEF Good

\* pcap_next_zbuf_shm: the buffer found begins where the library was.
LEMMA NextZbufShmStep ==
    ASSUME Stepping({"zbpf"}), c.pc \in {"shm", "late", "last"}, NEW p \in Outside,
           NextZbufShm(p)
    PROVE  Good
  <1>1. /\ Stepping(LoopKinds) /\ kind = "zbpf" /\ ~InLoop /\ TypeOK /\ ZbufInv /\ LoopInv
        /\ CallInv /\ UNCHANGED <<kind, match, came>>
    BY Zenon DEF Stepping, LoopKinds, Inv, KindInv, InLoop, const
  <1>2. ~Buffered /\ c.n = 0 /\ c.done = 0 /\ ~hd.ev /\ UpTo(Limit)
    BY <1>1, Zenon DEF LoopInv, ZbufInv, InLoop, Rest
  <1>3. PICK n \in {1, 2}, o \in {1, 2} : n = NextBuffer(zb.cur) /\ o = Other(n) /\ n # o
    BY <1>1 DEF NextBuffer, Other
  <1>4. CASE ~Published(n)
    <2>1. Stay(p) /\ Keep
      BY <1>3, <1>4, Zenon DEF NextZbufShm
    <2> QED
      BY <1>1, <1>2, <2>1, OutStay, Zenon
  <1>5. CASE Published(n)
    <2> DEFINE lo == zb.pub[n][1]
               hi == zb.pub[n][2]
    <2>1. /\ zb' = [zb EXCEPT !.cur = n] /\ hd' = [hd EXCEPT !.ev = TRUE]
          /\ c' = [c EXCEPT !.pc = "packet", !.bp = lo, !.ep = hi]
          /\ UNCHANGED <<taken, ret, handed, brk, over>>
      BY <1>3, <1>5, Zenon DEF NextZbufShm
    <2>2. lo \in Nat /\ hi \in Nat /\ lo < hi
      BY <1>1, <1>5, Zenon DEF ZbufInv
    <2>3. /\ zb'.cur = n /\ zb'.pub = zb.pub /\ zb'.nxt = zb.nxt
          /\ zb' \in [cur : {0, 1, 2}, pub : [{1, 2} -> Nat \X Nat], nxt : {1, 2},
                      intr : BOOLEAN]
      BY <1>1, <2>1, Zenon DEF ZbufInv
    <2>4. /\ hd' \in [bp : Int, ep : Int, ev : BOOLEAN]
          /\ hd'.bp = hd.bp /\ hd'.ep = hd.ep /\ hd'.ev
      <3>1. TRUE \in BOOLEAN
        BY Zenon
      <3> QED
        BY <1>1, <2>1, <3>1, Zenon DEF TypeOK
    <2>5. /\ c' \in CallRec /\ c'.pc = "packet" /\ c'.bp = lo /\ c'.ep = hi
          /\ c'.cnt = c.cnt /\ c'.n = c.n /\ c'.done = c.done
      <3>1. c \in CallRec /\ "packet" \in Pcs /\ lo \in Int /\ hi \in Int
        BY <1>1, <2>2 DEF TypeOK, Pcs
      <3> HIDE DEF lo, hi
      <3> QED
        BY <2>1, <3>1, Zenon DEF CallRec
    <2>6. Limit = lo
      BY <1>1, <1>2, <1>3, <1>5, Zenon DEF Limit
    <2>7. Limit' = hi
      BY <1>1, <2>3, <2>4, Zenon DEF Limit
    <2>8. Lead = n /\ Lead' = n
      BY <1>2, <1>3, <2>3, <2>4, Zenon DEF Lead
    <2>9. InLoop' /\ ~Buffered' /\ kind' = "zbpf"
      BY <1>1, <1>2, <2>4, <2>5, Zenon DEF InLoop, Buffered
    <2>10. ZbufInv'
      <3>1. IF zb'.pub[o] # Nothing
            THEN zb'.pub[o] = <<zb'.pub[n][2], taken>> /\ zb'.nxt = n
            ELSE zb'.pub[n][2] = taken /\ zb'.nxt = o
        BY <1>1, <1>3, <1>5, <2>3, <2>8, Zenon DEF ZbufInv, Published
      <3>2. \A i \in {1, 2} : zb'.pub[i] # Nothing => zb'.pub[i][1] < zb'.pub[i][2]
        BY <1>1, <2>3, Zenon DEF ZbufInv, Published
      <3>3. zb'.pub[n] # Nothing /\ n # 0
        BY <1>5, <2>3 DEF Published
      <3>4. Other(Lead)' = o
        BY <1>3, <2>8, Zenon
      <3> QED
        BY <1>1, <2>1, <2>3, <2>4, <2>8, <2>9, <3>1, <3>2, <3>3, <3>4
           DEF ZbufInv, Published, Nothing
    <2> HIDE DEF lo, hi
    <2>11. UpTo(IF c.bp < c.ep THEN c.bp ELSE Limit)'
      <3>1. (IF c.bp < c.ep THEN c.bp ELSE Limit)' = lo
        BY <2>2, <2>5, Zenon
      <3>2. UpTo(lo) /\ UNCHANGED <<const, handed>>
        BY <1>1, <1>2, <2>1, <2>6, Zenon DEF Stepping
      <3> QED
        BY <3>1, <3>2, UpToStays, Zenon
    <2>12. ~Reached'
      BY <1>2, <2>5 DEF Reached, Limited, CallRec
    <2>13. kind' \notin LossyKinds
      BY <2>9, Zenon DEF LossyKinds
    <2>14. LoopInv'
      BY <1>2, <2>2, <2>5, <2>7, <2>9, <2>11, <2>12, <2>13 DEF LoopInv, InLoop
    <2>15. Around /\ GoesOn
      BY <1>1, <2>1, <2>4, <2>5, Zenon DEF Around, GoesOn, Stepping, TypeOK
    <2> QED
      BY <2>9, <2>10, <2>14, <2>15, GoesOnKept, LoopOnly DEF Good, LoopKinds
  <1> QED
    BY <1>4, <1>5, Zenon

\* The clock of the timeout, and the kernel's rotation, are not seen in the loop.
LEMMA ZbufQuiet ==
    ASSUME Stepping({"zbpf"}), c.pc \in {"wait", "select", "rotate"}, NEW p \in Outside,
           Stay(p), UNCHANGED hd, p # "read",
           \/ taken' = taken /\ \E b \in BOOLEAN : zb' = [zb EXCEPT !.intr = b]
           \/ Rotated
    PROVE  Good
  <1>1. /\ Stepping(LoopKinds) /\ kind = "zbpf" /\ ~InLoop /\ TypeOK /\ ZbufInv /\ LoopInv
        /\ CallInv /\ UNCHANGED <<kind, match, came>>
    BY Zenon DEF Stepping, LoopKinds, Inv, KindInv, InLoop, const
  <1>2. ~Buffered /\ ~hd.ev
    BY <1>1, Zenon DEF LoopInv, ZbufInv, InLoop
  <1>3. /\ c' \in CallRec /\ c'.pc = p /\ c'.cnt = c.cnt /\ c'.n = c.n /\ c'.done = c.done
        /\ UNCHANGED <<ret, handed, brk, over>> /\ p # "idle"
    BY <1>1, CallMoves DEF Stay, Pcs, Outside, TypeOK
  <1>4. ~InLoop'
    BY <1>3, Zenon DEF InLoop, Outside
  <1>5. ZbufInv' /\ Limit' = Limit /\ taken' \in Nat
    <2>1. CASE Rotated
      BY <1>1, <1>2, <1>4, <2>1, RotatedKeeps, Zenon DEF TypeOK
    <2>2. ASSUME taken' = taken, NEW b \in BOOLEAN, zb' = [zb EXCEPT !.intr = b]
          PROVE  ZbufInv' /\ Limit' = Limit /\ taken' \in Nat
      <3>1. /\ zb'.cur = zb.cur /\ zb'.pub = zb.pub /\ zb'.nxt = zb.nxt
            /\ zb' \in [cur : {0, 1, 2}, pub : [{1, 2} -> Nat \X Nat], nxt : {1, 2},
                        intr : BOOLEAN]
        BY <1>1, <2>2, Zenon DEF ZbufInv
      <3>2. Lead' = Lead /\ ~Buffered'
        BY <1>2, <3>1, Zenon DEF Lead, Buffered
      <3>3. Limit' = Limit
        BY <1>1, <2>2, <3>1, Zenon DEF Limit, Published, Nothing
      <3>4. ZbufInv'
        BY <1>1, <1>2, <1>4, <2>2, <3>1, <3>2, Zenon DEF ZbufInv, Published, Nothing
      <3> QED
        BY <1>1, <2>2, <3>3, <3>4, Zenon DEF TypeOK
    <2> QED
      BY <2>1, <2>2, Zenon
  <1>6. KindInv'
    BY <1>1, <1>2, <1>3, <1>4, <1>5, OutMoves, Zenon
  <1>7. Around /\ GoesOn
    BY <1>1, <1>3, <1>5, Zenon DEF Around, GoesOn, Stepping, TypeOK
  <1> QED
    BY <1>6, <1>7, GoesOnKept, Zenon DEF Good

\* BPF with zero-copy buffers: pcap_read_bpf and pcap_next_zbuf.
LEMMA ZbpfStep ==
    ASSUME Stepping({"zbpf"}), PcapReadBpf
    PROVE  Good
  <1>1. Stepping(LoopKinds) /\ kind = "zbpf" /\ kind # "bpf" /\ ZbufInv /\ LoopInv
    BY Zenon DEF Stepping, LoopKinds, Inv, KindInv
  <1>2. CASE BpfAgain
    BY <1>1, <1>2, AgainStep, Zenon DEF BpfAgain
  <1>3. CASE BpfPackets
    BY <1>1, <1>3, PacketLoopStep, Zenon DEF BpfPackets
  <1>4. CASE AckZbuf
    BY <1>4, AckZbufStep, Zenon
  <1>5. CASE NextZbuf
    <2>1. /\ {"wait", "late", "select", "enter", "rotate", "last"} \subseteq Outside
          /\ ~InLoop
      BY <1>5, Zenon DEF Outside, NextZbuf, InLoop
    <2>2. c.pc \in {"wait", "select", "late", "rotate"} => ~hd.ev /\ ~Buffered
      BY <1>1, <2>1, Zenon DEF ZbufInv, LoopInv
    <2>3. CASE c.pc \in {"shm", "late", "last"}
      BY <1>5, <2>1, <2>3, NextZbufShmStep, Zenon DEF NextZbuf
    <2>4. CASE (Stay("late") \/ Stay("select")) /\ Keep /\ c.pc = "wait"
      BY <1>1, <2>1, <2>2, <2>4, OutStay, Zenon
    <2>5. CASE Leave(PCAP_ERROR) /\ Keep
      BY <1>1, <2>1, <2>5, OutLeave, Zenon
    <2>6. CASE /\ c.pc \in {"wait", "select", "rotate"} /\ UNCHANGED hd
               /\ Stay("late") \/ Stay("enter") \/ Stay("last")
               /\ \/ taken' = taken /\ \E b \in BOOLEAN : zb' = [zb EXCEPT !.intr = b]
                  \/ Rotated
      BY <2>1, <2>6, ZbufQuiet, Zenon
    <2>7. FALSE \in BOOLEAN /\ (mode = "timed") \in BOOLEAN
      BY Zenon
    <2> QED
      BY <1>5, <2>3, <2>4, <2>5, <2>6, <2>7, Zenon DEF NextZbuf
  <1> QED
    BY <1>1, <1>2, <1>3, <1>4, <1>5, Zenon DEF PcapReadBpf

-----------------------------------------------------------------------------
(* The other sources.                                                       *)

\* The call is at p and otherwise where it was.
Moved(p) ==
    /\ c' \in CallRec /\ c'.pc = p
    /\ c'.cnt = c.cnt /\ c'.n = c.n /\ c'.done = c.done
    /\ c'.bp = c.bp /\ c'.ep = c.ep /\ c'.from = c.from /\ c'.aux = c.aux
    /\ UNCHANGED handed
    /\ over' = over \/ over' = 0

\* Going on.
LEMMA StayMoves ==
    ASSUME Around, NEW p \in Pcs \ {"idle"}, Stay(p)
    PROVE  Kept /\ Moved(p)
  <1>1. c \in CallRec
    BY Zenon DEF Around, TypeOK
  <1>2. Moved(p)
    BY <1>1, CallMoves, Zenon DEF Stay, Moved
  <1>3. GoesOn
    BY <1>2, Zenon DEF Stay, Moved, GoesOn
  <1> QED
    BY <1>2, <1>3, GoesOnKept, Zenon

\* Returning a count or an error.
LEMMA LeaveMoves ==
    ASSUME Around, NEW r, Leave(r), MayReturn(r)
    PROVE  Kept /\ Moved("idle")
  <1>1. c \in CallRec /\ "idle" \in Pcs
    BY Zenon DEF Around, TypeOK, Pcs
  <1>2. Moved("idle")
    BY <1>1, CallMoves, Zenon DEF Leave, Moved
  <1> QED
    BY <1>2, LeaveKept, Zenon

\* Returning because of a break.
LEMMA BrokenMoves ==
    ASSUME Around, LeaveBroken, MayBreak
    PROVE  Kept /\ Moved("idle")
  <1>1. c \in CallRec /\ "idle" \in Pcs
    BY Zenon DEF Around, TypeOK, Pcs
  <1>2. Moved("idle")
    BY <1>1, CallMoves, Zenon DEF LeaveBroken, Moved
  <1> QED
    BY <1>2, BrokenKept, Zenon

\* A read loop step that leaves the handle and the device alone.
LEMMA AroundKeep ==
    ASSUME NEW kinds, Stepping(kinds), Keep
    PROVE  Around /\ UNCHANGED <<kind, match, came, app, hd, taken, zb>>
  BY Zenon DEF Stepping, Keep, Around, Inv, TypeOK, const

\* DAG cards under NPF.
LEMMA WinDagOnly ==
    ASSUME kind' = "windag", WinDagInv'
    PROVE  KindInv'
  BY Zenon DEF KindInv, LoopKinds, LossyKinds, OneKinds

\* pcap_read_win32_dag.
LEMMA WinDagStep ==
    ASSUME Stepping({"windag"}), PcapReadWin32Dag
    PROVE  Good
  <1>1. /\ kind = "windag" /\ kind' = kind /\ TypeOK /\ CallInv /\ WinDagInv /\ c.pc # "idle"
        /\ c \in CallRec
    BY Zenon DEF Stepping, Inv, KindInv, TypeOK, const
  <1>2. Lax[kind] = {"drops", "again", "number"}
    BY <1>1, Zenon DEF Lax, TypeOK
  <1>3. ASSUME NEW p, c'.pc = p, c'.cnt = c.cnt, c'.n = c.n, c'.done = c.done,
               p \in {"packet", "handle", "end"} => ~Reached,
               p = "handle" => over' = 0, p \in {"enter", "read"} => c.n = 0
        PROVE  KindInv'
    BY <1>1, <1>3, WinDagOnly, Zenon DEF WinDagInv, Reached, Limited
  <1>4. c.n = c.done /\ c.n \in Nat /\ MayReturn(c.n) /\ MayReturn(0) /\ MayReturn(1)
        /\ MayReturn(PCAP_ERROR)
    BY <1>1, <1>2, Zenon DEF WinDagInv, CallRec, MayReturn, Binds
  <1>5. c.n = 0 => MayBreak /\ ~Reached
    BY <1>1, <1>4 DEF MayBreak, Reached, Limited, CallRec
  <1>6. ASSUME Keep, NEW p \in {"read", "handle", "end", "packet"}, Stay(p),
               p \in {"packet", "handle", "end"} => ~Reached,
               p = "handle" => ~brk, p = "read" => c.n = 0
        PROVE  Good
    <2>1. Around /\ p \in Pcs \ {"idle"}
      BY <1>6, AroundKeep, Zenon DEF Pcs
    <2>2. Kept /\ Moved(p) /\ UNCHANGED over
      BY <1>6, <2>1, StayMoves, Zenon DEF Stay
    <2>3. p = "handle" => over' = 0
      BY <1>1, <1>6, <2>2 DEF CallInv, TypeOK
    <2> QED
      BY <1>3, <1>6, <2>2, <2>3, Zenon DEF Moved, Good
  <1>7. ASSUME Keep \/ Save, NEW r, Leave(r), MayReturn(r)
        PROVE  Good
    <2>1. Around
      BY <1>1, <1>7, AroundKeep, SaveFields, Zenon DEF Around, Stepping, TypeOK
    <2>2. Kept /\ Moved("idle")
      BY <1>7, <2>1, LeaveMoves, Zenon
    <2> QED
      BY <1>3, <2>2, Zenon DEF Moved, Good
  <1>8. CASE c.pc = "enter" /\ WinDagReceive
    <2>1. c.n = 0
      BY <1>1, <1>8, Zenon DEF WinDagInv
    <2>2. CASE Resume
      <3>1. Around
        BY <2>2, AroundKeep, Zenon DEF Resume
      <3>2. /\ c' \in CallRec /\ c'.pc = "packet"
            /\ c'.cnt = c.cnt /\ c'.n = c.n /\ c'.done = c.done
        <4>1. c' = [c EXCEPT !.pc = "packet", !.bp = hd.bp, !.ep = hd.ep]
          BY <2>2, Zenon DEF Resume
        <4>2. hd.bp \in Int /\ hd.ep \in Int /\ "packet" \in Pcs
          BY <1>1, Zenon DEF TypeOK, Pcs
        <4> QED
          BY <1>1, <4>1, <4>2, Zenon DEF CallRec
      <3>3. GoesOn
        BY <2>2, <3>2, Zenon DEF Resume, GoesOn
      <3> QED
        BY <1>3, <1>5, <2>1, <3>1, <3>2, <3>3, GoesOnKept, Zenon DEF Good
    <2>3. CASE Stay("read") /\ Keep
      BY <1>6, <2>1, <2>3, Zenon
    <2> QED
      BY <1>8, <2>2, <2>3, Zenon DEF WinDagReceive
  <1>9. CASE c.pc = "read" /\ WinDagReceive
    <2>1. c.n = 0
      BY <1>1, <1>9, Zenon DEF WinDagInv
    <2>2. CASE Fetch(MaxPkt, "packet")
      <3>1. /\ c' \in CallRec /\ c'.pc = "packet" /\ c'.cnt = c.cnt /\ c'.n = c.n
            /\ c'.done = c.done /\ taken' \in Nat
            /\ UNCHANGED <<ret, handed, brk, over, hd>>
        BY <1>1, <2>2, FetchFields, SourcesAssumption, Zenon DEF Pcs
      <3>2. Around /\ GoesOn
        BY <1>1, <3>1, Zenon DEF Around, GoesOn, Stepping, TypeOK
      <3> QED
        BY <1>3, <1>5, <2>1, <3>1, <3>2, GoesOnKept, Zenon DEF Good
    <2>3. CASE (Leave(0) \/ Leave(PCAP_ERROR)) /\ Keep
      BY <1>4, <1>7, <2>3, Zenon
    <2> QED
      BY <1>9, <2>2, <2>3, Zenon DEF WinDagReceive
  <1>10. CASE c.pc = "packet" /\ WinDagRecords
    <2>1. ~Reached
      BY <1>1, <1>10, Zenon DEF WinDagInv
    <2>2. CASE c.n = 0 /\ LeaveBroken /\ Keep
      <3>1. Around
        BY <2>2, AroundKeep, Zenon
      <3>2. Kept /\ Moved("idle")
        BY <1>5, <2>2, <3>1, BrokenMoves, Zenon
      <3> QED
        BY <1>3, <3>2 DEF Moved, Good
    <2>3. CASE (Leave(c.n) /\ Save) \/ (Leave(1) /\ Keep)
      BY <1>4, <1>7, <2>3, Zenon
    <2>4. CASE ~brk /\ Stay("handle") /\ Keep
      BY <1>6, <2>1, <2>4, Zenon
    <2> QED
      BY <1>10, <2>2, <2>3, <2>4, Zenon DEF WinDagRecords, BreakInLoop
  <1>11. CASE c.pc = "handle" /\ WinDagRecords
    <2>1. HandOver(c.bp + 1, 1, "counted", "end") /\ Keep
      BY <1>11, Zenon DEF WinDagRecords
    <2>2. Around /\ c.bp \in Int /\ {"counted", "end"} \subseteq Pcs \ {"idle"}
      BY <1>1, <2>1, AroundKeep, Zenon DEF CallRec, Pcs
    <2>3. Took(c.bp + 1, 1, "counted", "end")
      BY <1>1, <2>1, <2>2, HandTook
    <2>4. MayHand(c.bp) /\ ~Reached
      BY <1>1, <1>2, <1>11 DEF MayHand, UpTo, Binds, WinDagInv, Reached, Limited, CallRec
    <2>5. Kept
      BY <2>2, <2>3, <2>4, HandKept
    <2>6. WinDagInv'
      BY <1>1, <2>3, <2>4, Zenon DEF Took, WinDagInv, Reached, Limited
    <2> QED
      BY <1>1, <2>5, <2>6, WinDagOnly, Zenon DEF Good
  <1>12. CASE c.pc \in {"counted", "end"} /\ WinDagRecords
    <2>1. c.pc = "end" => ~Reached
      BY <1>1, Zenon DEF WinDagInv
    <2>2. CASE (Leave(c.n) /\ Save) \/ (Leave(1) /\ Keep)
      BY <1>4, <1>7, <2>2
    <2>3. CASE ~Reached /\ (Stay("end") \/ Stay("packet")) /\ Keep
      BY <1>6, <2>3, Zenon
    <2> QED
      BY <1>12, <2>1, <2>2, <2>3, Zenon DEF WinDagRecords
  <1> QED
    BY <1>8, <1>9, <1>10, <1>11, <1>12, Zenon DEF PcapReadWin32Dag, WinDagReceive, WinDagRecords

\* TurboCap and DAG, which keep a window between calls.
LEMMA WindowOnly ==
    ASSUME kind' \in {"tc", "dag"}, WindowInv'
    PROVE  KindInv'
  BY Zenon DEF KindInv, LoopKinds, LossyKinds, OneKinds

\* What a step of theirs starts from.
LEMMA WindowFacts ==
    ASSUME Stepping({"tc", "dag"})
    PROVE  /\ TypeOK /\ CallInv /\ WindowInv /\ c \in CallRec /\ kind \in {"tc", "dag"}
           /\ UNCHANGED <<kind, match, came, app>> /\ c.pc # "idle"
           /\ Limit = taken /\ Limit' = taken'
           /\ c.n = c.done /\ c.n \in Nat /\ c.cnt \in Nat
           /\ MayReturn(c.n) /\ MayReturn(PCAP_ERROR)
           /\ c.n = 0 => MayReturn(0) /\ MayBreak
           /\ kind = "dag" => MayBreak
           /\ hd.bp \in Int /\ hd.ep \in Int /\ taken \in Nat
  <1>1. /\ TypeOK /\ CallInv /\ WindowInv /\ kind \in {"tc", "dag"}
        /\ UNCHANGED <<kind, match, came, app>> /\ c.pc # "idle"
    BY Zenon DEF Stepping, Inv, KindInv, const
  <1>2. c \in CallRec /\ hd.bp \in Int /\ hd.ep \in Int /\ taken \in Nat
    BY <1>1, Zenon DEF TypeOK
  <1>3. c.n = c.done /\ c.n \in Nat /\ c.cnt \in Nat
    BY <1>1, <1>2, Zenon DEF WindowInv, CallRec
  <1>4. Limit = taken /\ Limit' = taken'
    BY <1>1, Zenon DEF Limit
  <1>5. kind = "dag" => MayBreak
    BY <1>1, Zenon DEF MayBreak, Binds, Lax, TypeOK
  <1> QED
    BY <1>1, <1>2, <1>3, <1>4, <1>5, Zenon DEF MayReturn, MayBreak

\* A step that does not change the window.
LEMMA WindowMoves ==
    ASSUME Stepping({"tc", "dag"}), NEW p, Moved(p), UNCHANGED <<hd, taken>>,
           p \in {"packet", "handle"} => ~Reached,
           p = "handle" => Buffered /\ over' = 0 /\ (kind = "tc" => hd.ev),
           p \in {"enter", "read"} => c.n = 0,
           p = "read" => (IF kind = "tc" THEN ~hd.ev ELSE ~Buffered)
    PROVE  KindInv'
  <1>1. WindowInv /\ Limit = taken /\ Limit' = taken /\ kind' \in {"tc", "dag"} /\ kind' = kind
    BY WindowFacts, Zenon
  <1>2. Rest' = Rest
    BY <1>1, Zenon DEF Rest, Buffered
  <1>3. UpTo(Rest)'
    BY <1>1, <1>2, UpToStays, Zenon DEF WindowInv, Moved, Stepping
  <1>4. WindowInv'
    BY <1>1, <1>3, WindowFacts DEF WindowInv, Moved, Buffered, Reached, Limited
  <1> QED
    BY <1>1, <1>4, WindowOnly, Zenon

\* The packet after bp is taken out of the window.
LEMMA WindowHands ==
    ASSUME Stepping({"tc", "dag"}), c.pc = "handle",
           HandOver(hd.bp + 1, 1, "counted", "packet"),
           hd' = [hd EXCEPT !.bp = @ + 1], UNCHANGED <<taken, zb>>
    PROVE  Good
  <1> DEFINE p == hd.bp + 1
  <1>1. /\ WindowInv /\ c \in CallRec /\ TypeOK /\ CallInv /\ taken \in Nat
        /\ Limit = taken /\ Limit' = taken /\ kind' \in {"tc", "dag"} /\ kind' = kind
        /\ c.n = c.done /\ c.n \in Nat /\ c.cnt \in Nat /\ hd.bp \in Int /\ hd.ep \in Int
    BY WindowFacts, Zenon
  <1>2. /\ hd.bp < hd.ep /\ hd.ep = taken /\ UpTo(hd.bp) /\ ~Reached /\ over = 0
        /\ kind = "tc" => hd.ev
    BY <1>1, Zenon DEF WindowInv, Buffered, Rest
  <1>3. /\ hd' \in [bp : Int, ep : Int, ev : BOOLEAN]
        /\ hd'.bp = p /\ hd'.ep = hd.ep /\ hd'.ev = hd.ev
    <2>1. p \in Int /\ hd \in [bp : Int, ep : Int, ev : BOOLEAN] /\ hd' = [hd EXCEPT !.bp = p]
      BY <1>1 DEF TypeOK
    <2> HIDE DEF p
    <2> QED
      BY <2>1, Zenon
  <1>4. p \in Int /\ {"counted", "packet"} \subseteq Pcs \ {"idle"} /\ 1 \in Nat /\ p = hd.bp + 1
    BY <1>1 DEF Pcs
  <1>5. Took(p, 1, "counted", "packet")
    BY <1>1, <1>4, HandTook, Zenon
  <1>6. Around
    BY <1>1, <1>3, Zenon DEF Around, Stepping, TypeOK
  <1>7. MayHand(hd.bp)
    BY <1>1, <1>2 DEF MayHand, Reached, Limited
  <1>8. Kept
    <2> HIDE DEF p
    <2> QED
      BY <1>1, <1>4, <1>5, <1>6, <1>7, HandKept, Zenon
  <1>9. UpTo(Rest)'
    <2>1. Rest' = p
      BY <1>1, <1>2, <1>3 DEF Rest, Buffered
    <2> QED
      BY <1>1, <1>2, <1>5, <1>6, <2>1, HandPasses
  <1>10. hd'.bp <= hd'.ep
    BY <1>1, <1>2, <1>3
  <1> HIDE DEF p
  <1>11. kind' = "dag" /\ Limited' => c'.n <= c'.cnt
    BY <1>1, <1>2, <1>5 DEF Took, Reached, Limited
  <1>12. WindowInv'
    BY <1>1, <1>2, <1>3, <1>5, <1>9, <1>10, <1>11 DEF WindowInv, Took, Buffered, Reached, Limited
  <1> QED
    BY <1>1, <1>8, <1>12, WindowOnly, Zenon DEF Good

\* A new window is read.
LEMMA WindowFetch ==
    ASSUME Stepping({"tc", "dag"}), c.pc = "read", Stay("packet"), taken' \in Nat,
           hd' \in [bp : Int, ep : Int, ev : BOOLEAN], taken <= taken',
           hd'.bp = taken, hd'.ep = taken', kind = "tc" /\ ~hd'.ev => taken' = taken
    PROVE  Good
  <1>1. /\ WindowInv /\ c \in CallRec /\ TypeOK /\ CallInv /\ taken \in Nat
        /\ Limit = taken /\ Limit' = taken' /\ kind' \in {"tc", "dag"} /\ kind' = kind
        /\ c.n = c.done /\ c.n \in Nat /\ c.cnt \in Nat /\ hd.bp \in Int /\ hd.ep \in Int
    BY WindowFacts, Zenon
  <1>2. ~Buffered /\ UpTo(taken) /\ c.n = 0 /\ ~Reached
    BY <1>1 DEF WindowInv, Rest, Reached, Limited
  <1>3. Around
    BY <1>1, Zenon DEF Around, Stepping
  <1>4. Kept /\ Moved("packet")
    BY <1>3, StayMoves, Zenon DEF Pcs
  <1>5. UpTo(Rest)'
    <2>1. Rest' = taken
      BY <1>1 DEF Rest, Buffered
    <2> QED
      BY <1>2, <1>4, <2>1, UpToStays, Zenon DEF Moved, Stepping
  <1>6. c'.pc = "packet" /\ c'.n = c.n /\ c'.done = c.done /\ c'.cnt = c.cnt
    BY <1>4, Zenon DEF Moved
  <1>7. kind = "tc" /\ ~hd'.ev => ~Buffered'
    BY <1>1 DEF Buffered
  <1>8. /\ hd'.bp <= hd'.ep /\ ~Reached' /\ c'.n <= c'.cnt /\ c'.n = c'.done /\ hd'.ep = taken'
        /\ c'.pc # "handle" /\ c'.pc # "read" /\ c'.pc \notin {"enter", "read"}
    <2>1. hd'.bp <= hd'.ep
      BY Zenon
    <2>2. c'.n <= c'.cnt /\ c'.n = c'.done
      <3>1. c'.n = 0 /\ c'.done = 0 /\ c'.cnt \in Nat
        BY <1>1, <1>2, <1>6, Zenon
      <3> QED
        BY <3>1
    <2>3. ~Reached'
      BY <1>1, <1>2, <1>6, Zenon DEF Reached, Limited
    <2>4. c'.pc # "handle" /\ c'.pc # "read" /\ c'.pc \notin {"enter", "read"}
      BY <1>6, Zenon
    <2> QED
      BY <2>1, <2>2, <2>3, <2>4, Zenon
  <1>9. WindowInv'
    BY <1>5, <1>6, <1>7, <1>8, <1>1, Zenon DEF WindowInv
  <1> QED
    BY <1>1, <1>4, <1>9, WindowOnly, Zenon DEF Good

\* Returns that leave the window alone.
LEMMA WindowLeave ==
    ASSUME Stepping({"tc", "dag"}), Keep,
           \/ \E r : Leave(r) /\ MayReturn(r)
           \/ LeaveBroken /\ MayBreak
    PROVE  Good
  <1>1. Around /\ UNCHANGED <<hd, taken>>
    BY AroundKeep, Zenon
  <1>2. Kept /\ Moved("idle")
    BY <1>1, LeaveMoves, BrokenMoves, Zenon
  <1> QED
    BY <1>1, <1>2, WindowMoves, Zenon DEF Good

\* Steps that leave it alone.
LEMMA WindowStay ==
    ASSUME Stepping({"tc", "dag"}), Keep, NEW p \in {"enter", "read", "packet", "handle"},
           Stay(p), p \in {"packet", "handle"} => ~Reached,
           p = "handle" => Buffered /\ ~brk /\ (kind = "tc" => hd.ev),
           p \in {"enter", "read"} => c.n = 0,
           p = "read" => (IF kind = "tc" THEN ~hd.ev ELSE ~Buffered)
    PROVE  Good
  <1>1. Around /\ UNCHANGED <<hd, taken>> /\ p \in Pcs \ {"idle"}
    BY AroundKeep, Zenon DEF Pcs
  <1>2. Kept /\ Moved(p) /\ UNCHANGED over
    BY <1>1, StayMoves, Zenon DEF Stay
  <1>3. p = "handle" => over' = 0
    BY <1>2, WindowFacts DEF CallInv, TypeOK
  <1> QED
    BY <1>1, <1>2, <1>3, WindowMoves, Zenon DEF Good

\* TcRead.
LEMMA TcStep ==
    ASSUME Stepping({"tc"}), TcRead
    PROVE  Good
  <1>1. Stepping({"tc", "dag"}) /\ kind = "tc"
    BY Zenon DEF Stepping
  <1>2. /\ WindowInv /\ TypeOK /\ CallInv /\ taken \in Nat /\ c.n \in Nat
        /\ c.cnt \in Nat /\ MayReturn(c.n) /\ MayReturn(PCAP_ERROR)
        /\ c.n = 0 => MayReturn(0) /\ MayBreak
    BY <1>1, WindowFacts, Zenon
  <1>3. c.n = 0 => ~Reached
    BY <1>2 DEF Reached, Limited
  <1>4. CASE c.pc = "enter"
    <2>1. c.n = 0
      BY <1>2, <1>4, Zenon DEF WindowInv
    <2>2. CASE LeaveBroken /\ Keep
      BY <1>1, <1>2, <2>1, <2>2, WindowLeave, Zenon
    <2>3. CASE hd.ev /\ Stay("packet") /\ Keep
      BY <1>1, <1>3, <2>1, <2>3, WindowStay, Zenon
    <2>4. CASE ~hd.ev /\ Stay("read") /\ Keep
      BY <1>1, <2>1, <2>4, WindowStay, Zenon
    <2> QED
      BY <1>4, <2>2, <2>3, <2>4, Zenon DEF TcRead
  <1>5. CASE c.pc = "read"
    <2>1. ASSUME NEW hi \in (taken + 1)..came, taken' = hi,
                 hd' = [bp |-> taken, ep |-> hi, ev |-> TRUE], Stay("packet")
          PROVE  Good
      <3>1. TRUE \in BOOLEAN
        BY Zenon
      <3>2. /\ hd' \in [bp : Int, ep : Int, ev : BOOLEAN] /\ taken' \in Nat /\ taken <= taken'
            /\ hd'.bp = taken /\ hd'.ep = taken' /\ hd'.ev
        BY <1>2, <2>1, <3>1 DEF TypeOK
      <3> QED
        BY <1>1, <1>5, <2>1, <3>2, WindowFetch, Zenon
    <2>2. ASSUME NEW b \in BOOLEAN, hd' = [bp |-> taken, ep |-> taken, ev |-> b],
                 Stay("packet"), taken' = taken
          PROVE  Good
      <3>1. /\ hd' \in [bp : Int, ep : Int, ev : BOOLEAN] /\ taken' \in Nat /\ taken <= taken'
            /\ hd'.bp = taken /\ hd'.ep = taken'
        BY <1>2, <2>2
      <3> QED
        BY <1>1, <1>5, <2>2, <3>1, WindowFetch, Zenon
    <2>3. CASE Leave(PCAP_ERROR) /\ Keep
      BY <1>1, <1>2, <2>3, WindowLeave, Zenon
    <2> QED
      BY <1>5, <2>1, <2>2, <2>3, Zenon DEF TcRead
  <1>6. CASE c.pc = "packet"
    <2>1. ~Reached
      BY <1>2, <1>6, Zenon DEF WindowInv
    <2>2. CASE /\ Keep
               /\ (c.n = 0 /\ LeaveBroken) \/ Leave(c.n) \/ Leave(PCAP_ERROR)
      BY <1>1, <1>2, <2>2, WindowLeave, Zenon
    <2>3. CASE ~brk /\ hd.ev /\ Buffered /\ Stay("handle") /\ Keep
      BY <1>1, <2>1, <2>3, WindowStay, Zenon
    <2>4. CASE /\ ~Buffered /\ hd' = [hd EXCEPT !.ev = FALSE]
               /\ Leave(c.n) /\ UNCHANGED <<taken, zb>>
      <3>1. /\ hd' \in [bp : Int, ep : Int, ev : BOOLEAN]
            /\ hd'.bp = hd.bp /\ hd'.ep = hd.ep /\ hd'.ev = FALSE
        <4>1. FALSE \in BOOLEAN
          BY Zenon
        <4> QED
          BY <1>2, <2>4, <4>1, Zenon DEF TypeOK
      <3>2. Around
        BY <1>1, <1>2, <2>4, <3>1, Zenon DEF Around, Stepping
      <3>3. Kept /\ Moved("idle")
        BY <1>2, <2>4, <3>2, LeaveMoves, Zenon
      <3>4. ~Buffered' /\ Rest' = Rest /\ kind' = "tc"
        BY <1>1, <2>4, <3>1, WindowFacts, Zenon DEF Buffered, Rest
      <3>5. UpTo(Rest)'
        BY <1>1, <1>2, <3>3, <3>4, UpToStays, Zenon DEF WindowInv, Moved, Stepping
      <3>6. WindowInv'
        BY <1>2, <3>1, <3>3, <3>4, <3>5, Zenon DEF WindowInv, Moved
      <3> QED
        BY <3>3, <3>4, <3>6, WindowOnly, Zenon DEF Good
    <2> QED
      BY <1>6, <2>2, <2>3, <2>4, Zenon DEF TcRead
  <1>7. CASE c.pc = "handle"
    BY <1>1, <1>7, WindowHands, Zenon DEF TcRead
  <1>8. CASE c.pc = "counted"
    <2>1. CASE Leave(c.n) /\ Keep
      BY <1>1, <1>2, <2>1, WindowLeave, Zenon
    <2>2. CASE ~Reached /\ Stay("packet") /\ Keep
      BY <1>1, <2>2, WindowStay, Zenon
    <2> QED
      BY <1>8, <2>1, <2>2, Zenon DEF TcRead
  <1> QED
    BY <1>4, <1>5, <1>6, <1>7, <1>8, Zenon DEF TcRead

\* dag_read.
LEMMA DagStep ==
    ASSUME Stepping({"dag"}), DagRead
    PROVE  Good
  <1>1. Stepping({"tc", "dag"}) /\ kind = "dag" /\ kind # "tc"
    BY Zenon DEF Stepping
  <1>2. /\ WindowInv /\ TypeOK /\ CallInv /\ taken \in Nat /\ c.n \in Nat
        /\ c.cnt \in Nat /\ MayReturn(c.n) /\ MayReturn(PCAP_ERROR) /\ MayBreak
        /\ c.n = 0 => MayReturn(0)
    BY <1>1, WindowFacts, Zenon
  <1>3. c.n = 0 => ~Reached
    BY <1>2 DEF Reached, Limited
  <1>4. CASE c.pc = "enter" /\ DagFill
    <2>1. c.n = 0
      BY <1>2, <1>4, Zenon DEF WindowInv
    <2>2. CASE LeaveBroken /\ Keep
      BY <1>1, <1>2, <2>2, WindowLeave, Zenon
    <2>3. CASE Stay("packet") /\ Keep
      BY <1>1, <1>3, <2>1, <2>3, WindowStay
    <2>4. CASE ~Buffered /\ Stay("read") /\ Keep
      BY <1>1, <2>1, <2>4, WindowStay, Zenon
    <2> QED
      BY <1>4, <2>2, <2>3, <2>4, Zenon DEF DagFill
  <1>5. CASE c.pc = "read" /\ DagFill
    <2>1. c.n = 0
      BY <1>2, <1>5, Zenon DEF WindowInv
    <2>2. ASSUME NEW hi \in (taken + 1)..came, taken' = hi,
                 hd' = [hd EXCEPT !.bp = taken, !.ep = hi], Stay("packet")
          PROVE  Good
      <3>1. /\ hd' \in [bp : Int, ep : Int, ev : BOOLEAN] /\ taken' \in Nat /\ taken <= taken'
            /\ hd'.bp = taken /\ hd'.ep = taken'
        <4>1. hi \in Nat /\ taken <= hi /\ taken \in Int /\ hi \in Int
          BY <1>2, <2>2, SourcesAssumption DEF TypeOK
        <4>2. hd \in [bp : Int, ep : Int, ev : BOOLEAN]
          BY <1>2, Zenon DEF TypeOK
        <4> QED
          BY <2>2, <4>1, <4>2, Zenon
      <3> QED
        BY <1>1, <1>5, <2>2, <3>1, WindowFetch, Zenon
    <2>3. CASE (Leave(0) \/ Leave(PCAP_ERROR)) /\ Keep
      BY <1>1, <1>2, <2>1, <2>3, WindowLeave, Zenon
    <2>4. CASE Stay("enter") /\ Keep
      BY <1>1, <2>1, <2>4, WindowStay, Zenon
    <2> QED
      BY <1>5, <2>2, <2>3, <2>4, Zenon DEF DagFill
  <1>6. CASE DagNextRecord
    <2>1. ~Reached /\ Keep
      BY <1>2, <1>6, Zenon DEF WindowInv, DagNextRecord
    <2>2. CASE LeaveBroken \/ Leave(c.n) \/ Leave(PCAP_ERROR)
      BY <1>1, <1>2, <2>1, <2>2, WindowLeave, Zenon
    <2>3. CASE ~brk /\ Buffered /\ Stay("handle")
      BY <1>1, <2>1, <2>3, WindowStay, Zenon
    <2> QED
      BY <1>6, <2>2, <2>3, Zenon DEF DagNextRecord
  <1>7. CASE DagRecord
    BY <1>1, <1>7, WindowHands, Zenon DEF DagRecord
  <1>8. CASE DagCounted
    <2>1. CASE Leave(c.cnt) /\ c.n = c.cnt
      BY <1>1, <1>2, <1>8, <2>1, WindowLeave, Zenon DEF DagCounted
    <2>2. CASE ~Reached /\ Stay("packet")
      BY <1>1, <1>8, <2>2, WindowStay, Zenon DEF DagCounted
    <2> QED
      BY <1>8, <2>1, <2>2, Zenon DEF DagCounted
  <1> QED
    BY <1>4, <1>5, <1>6, <1>7, <1>8, Zenon DEF DagRead, DagFill

\* The call goes to p: it returns, or goes on.
Move(p) ==
    \/ p = "idle" /\ LeaveBroken /\ MayBreak
    \/ p = "idle" /\ \E r : Leave(r) /\ MayReturn(r)
    \/ p \in Pcs \ {"idle"} /\ Stay(p)

\* Whatever the step does to the handle and the device.
LEMMA MoveKept ==
    ASSUME NEW kinds, Stepping(kinds), NEW p, Move(p),
           hd' \in [bp : Int, ep : Int, ev : BOOLEAN], taken' \in Nat
    PROVE  Around /\ Kept /\ Moved(p) /\ (p # "idle" => over' = over)
  <1>1. Around
    BY Zenon DEF Stepping, Around, Inv, const
  <1>2. CASE p \in Pcs \ {"idle"} /\ Stay(p)
    BY <1>1, <1>2, StayMoves, Zenon DEF Stay
  <1>3. CASE p = "idle" /\ LeaveBroken /\ MayBreak
    BY <1>1, <1>3, BrokenMoves, Zenon
  <1>4. CASE p = "idle" /\ \E r : Leave(r) /\ MayReturn(r)
    BY <1>1, <1>4, LeaveMoves, Zenon
  <1> QED
    BY <1>2, <1>3, <1>4, Zenon DEF Move

\* What a step of a read loop starts from.
LEMMA SteppingFacts ==
    ASSUME NEW kinds, Stepping(kinds)
    PROVE  /\ TypeOK /\ CallInv /\ KindInv /\ kind \in kinds /\ c.pc # "idle"
           /\ UNCHANGED <<kind, mode, match, came, app>>
           /\ c \in CallRec /\ c.cnt \in Nat /\ c.n \in Nat /\ c.done \in Nat
           /\ c.bp \in Int /\ c.ep \in Int /\ c.from \in Int /\ c.aux \in Nat
           /\ hd \in [bp : Int, ep : Int, ev : BOOLEAN]
           /\ taken \in Nat /\ came \in Nat /\ over \in Nat
           /\ (~brk => over = 0)
           /\ MayReturn(PCAP_ERROR)
           /\ (c.n = c.done => MayReturn(c.n))
           /\ (c.n = c.done /\ c.n = 0 => MayReturn(0) /\ MayBreak /\ ~Reached)
  <1>1. /\ TypeOK /\ CallInv /\ KindInv /\ kind \in kinds /\ c.pc # "idle"
        /\ UNCHANGED <<kind, mode, match, came, app>> /\ c \in CallRec
    BY Zenon DEF Stepping, Inv, TypeOK, const
  <1>2. /\ c.cnt \in Nat /\ c.n \in Nat /\ c.done \in Nat
        /\ c.bp \in Int /\ c.ep \in Int /\ c.from \in Int /\ c.aux \in Nat
    BY <1>1, Zenon DEF CallRec
  <1>3. /\ hd \in [bp : Int, ep : Int, ev : BOOLEAN]
        /\ taken \in Nat /\ came \in Nat /\ over \in Nat
        /\ (~brk => over = 0)
    BY <1>1 DEF TypeOK, CallInv
  <1>4. MayReturn(PCAP_ERROR) /\ (c.n = c.done => MayReturn(c.n))
    BY <1>2, Zenon DEF MayReturn
  <1>5. c.n = c.done /\ c.n = 0 => MayReturn(0) /\ MayBreak /\ ~Reached
    BY <1>2 DEF MayReturn, MayBreak, Reached, Limited
  <1> QED
    BY <1>1, <1>2, <1>3, <1>4, <1>5, Zenon

\* A source that may leave packets out passes those it throws away.
LEMMA UpToLoses ==
    ASSUME TypeOK, UNCHANGED <<const, handed>>, NEW x \in Int, NEW y \in Int, x <= y,
           UpTo(x), ~Binds("drops")
    PROVE  UpTo(y)'
  <1>1. \A i \in DOMAIN handed : handed[i] \in Int
    BY DEF TypeOK
  <1>2. HandedUpTo(x) => HandedUpTo(y)'
    BY <1>1 DEF HandedUpTo
  <1> QED
    BY <1>2, Zenon DEF UpTo, Binds, const

\* DLPI without bufmod, one message per call.
LEMMA Dlpi1Only ==
    ASSUME kind' = "dlpi1", Dlpi1Inv'
    PROVE  KindInv'
  BY Zenon DEF KindInv, LoopKinds, LossyKinds, OneKinds

\* PcapReadDlpi and ProcessPkts without bufmod.
LEMMA Dlpi1Step ==
    ASSUME Stepping({"dlpi1"}), PcapReadDlpi \/ ProcessPkts
    PROVE  Good
  <1>1. /\ kind = "dlpi1" /\ kind' = kind /\ kind \in Kinds /\ match \subseteq Numbers
        /\ Dlpi1Inv /\ c.n = c.done
    BY SteppingFacts DEF KindInv, TypeOK, Dlpi1Inv
  <1>2. /\ Binds("count") /\ ~Binds("again") /\ ~Binds("slow")
    BY <1>1, Zenon DEF Binds, Lax
  <1>3. ASSUME NEW p, Move(p), hd' \in [bp : Int, ep : Int, ev : BOOLEAN],
               hd'.bp < hd'.ep => hd'.bp = -1, taken' = taken,
               p # "packet", c.pc # "packet", p \notin {"idle", "counted", "one"} => c.n = 0
        PROVE  Good
    <2>1. Around /\ Kept /\ Moved(p)
      BY <1>3, MoveKept, SteppingFacts, Zenon
    <2>2. UpTo(taken)'
      BY <1>1, <1>3, <2>1, UpToStays, Zenon DEF Moved, Dlpi1Inv, Around
    <2>3. Dlpi1Inv'
      BY <1>1, <1>3, <2>1, <2>2, Zenon DEF Moved, Dlpi1Inv, Buffered
    <2> QED
      BY <1>1, <2>1, <2>3, Dlpi1Only, Zenon DEF Good
  <1>4. ASSUME NEW p, Move(p), Keep,
               p # "packet", c.pc # "packet", p \notin {"idle", "counted", "one"} => c.n = 0
        PROVE  Good
    BY <1>1, <1>3, <1>4, SteppingFacts, Zenon DEF Keep, Dlpi1Inv, Buffered
  <1>5. ASSUME c' \in CallRec, c'.pc = "packet", c.pc # "packet",
               c'.cnt = c.cnt, c'.n = c.n, c'.done = c.done,
               UNCHANGED <<ret, handed, brk, over, hd>>, c.n = 0, taken' \in Nat,
               \/ c'.bp = -1 /\ taken' = taken
               \/ c'.bp = taken /\ taken' = taken + 1
        PROVE  Good
    <2>1. Around /\ GoesOn
      BY <1>5, Zenon DEF Around, GoesOn, Stepping, Inv, TypeOK
    <2>2. UpTo(taken) /\ UNCHANGED <<const, handed>>
      BY <1>1, <1>5, <2>1 DEF Dlpi1Inv, Around
    <2>3. (c'.bp + 1 = taken' /\ UpTo(c.bp)') \/ (c'.bp + 1 = 0 /\ UpTo(taken)')
      <3>1. CASE c'.bp = -1 /\ taken' = taken
        BY <2>2, <3>1, UpToStays
      <3>2. CASE c'.bp = taken /\ taken' = taken + 1
        BY <2>2, <3>2, UpToStays, Zenon
      <3> QED
        BY <1>5, <3>1, <3>2, Zenon
    <2>4. Dlpi1Inv'
      BY <1>1, <1>5, <2>3, Zenon DEF Dlpi1Inv, Buffered
    <2> QED
      BY <1>1, <2>1, <2>4, GoesOnKept, Dlpi1Only DEF Good
  <1>6. CASE c.pc = "enter"
    <2>1. c.n = 0 /\ DlpiWait
      BY <1>1, <1>6, Zenon DEF Dlpi1Inv, PcapReadDlpi, ProcessPkts
    <2>2. CASE Resume
      <3>1. c' = [c EXCEPT !.pc = "packet", !.bp = hd.bp, !.ep = hd.ep] /\ hd.bp = -1
            /\ UNCHANGED <<ret, handed, brk, over, hd, taken>>
        BY <1>1, <2>2, Zenon DEF Resume, Dlpi1Inv, Keep
      <3>2. hd.bp \in Int /\ hd.ep \in Int /\ "packet" \in Pcs /\ c \in CallRec /\ taken \in Nat
        BY SteppingFacts, Zenon DEF Pcs
      <3>3. /\ c' \in CallRec /\ c'.pc = "packet" /\ c'.bp = hd.bp
            /\ c'.cnt = c.cnt /\ c'.n = c.n /\ c'.done = c.done
        BY <3>1, <3>2, Zenon DEF CallRec
      <3> QED
        BY <1>5, <1>6, <2>1, <3>1, <3>2, <3>3, Zenon
    <2>3. CASE Stay("wait") /\ Keep
      BY <1>4, <1>6, <2>1, <2>3 DEF Move, Pcs
    <2> QED
      BY <1>6, <2>1, <2>2, <2>3, Zenon DEF DlpiWait
  <1>7. CASE c.pc = "wait"
    <2>1. c.n = 0 /\ DlpiWait /\ MayBreak
      BY <1>1, <1>7, SteppingFacts, Zenon DEF Dlpi1Inv, PcapReadDlpi, ProcessPkts
    <2>2. CASE LeaveBroken /\ Keep
      BY <1>4, <1>7, <2>1, <2>2, Zenon DEF Move
    <2>3. CASE Stay("read") /\ Keep
      BY <1>4, <1>7, <2>1, <2>3, Zenon DEF Move, Pcs
    <2> QED
      BY <1>7, <2>1, <2>2, <2>3, Zenon DEF DlpiWait
  <1>8. CASE c.pc = "read"
    <2>1. c.n = 0 /\ MayReturn(0) /\ MayReturn(PCAP_ERROR)
      BY <1>1, <1>8, SteppingFacts, Zenon DEF Dlpi1Inv
    <2>2. CASE Fetch(1, "packet")
      <3>1. /\ c' \in CallRec /\ c'.pc = "packet" /\ c'.cnt = c.cnt /\ c'.n = c.n
            /\ c'.done = c.done /\ c'.bp = taken
            /\ taken' \in Nat /\ taken < taken' /\ taken' - taken <= 1
            /\ UNCHANGED <<ret, handed, brk, over, hd, zb>>
        BY <2>2, FetchFields, SteppingFacts DEF Pcs
      <3>2. taken' = taken + 1
        BY <3>1, SteppingFacts
      <3> QED
        BY <1>5, <1>8, <2>1, <3>1, <3>2
    <2>3. CASE Stay("wait") /\ Keep
      BY <1>4, <1>8, <2>1, <2>3, Zenon DEF Move, Pcs
    <2>4. CASE (Leave(0) \/ Leave(PCAP_ERROR)) /\ Keep
      BY <1>4, <1>8, <2>1, <2>4, Zenon DEF Move
    <2> QED
      BY <1>1, <1>8, <2>2, <2>3, <2>4, Zenon DEF PcapReadDlpi, ProcessPkts, DlpiWait
  <1>9. CASE c.pc = "packet"
    <2>1. HandOver(c.bp + 1, 1, "counted", "one") /\ Keep /\ c.n = 0
      BY <1>1, <1>9, Zenon DEF Dlpi1Inv, PcapReadDlpi, ProcessPkts, DlpiWait
    <2>2. /\ Around /\ c.bp \in Int /\ c.bp + 1 \in Int /\ c.cnt \in Nat
          /\ {"counted", "one"} \subseteq Pcs \ {"idle"} /\ c \in CallRec
      BY <2>1, AroundKeep, SteppingFacts DEF Pcs
    <2>3. Took(c.bp + 1, 1, "counted", "one")
      BY <2>1, <2>2, HandTook, Zenon
    <2>4. UpTo(c.bp)
      <3>1. CASE c.bp + 1 = taken /\ UpTo(c.bp)
        BY <3>1, Zenon
      <3>2. CASE c.bp + 1 = 0
        <4>1. \A q \in match : q \in Int /\ q >= 0
          BY <1>1, SourcesAssumption DEF Numbers
        <4>2. \A q \in match : q > c.bp
          BY <2>2, <3>2, <4>1
        <4> QED
          BY <1>2, <4>2, Zenon DEF UpTo, NoneLeft
      <3> QED
        BY <1>1, <1>9, <3>1, <3>2, Zenon DEF Dlpi1Inv
    <2>5. MayHand(c.bp)
      BY <1>1, <1>2, <2>1, <2>2, <2>4 DEF MayHand
    <2>6. Kept
      BY <2>2, <2>3, <2>5, HandKept, Zenon
    <2>7. taken' = taken /\ hd' = hd /\ taken \in Int
      BY <2>1, SteppingFacts DEF Keep
    <2>8. UpTo(taken)'
      <3>1. CASE c.bp + 1 = taken /\ UpTo(c.bp)
        BY <2>2, <2>3, <2>7, <3>1, HandPasses, Zenon
      <3>2. CASE UpTo(taken)
        BY <1>2, <2>2, <2>3, <2>7, <3>2, HandRepeats
      <3> QED
        BY <1>1, <1>9, <3>1, <3>2, Zenon DEF Dlpi1Inv
    <2>9. Dlpi1Inv'
      BY <1>1, <2>1, <2>3, <2>7, <2>8 DEF Took, Dlpi1Inv, Buffered
    <2> QED
      BY <1>1, <2>6, <2>9, Dlpi1Only DEF Good
  <1>10. CASE c.pc = "counted"
    <2>1. CASE Stay("one") /\ Keep
      BY <1>4, <1>10, <2>1, Zenon DEF Move, Pcs
    <2>2. ASSUME NEW long \in BOOLEAN, Leave(c.n), UNCHANGED taken,
                 hd' = [hd EXCEPT !.bp = IF long THEN -1 ELSE 0, !.ep = 0]
          PROVE  Good
      <3> DEFINE b == IF long THEN -1 ELSE 0
                 z == 0
      <3>1. b \in Int /\ z \in Int /\ (b < z => b = -1)
        OBVIOUS
      <3>2. hd' = [hd EXCEPT !.bp = b, !.ep = z] /\ hd \in [bp : Int, ep : Int, ev : BOOLEAN]
        BY <2>2, SteppingFacts, Zenon
      <3> HIDE DEF b, z
      <3>3. hd' \in [bp : Int, ep : Int, ev : BOOLEAN] /\ hd'.bp = b /\ hd'.ep = z
        BY <3>1, <3>2, Zenon
      <3>4. Move("idle")
        BY <1>1, <2>2, SteppingFacts DEF Move
      <3> QED
        BY <1>3, <1>10, <2>2, <3>1, <3>3, <3>4
    <2> QED
      BY <1>1, <1>10, <2>1, <2>2, Zenon DEF PcapReadDlpi, ProcessPkts, DlpiWait
  <1>11. CASE c.pc = "one"
    <2>1. Leave(c.n) /\ Drain
      BY <1>1, <1>11, Zenon DEF PcapReadDlpi, ProcessPkts, DlpiWait
    <2>2. hd' \in [bp : Int, ep : Int, ev : BOOLEAN] /\ ~(hd'.bp < hd'.ep) /\ taken' = taken
      BY <2>1, DrainFields, SteppingFacts
    <2>3. Move("idle")
      BY <1>1, <2>1, SteppingFacts, Zenon DEF Move
    <2> QED
      BY <1>3, <1>11, <2>2, <2>3, Zenon
  <1> QED
    BY <1>1, <1>6, <1>7, <1>8, <1>9, <1>10, <1>11, Zenon DEF PcapReadDlpi, ProcessPkts, DlpiWait

-----------------------------------------------------------------------------
\* Sources that give up one packet per call.
LEMMA OneOnly ==
    ASSUME kind' \in OneKinds, OneInv'
    PROVE  KindInv'
  BY Zenon DEF KindInv, LoopKinds, LossyKinds, OneKinds

\* A step that takes no packet.
LEMMA OneMoves ==
    ASSUME Stepping(OneKinds), NEW p, Move(p), Keep, p # "handle", c.pc # "handle",
           p \notin {"idle", "one"} => c.n = 0,
           p = "read" /\ kind \in {"haiku", "hurd"} => ~brk
    PROVE  Good
  <1>1. OneInv /\ kind' = kind /\ kind \in OneKinds /\ taken' = taken
    BY SteppingFacts, Zenon DEF KindInv, Keep
  <1>2. Around /\ Kept /\ Moved(p) /\ (p # "idle" => over' = over)
    BY MoveKept, SteppingFacts, Zenon DEF Keep
  <1>3. UpTo(taken)'
    BY <1>1, <1>2, UpToStays, Zenon DEF OneInv, Moved, Around
  <1>4. p = "read" /\ kind \in {"haiku", "hurd"} => over' = 0
    BY <1>2, SteppingFacts, Zenon
  <1>5. OneInv'
    BY <1>1, <1>2, <1>3, <1>4, Zenon DEF OneInv, Moved
  <1> QED
    BY <1>1, <1>2, <1>5, OneOnly, Zenon DEF Good

\* A packet is taken: for the callback, or lost.
LEMMA OneTakes ==
    ASSUME Stepping(OneKinds), NEW p \in {"handle", "idle"}, Move(p),
           taken' = taken + 1, UNCHANGED hd, c.pc # "handle",
           p = "handle" => c.n = 0 /\ (Binds("slow") => over = 0),
           p = "idle" => ~Binds("drops")
    PROVE  Good
  <1>1. OneInv /\ kind' = kind /\ kind \in OneKinds /\ taken \in Nat /\ taken' \in Nat
    BY SteppingFacts DEF KindInv
  <1>2. Around /\ Kept /\ Moved(p) /\ (p # "idle" => over' = over)
    BY <1>1, MoveKept, SteppingFacts, Zenon
  <1>3. UpTo(taken) /\ UNCHANGED <<const, handed>> /\ TypeOK
    BY <1>1, <1>2, Zenon DEF OneInv, Moved, Around
  <1>4. UpTo(IF c.pc = "handle" THEN taken - 1 ELSE taken)'
    <2>1. CASE p = "handle"
      <3>1. (IF c.pc = "handle" THEN taken - 1 ELSE taken)' = taken
        BY <1>1, <1>2, <2>1 DEF Moved
      <3> QED
        BY <1>3, <3>1, UpToStays, Zenon
    <2>2. CASE p = "idle"
      <3>1. (IF c.pc = "handle" THEN taken - 1 ELSE taken)' = taken'
        BY <1>2, <2>2, Zenon DEF Moved
      <3>2. taken \in Int /\ taken' \in Int /\ taken <= taken'
        BY <1>1
      <3> QED
        BY <1>3, <2>2, <3>1, <3>2, UpToLoses, Zenon
    <2> QED
      BY <2>1, <2>2, Zenon
  <1>5. Binds("slow")' => Binds("slow")
    BY <1>3, Zenon DEF Binds, const
  <1>6. OneInv'
    BY <1>1, <1>2, <1>4, <1>5, Zenon DEF OneInv, Moved
  <1> QED
    BY <1>1, <1>2, <1>6, OneOnly, Zenon DEF Good

\* The filter, the callback and the return.
LEMMA OnePacketStep ==
    ASSUME Stepping(OneKinds), OnePacket(taken)
    PROVE  Good
  <1>1. /\ OneInv /\ kind' = kind /\ kind \in OneKinds /\ taken \in Nat /\ c.n = c.done
        /\ MayReturn(c.n)
    BY SteppingFacts, Zenon DEF KindInv, OneInv
  <1>2. CASE c.pc = "one" /\ Leave(c.n) /\ Keep
    BY <1>1, <1>2, OneMoves DEF Move
  <1>3. CASE c.pc = "handle" /\ HandOver(taken, 1, "one", "one") /\ Keep
    <2>1. /\ Around /\ taken \in Int /\ taken - 1 \in Int /\ taken = (taken - 1) + 1
          /\ "one" \in Pcs \ {"idle"} /\ c \in CallRec /\ c.cnt \in Nat /\ taken' = taken
      BY <1>1, <1>3, AroundKeep, SteppingFacts DEF Pcs
    <2>2. Took(taken, 1, "one", "one")
      BY <1>3, <2>1, HandTook, Zenon
    <2>3. c.n = 0 /\ UpTo(taken - 1) /\ (Binds("slow") => over = 0)
      BY <1>1, <1>3, Zenon DEF OneInv
    <2>4. MayHand(taken - 1)
      BY <1>1, <2>1, <2>3 DEF MayHand
    <2>5. Kept
      BY <2>1, <2>2, <2>4, HandKept, Zenon
    <2>6. UpTo(taken)'
      BY <2>1, <2>2, <2>3, HandPasses, Zenon
    <2>7. OneInv'
      BY <1>1, <2>1, <2>2, <2>6, Zenon DEF OneInv, Took
    <2> QED
      BY <1>1, <2>5, <2>7, OneOnly, Zenon DEF Good
  <1> QED
    BY <1>2, <1>3, Zenon DEF OnePacket

\* The system call first.
LEMMA CallThenTestStep ==
    ASSUME Stepping({"usb", "bt", "btmon"}),
           (c.pc = "enter" /\ Stay("read") /\ Keep) \/ CallThenTest \/ OnePacket(taken)
    PROVE  Good
  <1>1. Stepping(OneKinds) /\ kind \in {"usb", "bt", "btmon"} /\ kind \in Kinds
    BY SteppingFacts, Zenon DEF Stepping, OneKinds, TypeOK
  <1>2. /\ OneInv /\ c.n = c.done /\ MayReturn(PCAP_ERROR)
        /\ (c.n = 0 => MayReturn(0) /\ MayBreak) /\ (~brk => over = 0)
    BY <1>1, SteppingFacts, Zenon DEF KindInv, OneInv
  <1>3. ~Binds("drops")
    BY <1>1, Zenon DEF Binds, Lax
  <1>4. CASE c.pc = "enter" /\ Stay("read") /\ Keep
    BY <1>1, <1>2, <1>4, OneMoves, Zenon DEF Move, Pcs, OneInv
  <1>5. CASE CallThenTest
    <2>1. c.pc = "read" /\ c.n = 0
      BY <1>2, <1>5, Zenon DEF CallThenTest, OneInv
    <2>2. CASE taken' = taken + 1 /\ UNCHANGED <<hd, zb>> /\ LeaveBroken
      BY <1>1, <1>2, <1>3, <2>1, <2>2, OneTakes DEF Move
    <2>3. CASE taken' = taken + 1 /\ UNCHANGED <<hd, zb>> /\ ~brk /\ Stay("handle")
      BY <1>1, <1>2, <2>1, <2>3, OneTakes, Zenon DEF Move, Pcs
    <2>4. CASE (LeaveBroken \/ Stay("read") \/ Leave(0) \/ Leave(PCAP_ERROR)) /\ Keep
      BY <1>1, <1>2, <2>1, <2>4, OneMoves, Zenon DEF Move, Pcs
    <2> QED
      BY <1>5, <2>2, <2>3, <2>4, Zenon DEF CallThenTest
  <1>6. CASE OnePacket(taken)
    BY <1>1, <1>6, OnePacketStep, Zenon
  <1> QED
    BY <1>4, <1>5, <1>6, Zenon

\* The break test first.
LEMMA TestThenCallStep ==
    ASSUME Stepping({"haiku", "hurd"}),
           \/ TestThenCall \/ OnePacket(taken)
           \/ c.pc = "read" /\ Would /\ Leave(0) /\ Keep
    PROVE  Good
  <1>1. Stepping(OneKinds) /\ kind \in {"haiku", "hurd"}
    BY SteppingFacts, Zenon DEF Stepping, OneKinds
  <1>2. /\ OneInv /\ c.n = c.done /\ MayReturn(PCAP_ERROR)
        /\ (c.n = 0 => MayReturn(0) /\ MayBreak)
        /\ (c.pc \in {"enter", "read"} => c.n = 0) /\ (c.pc = "read" => over = 0)
    BY <1>1, SteppingFacts, Zenon DEF KindInv, OneInv
  <1>3. CASE c.pc = "enter" /\ TestThenCall
    <2>1. CASE LeaveBroken /\ Keep
      BY <1>1, <1>2, <1>3, <2>1, OneMoves DEF Move
    <2>2. CASE ~brk /\ Stay("read") /\ Keep
      BY <1>1, <1>2, <1>3, <2>2, OneMoves, Zenon DEF Move, Pcs
    <2> QED
      BY <1>3, <2>1, <2>2, Zenon DEF TestThenCall
  <1>4. CASE c.pc = "read" /\ (TestThenCall \/ (Leave(0) /\ Keep))
    <2>1. CASE taken' = taken + 1 /\ Stay("handle") /\ UNCHANGED <<hd, zb>>
      BY <1>1, <1>2, <1>4, <2>1, OneTakes, Zenon DEF Move, Pcs
    <2>2. CASE (Stay("enter") \/ Leave(0) \/ Leave(PCAP_ERROR)) /\ Keep
      BY <1>1, <1>2, <1>4, <2>2, OneMoves DEF Move, Pcs
    <2> QED
      BY <1>4, <2>1, <2>2, Zenon DEF TestThenCall
  <1>5. CASE OnePacket(taken)
    BY <1>1, <1>5, OnePacketStep, Zenon
  <1> QED
    BY <1>3, <1>4, <1>5, Zenon DEF TestThenCall

\* dbus_read.
LEMMA DbusStep ==
    ASSUME Stepping({"dbus"}), DbusRead
    PROVE  Good
  <1>1. Stepping(OneKinds) /\ kind = "dbus" /\ kind \in Kinds
    BY SteppingFacts, Zenon DEF Stepping, OneKinds, TypeOK
  <1>2. /\ OneInv /\ c.n = c.done /\ MayReturn(PCAP_ERROR)
        /\ (c.n = 0 => MayReturn(0) /\ MayBreak)
        /\ (c.pc \in {"enter", "read"} => c.n = 0)
    BY <1>1, SteppingFacts, Zenon DEF KindInv, OneInv
  <1>3. ~Binds("drops") /\ ~Binds("slow")
    BY <1>1, Zenon DEF Binds, Lax
  <1>4. CASE c.pc = "enter" /\ ~OnePacket(taken)
    <2>1. CASE taken' = taken + 1 /\ UNCHANGED <<hd, zb>> /\ (Stay("handle") \/ Leave(0))
      BY <1>1, <1>2, <1>3, <1>4, <2>1, OneTakes, Zenon DEF Move, Pcs
    <2>2. CASE (Stay("read") \/ Leave(PCAP_ERROR)) /\ Keep
      BY <1>1, <1>2, <1>4, <2>2, OneMoves, Zenon DEF Move, Pcs
    <2> QED
      BY <1>4, <2>1, <2>2, Zenon DEF DbusRead
  <1>5. CASE c.pc = "read" /\ ~OnePacket(taken)
    <2>1. CASE (LeaveBroken \/ Stay("enter") \/ Leave(PCAP_ERROR)) /\ Keep
      BY <1>1, <1>2, <1>5, <2>1, OneMoves, Zenon DEF Move, Pcs
    <2> QED
      BY <1>5, <2>1, Zenon DEF DbusRead
  <1>6. CASE OnePacket(taken)
    BY <1>1, <1>6, OnePacketStep, Zenon
  <1> QED
    BY <1>4, <1>5, <1>6, Zenon DEF DbusRead

\* Going on without waiting.
LEMMA PlainMoves ==
    ASSUME Around, NEW p \in Pcs \ {"idle"}, c' = [c EXCEPT !.pc = p],
           UNCHANGED <<ret, handed, brk, over>>
    PROVE  Kept /\ Moved(p)
  <1>1. c \in CallRec
    BY Zenon DEF Around, TypeOK
  <1>2. Moved(p)
    BY <1>1, Zenon DEF CallRec, Moved
  <1> QED
    BY <1>2, GoesOnKept, Zenon DEF GoesOn, Moved

\* Bytes that are not a packet are before every packet.
LEMMA NothingLeft ==
    ASSUME TypeOK, ~Binds("again"), NEW x \in Int, x < 0
    PROVE  UpTo(x)
  <1>1. \A q \in match : q \in Int /\ q >= 0
    BY SourcesAssumption DEF TypeOK, Numbers
  <1>2. \A q \in match : q > x
    BY <1>1
  <1> QED
    BY <1>2, Zenon DEF UpTo, NoneLeft

\* SITA's ACN.
LEMMA SitaOnly ==
    ASSUME kind' = "sita", SitaInv'
    PROVE  KindInv'
  BY Zenon DEF KindInv, LoopKinds, LossyKinds, OneKinds

\* pcap_read_acn.
LEMMA SitaStep ==
    ASSUME Stepping({"sita"}), PcapReadAcn
    PROVE  Good
  <1>1. /\ kind = "sita" /\ kind' = kind /\ kind \in Kinds /\ SitaInv /\ c.n = c.done
        /\ taken \in Nat /\ hd \in [bp : Int, ep : Int, ev : BOOLEAN]
        /\ MayReturn(c.n) /\ (c.n = 0 => MayReturn(0))
        /\ (c.pc \notin {"idle", "one"} => c.n = 0) /\ TypeOK
    BY SteppingFacts DEF KindInv, SitaInv, TypeOK
  <1>2. Binds("count") /\ ~Binds("again") /\ ~Binds("slow")
    BY <1>1, Zenon DEF Binds, Lax
  <1>3. ASSUME Around, NEW p, Kept, Moved(p), Keep, p # "data", p # "handle",
               c.pc # "data", c.pc # "handle", p \notin {"idle", "one"} => c.n = 0
        PROVE  Good
    <2>1. ~hd.ev => UpTo(taken)'
      BY <1>1, <1>3, UpToStays, Zenon DEF SitaInv, Keep, Moved, Around
    <2>2. SitaInv'
      BY <1>1, <1>3, <2>1, Zenon DEF SitaInv, Keep, Moved
    <2> QED
      BY <1>1, <1>3, <2>2, SitaOnly, Zenon DEF Good
  <1>4. ASSUME Around, NEW p, NEW own \in Nat, Took(p, own, "one", "one"), Keep,
               ~hd.ev => UpTo(taken)', Kept, own = 1
        PROVE  Good
    <2>1. SitaInv'
      BY <1>1, <1>4, Zenon DEF SitaInv, Took, Keep
    <2> QED
      BY <1>1, <1>4, <2>1, SitaOnly, Zenon DEF Good
  <1>5. CASE c.pc = "enter"
    <2>1. CASE ~hd.ev /\ taken' = taken + 1 /\ Stay("data") /\ UNCHANGED <<hd, zb>>
      <3>1. Around /\ Kept /\ Moved("data")
        BY <1>1, <2>1, MoveKept, SteppingFacts DEF Move, Pcs
      <3>2. (IF c.pc \in {"data", "handle"} THEN taken - 1 ELSE taken)' = taken
        BY <1>1, <2>1, <3>1 DEF Moved
      <3>3. UpTo(IF c.pc \in {"data", "handle"} THEN taken - 1 ELSE taken)'
        BY <1>1, <1>5, <2>1, <3>1, <3>2, UpToStays, Zenon DEF SitaInv, Moved, Around
      <3>4. SitaInv'
        BY <1>1, <1>5, <2>1, <3>1, <3>3, Zenon DEF SitaInv, Moved
      <3> QED
        BY <1>1, <3>1, <3>4, SitaOnly, Zenon DEF Good
    <2>2. CASE /\ hd.ev /\ c' = [c EXCEPT !.pc = "garbage"] /\ Keep
               /\ UNCHANGED <<ret, handed, brk, over>>
      <3>1. Around /\ Kept /\ Moved("garbage")
        BY <2>2, AroundKeep, PlainMoves, Zenon DEF Pcs
      <3> QED
        BY <1>1, <1>3, <1>5, <2>2, <3>1, Zenon
    <2>3. CASE Leave(0) /\ Keep
      <3>1. Around /\ Kept /\ Moved("idle")
        BY <1>1, <1>5, <2>3, MoveKept, Zenon DEF Move, Keep
      <3> QED
        BY <1>1, <1>3, <1>5, <2>3, <3>1, Zenon
    <2> QED
      BY <1>5, <2>1, <2>2, <2>3, Zenon DEF PcapReadAcn, OnePacket
  <1>6. CASE c.pc = "data"
    <2>1. CASE Stay("handle") /\ Keep
      <3>1. Around /\ Kept /\ Moved("handle") /\ taken' = taken /\ hd' = hd
        BY <1>1, <2>1, MoveKept, Zenon DEF Move, Pcs, Keep
      <3>2. UpTo(taken - 1) /\ ~hd.ev
        BY <1>1, <1>6, Zenon DEF SitaInv
      <3>3. (IF c.pc \in {"data", "handle"} THEN taken - 1 ELSE taken)' = taken - 1
        BY <3>1, Zenon DEF Moved
      <3>4. UpTo(IF c.pc \in {"data", "handle"} THEN taken - 1 ELSE taken)'
        BY <3>1, <3>2, <3>3, UpToStays, Zenon DEF Moved, Around
      <3>5. SitaInv'
        BY <1>1, <1>6, <3>1, <3>2, <3>4, Zenon DEF SitaInv, Moved
      <3> QED
        BY <1>1, <3>1, <3>5, SitaOnly, Zenon DEF Good
    <2>2. CASE hd' = [hd EXCEPT !.ev = TRUE] /\ Leave(0) /\ UNCHANGED <<taken, zb>>
      <3>1. TRUE \in BOOLEAN
        BY Zenon
      <3>2. hd' \in [bp : Int, ep : Int, ev : BOOLEAN] /\ hd'.ev = TRUE
        BY <1>1, <2>2, <3>1, Zenon
      <3>3. Kept /\ Moved("idle")
        BY <1>1, <1>6, <2>2, <3>2, MoveKept, Zenon DEF Move
      <3>4. SitaInv'
        BY <1>1, <3>2, <3>3, Zenon DEF SitaInv, Moved
      <3> QED
        BY <1>1, <3>3, <3>4, SitaOnly, Zenon DEF Good
    <2> QED
      BY <1>6, <2>1, <2>2, Zenon DEF PcapReadAcn, OnePacket
  <1>7. CASE c.pc = "garbage"
    <2>1. HandOver(0, 1, "one", "one") /\ Keep
      BY <1>7, Zenon DEF PcapReadAcn, OnePacket
    <2> DEFINE z == 0
               m == -1
    <2>2. z \in Int /\ m \in Int /\ m < 0 /\ z = m + 1
      OBVIOUS
    <2>3. HandOver(z, 1, "one", "one")
      BY <2>1, Zenon
    <2> HIDE DEF z, m
    <2>4. Around /\ "one" \in Pcs \ {"idle"} /\ c \in CallRec /\ c.cnt \in Nat /\ taken' = taken
      BY <2>1, AroundKeep, SteppingFacts, Zenon DEF Pcs
    <2>5. Took(z, 1, "one", "one")
      BY <2>2, <2>3, <2>4, HandTook, Zenon
    <2>6. UpTo(m)
      BY <1>1, <1>2, <2>2, NothingLeft, Zenon
    <2>7. MayHand(m)
      BY <1>1, <1>2, <1>7, <2>4, <2>6 DEF MayHand
    <2>8. Kept
      BY <2>2, <2>4, <2>5, <2>7, HandKept, Zenon
    <2>9. ~hd.ev => UpTo(taken)'
      BY <1>1, <1>2, <1>7, <2>2, <2>4, <2>5, HandRepeats DEF SitaInv
    <2> QED
      BY <1>4, <2>1, <2>4, <2>5, <2>8, <2>9
  <1>8. CASE c.pc = "handle"
    <2>1. HandOver(taken, 1, "one", "one") /\ Keep
      BY <1>8, Zenon DEF PcapReadAcn, OnePacket
    <2>2. /\ Around /\ taken \in Int /\ taken - 1 \in Int /\ taken = (taken - 1) + 1
          /\ "one" \in Pcs \ {"idle"} /\ c \in CallRec /\ c.cnt \in Nat /\ taken' = taken
      BY <1>1, <2>1, AroundKeep, SteppingFacts DEF Pcs
    <2>3. Took(taken, 1, "one", "one")
      BY <2>1, <2>2, HandTook, Zenon
    <2>4. c.n = 0 /\ UpTo(taken - 1)
      BY <1>1, <1>8, Zenon DEF SitaInv
    <2>5. MayHand(taken - 1)
      BY <1>1, <1>2, <2>2, <2>4 DEF MayHand
    <2>6. Kept
      BY <2>2, <2>3, <2>5, HandKept, Zenon
    <2>7. UpTo(taken)'
      BY <2>2, <2>3, <2>4, HandPasses, Zenon
    <2> QED
      BY <1>4, <2>1, <2>2, <2>3, <2>6, <2>7, Zenon
  <1>9. CASE c.pc = "one"
    <2>1. Leave(c.n) /\ Keep
      BY <1>9, Zenon DEF PcapReadAcn, OnePacket
    <2>2. Around /\ Kept /\ Moved("idle")
      BY <1>1, <2>1, MoveKept, Zenon DEF Move, Keep
    <2> QED
      BY <1>3, <1>9, <2>1, <2>2, Zenon
  <1> QED
    BY <1>5, <1>6, <1>7, <1>8, <1>9, Zenon DEF PcapReadAcn, OnePacket

\* usbmon with a memory-mapped ring.
LEMMA UsbMmapOnly ==
    ASSUME kind' = "usbmmap", UsbMmapInv'
    PROVE  KindInv'
  BY Zenon DEF KindInv, LoopKinds, LossyKinds, OneKinds

\* usb_read_linux_mmap.
LEMMA UsbMmapStep ==
    ASSUME Stepping({"usbmmap"}), UsbReadMmap
    PROVE  Good
  <1>1. /\ kind = "usbmmap" /\ kind' = kind /\ kind \in Kinds /\ UsbMmapInv /\ c.n = c.done
        /\ taken \in Nat /\ came \in Nat /\ hd \in [bp : Int, ep : Int, ev : BOOLEAN]
        /\ TypeOK /\ c \in CallRec /\ c.cnt \in Nat /\ c.n \in Nat /\ c.aux \in Nat
        /\ c.bp \in Int /\ c.ep \in Int
    BY SteppingFacts DEF KindInv, UsbMmapInv, TypeOK
  <1>2. /\ ~Binds("again") /\ ~Binds("slow") /\ ~Binds("late") /\ ~Binds("drops")
        /\ ~Binds("number")
    BY <1>1, Zenon DEF Binds, Lax
  <1>3. /\ \A r \in Nat : MayReturn(r)
        /\ MayReturn(PCAP_ERROR) /\ MayBreak /\ 0 \in Nat
    BY <1>1, <1>2, Zenon DEF MayReturn, MayBreak
  <1>4. ASSUME NEW p, Move(p), taken' \in Nat, UNCHANGED hd, p # "handle",
               p \in {"enter", "read"} => ~Reached
        PROVE  Good
    <2>1. Kept /\ Moved(p)
      BY <1>1, <1>4, MoveKept, Zenon
    <2>2. UsbMmapInv'
      BY <1>1, <1>4, <2>1, Zenon DEF UsbMmapInv, Moved, Reached, Limited
    <2> QED
      BY <1>1, <2>1, <2>2, UsbMmapOnly, Zenon DEF Good
  <1>5. CASE c.pc = "enter"
    <2>1. /\ taken' = IF taken + c.aux < came THEN taken + c.aux ELSE came
          /\ Stay("read") /\ UNCHANGED <<hd, zb>>
      BY <1>5, Zenon DEF UsbReadMmap, UsbFetch, UsbEvents
    <2>2. taken' \in Nat
      BY <1>1, <2>1
    <2> QED
      BY <1>1, <1>4, <1>5, <2>1, <2>2, Zenon DEF Move, Pcs, UsbMmapInv
  <1>6. CASE c.pc = "read"
    <2>1. Keep /\ ~Reached
      BY <1>1, <1>6, Zenon DEF UsbReadMmap, UsbFetch, UsbEvents, UsbMmapInv
    <2>2. CASE LeaveBroken \/ Stay("enter") \/ Leave(0) \/ Leave(PCAP_ERROR)
      BY <1>1, <1>3, <1>4, <2>1, <2>2, Zenon DEF Move, Pcs, Keep
    <2>3. ASSUME NEW k \in 1..(came - taken), Limited => k <= c.cnt - c.n,
                 c' = [c EXCEPT !.pc = "handle", !.bp = taken, !.ep = taken + k, !.aux = k],
                 UNCHANGED <<ret, handed, brk, over>>
          PROVE  Good
      <3>1. k \in Nat /\ (Limited => c.n + k <= c.cnt)
        BY <1>1, <2>3
      <3> DEFINE e == taken + k
      <3>2. e \in Int /\ taken \in Int /\ taken <= e /\ e - taken = k
        BY <1>1, <3>1
      <3>3. /\ c' \in CallRec /\ c'.pc = "handle" /\ c'.bp = taken /\ c'.ep = e
            /\ c'.cnt = c.cnt /\ c'.n = c.n /\ c'.done = c.done
        <4>1. c' = [c EXCEPT !.pc = "handle", !.bp = taken, !.ep = e, !.aux = k]
              /\ "handle" \in Pcs
          BY <2>3, Zenon DEF Pcs
        <4> HIDE DEF e
        <4> QED
          BY <1>1, <3>1, <3>2, <4>1, Zenon DEF CallRec
      <3>4. Around /\ GoesOn
        BY <2>1, <2>3, <3>3, AroundKeep, Zenon DEF GoesOn
      <3>5. Limited => c.n + (e - taken) <= c.cnt
        BY <3>1, <3>2, Zenon
      <3> HIDE DEF e
      <3>6. UsbMmapInv'
        BY <1>1, <3>2, <3>3, <3>5, Zenon DEF UsbMmapInv, Limited
      <3> QED
        BY <1>1, <3>4, <3>6, GoesOnKept, UsbMmapOnly, Zenon DEF Good
    <2> QED
      BY <1>6, <2>2, <2>3, Zenon DEF UsbReadMmap, UsbFetch, UsbEvents
  <1>7. CASE c.pc = "handle" /\ c.bp < c.ep
    <2>1. HandOver(c.bp + 1, 1, "handle", "handle") /\ Keep
      BY <1>1, <1>7 DEF UsbReadMmap, UsbFetch, UsbEvents
    <2>2. Around /\ c.bp + 1 \in Int /\ "handle" \in Pcs \ {"idle"}
      BY <1>1, <2>1, AroundKeep DEF Pcs
    <2>3. Took(c.bp + 1, 1, "handle", "handle")
      BY <1>1, <2>1, <2>2, HandTook, Zenon
    <2>4. Limited => c.n + (c.ep - c.bp) <= c.cnt
      BY <1>1, <1>7, Zenon DEF UsbMmapInv
    <2>5. MayHand(c.bp)
      BY <1>1, <1>2, <1>7, <2>4 DEF MayHand, UpTo, Limited
    <2>6. Kept
      BY <1>1, <2>2, <2>3, <2>5, HandKept, Zenon
    <2>7. /\ c'.pc = "handle" /\ c'.bp = c.bp + 1 /\ c'.ep = c.ep /\ c'.cnt = c.cnt
          /\ c'.n = c'.done /\ c'.n \in {c.n, c.n + 1}
      BY <1>1, <2>3, Zenon DEF Took
    <2>8. c'.bp <= c'.ep /\ (Limited' => c'.n + (c'.ep - c'.bp) <= c'.cnt)
      BY <1>1, <1>7, <2>4, <2>7 DEF Limited
    <2>9. UsbMmapInv'
      BY <2>7, <2>8, Zenon DEF UsbMmapInv
    <2> QED
      BY <1>1, <2>6, <2>9, UsbMmapOnly, Zenon DEF Good
  <1>8. CASE c.pc = "handle" /\ ~(c.bp < c.ep)
    <2>1. Stay(IF Limited /\ ~Reached THEN "enter" ELSE "flush") /\ Keep
      BY <1>8, Zenon DEF UsbReadMmap, UsbFetch, UsbEvents
    <2>2. CASE Limited /\ ~Reached
      BY <1>1, <1>4, <2>1, <2>2, Zenon DEF Move, Pcs, Keep
    <2>3. CASE ~(Limited /\ ~Reached)
      BY <1>1, <1>4, <2>1, <2>3 DEF Move, Pcs, Keep
    <2> QED
      BY <2>2, <2>3, Zenon
  <1>9. CASE c.pc = "flush"
    <2>1. MayReturn(c.n)
      BY <1>1, <1>3, Zenon
    <2>2. CASE taken' = taken + c.aux /\ Leave(c.n) /\ UNCHANGED <<hd, zb>>
      <3>1. taken' \in Nat
        BY <1>1, <2>2
      <3>2. Move("idle")
        BY <2>1, <2>2, Zenon DEF Move
      <3> QED
        BY <1>4, <2>2, <3>1, <3>2, Zenon
    <2>3. CASE Leave(PCAP_ERROR) /\ Keep
      BY <1>1, <1>3, <1>4, <2>3 DEF Move, Keep
    <2> QED
      BY <1>9, <2>2, <2>3, Zenon DEF UsbReadMmap, UsbFetch, UsbEvents
  <1> QED
    BY <1>5, <1>6, <1>7, <1>8, <1>9, Zenon DEF UsbReadMmap, UsbFetch, UsbEvents

\* Netmap.
LEMMA NetmapOnly ==
    ASSUME kind' = "netmap", NetmapInv'
    PROVE  KindInv'
  BY Zenon DEF KindInv, LoopKinds, LossyKinds, OneKinds

\* pcap_netmap_dispatch.
LEMMA NetmapStep ==
    ASSUME Stepping({"netmap"}), NetmapDispatch
    PROVE  Good
  <1>1. /\ kind = "netmap" /\ kind' = kind /\ kind \in Kinds /\ NetmapInv
        /\ taken \in Nat /\ hd \in [bp : Int, ep : Int, ev : BOOLEAN]
        /\ TypeOK /\ c \in CallRec /\ c.cnt \in Nat /\ c.n \in Nat /\ c.done \in Nat
        /\ c.bp \in Int /\ c.ep \in Int /\ c.from \in Int
    BY SteppingFacts DEF KindInv, TypeOK
  <1>2. ~Binds("number") /\ ~Binds("slow")
    BY <1>1, Zenon DEF Binds, Lax
  <1>3. ASSUME NEW p, Move(p), Keep, p # "handle", UpTo(taken), p \in {"enter", "poll"} => c.done = 0
        PROVE  Good
    <2>1. Around /\ Kept /\ Moved(p) /\ taken' = taken
      BY <1>1, <1>3, MoveKept, Zenon DEF Keep
    <2>2. UpTo(taken)'
      BY <1>3, <2>1, UpToStays, Zenon DEF Moved, Around
    <2>3. NetmapInv'
      BY <1>1, <1>3, <2>1, <2>2, Zenon DEF NetmapInv, Moved
    <2> QED
      BY <1>1, <2>1, <2>3, NetmapOnly, Zenon DEF Good
  <1>4. c.pc \in {"enter", "poll"} => UpTo(taken) /\ c.done = 0 /\ MayBreak
    BY <1>1, Zenon DEF NetmapInv, MayBreak
  <1>5. CASE c.pc = "enter" /\ (LeaveBroken \/ Stay("poll")) /\ Keep
    BY <1>3, <1>4, <1>5, Zenon DEF Move, Pcs
  <1>6. CASE c.pc = "poll"
    BY <1>3, <1>4, <1>6, Zenon DEF Move, Pcs, NetmapDispatch
  <1> DEFINE most == IF Limited THEN c.cnt ELSE MaxPkt
  <1>7. CASE c.pc = "enter" /\ Fetch(most, "handle")
    <2>1. most \in Nat /\ "handle" \in Pcs /\ (Limited => most = c.cnt)
      BY <1>1, SourcesAssumption, Zenon DEF Pcs
    <2> HIDE DEF most
    <2>2. /\ c' \in CallRec /\ c'.pc = "handle" /\ c'.cnt = c.cnt /\ c'.n = c.n
          /\ c'.done = c.done /\ c'.bp = taken /\ c'.from = taken /\ c'.ep = taken'
          /\ taken' \in Nat /\ taken < taken' /\ taken' - taken <= most
          /\ UNCHANGED <<ret, handed, brk, over, hd, zb>>
      BY <1>1, <1>7, <2>1, FetchFields, Zenon
    <2>3. Around /\ GoesOn
      BY <1>1, <2>2, Zenon DEF Around, GoesOn, Stepping, Inv
    <2>4. UpTo(c.bp)'
      BY <1>4, <1>7, <2>2, <2>3, UpToStays, Zenon DEF Around
    <2>5. /\ c'.from <= c'.bp /\ c'.bp <= c'.ep /\ c'.done <= c'.bp - c'.from
          /\ (Limited' => c'.ep - c'.from <= c'.cnt)
      <3>1. c'.done = 0 /\ taken \in Int /\ taken' \in Int /\ c.cnt \in Int
        BY <1>1, <1>4, <1>7, <2>2
      <3>2. Limited' => Limited
        BY <2>2, Zenon DEF Limited
      <3>3. Limited' => taken' - taken <= c'.cnt
        BY <2>1, <2>2, <3>2, Zenon
      <3> QED
        BY <2>2, <3>1, <3>3
    <2>6. NetmapInv'
      <3>1. c'.pc = "handle" /\ c'.pc \notin {"enter", "poll"} /\ c'.ep = taken'
        BY <2>2, Zenon
      <3>2. UpTo(IF c.pc = "handle" THEN c.bp ELSE taken)'
        BY <2>4, <3>1, Zenon
      <3> QED
        BY <2>5, <3>1, <3>2, Zenon DEF NetmapInv
    <2> QED
      BY <1>1, <2>3, <2>6, GoesOnKept, NetmapOnly, Zenon DEF Good
  <1>8. CASE c.pc = "handle" /\ c.bp < c.ep
    <2>1. HandOver(c.bp + 1, 0, "handle", "handle") /\ Keep
      BY <1>1, <1>8 DEF NetmapDispatch
    <2>2. Around /\ c.bp + 1 \in Int /\ "handle" \in Pcs \ {"idle"} /\ taken' = taken
      BY <1>1, <2>1, AroundKeep DEF Pcs
    <2>3. Took(c.bp + 1, 0, "handle", "handle")
      BY <1>1, <2>1, <2>2, HandTook, Zenon
    <2>4. /\ UpTo(c.bp) /\ c.from <= c.bp /\ c.bp <= c.ep /\ c.ep = taken
          /\ c.done <= c.bp - c.from /\ (Limited => c.ep - c.from <= c.cnt)
      BY <1>1, <1>8, Zenon DEF NetmapInv
    <2>5. MayHand(c.bp)
      BY <1>1, <1>2, <1>8, <2>4 DEF MayHand, Limited
    <2>6. Kept
      BY <1>1, <2>2, <2>3, <2>5, HandKept, Zenon
    <2>7. c'.pc = "handle" /\ c'.bp = c.bp + 1
      BY <2>3, Zenon DEF Took
    <2>8. UpTo(c.bp)'
      BY <1>1, <2>2, <2>3, <2>4, <2>7, HandPasses, Zenon
    <2>9. /\ c'.ep = c.ep /\ c'.from = c.from /\ c'.cnt = c.cnt
          /\ c'.done = c.done \/ c'.done = c.done + 1
      BY <2>3, Zenon DEF Took
    <2>10. /\ c'.from <= c'.bp /\ c'.bp <= c'.ep /\ c'.ep = taken'
           /\ c'.done <= c'.bp - c'.from
           /\ Limited' => c'.ep - c'.from <= c'.cnt
      BY <1>1, <1>8, <2>2, <2>4, <2>7, <2>9 DEF Limited
    <2>11. NetmapInv'
      BY <2>7, <2>8, <2>10, Zenon DEF NetmapInv
    <2> QED
      BY <1>1, <2>6, <2>11, NetmapOnly, Zenon DEF Good
  <1>9. CASE c.pc = "handle" /\ c.bp = c.ep /\ Leave(c.ep - c.from) /\ Keep
    <2>1. UpTo(taken) /\ c.from <= c.ep
      BY <1>1, <1>9, Zenon DEF NetmapInv
    <2>2. MayReturn(c.ep - c.from)
      BY <1>1, <1>2, <2>1 DEF MayReturn
    <2> QED
      BY <1>3, <1>9, <2>1, <2>2 DEF Move
  <1> QED
    BY <1>5, <1>6, <1>7, <1>8, <1>9, Zenon DEF NetmapDispatch

\* RDMA sniffers.
LEMMA RdmaOnly ==
    ASSUME kind' = "rdma", RdmaInv'
    PROVE  KindInv'
  BY Zenon DEF KindInv, LoopKinds, LossyKinds, OneKinds

\* rdmasniff_read.
LEMMA RdmaStep ==
    ASSUME Stepping({"rdma"}), RdmasniffRead
    PROVE  Good
  <1>1. /\ kind = "rdma" /\ kind' = kind /\ kind \in Kinds /\ RdmaInv /\ c.n = c.done
        /\ taken \in Nat /\ hd \in [bp : Int, ep : Int, ev : BOOLEAN] /\ over \in Nat
        /\ c \in CallRec /\ c.cnt \in Nat /\ c.n \in Nat
        /\ MayReturn(c.n) /\ MayReturn(PCAP_ERROR) /\ UpTo(taken)
    BY SteppingFacts DEF KindInv, RdmaInv, TypeOK
  <1>2. MayBreak
    BY <1>1, Zenon DEF MayBreak, Binds, Lax
  <1>3. ASSUME NEW p, Move(p), hd' \in [bp : Int, ep : Int, ev : BOOLEAN], UNCHANGED taken,
               c.pc # "posted" \/ ~brk \/ over' = 0
        PROVE  Good
    <2>1. Around /\ Kept /\ Moved(p)
      BY <1>1, <1>3, MoveKept, Zenon
    <2>2. over' = 0
      <3>1. over = 0 \/ over' = 0
        BY <1>1, <1>3, SteppingFacts DEF RdmaInv
      <3> QED
        BY <2>1, <3>1, Zenon DEF Moved
    <2>3. UpTo(taken)'
      BY <1>1, <1>3, <2>1, UpToStays, Zenon DEF Moved, Around
    <2>4. RdmaInv'
      BY <1>1, <2>1, <2>2, <2>3 DEF RdmaInv, Moved
    <2> QED
      BY <1>1, <2>1, <2>4, RdmaOnly, Zenon DEF Good
  <1>4. CASE /\ c.pc \in {"enter", "read", "poll"} /\ Keep
             /\ Stay("poll") \/ Stay("read") \/ LeaveBroken \/ Leave(c.n) \/ Leave(PCAP_ERROR)
    BY <1>1, <1>2, <1>3, <1>4, Zenon DEF Move, Pcs, Keep
  <1>5. ASSUME c.pc \in {"read", "poll"}, UNCHANGED taken, NEW b \in BOOLEAN,
               hd' = [hd EXCEPT !.ev = b], Stay("poll") \/ Leave(c.n)
        PROVE  Good
    <2>1. hd' \in [bp : Int, ep : Int, ev : BOOLEAN]
      BY <1>1, <1>5, Zenon
    <2> QED
      BY <1>1, <1>3, <1>5, <2>1, Zenon DEF Move, Pcs
  <1>6. CASE c.pc = "posted"
    <2>1. CASE LeaveBroken /\ Keep
      BY <1>1, <1>2, <1>3, <2>1, Zenon DEF Move, Keep, LeaveBroken
    <2>2. CASE ~brk /\ Stay("poll") /\ Keep
      BY <1>1, <1>3, <2>2, Zenon DEF Move, Keep, Pcs
    <2> QED
      BY <1>6, <2>1, <2>2, Zenon DEF RdmasniffRead
  <1>7. CASE /\ c.pc = "poll" /\ ~Reached /\ taken' = taken + 1 /\ UNCHANGED <<hd, zb>>
             /\ HandOver(taken + 1, 1, "posted", "posted")
    <2>1. taken \in Int /\ taken + 1 \in Int /\ "posted" \in Pcs \ {"idle"} /\ taken' \in Nat
      BY <1>1, <1>7 DEF Pcs
    <2>2. Around
      BY <1>1, <1>7, <2>1, SteppingFacts, Zenon DEF Around, Stepping
    <2>3. Took(taken + 1, 1, "posted", "posted")
      BY <1>1, <1>7, <2>1, HandTook, Zenon
    <2>4. over = 0
      BY <1>1, <1>7 DEF RdmaInv
    <2>5. MayHand(taken)
      BY <1>1, <1>7, <2>4 DEF MayHand, Reached, Limited
    <2>6. Kept
      BY <2>1, <2>2, <2>3, <2>5, HandKept, Zenon
    <2>7. UpTo(taken)'
      BY <1>1, <1>7, <2>1, <2>2, <2>3, HandPasses, Zenon
    <2>8. RdmaInv'
      BY <1>1, <2>3, <2>7, Zenon DEF RdmaInv, Took
    <2> QED
      BY <1>1, <2>6, <2>8, RdmaOnly, Zenon DEF Good
  <1>8. TRUE \in BOOLEAN /\ FALSE \in BOOLEAN
    BY Zenon
  <1>9. CASE c.pc = "enter"
    <2>1. Stay("poll") \/ Stay("read")
      BY <1>9, Zenon DEF RdmasniffRead
    <2> QED
      BY <1>4, <1>9, <2>1, Zenon DEF RdmasniffRead
  <1> QED
    BY <1>4, <1>5, <1>6, <1>7, <1>8, <1>9, Zenon DEF RdmasniffRead

\* Myricom SNF.
LEMMA SnfOnly ==
    ASSUME kind' = "snf", SnfInv'
    PROVE  KindInv'
  BY Zenon DEF KindInv, LoopKinds, LossyKinds, OneKinds

\* snf_read.
LEMMA SnfStep ==
    ASSUME Stepping({"snf"}), SnfRead
    PROVE  Good
  <1>1. /\ kind = "snf" /\ kind' = kind /\ SnfInv /\ c.n = c.done
        /\ taken \in Nat /\ hd \in [bp : Int, ep : Int, ev : BOOLEAN] /\ over \in Nat
        /\ c \in CallRec /\ c.cnt \in Nat /\ c.n \in Nat /\ (~brk => over = 0)
        /\ MayReturn(c.n) /\ MayReturn(PCAP_ERROR) /\ (c.n = 0 => MayBreak)
    BY SteppingFacts DEF KindInv, SnfInv
  <1>2. ASSUME Around, NEW p, Kept, Moved(p), taken' = taken, c.pc # "handle", p # "handle",
               p = "read" => ~Reached /\ over' = 0
        PROVE  Good
    <2>1. UpTo(taken)'
      BY <1>1, <1>2, UpToStays, Zenon DEF SnfInv, Moved, Around
    <2>2. SnfInv'
      BY <1>1, <1>2, <2>1, Zenon DEF SnfInv, Moved, Reached, Limited
    <2> QED
      BY <1>1, <1>2, <2>2, SnfOnly, Zenon DEF Good
  <1>3. ASSUME NEW p, Move(p), Keep, c.pc # "handle", p # "handle",
               p = "read" => ~Reached /\ over = 0
        PROVE  Good
    <2>1. Around /\ Kept /\ Moved(p) /\ (p # "idle" => over' = over) /\ taken' = taken
      BY <1>1, <1>3, MoveKept, Zenon DEF Keep
    <2> QED
      BY <1>2, <1>3, <2>1, Zenon
  <1>4. ASSUME Keep, NEW b \in BOOLEAN, UNCHANGED <<ret, handed, brk, over>>, c.pc # "handle",
               \/ c' = [c EXCEPT !.pc = "enter", !.aux = 1, !.sig = b]
               \/ c' = [c EXCEPT !.pc = "enter", !.aux = 1]
        PROVE  Good
    <2> DEFINE one == 1
    <2>1. \/ c' = [c EXCEPT !.pc = "enter", !.aux = one, !.sig = b]
          \/ c' = [c EXCEPT !.pc = "enter", !.aux = one]
      BY <1>4, Zenon
    <2>2. one \in Nat /\ "enter" \in Pcs
      BY Zenon DEF Pcs
    <2> HIDE DEF one
    <2>3. /\ c' \in CallRec /\ c'.pc = "enter"
          /\ c'.cnt = c.cnt /\ c'.n = c.n /\ c'.done = c.done
      BY <1>1, <1>4, <2>1, <2>2, Zenon DEF CallRec
    <2>4. Around /\ GoesOn /\ taken' = taken
      BY <1>4, <2>3, AroundKeep, Zenon DEF GoesOn
    <2>5. UpTo(taken)'
      BY <1>1, <1>4, <2>4, UpToStays, Zenon DEF SnfInv, Around
    <2>6. SnfInv'
      BY <1>1, <2>3, <2>5, Zenon DEF SnfInv
    <2> QED
      BY <1>1, <2>4, <2>6, GoesOnKept, SnfOnly, Zenon DEF Good
  <1>5. CASE c.pc = "enter"
    <2>1. CASE Keep /\ (Leave(c.n) \/ (c.n = 0 /\ LeaveBroken))
      BY <1>1, <1>3, <1>5, <2>1 DEF Move
    <2>2. CASE Keep /\ ~Reached /\ ~brk /\ Stay("read")
      BY <1>1, <1>3, <1>5, <2>2, Zenon DEF Move, Pcs
    <2> QED
      BY <1>5, <2>1, <2>2, Zenon DEF SnfRead
  <1>6. CASE c.pc = "read"
    <2>1. CASE taken' = taken + 1 /\ Stay("handle") /\ UNCHANGED <<hd, zb>>
      <3>1. taken' \in Nat /\ Move("handle")
        BY <1>1, <2>1 DEF Move, Pcs
      <3>2. Around /\ Kept /\ Moved("handle") /\ over' = over
        BY <1>1, <2>1, <3>1, MoveKept
      <3>3. UpTo(taken) /\ ~Reached /\ over = 0
        BY <1>1, <1>6, Zenon DEF SnfInv
      <3>4. (IF c.pc = "handle" THEN taken - 1 ELSE taken)' = taken
        BY <1>1, <2>1, <3>2 DEF Moved
      <3>5. UpTo(IF c.pc = "handle" THEN taken - 1 ELSE taken)'
        BY <3>2, <3>3, <3>4, UpToStays, Zenon DEF Moved, Around
      <3>6. SnfInv'
        BY <1>1, <3>2, <3>3, <3>5, Zenon DEF SnfInv, Moved, Reached, Limited
      <3> QED
        BY <1>1, <3>2, <3>6, SnfOnly, Zenon DEF Good
    <2>2. CASE (Leave(c.n) \/ Leave(PCAP_ERROR)) /\ Keep
      BY <1>1, <1>3, <1>6, <2>2 DEF Move
    <2>3. CASE /\ Keep /\ c' = [c EXCEPT !.pc = "enter", !.aux = 1, !.sig = FALSE]
               /\ UNCHANGED <<ret, handed, brk, over>>
      <3>1. FALSE \in BOOLEAN
        BY Zenon
      <3> QED
        BY <1>4, <1>6, <2>3, <3>1, Zenon
    <2> QED
      BY <1>6, <2>1, <2>2, <2>3, Zenon DEF SnfRead
  <1>7. CASE c.pc = "handle"
    <2>1. HandOver(taken, 1, "again", "again") /\ Keep
      BY <1>7, Zenon DEF SnfRead
    <2>2. /\ Around /\ taken \in Int /\ taken - 1 \in Int /\ taken = (taken - 1) + 1
          /\ "again" \in Pcs \ {"idle"} /\ taken' = taken
      BY <1>1, <2>1, AroundKeep DEF Pcs
    <2>3. Took(taken, 1, "again", "again")
      BY <1>1, <2>1, <2>2, HandTook, Zenon
    <2>4. UpTo(taken - 1) /\ ~Reached /\ over = 0
      BY <1>1, <1>7, Zenon DEF SnfInv
    <2>5. MayHand(taken - 1)
      BY <1>1, <2>4 DEF MayHand, Reached, Limited
    <2>6. Kept
      BY <2>2, <2>3, <2>5, HandKept, Zenon
    <2>7. UpTo(taken)'
      BY <2>2, <2>3, <2>4, HandPasses, Zenon
    <2>8. SnfInv'
      BY <1>1, <2>2, <2>3, <2>7, Zenon DEF SnfInv, Took
    <2> QED
      BY <1>1, <2>6, <2>8, SnfOnly, Zenon DEF Good
  <1>8. CASE c.pc = "again"
    <2>1. TRUE \in BOOLEAN
      BY Zenon
    <2> QED
      BY <1>4, <1>8, <2>1, Zenon DEF SnfRead
  <1> QED
    BY <1>5, <1>6, <1>7, <1>8, Zenon DEF SnfRead

\* DPDK.
LEMMA DpdkOnly ==
    ASSUME kind' = "dpdk", DpdkInv'
    PROVE  KindInv'
  BY Zenon DEF KindInv, LoopKinds, LossyKinds, OneKinds

\* pcap_dpdk_dispatch.
LEMMA DpdkStep ==
    ASSUME Stepping({"dpdk"}), DpdkDispatch
    PROVE  Good
  <1>1. /\ kind = "dpdk" /\ kind' = kind /\ kind \in Kinds /\ DpdkInv /\ TypeOK
        /\ taken \in Nat /\ hd \in [bp : Int, ep : Int, ev : BOOLEAN]
        /\ c \in CallRec /\ c.cnt \in Nat /\ c.n \in Nat
        /\ c.bp \in Int /\ c.ep \in Int /\ c.from \in Int
    BY SteppingFacts DEF KindInv, TypeOK
  <1>2. ~Binds("count") /\ ~Binds("number") /\ ~Binds("late") /\ ~Binds("slow")
    BY <1>1, Zenon DEF Binds, Lax
  <1>3. MayReturn(c.n) /\ MayBreak
    BY <1>1, <1>2, Zenon DEF MayReturn, MayBreak
  <1>4. ASSUME NEW p, Move(p), Keep, c.pc # "handle", p # "handle"
        PROVE  Good
    <2>1. Around /\ Kept /\ Moved(p) /\ taken' = taken
      BY <1>1, <1>4, MoveKept, Zenon DEF Keep
    <2>2. UpTo(taken)'
      BY <1>1, <1>4, <2>1, UpToStays, Zenon DEF DpdkInv, Moved, Around
    <2>3. DpdkInv'
      BY <1>4, <2>1, <2>2, Zenon DEF DpdkInv, Moved
    <2> QED
      BY <1>1, <2>1, <2>3, DpdkOnly, Zenon DEF Good
  <1>5. CASE c.pc = "enter"
    BY <1>3, <1>4, <1>5, Zenon DEF Move, Pcs, DpdkDispatch
  <1>6. CASE c.pc = "read" /\ (Leave(c.n) \/ LeaveBroken) /\ Keep
    BY <1>3, <1>4, <1>6, Zenon DEF Move
  <1> DEFINE most == IF Limited /\ c.cnt < Burst THEN c.cnt ELSE Burst
  <1>7. CASE c.pc = "read" /\ Fetch(most, "handle")
    <2>1. most \in Nat /\ "handle" \in Pcs
      BY <1>1, SourcesAssumption, Zenon DEF Pcs
    <2> HIDE DEF most
    <2>2. /\ c' \in CallRec /\ c'.pc = "handle" /\ c'.cnt = c.cnt /\ c'.n = c.n
          /\ c'.done = c.done /\ c'.bp = taken /\ c'.from = taken /\ c'.ep = taken'
          /\ taken' \in Nat /\ taken < taken'
          /\ UNCHANGED <<ret, handed, brk, over, hd, zb>>
      BY <1>1, <1>7, <2>1, FetchFields, Zenon
    <2>3. Around /\ GoesOn
      BY <1>1, <2>2, Zenon DEF Around, GoesOn, Stepping, Inv
    <2>4. UpTo(taken)
      BY <1>1, <1>7, Zenon DEF DpdkInv
    <2>5. UpTo(c.bp)'
      BY <2>2, <2>3, <2>4, UpToStays, Zenon DEF Around
    <2>6. c'.from <= c'.bp /\ c'.bp <= c'.ep
      BY <1>1, <2>2
    <2>7. DpdkInv'
      BY <2>2, <2>5, <2>6, Zenon DEF DpdkInv
    <2> QED
      BY <1>1, <2>3, <2>7, GoesOnKept, DpdkOnly, Zenon DEF Good
  <1>8. CASE c.pc = "handle" /\ c.bp < c.ep
    <2>1. HandOver(c.bp + 1, 0, "handle", "handle") /\ Keep
      BY <1>1, <1>8 DEF DpdkDispatch
    <2>2. Around /\ c.bp + 1 \in Int /\ "handle" \in Pcs \ {"idle"} /\ taken' = taken
      BY <1>1, <2>1, AroundKeep DEF Pcs
    <2>3. Took(c.bp + 1, 0, "handle", "handle")
      BY <1>1, <2>1, <2>2, HandTook, Zenon
    <2>4. UpTo(c.bp) /\ c.from <= c.bp /\ c.ep = taken
      BY <1>1, <1>8, Zenon DEF DpdkInv
    <2>5. MayHand(c.bp)
      BY <1>2, <2>4, Zenon DEF MayHand
    <2>6. Kept
      BY <1>1, <2>2, <2>3, <2>5, HandKept, Zenon
    <2>7. c'.pc = "handle" /\ c'.bp = c.bp + 1 /\ c'.from = c.from /\ c'.ep = c.ep
      BY <2>3, Zenon DEF Took
    <2>8. UpTo(c.bp)'
      BY <1>1, <2>2, <2>3, <2>4, <2>7, HandPasses, Zenon
    <2>9. c'.from <= c'.bp /\ c'.bp <= c'.ep
      BY <1>1, <1>8, <2>4, <2>7
    <2>10. DpdkInv'
      BY <2>2, <2>4, <2>7, <2>8, <2>9, Zenon DEF DpdkInv
    <2> QED
      BY <1>1, <2>6, <2>10, DpdkOnly, Zenon DEF Good
  <1>9. CASE c.pc = "handle" /\ ~(c.bp < c.ep)
    <2>1. c' = [c EXCEPT !.pc = "enter", !.n = @ + c.ep - c.from] /\ Keep
          /\ c.bp = c.ep /\ UNCHANGED <<ret, handed, brk, over>>
      BY <1>9, Zenon DEF DpdkDispatch
    <2>2. UpTo(taken) /\ c.from <= c.ep
      BY <1>1, <1>9, <2>1, Zenon DEF DpdkInv
    <2> DEFINE k == c.n + c.ep - c.from
    <2>3. c' = [c EXCEPT !.pc = "enter", !.n = k] /\ k \in Nat /\ "enter" \in Pcs
      BY <1>1, <2>1, <2>2 DEF Pcs
    <2> HIDE DEF k
    <2>4. c' \in CallRec /\ c'.pc = "enter" /\ c'.cnt = c.cnt /\ c'.done = c.done
      BY <1>1, <2>3, Zenon DEF CallRec
    <2>5. Around /\ GoesOn /\ taken' = taken
      BY <2>1, <2>4, AroundKeep, Zenon DEF GoesOn
    <2>6. UpTo(taken)'
      BY <2>1, <2>2, <2>5, UpToStays, Zenon DEF Around
    <2>7. DpdkInv'
      BY <2>4, <2>6, Zenon DEF DpdkInv
    <2> QED
      BY <1>1, <2>5, <2>7, GoesOnKept, DpdkOnly, Zenon DEF Good
  <1> QED
    BY <1>5, <1>6, <1>7, <1>8, <1>9, Zenon DEF DpdkDispatch

\* Septel.
LEMMA SeptelOnly ==
    ASSUME kind' = "septel", SeptelInv'
    PROVE  KindInv'
  BY Zenon DEF KindInv, LoopKinds, LossyKinds, OneKinds

\* septel_read.
LEMMA SeptelStep ==
    ASSUME Stepping({"septel"}), SeptelRead
    PROVE  Good
  <1>1. /\ kind = "septel" /\ kind' = kind /\ kind \in Kinds /\ SeptelInv /\ UpTo(taken)
        /\ taken \in Nat /\ hd \in [bp : Int, ep : Int, ev : BOOLEAN] /\ (~brk => over = 0)
        /\ c \in CallRec /\ c.cnt \in Nat /\ c.n \in Nat /\ c.done \in Nat
    BY SteppingFacts DEF KindInv, SeptelInv, TypeOK
  <1>2. ~Binds("number") /\ ~Binds("late")
    BY <1>1, Zenon DEF Binds, Lax
  <1>3. MayReturn(c.n) /\ MayBreak /\ c.done <= c.n
    BY <1>1, <1>2, Zenon DEF MayReturn, MayBreak, SeptelInv
  <1>4. ASSUME NEW p, Move(p), Keep, p \in {"enter", "grab"} => c.cnt = 0 \/ c.n < c.cnt,
               p = "grab" => ~brk
        PROVE  Good
    <2>1. Around /\ Kept /\ Moved(p) /\ taken' = taken /\ (p # "idle" => over' = over)
      BY <1>1, <1>4, MoveKept, Zenon DEF Keep
    <2>2. UpTo(taken)'
      BY <1>1, <2>1, UpToStays, Zenon DEF Moved, Around
    <2>3. SeptelInv'
      BY <1>1, <1>3, <1>4, <2>1, <2>2, Zenon DEF SeptelInv, Moved
    <2> QED
      BY <1>1, <2>1, <2>3, SeptelOnly, Zenon DEF Good
  <1>5. CASE c.pc = "enter"
    <2>1. c.cnt = 0 \/ c.n < c.cnt
      BY <1>1, <1>5, Zenon DEF SeptelInv
    <2> QED
      BY <1>3, <1>4, <1>5, <2>1 DEF Move, Pcs, SeptelRead
  <1>6. CASE /\ c.pc = "grab" /\ taken' = taken + 1 /\ UNCHANGED <<hd, zb>>
             /\ HandOver(taken + 1, 1, "more", "more")
    <2>1. taken \in Int /\ taken + 1 \in Int /\ "more" \in Pcs \ {"idle"} /\ taken' \in Nat
      BY <1>1, <1>6 DEF Pcs
    <2>2. Around
      BY <1>1, <1>6, <2>1, SteppingFacts, Zenon DEF Around, Stepping
    <2>3. Took(taken + 1, 1, "more", "more")
      BY <1>1, <1>6, <2>1, HandTook, Zenon
    <2>4. over = 0 /\ (c.cnt = 0 \/ c.n < c.cnt)
      BY <1>1, <1>6, Zenon DEF SeptelInv
    <2>5. MayHand(taken)
      BY <1>1, <1>3, <2>4 DEF MayHand
    <2>6. Kept
      BY <2>1, <2>2, <2>3, <2>5, HandKept, Zenon
    <2>7. UpTo(taken)'
      BY <1>1, <1>6, <2>1, <2>2, <2>3, HandPasses, Zenon
    <2>8. c'.pc = "more" /\ c'.done <= c'.n
      BY <1>1, <1>3, <2>3 DEF Took
    <2>9. SeptelInv'
      BY <2>7, <2>8, Zenon DEF SeptelInv
    <2> QED
      BY <1>1, <2>6, <2>9, SeptelOnly, Zenon DEF Good
  <1>7. CASE /\ c.pc = "grab" /\ Keep /\ c' = [c EXCEPT !.pc = "more", !.n = @ + 1]
             /\ UNCHANGED <<ret, handed, brk, over>>
    <2> DEFINE k == c.n + 1
    <2>1. c' = [c EXCEPT !.pc = "more", !.n = k] /\ k \in Nat /\ "more" \in Pcs /\ c.done <= k
      BY <1>1, <1>3, <1>7 DEF Pcs
    <2> HIDE DEF k
    <2>2. /\ c' \in CallRec /\ c'.pc = "more" /\ c'.cnt = c.cnt /\ c'.done = c.done
          /\ c'.n = k
      BY <1>1, <2>1, Zenon DEF CallRec
    <2>3. Around /\ GoesOn /\ taken' = taken
      BY <1>7, <2>2, AroundKeep, Zenon DEF GoesOn
    <2>4. UpTo(taken)'
      BY <1>1, <1>7, <2>3, UpToStays, Zenon DEF Around
    <2>5. SeptelInv'
      BY <2>1, <2>2, <2>4, Zenon DEF SeptelInv
    <2> QED
      BY <1>1, <2>3, <2>5, GoesOnKept, SeptelOnly, Zenon DEF Good
  <1>8. CASE c.pc = "more"
    BY <1>3, <1>4, <1>8 DEF Move, Pcs, SeptelRead
  <1> QED
    BY <1>5, <1>6, <1>7, <1>8, Zenon DEF SeptelRead

-----------------------------------------------------------------------------
(* All steps.                                                               *)

\* A read loop runs only inside a call.
LEMMA ReadCalls ==
    ASSUME Read
    PROVE  c.pc # "idle"
  <1>1. ASSUME OnePacket(taken) \/ CallThenTest \/ TestThenCall
        PROVE  c.pc # "idle"
    BY <1>1, Zenon DEF OnePacket, CallThenTest, TestThenCall
  <1>2. ASSUME NEW saves, NEW first, PacketLoop(saves, first)
        PROVE  c.pc # "idle"
    BY <1>2, Zenon DEF PacketLoop
  <1>3. ASSUME PcapReadBpf
        PROVE  c.pc # "idle"
    BY <1>2, <1>3, Zenon DEF PcapReadBpf, BpfAgain, BpfPackets, BpfReadDevice, AckZbuf, NextZbuf
  <1>4. ASSUME PcapReadNpf \/ AirpcapRead
        PROVE  c.pc # "idle"
    BY <1>2, <1>4, Zenon DEF PcapReadNpf, AirpcapRead, NpfReceive, NpfPackets, ReadWhenDrained
  <1>5. ASSUME PcapReadWin32Dag
        PROVE  c.pc # "idle"
    BY <1>5, Zenon DEF PcapReadWin32Dag, WinDagReceive, WinDagRecords
  <1>6. ASSUME TcRead
        PROVE  c.pc # "idle"
    BY <1>6, Zenon DEF TcRead
  <1>7. ASSUME PcapReadDlpi \/ PcapReadLibdlpi \/ ProcessPkts
        PROVE  c.pc # "idle"
    BY <1>2, <1>7, Zenon DEF PcapReadDlpi, PcapReadLibdlpi, ProcessPkts, DlpiWait
  <1>8. ASSUME UsbReadBin \/ BtRead \/ BtMonitorRead \/ PcapReadHaiku \/ PcapReadHurd \/ DbusRead
        PROVE  c.pc # "idle"
    BY <1>1, <1>8, Zenon DEF UsbReadBin, BtRead, BtMonitorRead, PcapReadHaiku, PcapReadHurd, DbusRead
  <1>9. ASSUME PcapReadAcn \/ NetfilterRead
        PROVE  c.pc # "idle"
    BY <1>1, <1>2, <1>9, Zenon DEF PcapReadAcn, NetfilterRead, NetfilterReceive, NetfilterMessages
  <1>10. ASSUME UsbReadMmap \/ NetmapDispatch
         PROVE  c.pc # "idle"
    BY <1>10, Zenon DEF UsbReadMmap, UsbFetch, UsbEvents, NetmapDispatch
  <1>11. ASSUME RdmasniffRead \/ DagRead
         PROVE  c.pc # "idle"
    BY <1>11, Zenon DEF RdmasniffRead, DagRead, DagFill, DagNextRecord, DagRecord, DagCounted
  <1>12. ASSUME SnfRead \/ DpdkDispatch \/ SeptelRead
         PROVE  c.pc # "idle"
    BY <1>12, Zenon DEF SnfRead, DpdkDispatch, SeptelRead
  <1> QED
    BY <1>3, <1>4, <1>5, <1>6, <1>7, <1>8, <1>9, <1>10, <1>11, <1>12 DEF Read

\* Every step of every read loop keeps the invariant and the contract.
LEMMA ReadGood ==
    ASSUME Inv, ReadStep
    PROVE  Good
  <1>1. Read /\ c.pc # "idle" /\ UNCHANGED <<const, came, app>>
    BY ReadCalls, Zenon DEF ReadStep
  <1>2. \A kinds : kind \in kinds => Stepping(kinds)
    BY <1>1, Zenon DEF Stepping
  <1>3. CASE PcapReadBpf
    BY <1>2, <1>3, BpfStep, ZbpfStep, Zenon DEF PcapReadBpf
  <1>4. CASE PcapReadNpf \/ AirpcapRead
    BY <1>2, <1>4, DrainedStep, Zenon DEF PcapReadNpf, AirpcapRead, NpfReceive, NpfPackets
  <1>5. CASE PcapReadWin32Dag
    BY <1>2, <1>5, WinDagStep, Zenon DEF PcapReadWin32Dag
  <1>6. CASE TcRead
    BY <1>2, <1>6, TcStep, Zenon DEF TcRead
  <1>7. CASE PcapReadDlpi \/ PcapReadLibdlpi \/ ProcessPkts
    BY <1>2, <1>7, DlpiStep, Dlpi1Step, Zenon DEF PcapReadDlpi, PcapReadLibdlpi, ProcessPkts
  <1>8. CASE UsbReadBin \/ BtRead \/ BtMonitorRead
    BY <1>2, <1>8, CallThenTestStep, Zenon DEF UsbReadBin, BtRead, BtMonitorRead
  <1>9. CASE PcapReadHaiku \/ PcapReadHurd
    BY <1>2, <1>9, TestThenCallStep, Zenon DEF PcapReadHaiku, PcapReadHurd
  <1>10. CASE DbusRead
    BY <1>2, <1>10, DbusStep, Zenon DEF DbusRead
  <1>11. CASE PcapReadAcn
    BY <1>2, <1>11, SitaStep, Zenon DEF PcapReadAcn
  <1>12. CASE NetfilterRead
    BY <1>2, <1>12, NetfilterStep, Zenon DEF NetfilterRead
  <1>13. CASE UsbReadMmap
    BY <1>2, <1>13, UsbMmapStep, Zenon DEF UsbReadMmap
  <1>14. CASE NetmapDispatch
    BY <1>2, <1>14, NetmapStep, Zenon DEF NetmapDispatch
  <1>15. CASE RdmasniffRead
    BY <1>2, <1>15, RdmaStep, Zenon DEF RdmasniffRead
  <1>16. CASE DagRead
    BY <1>2, <1>16, DagStep, Zenon DEF DagRead
  <1>17. CASE SnfRead
    BY <1>2, <1>17, SnfStep, Zenon DEF SnfRead
  <1>18. CASE DpdkDispatch
    BY <1>2, <1>18, DpdkStep, Zenon DEF DpdkDispatch
  <1>19. CASE SeptelRead
    BY <1>2, <1>19, SeptelStep, Zenon DEF SeptelRead
  <1> QED
    BY <1>1, <1>3, <1>4, <1>5, <1>6, <1>7, <1>8, <1>9, <1>10, <1>11, <1>12, <1>13,
       <1>14, <1>15, <1>16, <1>17, <1>18, <1>19 DEF Read

\* Steps around the call leave the source where it is.
LEMMA SourceStays ==
    ASSUME Inv, UNCHANGED <<const, hd, taken, zb, handed, over>>,
           came' \in Nat, came <= came',
           c' \in CallRec, c'.pc = c.pc, c'.cnt = c.cnt, c'.n = c.n, c'.done = c.done,
           c'.bp = c.bp, c'.ep = c.ep, c'.from = c.from
    PROVE  KindInv'
  <1>1. /\ KindInv /\ kind' = kind /\ match' = match /\ taken \in Nat /\ came \in Nat
        /\ UNCHANGED <<hd, taken, zb, handed, over>>
    BY Zenon DEF Inv, TypeOK, const
  <1>2. ASSUME NEW x, UpTo(x)
        PROVE  UpTo(x)'
    BY <1>2, UpToStays, Zenon
  <1>3. Limit' = Limit /\ Rest' = Rest /\ Buffered' = Buffered /\ InLoop' = InLoop
        /\ Reached' = Reached /\ Limited' = Limited
    BY <1>1, Zenon DEF Limit, Rest, Buffered, InLoop, Reached, Limited, Published, NextBuffer, Nothing
  <1>4. \A clause : Binds(clause)' = Binds(clause)
    BY <1>1, Zenon DEF Binds
  <1>5. kind \in LoopKinds => LoopInv'
    <2>1. SUFFICES ASSUME LoopInv
                   PROVE  LoopInv'
      BY <1>1, Zenon DEF KindInv
    <2>2. ~InLoop => UpTo(Rest)'
      BY <1>2, <1>3, <2>1, Zenon DEF LoopInv
    <2>3. InLoop => UpTo(IF c.bp < c.ep THEN c.bp ELSE Limit)'
      BY <1>2, <1>3, <2>1, Zenon DEF LoopInv
    <2>4. InLoop /\ kind \in LossyKinds /\ c.n = 0 => UpTo(Rest)'
      BY <1>2, <1>3, <2>1, Zenon DEF LoopInv
    <2> QED
      BY <1>1, <1>3, <2>1, <2>2, <2>3, <2>4, Zenon DEF LoopInv
  <1>6. kind = "zbpf" => ZbufInv'
    <2>1. SUFFICES ASSUME ZbufInv
                   PROVE  ZbufInv'
      BY <1>1, Zenon DEF KindInv
    <2>2. taken' <= came'
      BY <1>1, <2>1 DEF ZbufInv
    <2> QED
      BY <1>1, <1>3, <2>1, <2>2, Zenon DEF ZbufInv, Lead, Published, NextBuffer, Nothing, Other
  <1>7. kind = "windag" => WinDagInv'
    BY <1>1, <1>3, Zenon DEF KindInv, WinDagInv
  <1>8. kind \in {"tc", "dag"} => WindowInv'
    BY <1>1, <1>2, <1>3, Zenon DEF KindInv, WindowInv
  <1>9. kind = "dlpi1" => Dlpi1Inv'
    BY <1>1, <1>2, <1>3, Zenon DEF KindInv, Dlpi1Inv
  <1>10. kind \in OneKinds => OneInv'
    BY <1>1, <1>2, <1>4, Zenon DEF KindInv, OneInv
  <1>11. kind = "sita" => SitaInv'
    BY <1>1, <1>2, Zenon DEF KindInv, SitaInv
  <1>12. kind = "usbmmap" => UsbMmapInv'
    BY <1>1, <1>3, Zenon DEF KindInv, UsbMmapInv
  <1>13. kind = "netmap" => NetmapInv'
    BY <1>1, <1>2, <1>3, Zenon DEF KindInv, NetmapInv
  <1>14. kind = "rdma" => RdmaInv'
    BY <1>1, <1>2, Zenon DEF KindInv, RdmaInv
  <1>15. kind = "snf" => SnfInv'
    BY <1>1, <1>2, <1>3, Zenon DEF KindInv, SnfInv
  <1>16. kind = "dpdk" => DpdkInv'
    BY <1>1, <1>2, Zenon DEF KindInv, DpdkInv
  <1>17. kind = "septel" => SeptelInv'
    BY <1>1, <1>2, Zenon DEF KindInv, SeptelInv
  <1> QED
    BY <1>1, <1>5, <1>6, <1>7, <1>8, <1>9, <1>10, <1>11, <1>12, <1>13, <1>14, <1>15,
       <1>16, <1>17 DEF KindInv

\* A call of the contract: nothing has been handed over in it.
LEMMA EnterGood ==
    ASSUME Inv, c.pc = "idle", NEW k \in Nat, Enter(k),
           app' \in [in : {"dispatch", "loop"}, cnt : Nat]
    PROVE  Inv' /\ AbsStep
  <1> DEFINE z == 0
  <1>1. /\ TypeOK /\ CallInv /\ KindInv /\ c \in CallRec /\ z \in Nat /\ z \in Int
        /\ "enter" \in Pcs /\ app'.in # "out" /\ app' \in [in : {"out", "dispatch", "loop"}, cnt : Nat]
        /\ UNCHANGED <<const, kind, mode, match, came, taken, hd, zb, handed, brk, over, ret>>
    BY DEF Inv, TypeOK, Pcs, Enter, const
  <1>2. c' = [c EXCEPT !.pc = "enter", !.cnt = k, !.n = z, !.done = z, !.aux = z,
                       !.bp = z, !.ep = z, !.from = z]
    BY Zenon DEF Enter
  <1>3. /\ c' \in CallRec /\ c'.pc = "enter" /\ c'.cnt = k /\ c'.n = 0 /\ c'.done = 0
    <2>1. /\ c' \in CallRec /\ c'.pc = "enter" /\ c'.cnt = k /\ c'.n = z /\ c'.done = z
      <3> HIDE DEF z
      <3> QED
        BY <1>1, <1>2, Zenon DEF CallRec
    <2> QED
      BY <2>1, Zenon
  <1> HIDE DEF z
  <1>4. TypeOK'
    BY <1>1, <1>3, Zenon DEF TypeOK
  <1>5. CallInv'
    BY <1>1, <1>3, Zenon DEF CallInv
  <1>6. AbsStep
    BY <1>1, <1>3, Zenon DEF AbsStep, Contract!Next, Contract!Call
  <1>7. ASSUME NEW x, UpTo(x)
        PROVE  UpTo(x)'
    BY <1>1, <1>7, UpToStays, Zenon
  <1>8. Limit' = Limit /\ Rest' = Rest /\ Buffered' = Buffered /\ ~InLoop /\ ~InLoop'
    BY <1>1, <1>3, Zenon DEF Limit, Rest, Buffered, InLoop, Published, NextBuffer, Nothing
  <1>9. ~Reached' /\ (c'.cnt = 0 \/ c'.n < c'.cnt) /\ c'.n <= c'.cnt
    BY <1>3 DEF Reached, Limited
  <1>10. kind \in LoopKinds => LoopInv'
    <2>1. kind \in LoopKinds => UpTo(Rest)'
      BY <1>1, <1>7, <1>8, Zenon DEF KindInv, LoopInv
    <2> QED
      BY <1>1, <1>3, <1>8, <1>9, <2>1, Zenon DEF KindInv, LoopInv
  <1>11. kind = "zbpf" => ZbufInv'
    BY <1>1, <1>3, <1>8, ZbufIdle, Zenon DEF KindInv
  <1>12. kind = "windag" => WinDagInv'
    BY <1>3, Zenon DEF WinDagInv
  <1>13. kind \in {"tc", "dag"} => WindowInv'
    <2>1. kind \in {"tc", "dag"} => UpTo(Rest)'
      BY <1>1, <1>7, <1>8, Zenon DEF KindInv, WindowInv
    <2> QED
      BY <1>1, <1>3, <1>8, <1>9, <2>1 DEF KindInv, WindowInv
  <1>14. kind = "dlpi1" => Dlpi1Inv'
    BY <1>1, <1>3, <1>7, <1>8, Zenon DEF KindInv, Dlpi1Inv
  <1>15. kind \in OneKinds => OneInv'
    BY <1>1, <1>3, <1>7, Zenon DEF KindInv, OneInv
  <1>16. kind = "sita" => SitaInv'
    BY <1>1, <1>3, <1>7, Zenon DEF KindInv, SitaInv
  <1>17. kind = "usbmmap" => UsbMmapInv'
    BY <1>3, <1>9, Zenon DEF UsbMmapInv
  <1>18. kind = "netmap" => NetmapInv'
    BY <1>1, <1>3, <1>7, Zenon DEF KindInv, NetmapInv
  <1>19. kind = "rdma" => RdmaInv'
    BY <1>1, <1>3, <1>7, Zenon DEF KindInv, RdmaInv
  <1>20. kind = "snf" => SnfInv'
    BY <1>1, <1>3, <1>7, Zenon DEF KindInv, SnfInv
  <1>21. kind = "dpdk" => DpdkInv'
    BY <1>1, <1>3, <1>7, Zenon DEF KindInv, DpdkInv
  <1>22. kind = "septel" => SeptelInv'
    BY <1>1, <1>3, <1>7, <1>9 DEF KindInv, SeptelInv
  <1>23. KindInv'
    BY <1>1, <1>10, <1>11, <1>12, <1>13, <1>14, <1>15, <1>16, <1>17, <1>18, <1>19,
       <1>20, <1>21, <1>22 DEF KindInv
  <1> QED
    BY <1>4, <1>5, <1>6, <1>23, Zenon DEF Inv

\* The kernel publishes a buffer: nothing the contract speaks of.
LEMMA RotateGood ==
    ASSUME Inv, KernelRotates
    PROVE  Inv' /\ AbsStep
  <1>1. /\ kind = "zbpf" /\ kind \in LoopKinds /\ TypeOK /\ CallInv /\ LoopInv /\ ZbufInv
        /\ Rotated /\ taken \in Nat /\ came \in Nat
        /\ UNCHANGED <<const, kind, match, came, hd, c, app, handed, brk, over, ret>>
    BY Zenon DEF Inv, KindInv, TypeOK, KernelRotates, LoopKinds, const
  <1>2. /\ InLoop' = InLoop /\ Buffered' = Buffered /\ Reached' = Reached
        /\ (c'.pc \notin {"idle", "enter", "read"} /\ ~InLoop' => ~hd.ev)
    BY <1>1, Zenon DEF InLoop, Buffered, Reached, Limited, ZbufInv
  <1>3. ZbufInv' /\ Limit' = Limit /\ taken' \in Nat
    BY <1>1, <1>2, RotatedKeeps, Zenon
  <1>4. Rest' = Rest
    BY <1>1, <1>2, <1>3, Zenon DEF Rest
  <1>5. ~InLoop => UpTo(Rest)'
    BY <1>1, <1>4, UpToStays, Zenon DEF LoopInv
  <1>6. InLoop => UpTo(IF c.bp < c.ep THEN c.bp ELSE Limit)'
    BY <1>1, <1>3, UpToStays, Zenon DEF LoopInv
  <1>7. kind \notin LossyKinds
    BY <1>1, Zenon DEF LossyKinds
  <1>8. LoopInv'
    BY <1>1, <1>2, <1>3, <1>5, <1>6, <1>7 DEF LoopInv
  <1>9. KindInv'
    BY <1>1, <1>3, <1>8, LoopOnly, Zenon
  <1>10. TypeOK' /\ CallInv'
    BY <1>1, <1>3, Zenon DEF TypeOK, CallInv
  <1>11. AbsStep
    BY <1>1, Zenon DEF AbsStep, Contract!rvars
  <1> QED
    BY <1>9, <1>10, <1>11, Zenon DEF Inv

\* Steps of the callers that start no call, arrivals, breaks and signals.
LEMMA AsideGood ==
    ASSUME Inv, UNCHANGED <<const, hd, taken, zb, handed, over, ret>>,
           came' \in Nat, came <= came',
           app' \in [in : {"out", "dispatch", "loop"}, cnt : Nat], app'.in = "out" => c.pc = "idle",
           c' \in CallRec, c'.pc = c.pc, c'.cnt = c.cnt, c'.n = c.n, c'.done = c.done,
           c'.bp = c.bp, c'.ep = c.ep, c'.from = c.from,
           brk' = brk \/ (~brk /\ brk' = TRUE)
    PROVE  Inv' /\ AbsStep
  <1>1. brk' \in BOOLEAN
    <2>1. TRUE \in BOOLEAN
      BY Zenon
    <2> QED
      BY <2>1, Zenon DEF Inv, TypeOK
  <1>2. TypeOK'
    BY <1>1, Zenon DEF Inv, TypeOK, const
  <1>3. CallInv'
    BY Zenon DEF Inv, CallInv
  <1>4. KindInv'
    BY SourceStays, Zenon
  <1>5. CASE brk' = brk
    BY <1>2, <1>3, <1>4, <1>5, Zenon DEF AbsStep, Contract!rvars, Inv, const
  <1>6. CASE ~brk /\ brk' = TRUE
    BY <1>2, <1>3, <1>4, <1>6, Zenon DEF AbsStep, Contract!Next, Contract!BreakLoop, Inv, const
  <1> QED
    BY <1>5, <1>6, Zenon

\* pcap_loop calls again with what is left of the count, or returns.
LEMMA LoopGood ==
    ASSUME Inv, PcapLoop
    PROVE  Inv' /\ AbsStep
  <1>1. /\ app \in [in : {"out", "dispatch", "loop"}, cnt : Nat] /\ app.in = "loop"
        /\ c.pc = "idle" /\ ret \in Int /\ c \in CallRec /\ came \in Nat /\ app.cnt \in Nat
    BY Zenon DEF PcapLoop, Inv, TypeOK
  <1> DEFINE left == IF app.cnt > 0 THEN app.cnt - ret ELSE 0
             over1 == ret < 0 \/ (ret > 0 /\ app.cnt > 0 /\ left <= 0)
             k == IF ret = 0 THEN app.cnt ELSE left
  <1>2. CASE over1
    <2>1. /\ app' = [app EXCEPT !.in = "out"]
          /\ UNCHANGED <<const, came, taken, hd, zb, c, handed, brk, over, ret>>
      BY <1>2, Zenon DEF PcapLoop
    <2>2. app' \in [in : {"out", "dispatch", "loop"}, cnt : Nat]
      BY <1>1, <2>1, Zenon
    <2> QED
      BY <1>1, <2>1, <2>2, AsideGood
  <1>3. CASE ~over1
    <2>1. app' = [app EXCEPT !.cnt = k] /\ Enter(k)
      BY <1>3, Zenon DEF PcapLoop
    <2>2. k \in Nat
      BY <1>1, <1>3
    <2> HIDE DEF k
    <2>3. app' \in [in : {"dispatch", "loop"}, cnt : Nat]
      BY <1>1, <2>1, <2>2, Zenon
    <2> QED
      BY <1>1, <2>1, <2>2, <2>3, EnterGood, Zenon
  <1> QED
    BY <1>2, <1>3, Zenon

\* The invariant is inductive, and every step is one of the contract's.
LEMMA NextGood ==
    ASSUME Inv, [Next]_vars
    PROVE  Inv' /\ AbsStep
  <1>1. /\ TypeOK /\ CallInv /\ c \in CallRec /\ came \in Nat
        /\ app \in [in : {"out", "dispatch", "loop"}, cnt : Nat]
        /\ (app.in = "out" => c.pc = "idle")
    BY Zenon DEF Inv, TypeOK, CallInv
  <1>2. CASE ReadStep
    BY <1>2, ReadGood, Zenon DEF Good, Kept, Inv
  <1>3. CASE KernelRotates
    BY <1>3, RotateGood, Zenon
  <1>4. ASSUME NEW k \in Cnts, PcapDispatch(k) \/ StartLoop(k)
        PROVE  Inv' /\ AbsStep
    <2>1. k \in Nat
      BY SourcesAssumption, Zenon
    <2>2. app' \in [in : {"dispatch", "loop"}, cnt : Nat] /\ c.pc = "idle" /\ Enter(k)
      BY <1>1, <1>4, <2>1 DEF PcapDispatch, StartLoop
    <2> QED
      BY <2>1, <2>2, EnterGood, Zenon
  <1>5. CASE DispatchReturns
    <2>1. app' \in [in : {"out", "dispatch", "loop"}, cnt : Nat]
      BY <1>1, <1>5, Zenon DEF DispatchReturns
    <2> QED
      BY <1>1, <1>5, <2>1, AsideGood DEF DispatchReturns
  <1>6. CASE PcapLoop
    BY <1>6, LoopGood
  <1>7. CASE Arrive
    <2>1. came' \in Nat /\ came <= came'
      BY <1>1, <1>7 DEF Arrive
    <2> QED
      BY <1>1, <1>7, <2>1, AsideGood, Zenon DEF Arrive
  <1>8. CASE PcapBreakloop \/ Signal
    <2>1. PICK b \in BOOLEAN : c' = [c EXCEPT !.sig = b]
      <3>1. CASE PcapBreakloop
        <4>1. PICK sig \in {FALSE, Waiting} : c' = [c EXCEPT !.sig = c.sig \/ sig]
          BY <3>1, Zenon DEF PcapBreakloop
        <4>2. (c.sig \/ sig) \in BOOLEAN
          BY Zenon
        <4> QED
          BY <4>1, <4>2, Zenon
      <3>2. CASE Signal
        <4>1. TRUE \in BOOLEAN
          BY Zenon
        <4> QED
          BY <3>2, <4>1, Zenon DEF Signal
      <3> QED
        BY <1>8, <3>1, <3>2, Zenon
    <2>2. /\ c' \in CallRec /\ c'.pc = c.pc /\ c'.cnt = c.cnt /\ c'.n = c.n
          /\ c'.done = c.done /\ c'.bp = c.bp /\ c'.ep = c.ep /\ c'.from = c.from
      BY <1>1, <2>1, Zenon DEF CallRec
    <2>3. /\ UNCHANGED <<const, came, hd, taken, zb, app, handed, over, ret>>
          /\ brk' = brk \/ (~brk /\ brk' = TRUE)
      BY <1>8, Zenon DEF PcapBreakloop, Signal
    <2>4. /\ came' \in Nat /\ came <= came' /\ app' \in [in : {"out", "dispatch", "loop"}, cnt : Nat]
          /\ (app'.in = "out" => c.pc = "idle")
      BY <1>1, <2>3
    <2>5. UNCHANGED <<const, hd, taken, zb, handed, over, ret>>
      BY <2>3, Zenon
    <2> QED
      BY <2>2, <2>3, <2>4, <2>5, AsideGood, Zenon
  <1>9. CASE UNCHANGED vars
    <2>1. UNCHANGED <<const, came, hd, taken, zb, c, app, handed, brk, over, ret>>
      BY <1>9, Zenon DEF vars, const
    <2> QED
      BY <1>1, <2>1, AsideGood
  <1> QED
    BY <1>2, <1>3, <1>4, <1>5, <1>6, <1>7, <1>8, <1>9, Zenon DEF Next

\* A handle just activated.
LEMMA InitGood ==
    ASSUME Init
    PROVE  Inv /\ Contract!Init
  <1>1. TypeOK
    <2>1. FALSE \in BOOLEAN
      BY Zenon
    <2>2. match \subseteq Numbers /\ kind \in Kinds
      BY SourcesAssumption, Zenon DEF Init
    <2>3. c \in CallRec
      BY <2>1 DEF Init, CallRec, Pcs
    <2>4. hd \in [bp : Int, ep : Int, ev : BOOLEAN]
      BY <2>1 DEF Init
    <2>5. /\ app \in [in : {"out", "dispatch", "loop"}, cnt : Nat] /\ handed \in Seq(Int)
          /\ over \in Nat /\ ret \in Int /\ came \in Nat /\ taken \in Nat
      BY DEF Init
    <2>6. brk \in BOOLEAN
      BY <2>1, Zenon DEF Init
    <2> QED
      BY <2>2, <2>3, <2>4, <2>5, <2>6 DEF TypeOK
  <1>2. CallInv
    BY DEF Init, CallInv
  <1>3. UpTo(0)
    <2>1. HandedUpTo(0)
      <3>1. handed = <<>>
        BY Zenon DEF Init
      <3>2. DOMAIN handed = {}
        BY <3>1
      <3> QED
        BY <3>2, Zenon DEF HandedUpTo
    <2>2. NoneLeft(0)
      BY <1>1, SourcesAssumption DEF TypeOK, Numbers, NoneLeft
    <2> QED
      BY <2>1, <2>2, Zenon DEF UpTo
  <1>4. /\ c.pc = "idle" /\ c.n = 0 /\ c.done = 0 /\ c.cnt = 0 /\ over = 0 /\ taken = 0
        /\ came = 0 /\ hd.bp = 0 /\ hd.ep = 0 /\ ~hd.ev
    BY Zenon DEF Init
  <1>5. ~Buffered /\ ~InLoop
    BY <1>4 DEF Buffered, InLoop
  <1>6. kind = "zbpf" => ZbufInv /\ Limit = 0
    <2>1. /\ zb.cur = 0 /\ zb.nxt = 1 /\ zb.pub = [i \in {1, 2} |-> Nothing]
          /\ zb \in [cur : {0, 1, 2}, pub : [{1, 2} -> Nat \X Nat], nxt : {1, 2}, intr : BOOLEAN]
      <3>1. FALSE \in BOOLEAN
        BY Zenon
      <3>2. [i \in {1, 2} |-> Nothing] \in [{1, 2} -> Nat \X Nat]
        BY Zenon DEF Nothing
      <3> QED
        BY <3>1, <3>2, Zenon DEF Init
    <2>2. ~Published(1) /\ ~Published(2)
      BY <2>1, Zenon DEF Published
    <2>3. Lead = 1 /\ Other(Lead) = 2 /\ NextBuffer(zb.cur) = 1
      BY <1>4, <2>1, Zenon DEF Lead, NextBuffer, Other
    <2> QED
      BY <1>4, <1>5, <2>1, <2>2, <2>3 DEF ZbufInv, Limit
  <1>7. Rest = 0
    BY <1>4, <1>5, <1>6, Zenon DEF Rest, Limit
  <1>8. LoopInv /\ WindowInv
    BY <1>3, <1>4, <1>5, <1>7 DEF LoopInv, WindowInv
  <1>9. WinDagInv /\ Dlpi1Inv /\ OneInv /\ SitaInv /\ UsbMmapInv
    BY <1>3, <1>4, <1>5, Zenon DEF WinDagInv, Dlpi1Inv, OneInv, SitaInv, UsbMmapInv
  <1>10. NetmapInv /\ RdmaInv /\ SnfInv /\ DpdkInv /\ SeptelInv
    BY <1>3, <1>4 DEF NetmapInv, RdmaInv, SnfInv, DpdkInv, SeptelInv
  <1>11. KindInv
    BY <1>6, <1>8, <1>9, <1>10, Zenon DEF KindInv
  <1>12. Lax[kind] \subseteq Contract!Clauses
    BY <1>1, Zenon DEF TypeOK, Lax, Contract!Clauses
  <1>13. Contract!Init
    BY <1>1, <1>4, <1>12, Zenon DEF Contract!Init, Init, TypeOK
  <1> QED
    BY <1>1, <1>2, <1>11, <1>13, Zenon DEF Inv

\* Every read loop implements the contract of ReadLoop, but for the clauses
\* Lax exempts it from: read_op of every platform, under pcap_dispatch and
\* pcap_loop, with breaks and signals at any moment.
THEOREM SourcesKeepContract == Spec => KeepsContract
  <1>1. Init => Inv /\ Contract!Init
    BY InitGood, Zenon
  <1>2. Inv /\ [Next]_vars => Inv' /\ [Contract!Next]_(Contract!rvars)
    BY NextGood, Zenon DEF AbsStep
  <1> QED
    BY <1>1, <1>2, PTL DEF Spec, KeepsContract, Contract!Spec
=============================================================================
