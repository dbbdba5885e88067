-------------------------- MODULE PcapHandleProofs --------------------------
(***************************************************************************)
(* What handles own, proved for any number of handles, descriptors,        *)
(* monitor interfaces, settings and failing calls, as long as the calls    *)
(* whose failure leaves something behind (NoLeakingFault) do not fail.     *)
(*                                                                         *)
(* The inductive invariant says of each place of an activation which       *)
(* fields of the pcap_t hold something (Local), that the descriptors are   *)
(* exactly those the handles refer to, each once (Descs), and that the     *)
(* exit list and the monitor interfaces follow the handles (ListInv,       *)
(* MonInv).  Every action replaces one handle, so one lemma (StepKeeps)    *)
(* carries all of them; the actions only show what they replace it by.     *)
(***************************************************************************)
EXTENDS PcapHandle, SequenceTheorems, WellFoundedInduction, TLAPS

\* The places where the ring or the one-shot buffer may be mapped, where the
\* handle owns its socket, and where the socket is still setup_socket's.
Mapped == {"version", "ring", "bind", "finish", "active"}
Late == Mapped \cup {"event", "oneshot"}
Mid == {"any", "rfmon", "link", "options"}

RefsOf(r) == {r.fd, r.sock_fd, r.breakfd} \ {NoFd}

\* The fields of one handle do not name the same descriptor.
Apart(r) ==
    /\ r.fd # NoFd => r.fd # r.sock_fd /\ r.fd # r.breakfd
    /\ r.sock_fd # NoFd => r.sock_fd # r.breakfd

\* What each place of an activation says of the handle.
Local(r) ==
    /\ r.at \in Late <=> r.fd # NoFd
    /\ r.at \in Mid <=> r.sock_fd # NoFd
    /\ r.at \notin Mapped \cup {"oneshot"} => r.breakfd = NoFd
    /\ r.at \in {"oneshot", "version", "ring", "bind", "finish"} =>
          (r.breakfd = NoFd <=> r.opt.nonblock)
    /\ r.at = "active" => (r.breakfd = NoFd <=> r.nonblocking)
    /\ r.at # "active" => ~r.nonblocking
    /\ r.ops = "linux" <=> r.at \in {"finish", "active"}
    /\ r.at \in {"finish", "active"} => r.setnonblock_op = "linux"
    /\ r.setnonblock_op = "linux" => r.at \in {"finish", "active", "failed"}
    /\ r.must => r.kind = "wifi"
    /\ r.must => r.at \notin {"none", "created", "socket", "any", "rfmon"}
    /\ r.must /\ r.at # "failed" => r.mondevice \in MonNames \ Foreign
    /\ r.at = "any" => r.kind = "any"

OnList(r) == r.must /\ r.at \in Steps \cup {"active"}

Locals == \A p \in Handles : Local(h[p])

Descs ==
    proc \in {"run", "exiting"} =>
       /\ \A p \in Handles : RefsOf(h[p]) \subseteq openfds /\ Apart(h[p])
       /\ \A p, q \in Handles : p # q => RefsOf(h[p]) \cap RefsOf(h[q]) = {}
       /\ \A d \in openfds : \E p \in Handles : d \in RefsOf(h[p])

MapsInv == \A m \in maps : h[m[1]].at \in Mapped

ListInv ==
    /\ \A i, j \in DOMAIN pcaps_to_close :
          pcaps_to_close[i] = pcaps_to_close[j] => i = j
    /\ \A p \in Handles :
          OnList(h[p]) <=> \E i \in DOMAIN pcaps_to_close : pcaps_to_close[i] = p

MonInv ==
    /\ \A m \in MonNames :
          m \in mons <=> (m \in Foreign
                          \/ \E p \in Handles : OnList(h[p]) /\ h[p].mondevice = m)
    /\ \A p, q \in Handles :
          OnList(h[p]) /\ OnList(h[q]) /\ h[p].mondevice = h[q].mondevice => p = q

ProcInv ==
    /\ proc # "aborted"
    /\ proc # "run" => \A p \in Handles : h[p].at \notin Steps
    /\ proc = "exited" => openfds = {} /\ maps = {} /\ pcaps_to_close = <<>>
    /\ ~did_atexit => pcaps_to_close = <<>>

\* The inductive invariant.
IInv ==
    TypeOK /\ Locals /\ Descs /\ MapsInv /\ ListInv /\ MonInv /\ ProcInv

-----------------------------------------------------------------------------
(* The least element of a set of numbers, which the kernel's choice of a     *)
(* descriptor and the search for a free monitor interface both take.         *)

\* The pairs of OpToRel(<, Nat) are the numbers in order.
LEMMA SmallerIsRelated ==
    ASSUME NEW x \in Nat, NEW y \in Nat, y < x
    PROVE  <<y, x>> \in OpToRel(<, Nat)
  BY Zenon DEF OpToRel

\* A nonempty set of numbers contains its minimum.
LEMMA LeastIn ==
    ASSUME NEW S \in SUBSET Nat, S # {}
    PROVE  Min(S) \in S
  <1>1. PICK x \in S : \A y \in S : ~(<<y, x>> \in OpToRel(<, Nat))
    BY WFMin, NatLessThanWellFounded, Zenon
  <1>2. \A y \in S : x <= y
    <2>1. SUFFICES ASSUME NEW y \in S, ~(x <= y) PROVE FALSE
      BY Zenon
    <2>2. x \in Nat /\ y \in Nat /\ y < x
      BY <2>1
    <2> QED
      BY <1>1, <2>2, SmallerIsRelated, Zenon
  <1> QED
    BY <1>2, Zenon DEF Min

-----------------------------------------------------------------------------
(* The list.                                                                 *)

\* Removing a position keeps the other elements in their order.
LEMMA UnlinkElements ==
    ASSUME NEW S, NEW s \in Seq(S), NEW i \in 1..Len(s)
    PROVE  /\ Unlink(s, i) \in Seq(S)
           /\ Len(Unlink(s, i)) = Len(s) - 1
           /\ \A j \in 1..(Len(s) - 1) :
                 Unlink(s, i)[j] = IF j < i THEN s[j] ELSE s[j + 1]
  <1> DEFINE a == SubSeq(s, 1, i - 1)
             b == SubSeq(s, i + 1, Len(s))
  <1>1. a \in Seq(S) /\ Len(a) = i - 1 /\ \A j \in 1..(i - 1) : a[j] = s[j]
    OBVIOUS
  <1>2. /\ b \in Seq(S) /\ Len(b) = Len(s) - i
        /\ \A j \in 1..(Len(s) - i) : b[j] = s[j + i]
    OBVIOUS
  <1>3. Unlink(s, i) = a \o b
    BY Zenon DEF Unlink
  <1> HIDE DEF a, b
  <1>4. /\ a \o b \in Seq(S) /\ Len(a \o b) = Len(a) + Len(b)
        /\ \A j \in 1..(Len(a) + Len(b)) :
              (a \o b)[j] = IF j <= Len(a) THEN a[j] ELSE b[j - Len(a)]
    BY <1>1, <1>2, ConcatProperties, Zenon
  <1> QED
    BY <1>1, <1>2, <1>3, <1>4

\* Unlinking a handle that is on the list once leaves the others, each once.
LEMMA Unlinked ==
    ASSUME NEW S, NEW s \in Seq(S), NEW p \in S,
           \A i, j \in DOMAIN s : s[i] = s[j] => i = j,
           \E i \in DOMAIN s : s[i] = p,
           NEW t, t = RemoveFromPcapsToClose(s, p)
    PROVE  /\ t \in Seq(S)
           /\ \A i, j \in DOMAIN t : t[i] = t[j] => i = j
           /\ \A q \in S : (\E i \in DOMAIN t : t[i] = q)
                           <=> q # p /\ \E i \in DOMAIN s : s[i] = q
  <1> DEFINE k == Min({i \in DOMAIN s : s[i] = p})
  <1>1. k \in 1..Len(s) /\ s[k] = p
    <2>1. {i \in DOMAIN s : s[i] = p} \in SUBSET Nat
      OBVIOUS
    <2>2. k \in {i \in DOMAIN s : s[i] = p}
      BY <2>1, LeastIn, Zenon
    <2> QED
      BY <2>2
  <1>2. t = Unlink(s, k)
    BY Zenon DEF RemoveFromPcapsToClose
  <1> HIDE DEF k
  <1>3. /\ t \in Seq(S) /\ Len(t) = Len(s) - 1
        /\ \A j \in 1..(Len(s) - 1) : t[j] = IF j < k THEN s[j] ELSE s[j + 1]
    <2>1. k \in 1..Len(s)
      BY <1>1, Zenon
    <2>2. /\ Unlink(s, k) \in Seq(S) /\ Len(Unlink(s, k)) = Len(s) - 1
          /\ \A j \in 1..(Len(s) - 1) :
                Unlink(s, k)[j] = IF j < k THEN s[j] ELSE s[j + 1]
      BY <2>1, UnlinkElements, Zenon
    <2> QED
      BY <1>2, <2>2, Zenon
  <1>4. DOMAIN s = 1..Len(s) /\ DOMAIN t = 1..(Len(s) - 1)
    BY <1>3
  <1> DEFINE from(j) == IF j < k THEN j ELSE j + 1
  <1>8. \A j \in DOMAIN t : from(j) \in DOMAIN s /\ from(j) # k
    BY <1>1, <1>4
  <1>9. \A j \in DOMAIN t : t[j] = s[from(j)]
    BY <1>3, <1>4, Zenon
  <1>10. \A i, j \in DOMAIN t : from(i) = from(j) => i = j
    BY <1>1, <1>4
  <1>11. k \in DOMAIN s /\ s[k] = p
    BY <1>1, <1>4, Zenon
  <1> HIDE DEF from
  <1>5. ASSUME NEW i \in DOMAIN t, NEW j \in DOMAIN t, t[i] = t[j]
        PROVE  i = j
    BY <1>5, <1>8, <1>9, <1>10
  <1>6. ASSUME NEW q \in S, NEW i \in DOMAIN t, t[i] = q
        PROVE  q # p /\ \E j \in DOMAIN s : s[j] = q
    BY <1>6, <1>8, <1>9, <1>11, Zenon
  <1>7. ASSUME NEW q \in S, q # p, NEW j \in DOMAIN s, s[j] = q
        PROVE  \E i \in DOMAIN t : t[i] = q
    <2>1. CASE j < k
      BY <1>1, <1>3, <1>4, <1>7, <2>1
    <2>2. CASE j > k
      <3>1. j - 1 \in DOMAIN t /\ t[j - 1] = s[j]
        BY <1>1, <1>3, <1>4, <2>2
      <3> QED
        BY <1>7, <3>1, Zenon
    <2> QED
      BY <1>1, <1>4, <1>7, <2>1, <2>2
  <1> QED
    BY <1>3, <1>5, <1>6, <1>7, Zenon

-----------------------------------------------------------------------------
(* One handle is replaced.                                                   *)

\* The handle p becomes r; its descriptors in gone are closed, those in new are
\* opened.
Replaced(p, r) == h' = [h EXCEPT ![p] = r] /\ r \in Handle /\ Local(r)

FdsMove(p, r, gone, new) ==
    /\ openfds' = (openfds \ gone) \cup new
    /\ gone \subseteq RefsOf(h[p])
    /\ new \subseteq Fds /\ new \cap (openfds \ gone) = {}
    /\ RefsOf(r) = (RefsOf(h[p]) \ gone) \cup new
    /\ Apart(r)

MapsMove(p, r) ==
    /\ maps' \subseteq maps \cup ({p} \X {"ring", "oneshot"})
    /\ r.at \notin Mapped => \A m \in maps' : m[1] # p

\* Its place on the list is kept, given up or taken, with the monitor interface.
ListSame(p, r) ==
    /\ pcaps_to_close' = pcaps_to_close /\ mons' = mons
    /\ OnList(r) <=> OnList(h[p])
    /\ OnList(r) => r.mondevice = h[p].mondevice
ListLess(p, r) ==
    /\ pcaps_to_close' = RemoveFromPcapsToClose(pcaps_to_close, p)
    /\ mons' = mons \ {h[p].mondevice}
    /\ OnList(h[p]) /\ ~OnList(r)
ListMore(p, r) ==
    /\ pcaps_to_close' = <<p>> \o pcaps_to_close
    /\ mons' = mons \cup {r.mondevice}
    /\ r.mondevice \in MonNames \ mons
    /\ ~OnList(h[p]) /\ OnList(r) /\ did_atexit'
ListMove(p, r) == ListSame(p, r) \/ ListLess(p, r) \/ ListMore(p, r)

ProcSame(r) ==
    /\ proc' = proc /\ proc \in {"run", "exiting"}
    /\ r.at \in Steps => proc = "run"
    /\ did_atexit' = did_atexit \/ did_atexit' = TRUE

\* Descriptors keep one owner each.
LEMMA DescsKept ==
    ASSUME IInv, NEW p \in Handles, NEW r, NEW gone, NEW new,
           Replaced(p, r), FdsMove(p, r, gone, new), ProcSame(r)
    PROVE  Descs' /\ openfds' \subseteq Fds
  <1>1. h'[p] = r /\ \A q \in Handles \ {p} : h'[q] = h[q]
    BY Zenon DEF IInv, TypeOK, Replaced
  <1>2. /\ \A q \in Handles : RefsOf(h[q]) \subseteq openfds /\ Apart(h[q])
        /\ \A q, s \in Handles : q # s => RefsOf(h[q]) \cap RefsOf(h[s]) = {}
        /\ \A d \in openfds : \E q \in Handles : d \in RefsOf(h[q])
    BY Zenon DEF IInv, Descs, ProcSame
  <1>3. \A q \in Handles : RefsOf(h[q])' = RefsOf(h'[q]) /\ Apart(h[q])' = Apart(h'[q])
    BY Zenon DEF RefsOf, Apart
  <1>4. RefsOf(h'[p]) = RefsOf(r) /\ \A q \in Handles \ {p} : RefsOf(h'[q]) = RefsOf(h[q])
    BY <1>1, Zenon
  <1>5. Apart(h'[p]) /\ \A q \in Handles \ {p} : Apart(h'[q])
    BY <1>1, <1>2, Zenon DEF FdsMove
  <1>6. openfds' \subseteq Fds
    BY Zenon DEF FdsMove, IInv, TypeOK
  <1>7. \A q \in Handles : RefsOf(h'[q]) \subseteq openfds'
    BY <1>2, <1>4, Zenon DEF FdsMove
  <1>8. \A q, s \in Handles : q # s => RefsOf(h'[q]) \cap RefsOf(h'[s]) = {}
    <2>1. \A q \in Handles \ {p} : RefsOf(r) \cap RefsOf(h[q]) = {}
      BY <1>2, Zenon DEF FdsMove
    <2> QED
      BY <1>2, <1>4, <2>1
  <1>9. \A d \in openfds' : \E q \in Handles : d \in RefsOf(h'[q])
    <2>1. ASSUME NEW d \in openfds', d \notin RefsOf(r)
          PROVE  \E q \in Handles : d \in RefsOf(h'[q])
      <3>1. d \in openfds /\ d \notin RefsOf(h[p])
        BY <2>1, Zenon DEF FdsMove
      <3> QED
        BY <1>2, <1>4, <3>1, Zenon
    <2> QED
      BY <1>4, <2>1, Zenon
  <1> QED
    BY <1>3, <1>5, <1>6, <1>7, <1>8, <1>9, Zenon DEF Descs

\* The list and the monitor interfaces follow the handles.
LEMMA ListsKept ==
    ASSUME IInv, NEW p \in Handles, NEW r,
           Replaced(p, r), ListMove(p, r), ProcSame(r)
    PROVE  /\ pcaps_to_close' \in Seq(Handles) /\ mons' \subseteq MonNames
           /\ ListInv' /\ MonInv'
           /\ ~did_atexit' => pcaps_to_close' = <<>>
  <1> DEFINE s == pcaps_to_close
             t == pcaps_to_close'
             on(q) == OnList(h[q])
             onP(q) == OnList(h'[q])
  <1>1. h'[p] = r /\ \A q \in Handles \ {p} : h'[q] = h[q]
    BY Zenon DEF IInv, TypeOK, Replaced
  <1>2. (onP(p) <=> OnList(r)) /\ \A q \in Handles \ {p} : onP(q) <=> on(q)
    BY <1>1, Zenon
  <1>3. /\ s \in Seq(Handles) /\ mons \subseteq MonNames /\ did_atexit \in BOOLEAN
        /\ ~did_atexit => s = <<>>
    BY Zenon DEF IInv, TypeOK, ProcInv
  <1>4. /\ \A i, j \in DOMAIN s : s[i] = s[j] => i = j
        /\ \A q \in Handles : on(q) <=> \E i \in DOMAIN s : s[i] = q
    BY Zenon DEF IInv, ListInv
  <1>5. /\ \A m \in MonNames :
              m \in mons <=> (m \in Foreign
                              \/ \E q \in Handles : on(q) /\ h[q].mondevice = m)
        /\ \A q, u \in Handles :
              on(q) /\ on(u) /\ h[q].mondevice = h[u].mondevice => q = u
    BY Zenon DEF IInv, MonInv
  <1>6. \A q \in Handles : on(q) => h[q].mondevice \in MonNames \ Foreign
    BY DEF IInv, Locals, Local, OnList, Steps
  <1>7. ListInv' <=> /\ \A i, j \in DOMAIN t : t[i] = t[j] => i = j
                     /\ \A q \in Handles : onP(q) <=> \E i \in DOMAIN t : t[i] = q
    BY Zenon DEF ListInv, OnList
  <1>8. MonInv' <=> /\ \A m \in MonNames :
                          m \in mons' <=> (m \in Foreign
                              \/ \E q \in Handles : onP(q) /\ h'[q].mondevice = m)
                    /\ \A q, u \in Handles :
                          onP(q) /\ onP(u) /\ h'[q].mondevice = h'[u].mondevice => q = u
    BY Zenon DEF MonInv, OnList, MonNames
  <1> HIDE DEF s, t, on, onP
  <1>9. CASE ListSame(p, r)
    <2>1. t = s /\ mons' = mons /\ (OnList(r) <=> on(p))
          /\ (OnList(r) => r.mondevice = h[p].mondevice)
      BY <1>9, Zenon DEF ListSame, s, t, on
    <2>2. \A q \in Handles : /\ onP(q) <=> on(q)
                             /\ on(q) => h'[q].mondevice = h[q].mondevice
      BY <1>1, <1>2, <2>1, Zenon
    <2>3. ListInv'
      BY <1>4, <1>7, <2>1, <2>2, Zenon
    <2>4. MonInv'
      <3>1. \A m \in MonNames :
               (\E q \in Handles : onP(q) /\ h'[q].mondevice = m)
               <=> (\E q \in Handles : on(q) /\ h[q].mondevice = m)
        BY <2>2, Zenon
      <3>2. \A q, u \in Handles :
               onP(q) /\ onP(u) /\ h'[q].mondevice = h'[u].mondevice => q = u
        BY <1>5, <2>2, Zenon
      <3> QED
        BY <1>5, <1>8, <2>1, <3>1, <3>2, Zenon
    <2> QED
      BY <1>3, <2>1, <2>3, <2>4, Zenon DEF ProcSame, s, t
  <1>10. CASE ListLess(p, r)
    <2>1. /\ t = RemoveFromPcapsToClose(s, p) /\ mons' = mons \ {h[p].mondevice}
          /\ on(p) /\ ~OnList(r)
      BY <1>10, Zenon DEF ListLess, s, t, on
    <2>2. \E i \in DOMAIN s : s[i] = p
      BY <1>4, <2>1, Zenon
    <2>3. /\ t \in Seq(Handles)
          /\ \A i, j \in DOMAIN t : t[i] = t[j] => i = j
          /\ \A q \in Handles : (\E i \in DOMAIN t : t[i] = q)
                                <=> q # p /\ \E i \in DOMAIN s : s[i] = q
      BY <1>3, <1>4, <2>1, <2>2, Unlinked
    <2>4. \A q \in Handles : onP(q) <=> on(q) /\ q # p
      BY <1>2, <2>1, Zenon
    <2>5. ListInv'
      BY <1>4, <1>7, <2>3, <2>4, Zenon
    <2>6. \A q \in Handles : onP(q) => h'[q].mondevice = h[q].mondevice
      BY <1>1, <2>4, Zenon
    <2>7. \A m \in MonNames :
             m \in mons' <=> (m \in Foreign
                              \/ \E q \in Handles : onP(q) /\ h'[q].mondevice = m)
      <3> SUFFICES ASSUME NEW m \in MonNames
                   PROVE  m \in mons' <=> (m \in Foreign
                              \/ \E q \in Handles : onP(q) /\ h'[q].mondevice = m)
        BY Zenon
      <3>1. CASE m = h[p].mondevice
        BY <1>5, <1>6, <2>1, <2>4, <2>6, <3>1, Zenon
      <3>2. CASE m # h[p].mondevice
        BY <1>5, <2>1, <2>4, <2>6, <3>2, Zenon
      <3> QED
        BY <3>1, <3>2, Zenon
    <2>8. MonInv'
      BY <1>5, <1>8, <2>4, <2>6, <2>7, Zenon
    <2>9. did_atexit'
      <3>1. s # <<>>
        BY <2>2
      <3> QED
        BY <1>3, <3>1, Zenon DEF ProcSame
    <2> QED
      BY <1>3, <2>1, <2>3, <2>5, <2>8, <2>9 DEF t
  <1>11. CASE ListMore(p, r)
    <2>1. /\ t = <<p>> \o s /\ mons' = mons \cup {r.mondevice}
          /\ r.mondevice \in MonNames \ mons
          /\ ~on(p) /\ OnList(r) /\ did_atexit'
      BY <1>11, Zenon DEF ListMore, s, t, on
    <2>2. /\ t \in Seq(Handles) /\ Len(t) = Len(s) + 1 /\ t[1] = p
          /\ \A i \in 1..Len(s) : t[i + 1] = s[i]
      BY <1>3, <2>1
    <2>3. /\ DOMAIN t = 1..(Len(s) + 1) /\ DOMAIN s = 1..Len(s)
          /\ \A i \in DOMAIN t : i # 1 => i - 1 \in DOMAIN s /\ t[i] = s[i - 1]
      <3>1. \A i \in 1..(Len(s) + 1) : i # 1 => i - 1 \in 1..Len(s) /\ (i - 1) + 1 = i
        BY <1>3
      <3> QED
        BY <1>3, <2>2, <3>1
    <2>4. \A i \in DOMAIN s : s[i] # p
      BY <1>4, <2>1, Zenon
    <2>5. \A i, j \in DOMAIN t : t[i] = t[j] => i = j
      <3> SUFFICES ASSUME NEW i \in DOMAIN t, NEW j \in DOMAIN t, t[i] = t[j]
                   PROVE  i = j
        BY Zenon
      <3>1. CASE i = 1 \/ j = 1
        BY <2>2, <2>3, <2>4, <3>1
      <3>2. CASE i # 1 /\ j # 1
        <4>1. i - 1 = j - 1
          BY <1>4, <2>3, <3>2
        <4> QED
          BY <2>3, <4>1
      <3> QED
        BY <3>1, <3>2, Zenon
    <2>6. \A q \in Handles : (\E i \in DOMAIN t : t[i] = q)
                             <=> q = p \/ \E i \in DOMAIN s : s[i] = q
      <3> SUFFICES ASSUME NEW q \in Handles
                   PROVE  (\E i \in DOMAIN t : t[i] = q)
                          <=> q = p \/ \E i \in DOMAIN s : s[i] = q
        BY Zenon
      <3>1. ASSUME NEW i \in DOMAIN s, s[i] = q PROVE \E j \in DOMAIN t : t[j] = q
        <4>1. i + 1 \in DOMAIN t /\ t[i + 1] = q
          BY <2>2, <2>3, <3>1
        <4> QED
          BY <4>1, Zenon
      <3>2. 1 \in DOMAIN t /\ t[1] = p
        BY <1>3, <2>2, <2>3
      <3>3. ASSUME NEW i \in DOMAIN t, t[i] = q, q # p
            PROVE  \E j \in DOMAIN s : s[j] = q
        BY <2>3, <3>2, <3>3, Zenon
      <3> QED
        BY <3>1, <3>2, <3>3, Zenon
    <2>7. \A q \in Handles : onP(q) <=> on(q) \/ q = p
      BY <1>2, <2>1, Zenon
    <2>8. ListInv'
      BY <1>4, <1>7, <2>5, <2>6, <2>7, Zenon
    <2>9. \A q \in Handles : on(q) => h'[q].mondevice = h[q].mondevice
      BY <1>1, <2>1, Zenon
    <2>10. \A m \in MonNames :
             m \in mons' <=> (m \in Foreign
                              \/ \E q \in Handles : onP(q) /\ h'[q].mondevice = m)
      <3> SUFFICES ASSUME NEW m \in MonNames
                   PROVE  m \in mons' <=> (m \in Foreign
                              \/ \E q \in Handles : onP(q) /\ h'[q].mondevice = m)
        OBVIOUS
      <3>1. CASE m = r.mondevice
        BY <1>1, <2>1, <2>7, <3>1, Zenon
      <3>2. CASE m # r.mondevice
        BY <1>1, <1>5, <2>1, <2>7, <2>9, <3>2
      <3> QED
        BY <3>1, <3>2, Zenon
    <2>11. \A q \in Handles : on(q) => h'[q].mondevice # r.mondevice
      BY <1>5, <1>6, <2>1, <2>9, Zenon
    <2>12. MonInv'
      BY <1>1, <1>5, <1>8, <2>7, <2>9, <2>10, <2>11
    <2> QED
      BY <1>3, <2>1, <2>2, <2>8, <2>12, Zenon DEF t
  <1> QED
    BY <1>9, <1>10, <1>11, Zenon DEF ListMove

\* Everything is kept when one handle is replaced as above.
LEMMA StepKeeps ==
    ASSUME IInv, NEW p \in Handles, NEW r, NEW gone, NEW new,
           Replaced(p, r), FdsMove(p, r, gone, new), MapsMove(p, r),
           ListMove(p, r), ProcSame(r)
    PROVE  IInv'
  <1>1. h'[p] = r /\ \A q \in Handles \ {p} : h'[q] = h[q]
    BY Zenon DEF IInv, TypeOK, Replaced
  <1>2. Descs' /\ openfds' \subseteq Fds
    BY DescsKept, Zenon
  <1>3. /\ pcaps_to_close' \in Seq(Handles) /\ mons' \subseteq MonNames
        /\ ListInv' /\ MonInv'
        /\ ~did_atexit' => pcaps_to_close' = <<>>
    BY ListsKept, Zenon
  <1>4. h' \in [Handles -> Handle]
    BY Zenon DEF IInv, TypeOK, Replaced
  <1>5. maps' \subseteq Handles \X {"ring", "oneshot"}
    BY Zenon DEF IInv, TypeOK, MapsMove
  <1>6. did_atexit' \in BOOLEAN /\ proc' \in {"run", "exiting"}
    BY Zenon DEF IInv, TypeOK, ProcSame
  <1>7. TypeOK'
    BY <1>2, <1>3, <1>4, <1>5, <1>6, Zenon DEF TypeOK, Fds, MonNames, Handle, Places, Steps, NoFd, NoMon
  <1>8. Locals'
    <2>1. \A q \in Handles : Local(h'[q])
      BY <1>1, Zenon DEF IInv, Locals, Replaced
    <2> QED
      BY <2>1, Zenon DEF Locals, Local, Late, Mid, Mapped, MonNames
  <1>9. MapsInv'
    <2> SUFFICES ASSUME NEW m \in maps' PROVE h'[m[1]].at \in Mapped
      BY Zenon DEF MapsInv, Mapped
    <2>1. m[1] \in Handles
      BY <1>5, Zenon
    <2>2. CASE m[1] = p
      BY <1>1, <2>2, Zenon DEF MapsMove
    <2>3. CASE m[1] # p
      <3>1. m \in maps
        BY <2>3, Zenon DEF MapsMove
      <3> QED
        BY <1>1, <2>1, <2>3, <3>1, Zenon DEF IInv, MapsInv
    <2> QED
      BY <2>2, <2>3, Zenon
  <1>10. ProcInv'
    <2>1. proc' # "run" => \A q \in Handles : h'[q].at \notin Steps
      BY <1>1, Zenon DEF IInv, ProcInv, ProcSame
    <2> QED
      BY <1>3, <1>6, <2>1, Zenon DEF ProcInv, Steps
  <1> QED
    BY <1>2, <1>3, <1>7, <1>8, <1>9, <1>10, Zenon DEF IInv

\* A new pcap_t, and one that is not allocated, hold nothing.
LEMMA FreshHoldsNothing ==
    ASSUME NEW kind \in Kinds, NEW opt \in Options
    PROVE  /\ Fresh(kind, opt) \in Handle /\ Local(Fresh(kind, opt))
           /\ RefsOf(Fresh(kind, opt)) = {} /\ Apart(Fresh(kind, opt))
           /\ Fresh(kind, opt).at = "created" /\ ~OnList(Fresh(kind, opt))
  <1>1. opt \in [rfmon : BOOLEAN, promisc : BOOLEAN, nonblock : BOOLEAN]
    BY HandleAssumption, Zenon
  <1>2. Fresh(kind, opt) \in Handle
    BY <1>1, Zenon DEF Fresh, Handle, Places, NoFd, NoMon
  <1>3. Local(Fresh(kind, opt))
    BY Zenon DEF Fresh, Local, Late, Mid, Mapped
  <1> QED
    BY <1>2, <1>3, Zenon DEF Fresh, RefsOf, Apart, OnList

\* A pcap_t that does not exist refers to nothing.
LEMMA NoHandleHoldsNothing ==
    /\ NoHandle \in Handle /\ Local(NoHandle)
    /\ RefsOf(NoHandle) = {} /\ Apart(NoHandle)
    /\ NoHandle.at = "none" /\ ~OnList(NoHandle)
  <1> DEFINE kind == CHOOSE k \in Kinds : TRUE
             opt == CHOOSE o \in Options : TRUE
  <1>1. kind \in Kinds /\ opt \in Options
    BY HandleAssumption, Zenon
  <1>2. NoHandle = [Fresh(kind, opt) EXCEPT !.at = "none"]
    BY Zenon DEF NoHandle
  <1> HIDE DEF kind, opt
  <1>3. opt \in [rfmon : BOOLEAN, promisc : BOOLEAN, nonblock : BOOLEAN]
    BY <1>1, HandleAssumption, Zenon
  <1>4. NoHandle \in Handle
    BY <1>1, <1>2, <1>3, Zenon DEF Fresh, Handle, Places, NoFd, NoMon
  <1>5. Local(NoHandle)
    BY <1>2, Zenon DEF Fresh, Local, Late, Mid, Mapped
  <1> QED
    BY <1>2, <1>4, <1>5, Zenon DEF Fresh, RefsOf, Apart, OnList, Steps

\* A step of an activation that gives up in the handle's state r, having closed
\* setup_socket's descriptor: everything the handle held is given back.
GivesUp(p, r, fds, mp) ==
    /\ Fail(p, r, fds, mp, mons, pcaps_to_close)
    /\ r \in Handle
    /\ r.fd = h[p].fd /\ r.breakfd = h[p].breakfd /\ r.kind = h[p].kind
    /\ r.must = h[p].must /\ r.setnonblock_op = h[p].setnonblock_op
    /\ r.nonblocking = h[p].nonblocking
    /\ h[p].must => r.mondevice = h[p].mondevice /\ h[p].fd # NoFd
    /\ h[p].at \in Steps \cup {"created"}
    /\ fds = openfds \ {h[p].sock_fd} /\ mp \subseteq maps
    /\ proc = "run" /\ proc' = proc
    /\ did_atexit' = did_atexit \/ did_atexit' = TRUE

\* pcap_activate's error path (Fail) keeps the invariant, ...
LEMMA GivingUpKeeps ==
    ASSUME IInv, NEW p \in Handles, NEW r, NEW fds, NEW mp, GivesUp(p, r, fds, mp)
    PROVE  IInv'
  <1> DEFINE n == [InitializeOps(CleanedUp(r)) EXCEPT
                      !.at = "failed", !.status = "error"]
  <1>1. /\ n \in Handle /\ n.at = "failed"
        /\ n.fd = NoFd /\ n.sock_fd = NoFd /\ n.breakfd = NoFd
        /\ n.ops = "not_initialized" /\ n.setnonblock_op = r.setnonblock_op
        /\ n.nonblocking = r.nonblocking
        /\ n.must = r.must /\ n.kind = r.kind
    BY Zenon DEF GivesUp, Handle, InitializeOps, CleanedUp, Places, NoFd, NoMon
  <1>2. h' = [h EXCEPT ![p] = n]
    BY Zenon DEF GivesUp, Fail
  <1>3. h[p] \in Handle /\ Local(h[p]) /\ openfds \subseteq Fds
    BY Zenon DEF IInv, TypeOK, Locals
  <1>4. NoFd \notin openfds
    BY <1>3 DEF Fds, NoFd
  <1> HIDE DEF n
  <1>5. Local(n)
    <2>1. (n.must => n.kind = "wifi") /\ ~n.nonblocking
      BY <1>1, <1>3 DEF Local, GivesUp, Steps
    <2> QED
      BY <1>1, <2>1, Zenon DEF Local, Late, Mid, Mapped
  <1>6. Replaced(p, n)
    BY <1>1, <1>2, <1>5, Zenon DEF Replaced
  <1>7. FdsMove(p, n, RefsOf(h[p]), {})
    <2>1. RefsOf(n) = {} /\ Apart(n)
      BY <1>1, Zenon DEF RefsOf, Apart
    <2>2. openfds' = (openfds \ {h[p].sock_fd}) \ {h[p].fd, h[p].breakfd}
      BY Zenon DEF GivesUp, Fail, CleanupFds
    <2>3. openfds' = (openfds \ RefsOf(h[p])) \cup {}
      BY <1>4, <2>2, Zenon DEF RefsOf
    <2> QED
      BY <2>1, <2>3, Zenon DEF FdsMove
  <1>8. MapsMove(p, n)
    <2>1. maps' = {m \in mp : m[1] # p \/ (m[2] = "ring" /\ h[p].fd = NoFd)}
      BY Zenon DEF GivesUp, Fail, CleanupMaps
    <2>2. \A m \in maps : m[1] = p => h[p].fd # NoFd
      BY <1>3, Zenon DEF IInv, MapsInv, Local, Late
    <2> QED
      BY <2>1, <2>2, Zenon DEF MapsMove, GivesUp
  <1>9. ListMove(p, n)
    <2>1. ~OnList(n)
      BY <1>1, Zenon DEF OnList, Steps
    <2>2. CASE h[p].must
      <3>1. OnList(h[p])
        BY <1>3, <2>2, Zenon DEF OnList, GivesUp, Local
      <3>2. /\ mons' = mons \ {h[p].mondevice}
            /\ pcaps_to_close' = RemoveFromPcapsToClose(pcaps_to_close, p)
        BY <2>2, Zenon DEF GivesUp, Fail, CleanupMons, CleanupList, DelMonIf
      <3> QED
        BY <2>1, <3>1, <3>2, Zenon DEF ListMove, ListLess
    <2>3. CASE ~h[p].must
      <3>1. mons' = mons /\ pcaps_to_close' = pcaps_to_close
        BY <2>3, Zenon DEF GivesUp, Fail, CleanupMons, CleanupList
      <3> QED
        BY <2>1, <2>3, <3>1, Zenon DEF ListMove, ListSame, OnList
    <2> QED
      BY <2>2, <2>3, Zenon
  <1>10. ProcSame(n)
    BY <1>1, Zenon DEF ProcSame, GivesUp, Steps
  <1> QED
    BY <1>6, <1>7, <1>8, <1>9, <1>10, StepKeeps, Zenon

\* ... where setup_socket has no descriptor of its own, ...
LEMMA FailKeeps ==
    ASSUME IInv, NEW p \in Handles, NEW mp,
           h[p].at \in {"created", "socket", "event", "oneshot", "version",
                        "ring", "bind", "finish"},
           Fail(p, h[p], openfds, mp, mons, pcaps_to_close), mp \subseteq maps,
           proc = "run", did_atexit' = did_atexit, proc' = proc
    PROVE  IInv'
  <1>1. h[p] \in Handle /\ Local(h[p]) /\ openfds \subseteq Fds
    BY Zenon DEF IInv, TypeOK, Locals
  <1>2. h[p].sock_fd = NoFd /\ (h[p].must => h[p].fd # NoFd)
    BY <1>1, Zenon DEF Local, Late, Mid, Mapped
  <1>3. openfds = openfds \ {h[p].sock_fd}
    BY <1>1, <1>2 DEF Fds, NoFd
  <1>4. h[p].at \in Steps \cup {"created"}
    BY Zenon DEF Steps
  <1>5. GivesUp(p, h[p], openfds, mp)
    BY <1>1, <1>2, <1>3, <1>4, Zenon DEF GivesUp
  <1> QED
    BY <1>5, GivingUpKeeps, Zenon

\* ... and where it has one and closes it.
LEMMA FailClosingKeeps ==
    ASSUME IInv, NEW p \in Handles, NEW r,
           h[p].at \in Mid, ~h[p].must,
           r = h[p] \/ \E mon \in MonNames : r = [h[p] EXCEPT !.mondevice = mon],
           FailClosing(p, r, mons, pcaps_to_close),
           proc = "run", did_atexit' = did_atexit \/ did_atexit' = TRUE, proc' = proc
    PROVE  IInv'
  <1> DEFINE c == [r EXCEPT !.sock_fd = NoFd]
  <1>1. h[p] \in Handle
    BY Zenon DEF IInv, TypeOK
  <1>2. /\ r \in Handle /\ r.fd = h[p].fd /\ r.breakfd = h[p].breakfd
        /\ r.kind = h[p].kind /\ r.must = h[p].must
        /\ r.setnonblock_op = h[p].setnonblock_op /\ r.sock_fd = h[p].sock_fd
        /\ r.nonblocking = h[p].nonblocking
    BY <1>1 DEF Handle
  <1>3. /\ c \in Handle /\ c.fd = h[p].fd /\ c.breakfd = h[p].breakfd
        /\ c.kind = h[p].kind /\ c.must = h[p].must
        /\ c.setnonblock_op = h[p].setnonblock_op
        /\ c.nonblocking = h[p].nonblocking
    BY <1>2 DEF Handle, NoFd
  <1>4. Fail(p, c, openfds \ {h[p].sock_fd}, maps, mons, pcaps_to_close)
    BY <1>2, Zenon DEF FailClosing
  <1> HIDE DEF c
  <1>5. h[p].at \in Steps \cup {"created"}
    BY Zenon DEF Steps, Mid
  <1>6. GivesUp(p, c, openfds \ {h[p].sock_fd}, maps)
    BY <1>3, <1>4, <1>5, Zenon DEF GivesUp
  <1> QED
    BY <1>6, GivingUpKeeps, Zenon

\* A step that moves the handle on and changes neither descriptors nor the list.
MovesOn(p, r) ==
    /\ Replaced(p, r) /\ ProcSame(r)
    /\ openfds' = openfds /\ RefsOf(r) = RefsOf(h[p]) /\ Apart(r)
    /\ MapsMove(p, r) /\ ListSame(p, r)

\* A step that only moves the handle on keeps the invariant.
LEMMA MovingOnKeeps ==
    ASSUME IInv, NEW p \in Handles, NEW r, MovesOn(p, r)
    PROVE  IInv'
  <1>1. FdsMove(p, r, {}, {})
    BY Zenon DEF FdsMove, MovesOn
  <1> QED
    BY <1>1, StepKeeps, Zenon DEF MovesOn, ListMove

-----------------------------------------------------------------------------
(* The actions.                                                              *)

\* What the invariant says of one handle.
LEMMA Here ==
    ASSUME IInv, NEW p \in Handles
    PROVE  /\ h[p] \in Handle /\ Local(h[p]) /\ openfds \subseteq Fds
           /\ h[p].at \in Steps => proc = "run"
           /\ proc = "run" => RefsOf(h[p]) \subseteq openfds /\ Apart(h[p])
           /\ \A m \in maps : m[1] = p => h[p].at \in Mapped
  <1>1. h[p] \in Handle /\ Local(h[p]) /\ openfds \subseteq Fds
    BY Zenon DEF IInv, TypeOK, Locals
  <1>2. h[p].at \in Steps => proc = "run"
    BY Zenon DEF IInv, ProcInv
  <1>3. proc = "run" => RefsOf(h[p]) \subseteq openfds /\ Apart(h[p])
    BY Zenon DEF IInv, Descs
  <1> QED
    BY <1>1, <1>2, <1>3, Zenon DEF IInv, MapsInv

\* The kernel's next descriptor is a free one.
LEMMA NewFdIsFree ==
    ASSUME FreeFds # {}
    PROVE  NewFd \in Fds /\ NewFd \notin openfds /\ NewFd # NoFd
  <1>1. FreeFds \in SUBSET Nat
    BY DEF FreeFds, Fds
  <1>2. NewFd \in FreeFds
    BY <1>1, LeastIn, Zenon DEF NewFd
  <1> QED
    BY <1>2 DEF FreeFds, Fds, NoFd

\* pcap_create keeps the invariant: a fresh pcap_t refers to nothing.
LEMMA CreateKeeps ==
    ASSUME IInv, NEW p \in Handles, Create(p)
    PROVE  IInv'
  <1>1. PICK kind \in Kinds, opt \in Options : h' = [h EXCEPT ![p] = Fresh(kind, opt)]
    BY Zenon DEF Create
  <1> DEFINE r == Fresh(kind, opt)
  <1>2. /\ r \in Handle /\ Local(r) /\ RefsOf(r) = {} /\ Apart(r)
        /\ r.at = "created" /\ ~OnList(r)
    BY FreshHoldsNothing, Zenon
  <1> HIDE DEF r
  <1>3. h' = [h EXCEPT ![p] = r]
    BY <1>1, Zenon DEF r
  <1>4. RefsOf(h[p]) = {} /\ ~OnList(h[p]) /\ \A m \in maps : m[1] # p
    BY Here DEF Create, Unused, Local, RefsOf, OnList, Late, Mid, Mapped, Steps
  <1>5. MovesOn(p, r)
    BY <1>2, <1>3, <1>4, Zenon
       DEF MovesOn, Replaced, ProcSame, MapsMove, ListSame, Create, Steps
  <1> QED
    BY <1>5, MovingOnKeeps, Zenon

\* The pcap_set_ functions touch a handle that is created and not activated.
LEMMA SetOptionKeeps ==
    ASSUME IInv, NEW p \in Handles, SetOption(p)
    PROVE  IInv'
  <1>1. PICK opt \in Options : h' = [h EXCEPT ![p].opt = opt]
    BY Zenon DEF SetOption
  <1> DEFINE r == [h[p] EXCEPT !.opt = opt]
  <1>2. h' = [h EXCEPT ![p] = r]
    BY <1>1, Zenon
  <1>3. h[p] \in Handle /\ Local(h[p]) /\ proc = "run" /\ Apart(h[p])
        /\ h[p].at \in {"created", "active"}
        /\ \A m \in maps : m[1] = p => h[p].at \in Mapped
    BY Here, Zenon DEF SetOption
  <1>4. r \in Handle
    BY <1>3, HandleAssumption DEF Handle
  <1>5. Local(r)
    BY <1>3 DEF Local, Handle, Late, Mid, Mapped
  <1>6. /\ r.at = h[p].at /\ RefsOf(r) = RefsOf(h[p]) /\ Apart(r)
        /\ OnList(r) = OnList(h[p]) /\ r.mondevice = h[p].mondevice
    BY <1>3, Zenon DEF Handle, RefsOf, Apart, OnList
  <1> HIDE DEF r
  <1>7. MovesOn(p, r)
    BY <1>2, <1>3, <1>4, <1>5, <1>6, Zenon
       DEF MovesOn, Replaced, ProcSame, MapsMove, ListSame, SetOption, Steps
  <1> QED
    BY <1>7, MovingOnKeeps

\* pcap_activate's tests and the start of pcap_activate_linux.
LEMMA ActivateKeeps ==
    ASSUME IInv, NEW p \in Handles, Activate(p)
    PROVE  IInv'
  <1>1. /\ h[p] \in Handle /\ Local(h[p]) /\ proc = "run" /\ Apart(h[p])
        /\ h[p].at = "created" /\ did_atexit' = did_atexit /\ proc' = proc
        /\ \A m \in maps : m[1] = p => h[p].at \in Mapped
    BY Here, Zenon DEF Activate
  <1>2. CASE Fail(p, h[p], openfds, maps, mons, pcaps_to_close)
    BY <1>1, <1>2, FailKeeps
  <1>3. CASE ~Fail(p, h[p], openfds, maps, mons, pcaps_to_close)
    <2> DEFINE off == h[p].kind = "any" /\ h[p].opt.promisc
               on == h[p].opt.promisc /\ ~off
               r == [[h[p] EXCEPT !.opt.promisc = on, !.warned = off]
                        EXCEPT !.at = "socket"]
    <2>1. /\ h' = [h EXCEPT ![p] = r]
          /\ UNCHANGED <<openfds, maps, mons, pcaps_to_close>>
      BY <1>3, Zenon DEF Activate, Goto
    <2>2. on \in BOOLEAN /\ off \in BOOLEAN
      BY Zenon
    <2> HIDE DEF on, off
    <2>3. r \in Handle
      BY <1>1, <2>2, Zenon DEF Handle, Places, Steps
    <2>4. Local(r)
      BY <1>1 DEF Local, Handle, Late, Mid, Mapped
    <2>5. /\ r.at = "socket" /\ RefsOf(r) = RefsOf(h[p]) /\ Apart(r)
          /\ r.must = h[p].must /\ r.mondevice = h[p].mondevice
      BY <1>1 DEF Handle, RefsOf, Apart
    <2> HIDE DEF r
    <2>6. ~h[p].must
      BY <1>1, Zenon DEF Local
    <2>7. MovesOn(p, r)
      BY <1>1, <2>1, <2>3, <2>4, <2>5, <2>6
         DEF MovesOn, Replaced, ProcSame, MapsMove, ListSame, OnList, Mapped
    <2> QED
      BY <2>7, MovingOnKeeps, Zenon
  <1> QED
    BY <1>2, <1>3, Zenon

\* setup_socket: the descriptor socket() gave is its own, and no other handle's.
LEMMA SocketKeeps ==
    ASSUME IInv, NEW p \in Handles, Socket(p)
    PROVE  IInv'
  <1>1. /\ h[p] \in Handle /\ Local(h[p]) /\ proc = "run" /\ openfds \subseteq Fds
        /\ h[p].at = "socket" /\ did_atexit' = did_atexit /\ proc' = proc
        /\ \A m \in maps : m[1] # p
    BY Here, Zenon DEF Socket, Steps, Mapped
  <1>2. CASE Fail(p, h[p], openfds, maps, mons, pcaps_to_close)
    BY <1>1, <1>2, FailKeeps
  <1>3. CASE ~Fail(p, h[p], openfds, maps, mons, pcaps_to_close)
    <2> DEFINE step == CASE h[p].kind = "any" -> "any"
                         [] h[p].kind # "any" /\ h[p].opt.rfmon -> "rfmon"
                         [] OTHER -> "link"
               new == NewFd
               r == [[h[p] EXCEPT !.sock_fd = new] EXCEPT !.at = step]
    <2>1. /\ FreeFds # {} /\ openfds' = openfds \cup {new}
          /\ h' = [h EXCEPT ![p] = r]
          /\ UNCHANGED <<maps, mons, pcaps_to_close>>
      BY <1>3, Zenon DEF Socket, Goto
    <2>2. new \in Fds /\ new \notin openfds /\ new # NoFd
      BY <2>1, NewFdIsFree, Zenon
    <2>3. step \in {"any", "rfmon", "link"} /\ (step = "any" => h[p].kind = "any")
      BY Zenon
    <2> HIDE DEF new, step
    <2>4. r \in Handle
      BY <1>1, <2>2, <2>3, Zenon DEF Handle, Places, Steps
    <2>5. /\ r.at = step /\ r.sock_fd = new /\ r.fd = h[p].fd
          /\ r.breakfd = h[p].breakfd /\ r.must = h[p].must
          /\ r.kind = h[p].kind /\ r.ops = h[p].ops
          /\ r.setnonblock_op = h[p].setnonblock_op /\ r.mondevice = h[p].mondevice
          /\ r.nonblocking = h[p].nonblocking
      BY <1>1, Zenon DEF Handle
    <2> HIDE DEF r
    <2>6. /\ ~h[p].must /\ h[p].fd = NoFd /\ h[p].breakfd = NoFd /\ h[p].sock_fd = NoFd
          /\ ~h[p].nonblocking
          /\ h[p].ops # "linux" /\ h[p].setnonblock_op # "linux"
      BY <1>1, Zenon DEF Local, Late, Mid, Mapped
    <2>7. Local(r)
      BY <2>2, <2>3, <2>5, <2>6 DEF Local, Late, Mid, Mapped
    <2>8. FdsMove(p, r, {}, {new})
      BY <2>1, <2>2, <2>5, <2>6, Zenon DEF FdsMove, RefsOf, Apart
    <2>9. MapsMove(p, r) /\ ListSame(p, r) /\ ProcSame(r)
      BY <1>1, <2>1, <2>5, <2>6, Zenon DEF MapsMove, ListSame, ProcSame, OnList
    <2>10. Replaced(p, r)
      BY <2>1, <2>4, <2>7, Zenon DEF Replaced
    <2> QED
      BY <2>8, <2>9, <2>10, StepKeeps, Zenon DEF ListMove
  <1> QED
    BY <1>2, <1>3

\* The "any" device: the socket stays setup_socket's, or is closed.
LEMMA AnyDeviceKeeps ==
    ASSUME NoLeakingFault, IInv, NEW p \in Handles, AnyDevice(p)
    PROVE  IInv'
  <1>1. /\ h[p] \in Handle /\ Local(h[p]) /\ proc = "run" /\ Apart(h[p])
        /\ h[p].at = "any" /\ did_atexit' = did_atexit /\ proc' = proc
        /\ \A m \in maps : m[1] # p
    BY Here, Zenon DEF AnyDevice, Steps, Mapped
  <1>2. h[p].kind = "any" /\ ~h[p].must
    BY <1>1, Zenon DEF Local
  <1>3. CASE FailClosing(p, h[p], mons, pcaps_to_close)
    BY <1>1, <1>2, <1>3, FailClosingKeeps DEF Mid
  <1>4. CASE ~FailClosing(p, h[p], mons, pcaps_to_close)
    <2> DEFINE r == [h[p] EXCEPT !.at = "options"]
    <2>1. /\ h' = [h EXCEPT ![p] = r]
          /\ UNCHANGED <<openfds, maps, mons, pcaps_to_close>>
      BY <1>2, <1>4 DEF AnyDevice, Goto, MayFail, NoLeakingFault
    <2>2. r \in Handle
      BY <1>1 DEF Handle, Places, Steps
    <2>3. Local(r)
      BY <1>1, Zenon DEF Local, Handle, Late, Mid, Mapped
    <2>4. /\ r.at = "options" /\ RefsOf(r) = RefsOf(h[p]) /\ Apart(r)
          /\ r.must = h[p].must /\ r.mondevice = h[p].mondevice
      BY <1>1, Zenon DEF Handle, RefsOf, Apart
    <2> HIDE DEF r
    <2>5. MovesOn(p, r)
      BY <1>1, <1>2, <2>1, <2>2, <2>3, <2>4
         DEF MovesOn, Replaced, ProcSame, MapsMove, ListSame, OnList
    <2> QED
      BY <2>5, MovingOnKeeps
  <1> QED
    BY <1>3, <1>4, Zenon

\* enter_rfmon_mode either takes the new interface and the place on the list
\* together, or neither.
LEMMA EnterRfmonModeKeeps ==
    ASSUME IInv, NEW p \in Handles, EnterRfmonMode(p)
    PROVE  IInv'
  <1> DEFINE mon == Min(FreeMons)
             named == [h[p] EXCEPT !.mondevice = mon]
  <1>1. /\ h[p] \in Handle /\ Local(h[p]) /\ proc = "run" /\ Apart(h[p])
        /\ h[p].at = "rfmon" /\ proc' = proc
        /\ did_atexit' = did_atexit \/ did_atexit' = TRUE
        /\ \A m \in maps : m[1] # p
    BY Here, Zenon DEF EnterRfmonMode, Steps, Mapped
  <1>2. ~h[p].must /\ h[p].sock_fd # NoFd /\ h[p].at \in Mid
    BY <1>1, Zenon DEF Local, Mid
  <1>3. FreeMons # {} => mon \in MonNames \ mons
    <2>1. FreeMons \in SUBSET Nat
      BY DEF FreeMons, MonNames
    <2> QED
      BY <2>1, LeastIn, Zenon DEF FreeMons
  <1>4. \/ FailClosing(p, h[p], mons, pcaps_to_close)
        \/ /\ FreeMons # {}
           /\ FailClosing(p, named, DelMonIf(mons \cup {mon}, h[p].sock_fd, mon),
                          pcaps_to_close)
        \/ /\ h[p].kind = "wifi" /\ FreeMons # {} /\ did_atexit' = TRUE
           /\ mons' = mons \cup {mon}
           /\ pcaps_to_close' = <<p>> \o pcaps_to_close
           /\ Goto(p, [h[p] EXCEPT !.mondevice = mon, !.must = TRUE], "link")
           /\ UNCHANGED <<openfds, maps>>
    BY Zenon DEF EnterRfmonMode
  <1>5. FreeMons # {} => DelMonIf(mons \cup {mon}, h[p].sock_fd, mon) = mons
    BY <1>2, <1>3, Zenon DEF DelMonIf
  <1> HIDE DEF mon
  <1>6. CASE FailClosing(p, h[p], mons, pcaps_to_close)
    BY <1>1, <1>2, <1>6, FailClosingKeeps, Zenon
  <1>7. CASE FreeMons # {} /\ FailClosing(p, named, mons, pcaps_to_close)
    <2>1. \E m \in MonNames : named = [h[p] EXCEPT !.mondevice = m]
      BY <1>3, <1>7, Zenon
    <2> HIDE DEF named
    <2> QED
      BY <1>1, <1>2, <1>7, <2>1, FailClosingKeeps, Zenon
  <1>8. CASE /\ h[p].kind = "wifi" /\ FreeMons # {} /\ did_atexit' = TRUE
             /\ mons' = mons \cup {mon}
             /\ pcaps_to_close' = <<p>> \o pcaps_to_close
             /\ Goto(p, [h[p] EXCEPT !.mondevice = mon, !.must = TRUE], "link")
             /\ UNCHANGED <<openfds, maps>>
    <2> DEFINE r == [[h[p] EXCEPT !.mondevice = mon, !.must = TRUE]
                        EXCEPT !.at = "link"]
    <2>1. h' = [h EXCEPT ![p] = r]
      BY <1>8, Zenon DEF Goto
    <2>2. r \in Handle
      BY <1>1, <1>3, <1>8, Zenon DEF Handle, Places, Steps
    <2>3. /\ r.at = "link" /\ RefsOf(r) = RefsOf(h[p]) /\ Apart(r)
          /\ r.must /\ r.mondevice = mon /\ r.kind = "wifi"
      BY <1>1, <1>8 DEF Handle, RefsOf, Apart
    <2>4. /\ r.fd = h[p].fd /\ r.sock_fd = h[p].sock_fd /\ r.breakfd = h[p].breakfd
          /\ r.ops = h[p].ops /\ r.setnonblock_op = h[p].setnonblock_op
          /\ r.nonblocking = h[p].nonblocking
      BY <1>1, Zenon DEF Handle
    <2> HIDE DEF r
    <2>5. mon \in MonNames /\ mon \notin mons /\ mon \notin Foreign
      <3>1. \A m \in Foreign : m \in MonNames /\ m \in mons
        BY HandleAssumption, Zenon DEF IInv, MonInv, MonNames
      <3> QED
        BY <1>3, <1>8, <3>1
    <2>6. Local(r)
      BY <1>1, <2>3, <2>4, <2>5 DEF Local, Late, Mid, Mapped
    <2>7. Replaced(p, r)
      BY <2>1, <2>2, <2>6 DEF Replaced
    <2>8. FdsMove(p, r, {}, {})
      BY <1>8, <2>3 DEF FdsMove
    <2>9. ListMore(p, r)
      BY <1>2, <1>8, <2>3, <2>5 DEF ListMore, OnList, Steps
    <2>10. MapsMove(p, r) /\ ProcSame(r)
      BY <1>1, <1>8, Zenon DEF MapsMove, ProcSame
    <2> QED
      BY <2>7, <2>8, <2>9, <2>10, StepKeeps DEF ListMove
  <1> QED
    BY <1>4, <1>5, <1>6, <1>7, <1>8, Zenon

\* The interface's index and link-layer type, perhaps on a second, cooked socket.
LEMMA LinkTypeKeeps ==
    ASSUME NoLeakingFault, IInv, NEW p \in Handles, LinkType(p)
    PROVE  IInv'
  <1> DEFINE without == openfds \ {h[p].sock_fd}
             fresh == Min(Fds \ without)
  <1>1. /\ h[p] \in Handle /\ Local(h[p]) /\ proc = "run" /\ Apart(h[p])
        /\ RefsOf(h[p]) \subseteq openfds
        /\ h[p].at = "link" /\ did_atexit' = did_atexit /\ proc' = proc
        /\ \A m \in maps : m[1] # p
    BY Here, Zenon DEF LinkType, Steps, Mapped
  <1>2. /\ h[p].sock_fd \in Fds /\ h[p].sock_fd # NoFd
        /\ h[p].fd = NoFd /\ h[p].breakfd = NoFd
        /\ h[p].ops # "linux" /\ h[p].setnonblock_op # "linux"
    BY <1>1, Zenon DEF Local, Late, Mid, Mapped, Handle
  <1>3. CASE FailClosing(p, h[p], mons, pcaps_to_close)
             /\ (MayFail(h[p], "link") \/ MayFail(h[p], "cooked"))
    <2>1. ~h[p].must
      BY <1>1, <1>3, Zenon DEF Local, MayFail, NoLeakingFault
    <2> QED
      BY <1>1, <1>3, <2>1, FailClosingKeeps DEF Mid
  <1>4. CASE \E unknown \in BOOLEAN :
                /\ openfds' = without \cup {fresh}
                /\ Goto(p, [h[p] EXCEPT !.sock_fd = fresh, !.warned = @ \/ unknown],
                        "options")
                /\ UNCHANGED <<maps, mons, pcaps_to_close>>
    <2>1. PICK unknown \in BOOLEAN :
                /\ openfds' = without \cup {fresh}
                /\ Goto(p, [h[p] EXCEPT !.sock_fd = fresh, !.warned = @ \/ unknown],
                        "options")
                /\ UNCHANGED <<maps, mons, pcaps_to_close>>
      BY <1>4, Zenon
    <2> DEFINE w == h[p].warned \/ unknown
               r == [[h[p] EXCEPT !.sock_fd = fresh, !.warned = w]
                        EXCEPT !.at = "options"]
    <2>2. h' = [h EXCEPT ![p] = r]
      BY <2>1, Zenon DEF Goto
    <2>3. w \in BOOLEAN
      BY Zenon
    <2>4. fresh \in Fds /\ fresh \notin without /\ fresh # NoFd
      <3>1. Fds \ without \in SUBSET Nat /\ Fds \ without # {}
        BY <1>2 DEF Fds
      <3>2. fresh \in Fds \ without
        BY <3>1, LeastIn, Zenon
      <3> QED
        BY <3>2 DEF Fds, NoFd
    <2> HIDE DEF w, fresh
    <2>5. r \in Handle
      BY <1>1, <2>3, <2>4, Zenon DEF Handle, Places, Steps
    <2>6. /\ r.at = "options" /\ r.sock_fd = fresh /\ r.fd = NoFd /\ r.breakfd = NoFd
          /\ r.must = h[p].must /\ r.mondevice = h[p].mondevice /\ r.kind = h[p].kind
          /\ r.ops # "linux" /\ r.setnonblock_op # "linux"
          /\ r.nonblocking = h[p].nonblocking
      BY <1>1, <1>2, Zenon DEF Handle
    <2> HIDE DEF r
    <2>7. Local(r)
      BY <1>1, <2>4, <2>6, Zenon DEF Local, Late, Mid, Mapped
    <2>8. FdsMove(p, r, {h[p].sock_fd}, {fresh})
      BY <1>2, <2>1, <2>4, <2>6, Zenon DEF FdsMove, RefsOf, Apart
    <2>9. MapsMove(p, r) /\ ListSame(p, r) /\ ProcSame(r)
      BY <1>1, <2>1, <2>6, Zenon DEF MapsMove, ListSame, ProcSame, OnList, Steps
    <2>10. Replaced(p, r)
      BY <2>2, <2>5, <2>7 DEF Replaced
    <2> QED
      BY <2>8, <2>9, <2>10, StepKeeps, Zenon DEF ListMove
  <1>5. CASE /\ Goto(p, h[p], "options")
             /\ UNCHANGED <<openfds, maps, mons, pcaps_to_close>>
    <2> DEFINE r == [h[p] EXCEPT !.at = "options"]
    <2>1. h' = [h EXCEPT ![p] = r]
      BY <1>5, Zenon DEF Goto
    <2>2. r \in Handle
      BY <1>1 DEF Handle, Places, Steps
    <2>3. Local(r)
      BY <1>1 DEF Local, Handle, Late, Mid, Mapped
    <2>4. /\ r.at = "options" /\ RefsOf(r) = RefsOf(h[p]) /\ Apart(r)
          /\ r.must = h[p].must /\ r.mondevice = h[p].mondevice
      BY <1>1, Zenon DEF Handle, RefsOf, Apart
    <2> HIDE DEF r
    <2>5. MovesOn(p, r)
      BY <1>1, <1>5, <2>1, <2>2, <2>3, <2>4
         DEF MovesOn, Replaced, ProcSame, MapsMove, ListSame, OnList, Steps
    <2> QED
      BY <2>5, MovingOnKeeps
  <1> QED
    BY <1>3, <1>4, <1>5, Zenon DEF LinkType, FailClosing

\* The socket passes from setup_socket to the handle.
LEMMA SocketOptionsKeeps ==
    ASSUME NoLeakingFault, IInv, NEW p \in Handles, SocketOptions(p)
    PROVE  IInv'
  <1>1. /\ h[p] \in Handle /\ Local(h[p]) /\ proc = "run"
        /\ h[p].at = "options" /\ did_atexit' = did_atexit /\ proc' = proc
        /\ \A m \in maps : m[1] # p
    BY Here, Zenon DEF SocketOptions, Steps, Mapped
  <1>2. CASE MayFail(h[p], "options") /\ FailClosing(p, h[p], mons, pcaps_to_close)
    <2>1. ~h[p].must
      BY <1>1, <1>2 DEF Local, MayFail, NoLeakingFault
    <2> QED
      BY <1>1, <1>2, <2>1, FailClosingKeeps DEF Mid
  <1>3. CASE /\ Goto(p, [h[p] EXCEPT !.fd = h[p].sock_fd, !.sock_fd = NoFd], "event")
             /\ UNCHANGED <<openfds, maps, mons, pcaps_to_close>>
    <2> DEFINE r == [[h[p] EXCEPT !.fd = h[p].sock_fd, !.sock_fd = NoFd]
                        EXCEPT !.at = "event"]
    <2>1. h' = [h EXCEPT ![p] = r]
      BY <1>3, Zenon DEF Goto
    <2>2. r \in Handle
      BY <1>1, Zenon DEF Handle, Places, Steps, NoFd
    <2>3. /\ r.at = "event" /\ r.fd = h[p].sock_fd /\ r.sock_fd = NoFd
          /\ r.breakfd = h[p].breakfd /\ r.kind = h[p].kind
          /\ r.must = h[p].must /\ r.mondevice = h[p].mondevice
          /\ r.ops = h[p].ops /\ r.setnonblock_op = h[p].setnonblock_op
          /\ r.nonblocking = h[p].nonblocking
      BY <1>1, Zenon DEF Handle
    <2> HIDE DEF r
    <2>4. /\ h[p].fd = NoFd /\ h[p].breakfd = NoFd /\ h[p].sock_fd # NoFd
          /\ h[p].ops # "linux" /\ h[p].setnonblock_op # "linux"
      BY <1>1, Zenon DEF Local, Late, Mid, Mapped
    <2>5. Local(r)
      BY <1>1, <2>3, <2>4 DEF Local, Late, Mid, Mapped
    <2>6. RefsOf(r) = RefsOf(h[p]) /\ Apart(r)
      BY <2>3, <2>4, Zenon DEF RefsOf, Apart
    <2>7. MovesOn(p, r)
      BY <1>1, <1>3, <2>1, <2>2, <2>3, <2>5, <2>6
         DEF MovesOn, Replaced, ProcSame, MapsMove, ListSame, OnList, Steps
    <2> QED
      BY <2>7, MovingOnKeeps
  <1> QED
    BY <1>2, <1>3, Zenon DEF SocketOptions

\* eventfd: the handle owns both descriptors, or both are closed.
LEMMA EventFdKeeps ==
    ASSUME IInv, NEW p \in Handles, EventFd(p)
    PROVE  IInv'
  <1>1. /\ h[p] \in Handle /\ Local(h[p]) /\ proc = "run" /\ openfds \subseteq Fds
        /\ RefsOf(h[p]) \subseteq openfds /\ Apart(h[p])
        /\ h[p].at = "event" /\ did_atexit' = did_atexit /\ proc' = proc
        /\ \A m \in maps : m[1] # p
    BY Here, Zenon DEF EventFd, Steps, Mapped
  <1>2. /\ h[p].fd # NoFd /\ h[p].sock_fd = NoFd /\ h[p].breakfd = NoFd
        /\ h[p].ops # "linux" /\ h[p].setnonblock_op # "linux"
    BY <1>1, Zenon DEF Local, Late, Mid, Mapped
  <1>3. CASE Fail(p, h[p], openfds, maps, mons, pcaps_to_close)
    BY <1>1, <1>3, FailKeeps
  <1>4. CASE /\ h[p].opt.nonblock /\ Goto(p, h[p], "oneshot")
             /\ UNCHANGED <<openfds, maps, mons, pcaps_to_close>>
    <2> DEFINE r == [h[p] EXCEPT !.at = "oneshot"]
    <2>1. h' = [h EXCEPT ![p] = r]
      BY <1>4, Zenon DEF Goto
    <2>2. r \in Handle
      BY <1>1 DEF Handle, Places, Steps
    <2>3. Local(r)
      BY <1>1, <1>2, <1>4 DEF Local, Handle, Late, Mid, Mapped
    <2>4. /\ r.at = "oneshot" /\ RefsOf(r) = RefsOf(h[p]) /\ Apart(r)
          /\ r.must = h[p].must /\ r.mondevice = h[p].mondevice
      BY <1>1, Zenon DEF Handle, RefsOf, Apart
    <2> HIDE DEF r
    <2>5. MovesOn(p, r)
      BY <1>1, <1>4, <2>1, <2>2, <2>3, <2>4
         DEF MovesOn, Replaced, ProcSame, MapsMove, ListSame, OnList, Steps
    <2> QED
      BY <2>5, MovingOnKeeps
  <1>5. CASE /\ ~h[p].opt.nonblock /\ FreeFds # {}
             /\ openfds' = openfds \cup {NewFd}
             /\ Goto(p, [h[p] EXCEPT !.breakfd = NewFd], "oneshot")
             /\ UNCHANGED <<maps, mons, pcaps_to_close>>
    <2> DEFINE new == NewFd
               r == [[h[p] EXCEPT !.breakfd = new] EXCEPT !.at = "oneshot"]
    <2>1. h' = [h EXCEPT ![p] = r] /\ openfds' = openfds \cup {new}
      BY <1>5, Zenon DEF Goto
    <2>2. new \in Fds /\ new \notin openfds /\ new # NoFd
      BY <1>5, NewFdIsFree, Zenon
    <2> HIDE DEF new
    <2>3. r \in Handle
      BY <1>1, <2>2, Zenon DEF Handle, Places, Steps
    <2>4. /\ r.at = "oneshot" /\ r.fd = h[p].fd /\ r.sock_fd = h[p].sock_fd
          /\ r.breakfd = new /\ r.kind = h[p].kind /\ r.opt = h[p].opt
          /\ r.must = h[p].must /\ r.mondevice = h[p].mondevice
          /\ r.ops = h[p].ops /\ r.setnonblock_op = h[p].setnonblock_op
          /\ r.nonblocking = h[p].nonblocking
      BY <1>1, Zenon DEF Handle
    <2> HIDE DEF r
    <2>5. Local(r)
      BY <1>1, <1>2, <1>5, <2>2, <2>4 DEF Local, Late, Mid, Mapped
    <2>6. h[p].fd # new
      BY <1>1, <1>2, <2>2, Zenon DEF RefsOf
    <2>7. FdsMove(p, r, {}, {new})
      BY <1>2, <2>1, <2>2, <2>4, <2>6 DEF FdsMove, RefsOf, Apart
    <2>8. MapsMove(p, r) /\ ListSame(p, r) /\ ProcSame(r)
      BY <1>1, <1>5, <2>4, Zenon DEF MapsMove, ListSame, ProcSame, OnList, Steps
    <2>9. Replaced(p, r)
      BY <2>1, <2>3, <2>5, Zenon DEF Replaced
    <2> QED
      BY <2>7, <2>8, <2>9, StepKeeps DEF ListMove
  <1> QED
    BY <1>3, <1>4, <1>5, Zenon DEF EventFd

\* From the one-shot buffer to the ring the handle only moves on.
Onward(p, r) ==
    /\ h' = [h EXCEPT ![p] = r] /\ r \in Handle
    /\ r.at \in {"version", "ring", "bind"}
    /\ r.fd = h[p].fd /\ r.sock_fd = h[p].sock_fd /\ r.breakfd = h[p].breakfd
    /\ r.opt = h[p].opt /\ r.kind = h[p].kind
    /\ r.must = h[p].must /\ r.mondevice = h[p].mondevice
    /\ r.ops = h[p].ops /\ r.setnonblock_op = h[p].setnonblock_op
    /\ r.nonblocking = h[p].nonblocking
    /\ UNCHANGED <<openfds, mons, pcaps_to_close, did_atexit, proc>>
    /\ maps' \subseteq maps \cup ({p} \X {"ring", "oneshot"})

\* A step that keeps the descriptors of an activation past the socket.
LEMMA OnwardKeeps ==
    ASSUME IInv, NEW p \in Handles, NEW r, Onward(p, r),
           h[p].at \in {"oneshot", "version", "ring"}
    PROVE  IInv'
  <1>1. h[p] \in Handle /\ Local(h[p]) /\ proc = "run" /\ Apart(h[p])
    BY Here, Zenon DEF Steps
  <1>2. Local(r)
    BY <1>1 DEF Onward, Local, Late, Mid, Mapped
  <1>3. RefsOf(r) = RefsOf(h[p]) /\ Apart(r) /\ MapsMove(p, r)
    BY <1>1, Zenon DEF Onward, RefsOf, Apart, MapsMove, Mapped
  <1>4. ListSame(p, r) /\ ProcSame(r)
    BY <1>1, Zenon DEF Onward, ListSame, ProcSame, OnList, Steps
  <1>5. MovesOn(p, r)
    BY <1>2, <1>3, <1>4, Zenon DEF MovesOn, Replaced, Onward
  <1> QED
    BY <1>5, MovingOnKeeps, Zenon

\* The one-shot buffer is mapped, or the activation fails and unmaps it.
LEMMA MapOneshotKeeps ==
    ASSUME IInv, NEW p \in Handles, MapOneshot(p)
    PROVE  IInv'
  <1>1. /\ h[p] \in Handle /\ proc = "run" /\ h[p].at = "oneshot"
        /\ did_atexit' = did_atexit /\ proc' = proc
    BY Here, Zenon DEF MapOneshot, Steps
  <1>2. CASE Fail(p, h[p], openfds, maps, mons, pcaps_to_close)
    BY <1>1, <1>2, FailKeeps
  <1>3. CASE /\ maps' = maps \cup {<<p, "oneshot">>} /\ Goto(p, h[p], "version")
             /\ UNCHANGED <<openfds, mons, pcaps_to_close>>
    <2> DEFINE r == [h[p] EXCEPT !.at = "version"]
    <2>1. Onward(p, r)
      BY <1>1, <1>3 DEF Onward, Goto, Handle, Places, Steps
    <2> HIDE DEF r
    <2> QED
      BY <1>1, <2>1, OnwardKeeps, Zenon
  <1> QED
    BY <1>2, <1>3, Zenon DEF MapOneshot

\* prepare_tpacket_socket: a version is set, or the activation fails.
LEMMA PrepareTpacketKeeps ==
    ASSUME IInv, NEW p \in Handles, PrepareTpacket(p)
    PROVE  IInv'
  <1>1. /\ h[p] \in Handle /\ proc = "run" /\ h[p].at = "version"
        /\ did_atexit' = did_atexit /\ proc' = proc
    BY Here, Zenon DEF PrepareTpacket, Steps
  <1>2. CASE Fail(p, h[p], openfds, maps \ {<<p, "oneshot">>}, mons, pcaps_to_close)
    BY <1>1, <1>2, FailKeeps
  <1>3. CASE Goto(p, h[p], "ring") /\ UNCHANGED <<openfds, maps, mons, pcaps_to_close>>
    <2> DEFINE r == [h[p] EXCEPT !.at = "ring"]
    <2>1. Onward(p, r)
      BY <1>1, <1>3 DEF Onward, Goto, Handle, Places, Steps
    <2> HIDE DEF r
    <2> QED
      BY <1>1, <2>1, OnwardKeeps, Zenon
  <1> QED
    BY <1>2, <1>3, Zenon DEF PrepareTpacket

\* create_ring: the ring is mapped, or the activation fails and unmaps it.
LEMMA CreateRingKeeps ==
    ASSUME IInv, NEW p \in Handles, CreateRing(p)
    PROVE  IInv'
  <1>1. /\ h[p] \in Handle /\ proc = "run" /\ h[p].at = "ring"
        /\ did_atexit' = did_atexit /\ proc' = proc
    BY Here, Zenon DEF CreateRing, Steps
  <1>2. CASE Fail(p, h[p], openfds, maps \ {<<p, "oneshot">>}, mons, pcaps_to_close)
    BY <1>1, <1>2, FailKeeps
  <1>3. ASSUME NEW tstamp \in BOOLEAN,
               /\ maps' = maps \cup {<<p, "ring">>}
               /\ Goto(p, [h[p] EXCEPT !.warned = @ \/ tstamp], "bind")
               /\ UNCHANGED <<openfds, mons, pcaps_to_close>>
        PROVE  IInv'
    <2> DEFINE w == h[p].warned \/ tstamp
               r == [[h[p] EXCEPT !.warned = w] EXCEPT !.at = "bind"]
    <2>1. h' = [h EXCEPT ![p] = r]
      BY <1>3, Zenon DEF Goto
    <2>2. w \in BOOLEAN
      BY Zenon
    <2> HIDE DEF w
    <2>3. r \in Handle
      BY <1>1, <2>2, Zenon DEF Handle, Places, Steps
    <2>4. /\ r.at = "bind" /\ r.fd = h[p].fd /\ r.sock_fd = h[p].sock_fd
          /\ r.breakfd = h[p].breakfd /\ r.kind = h[p].kind /\ r.opt = h[p].opt
          /\ r.must = h[p].must /\ r.mondevice = h[p].mondevice
          /\ r.ops = h[p].ops /\ r.setnonblock_op = h[p].setnonblock_op
          /\ r.nonblocking = h[p].nonblocking
      BY <1>1, Zenon DEF Handle
    <2> HIDE DEF r
    <2>5. Onward(p, r)
      BY <1>1, <1>3, <2>1, <2>3, <2>4 DEF Onward
    <2> QED
      BY <1>1, <2>5, OnwardKeeps, Zenon
  <1> QED
    BY <1>2, <1>3, Zenon DEF CreateRing

\* The final bind: an interface that went away fails the activation.
LEMMA BindKeeps ==
    ASSUME IInv, NEW p \in Handles, Bind(p)
    PROVE  IInv'
  <1>1. /\ h[p] \in Handle /\ Local(h[p]) /\ proc = "run" /\ Apart(h[p])
        /\ h[p].at = "bind" /\ did_atexit' = did_atexit /\ proc' = proc
    BY Here, Zenon DEF Bind, Steps
  <1>2. CASE Fail(p, h[p], openfds, maps, mons, pcaps_to_close)
    BY <1>1, <1>2, FailKeeps
  <1>3. CASE ~Fail(p, h[p], openfds, maps, mons, pcaps_to_close)
    <2> DEFINE status == IF h[p].warned THEN "warning" ELSE "ok"
               r == [[h[p] EXCEPT !.ops = "linux", !.setnonblock_op = "linux",
                                  !.status = status] EXCEPT !.at = "finish"]
    <2>1. h' = [h EXCEPT ![p] = r] /\ UNCHANGED <<openfds, maps, mons, pcaps_to_close>>
      BY <1>3, Zenon DEF Bind, Goto
    <2>2. status \in {"warning", "ok"}
      BY Zenon
    <2> HIDE DEF status
    <2>3. r \in Handle
      BY <1>1, <2>2, Zenon DEF Handle, Places, Steps
    <2>4. /\ r.at = "finish" /\ r.fd = h[p].fd /\ r.sock_fd = h[p].sock_fd
          /\ r.breakfd = h[p].breakfd /\ r.kind = h[p].kind /\ r.opt = h[p].opt
          /\ r.must = h[p].must /\ r.mondevice = h[p].mondevice
          /\ r.ops = "linux" /\ r.setnonblock_op = "linux"
          /\ r.nonblocking = h[p].nonblocking
      BY <1>1, Zenon DEF Handle
    <2> HIDE DEF r
    <2>5. Local(r)
      BY <1>1, <2>4 DEF Local, Late, Mid, Mapped
    <2>6. RefsOf(r) = RefsOf(h[p]) /\ Apart(r) /\ MapsMove(p, r)
      BY <1>1, <2>1, <2>4, Zenon DEF RefsOf, Apart, MapsMove, Mapped
    <2>7. ListSame(p, r) /\ ProcSame(r)
      BY <1>1, <2>1, <2>4, Zenon DEF ListSame, ProcSame, OnList, Steps
    <2>8. MovesOn(p, r)
      BY <2>1, <2>3, <2>5, <2>6, <2>7 DEF MovesOn, Replaced
    <2> QED
      BY <2>8, MovingOnKeeps
  <1> QED
    BY <1>2, <1>3

\* What pcap_setnonblock_linux may do: nothing, or the mode is set and the event
\* descriptor, e, goes or comes with it.
Switched(r, fds, nonblock, e, after) ==
    \/ nonblock /\ e = NoFd /\ after = fds \ {r.breakfd}
    \/ ~nonblock /\ r.breakfd = NoFd /\ e \in Fds \ fds /\ after = fds \cup {e}
    \/ ~nonblock /\ r.breakfd # NoFd /\ e = r.breakfd /\ after = fds

Outcome(r, fds, nonblock, out) ==
    \/ ~out.ok /\ out.rec = r /\ out.fds = fds
    \/ /\ out.ok /\ r.fd # NoFd
       /\ \E e : /\ out.rec = [r EXCEPT !.nonblocking = nonblock, !.breakfd = e]
                 /\ Switched(r, fds, nonblock, e, out.fds)

\* What pcap_setnonblock_linux may return, and what it leaves.
LEMMA SetNonblockOutcome ==
    ASSUME NEW r, NEW fds, NEW nonblock \in BOOLEAN,
           NEW out \in SetNonblockLinux(r, fds, nonblock)
    PROVE  Outcome(r, fds, nonblock, out)
  <1> DEFINE opens == ~nonblock /\ r.breakfd = NoFd
             full == Fds \subseteq fds
             least == Min(Fds \ fds)
             done(e, fs) == [ok |-> TRUE, fds |-> fs,
                             rec |-> [r EXCEPT !.nonblocking = nonblock, !.breakfd = e]]
  <1>1. ~full => least \in Fds \ fds
    <2>1. Fds \ fds \in SUBSET Nat
      BY DEF Fds
    <2> QED
      BY <2>1, LeastIn, Zenon
  <1>2. \/ out = [ok |-> FALSE, fds |-> fds, rec |-> r]
        \/ /\ r.fd # NoFd /\ ~(opens /\ full)
           /\ \/ nonblock /\ out = done(NoFd, fds \ {r.breakfd})
              \/ opens /\ out = done(least, fds \cup {least})
              \/ ~nonblock /\ ~opens /\ out = done(r.breakfd, fds)
    BY Zenon DEF SetNonblockLinux
  <1> HIDE DEF least, full
  <1>3. ASSUME NEW e, NEW fs, out = done(e, fs)
        PROVE  /\ out.ok /\ out.fds = fs
               /\ out.rec = [r EXCEPT !.nonblocking = nonblock, !.breakfd = e]
    BY <1>3, Zenon
  <1>4. CASE out = [ok |-> FALSE, fds |-> fds, rec |-> r]
    BY <1>4, Zenon DEF Outcome
  <1>5. CASE r.fd # NoFd /\ nonblock /\ out = done(NoFd, fds \ {r.breakfd})
    <2>1. Switched(r, fds, nonblock, NoFd, fds \ {r.breakfd})
      BY <1>5, Zenon DEF Switched
    <2> HIDE DEF done
    <2> QED
      BY <1>3, <1>5, <2>1, Zenon DEF Outcome
  <1>6. CASE r.fd # NoFd /\ opens /\ ~full /\ out = done(least, fds \cup {least})
    <2>1. Switched(r, fds, nonblock, least, fds \cup {least})
      BY <1>1, <1>6, Zenon DEF Switched
    <2> HIDE DEF done
    <2> QED
      BY <1>3, <1>6, <2>1, Zenon DEF Outcome
  <1>7. CASE r.fd # NoFd /\ ~nonblock /\ ~opens /\ out = done(r.breakfd, fds)
    <2>1. Switched(r, fds, nonblock, r.breakfd, fds)
      BY <1>7, Zenon DEF Switched
    <2> HIDE DEF done
    <2> QED
      BY <1>3, <1>7, <2>1, Zenon DEF Outcome
  <1> HIDE DEF done
  <1> QED
    BY <1>2, <1>4, <1>5, <1>6, <1>7

\* The operations are set; non-blocking mode is set, or the activation fails.
LEMMA FinishKeeps ==
    ASSUME IInv, NEW p \in Handles, Finish(p)
    PROVE  IInv'
  <1>1. /\ h[p] \in Handle /\ Local(h[p]) /\ proc = "run" /\ openfds \subseteq Fds
        /\ Apart(h[p])
        /\ h[p].at = "finish" /\ did_atexit' = did_atexit /\ proc' = proc
    BY Here, Zenon DEF Finish, Steps
  <1>2. CASE Fail(p, h[p], openfds, maps, mons, pcaps_to_close)
    BY <1>1, <1>2, FailKeeps
  <1>3. ASSUME NEW r, r \in Handle, h' = [h EXCEPT ![p] = r], r.at = "active",
               r.fd = h[p].fd, r.sock_fd = h[p].sock_fd, r.breakfd = h[p].breakfd,
               r.nonblocking <=> h[p].opt.nonblock,
               r.kind = h[p].kind, r.must = h[p].must,
               r.mondevice = h[p].mondevice, r.ops = h[p].ops,
               r.setnonblock_op = "linux",
               UNCHANGED <<openfds, maps, mons, pcaps_to_close>>
        PROVE  IInv'
    <2>1. Local(r)
      BY <1>1, <1>3 DEF Local, Late, Mid, Mapped
    <2>2. RefsOf(r) = RefsOf(h[p]) /\ Apart(r) /\ MapsMove(p, r)
      BY <1>1, <1>3, Zenon DEF RefsOf, Apart, MapsMove, Mapped
    <2>3. ListSame(p, r) /\ ProcSame(r)
      BY <1>1, <1>3, Zenon DEF ListSame, ProcSame, OnList, Steps
    <2>4. MovesOn(p, r)
      BY <1>3, <2>1, <2>2, <2>3, Zenon DEF MovesOn, Replaced
    <2> QED
      BY <2>4, MovingOnKeeps, Zenon
  <1>4. CASE /\ ~h[p].opt.nonblock
             /\ h' = [h EXCEPT ![p].at = "active", ![p].activated = TRUE]
             /\ UNCHANGED <<openfds, maps, mons, pcaps_to_close>>
    <2> DEFINE r == [h[p] EXCEPT !.at = "active", !.activated = TRUE]
    <2>1. h' = [h EXCEPT ![p] = r]
      BY <1>4, Zenon DEF IInv, TypeOK
    <2>2. r \in Handle
      BY <1>1, Zenon DEF Handle, Places
    <2>3. /\ r.at = "active" /\ r.fd = h[p].fd /\ r.sock_fd = h[p].sock_fd
          /\ r.breakfd = h[p].breakfd /\ r.nonblocking = h[p].nonblocking
          /\ r.kind = h[p].kind /\ r.must = h[p].must /\ r.mondevice = h[p].mondevice
          /\ r.ops = h[p].ops /\ r.setnonblock_op = h[p].setnonblock_op
      BY <1>1, Zenon DEF Handle
    <2> HIDE DEF r
    <2>4. ~h[p].nonblocking /\ h[p].setnonblock_op = "linux"
      BY <1>1, Zenon DEF Local
    <2>5. r.nonblocking <=> h[p].opt.nonblock
      BY <1>4, <2>3, <2>4, Zenon
    <2> QED
      BY <1>3, <1>4, <2>1, <2>2, <2>3, <2>4, <2>5, Zenon
  <1>5. ASSUME h[p].opt.nonblock, NEW out \in SetNonblockLinux(h[p], openfds, TRUE),
               out.ok,
               h' = [h EXCEPT ![p] = [out.rec EXCEPT !.at = "active",
                                         !.activated = TRUE, !.status = "ok"]],
               openfds' = out.fds,
               UNCHANGED <<maps, mons, pcaps_to_close>>
        PROVE  IInv'
    <2> DEFINE r == [out.rec EXCEPT !.at = "active", !.activated = TRUE,
                                    !.status = "ok"]
    <2>1. h[p].breakfd = NoFd /\ h[p].setnonblock_op = "linux"
      BY <1>1, <1>5, Zenon DEF Local
    <2>2. /\ out.rec = [h[p] EXCEPT !.nonblocking = TRUE, !.breakfd = NoFd]
          /\ out.fds = openfds \ {h[p].breakfd}
      <3>1. \/ ~out.ok
            \/ \E e : /\ out.rec = [h[p] EXCEPT !.nonblocking = TRUE, !.breakfd = e]
                      /\ Switched(h[p], openfds, TRUE, e, out.fds)
        BY <1>5, SetNonblockOutcome, Zenon DEF Outcome
      <3> QED
        BY <1>5, <3>1, Zenon DEF Switched
    <2>3. openfds' = openfds
      BY <1>1, <1>5, <2>1, <2>2 DEF Fds, NoFd
    <2>4. r \in Handle
      BY <1>1, <2>2, Zenon DEF Handle, Places, NoFd
    <2>5. /\ r.at = "active" /\ r.fd = h[p].fd /\ r.sock_fd = h[p].sock_fd
          /\ r.breakfd = NoFd /\ r.nonblocking = TRUE
          /\ r.kind = h[p].kind /\ r.must = h[p].must /\ r.mondevice = h[p].mondevice
          /\ r.ops = h[p].ops /\ r.setnonblock_op = h[p].setnonblock_op
      BY <1>1, <2>2, Zenon DEF Handle
    <2>6. h' = [h EXCEPT ![p] = r]
      BY <1>5, Zenon
    <2> HIDE DEF r
    <2>7. r.nonblocking <=> h[p].opt.nonblock
      BY <1>5, <2>5, Zenon
    <2>8. UNCHANGED <<openfds, maps, mons, pcaps_to_close>>
      BY <1>5, <2>3, Zenon
    <2>9. r.breakfd = h[p].breakfd /\ r.setnonblock_op = "linux"
      BY <2>1, <2>5, Zenon
    <2> QED
      BY <1>3, <2>4, <2>5, <2>6, <2>7, <2>8, <2>9, Zenon
  <1> QED
    BY <1>2, <1>4, <1>5, Zenon DEF Finish

\* pcap_setnonblock on an active handle.
LEMMA SwitchKeeps ==
    ASSUME IInv, NEW p \in Handles, NEW nonblock \in BOOLEAN, NEW e,
           proc = "run", h[p].at = "active",
           h' = [h EXCEPT ![p] = [h[p] EXCEPT !.nonblocking = nonblock, !.breakfd = e]],
           Switched(h[p], openfds, nonblock, e, openfds'),
           UNCHANGED <<maps, mons, pcaps_to_close, did_atexit, proc>>
    PROVE  IInv'
  <1> DEFINE r == [h[p] EXCEPT !.nonblocking = nonblock, !.breakfd = e]
  <1>1. /\ h[p] \in Handle /\ Local(h[p]) /\ openfds \subseteq Fds
        /\ RefsOf(h[p]) \subseteq openfds /\ Apart(h[p])
    BY Here, Zenon
  <1>2. h[p].fd # NoFd /\ h[p].sock_fd = NoFd /\ h[p].fd \in openfds
    BY <1>1, Zenon DEF Local, Late, Mid, Mapped, RefsOf
  <1>3. e \in Fds \cup {NoFd} /\ (e = NoFd <=> nonblock)
    BY <1>1 DEF Switched, Handle, Fds, NoFd
  <1>4. r \in Handle
    BY <1>1, <1>3, Zenon DEF Handle
  <1>5. /\ r.at = "active" /\ r.fd = h[p].fd /\ r.sock_fd = NoFd /\ r.breakfd = e
        /\ r.nonblocking = nonblock /\ r.kind = h[p].kind
        /\ r.must = h[p].must /\ r.mondevice = h[p].mondevice
        /\ r.ops = h[p].ops /\ r.setnonblock_op = h[p].setnonblock_op
    BY <1>1, <1>2 DEF Handle
  <1>6. h' = [h EXCEPT ![p] = r]
    BY Zenon
  <1> HIDE DEF r
  <1>7. Local(r)
    BY <1>1, <1>3, <1>5 DEF Local, Late, Mid, Mapped
  <1>8. Replaced(p, r) /\ MapsMove(p, r) /\ ListSame(p, r) /\ ProcSame(r)
    BY <1>4, <1>5, <1>6, <1>7, Zenon
       DEF Replaced, MapsMove, Mapped, ListSame, OnList, ProcSame, Steps
  <1>9. CASE nonblock
    <2>1. e = NoFd /\ openfds' = openfds \ {h[p].breakfd}
      BY <1>9, Zenon DEF Switched
    <2>2. NoFd \notin openfds
      BY <1>1 DEF Fds, NoFd
    <2>3. FdsMove(p, r, {h[p].breakfd} \ {NoFd}, {})
      BY <1>1, <1>2, <1>5, <2>1, <2>2 DEF FdsMove, RefsOf, Apart
    <2> QED
      BY <1>8, <2>3, StepKeeps DEF ListMove
  <1>10. CASE ~nonblock /\ h[p].breakfd = NoFd
    <2>1. e \in Fds /\ e \notin openfds /\ openfds' = openfds \cup {e}
      BY <1>10, Zenon DEF Switched
    <2>2. FdsMove(p, r, {}, {e})
      BY <1>2, <1>3, <1>5, <1>10, <2>1 DEF FdsMove, RefsOf, Apart
    <2> QED
      BY <1>8, <2>2, StepKeeps, Zenon DEF ListMove
  <1>11. CASE ~nonblock /\ h[p].breakfd # NoFd
    <2>1. e = h[p].breakfd /\ openfds' = openfds
      BY <1>11, Zenon DEF Switched
    <2>2. FdsMove(p, r, {}, {})
      BY <1>1, <1>2, <1>5, <2>1 DEF FdsMove, RefsOf, Apart
    <2> QED
      BY <1>8, <2>2, StepKeeps, Zenon DEF ListMove
  <1> QED
    BY <1>9, <1>10, <1>11, Zenon

\* pcap_setnonblock on an active handle opens or closes its eventfd.
LEMMA SetNonblockKeeps ==
    ASSUME IInv, NEW p \in Handles, SetNonblock(p)
    PROVE  IInv'
  <1>1. /\ h[p] \in Handle /\ Local(h[p]) /\ proc = "run" /\ Apart(h[p])
        /\ h[p].at \in {"created", "active", "failed"}
        /\ \A m \in maps : m[1] = p => h[p].at \in Mapped
        /\ UNCHANGED <<maps, mons, pcaps_to_close, did_atexit, proc>>
    BY Here, Zenon DEF SetNonblock
  <1>2. PICK nonblock \in BOOLEAN :
          \/ /\ h[p].setnonblock_op = "unactivated"
             /\ h' = [h EXCEPT ![p].opt.nonblock = nonblock]
             /\ UNCHANGED openfds
          \/ /\ h[p].setnonblock_op = "linux"
             /\ \E out \in SetNonblockLinux(h[p], openfds, nonblock) :
                   /\ h' = [h EXCEPT ![p] = out.rec]
                   /\ openfds' = out.fds
    BY Zenon DEF SetNonblock
  <1>3. CASE /\ h[p].setnonblock_op = "unactivated"
             /\ h' = [h EXCEPT ![p].opt.nonblock = nonblock]
             /\ UNCHANGED openfds
    <2> DEFINE r == [h[p] EXCEPT !.opt.nonblock = nonblock]
    <2>1. h' = [h EXCEPT ![p] = r]
      BY <1>3, Zenon DEF IInv, TypeOK
    <2>2. r \in Handle
      BY <1>1 DEF Handle
    <2>3. h[p].at \in {"created", "failed"}
      BY <1>1, <1>3, Zenon DEF Local
    <2>4. Local(r)
      BY <1>1, <2>3 DEF Local, Handle, Late, Mid, Mapped
    <2>5. /\ r.at = h[p].at /\ RefsOf(r) = RefsOf(h[p]) /\ Apart(r)
          /\ r.must = h[p].must /\ r.mondevice = h[p].mondevice
      BY <1>1 DEF Handle, RefsOf, Apart
    <2> HIDE DEF r
    <2>6. MovesOn(p, r)
      BY <1>1, <1>3, <2>1, <2>2, <2>3, <2>4, <2>5, Zenon
         DEF MovesOn, Replaced, ProcSame, MapsMove, ListSame, OnList, Steps
    <2> QED
      BY <2>6, MovingOnKeeps, Zenon
  <1>4. ASSUME NEW out \in SetNonblockLinux(h[p], openfds, nonblock),
               h' = [h EXCEPT ![p] = out.rec], openfds' = out.fds
        PROVE  IInv'
    <2>1. CASE out.rec = h[p] /\ out.fds = openfds
      <3>1. MovesOn(p, h[p])
        BY <1>1, <1>4, <2>1, Zenon
           DEF MovesOn, Replaced, ProcSame, MapsMove, ListSame, Steps
      <3> QED
        BY <3>1, MovingOnKeeps, Zenon
    <2>2. ASSUME h[p].fd # NoFd, NEW e,
                 out.rec = [h[p] EXCEPT !.nonblocking = nonblock, !.breakfd = e],
                 Switched(h[p], openfds, nonblock, e, out.fds)
          PROVE  IInv'
      <3>1. h[p].at = "active"
        BY <1>1, <2>2, Zenon DEF Local, Late, Mapped
      <3>2. Switched(h[p], openfds, nonblock, e, openfds')
        BY <1>4, <2>2
      <3>3. h' = [h EXCEPT ![p] = [h[p] EXCEPT !.nonblocking = nonblock, !.breakfd = e]]
        BY <1>4, <2>2
      <3> QED
        BY <1>1, <3>1, <3>2, <3>3, SwitchKeeps, Zenon
    <2>3. Outcome(h[p], openfds, nonblock, out)
      BY SetNonblockOutcome, Zenon
    <2> QED
      BY <2>1, <2>2, <2>3, Zenon DEF Outcome
  <1> QED
    BY <1>2, <1>3, <1>4, Zenon

\* pcap_close, by the application or by the exit handler.
LEMMA ClosedKeeps ==
    ASSUME IInv, NEW p \in Handles, Closed(p),
           h[p].at \in {"created", "active", "failed"},
           proc \in {"run", "exiting"}, proc' = proc, did_atexit' = did_atexit
    PROVE  IInv'
  <1> DEFINE r == NoHandle
  <1>1. /\ r \in Handle /\ Local(r) /\ RefsOf(r) = {} /\ Apart(r)
        /\ r.at = "none" /\ ~OnList(r)
    BY NoHandleHoldsNothing, Zenon
  <1>2. h' = [h EXCEPT ![p] = r]
    BY Zenon DEF Closed
  <1> HIDE DEF r
  <1>3. /\ h[p] \in Handle /\ Local(h[p]) /\ openfds \subseteq Fds
        /\ \A m \in maps : m[1] = p => h[p].at \in Mapped
    BY Here, Zenon
  <1>4. NoFd \notin openfds
    BY <1>3 DEF Fds, NoFd
  <1>5. Replaced(p, r) /\ ProcSame(r)
    BY <1>1, <1>2, Zenon DEF Replaced, ProcSame, Steps
  <1>6. CASE h[p].at = "active"
    <2>1. h[p].ops = "linux" /\ h[p].fd # NoFd /\ h[p].sock_fd = NoFd
      BY <1>3, <1>6, Zenon DEF Local, Late, Mid, Mapped
    <2>2. /\ openfds' = CleanupFds(openfds, h[p])
          /\ maps' = CleanupMaps(maps, p, h[p])
          /\ mons' = CleanupMons(mons, h[p])
          /\ pcaps_to_close' = CleanupList(pcaps_to_close, p, h[p])
      BY <2>1, Zenon DEF Closed
    <2>3. FdsMove(p, r, RefsOf(h[p]), {})
      <3>1. openfds' = (openfds \ RefsOf(h[p])) \cup {}
        BY <1>4, <2>1, <2>2, Zenon DEF CleanupFds, RefsOf
      <3> QED
        BY <1>1, <3>1, Zenon DEF FdsMove
    <2>4. MapsMove(p, r)
      BY <2>1, <2>2, Zenon DEF MapsMove, CleanupMaps
    <2>5. ListMove(p, r)
      <3>1. CASE h[p].must
        <4>1. ListLess(p, r)
          BY <1>1, <1>6, <2>1, <2>2, <3>1
             DEF ListLess, OnList, CleanupMons, CleanupList, DelMonIf
        <4> QED
          BY <4>1, Zenon DEF ListMove
      <3>2. CASE ~h[p].must
        <4>1. ListSame(p, r)
          BY <1>1, <2>2, <3>2, Zenon DEF ListSame, OnList, CleanupMons, CleanupList
        <4> QED
          BY <4>1, Zenon DEF ListMove
      <3> QED
        BY <3>1, <3>2, Zenon
    <2> QED
      BY <1>5, <2>3, <2>4, <2>5, StepKeeps, Zenon
  <1>7. CASE h[p].at \in {"created", "failed"}
    <2>1. /\ h[p].ops # "linux" /\ h[p].fd = NoFd /\ h[p].sock_fd = NoFd
          /\ h[p].breakfd = NoFd
      BY <1>3, <1>7, Zenon DEF Local, Late, Mid, Mapped
    <2>2. openfds' = openfds \ {NoFd} /\ UNCHANGED <<maps, mons, pcaps_to_close>>
      BY <2>1, Zenon DEF Closed
    <2>3. openfds' = openfds /\ RefsOf(h[p]) = {} /\ ~OnList(h[p])
          /\ \A m \in maps : m[1] # p
      BY <1>3, <1>4, <1>7, <2>1, <2>2 DEF RefsOf, OnList, Steps, Mapped
    <2>4. MovesOn(p, r)
      BY <1>1, <1>5, <2>2, <2>3, Zenon DEF MovesOn, MapsMove, ListSame
    <2> QED
      BY <2>4, MovingOnKeeps, Zenon
  <1> QED
    BY <1>6, <1>7, Zenon

\* pcap_close_all never finds the handle it just closed at the head again.
LEMMA CloseAllKeeps ==
    ASSUME IInv, CloseAll
    PROVE  IInv'
  <1> DEFINE p == Head(pcaps_to_close)
  <1>1. /\ pcaps_to_close \in Seq(Handles) /\ pcaps_to_close # <<>>
        /\ proc = "exiting" /\ did_atexit' = did_atexit /\ Closed(p)
    BY Zenon DEF IInv, TypeOK, CloseAll
  <1>2. p \in Handles /\ 1 \in DOMAIN pcaps_to_close /\ pcaps_to_close[1] = p
    BY <1>1
  <1>3. OnList(h[p])
    BY <1>2, Zenon DEF IInv, ListInv
  <1>4. proc' = IF pcaps_to_close' # <<>> /\ Head(pcaps_to_close') = p
                THEN "aborted" ELSE proc
    BY Zenon DEF CloseAll
  <1> HIDE DEF p
  <1>5. h[p] \in Handle /\ Local(h[p]) /\ h[p].at \notin Steps
    BY <1>1, <1>2, Here, Zenon
  <1>6. h[p].at = "active" /\ h[p].must /\ h[p].ops = "linux"
    BY <1>3, <1>5, Zenon DEF OnList, Local
  <1>7. pcaps_to_close' = RemoveFromPcapsToClose(pcaps_to_close, p)
    BY <1>1, <1>6, Zenon DEF Closed, CleanupList
  <1>8. /\ pcaps_to_close' \in Seq(Handles)
        /\ \A q \in Handles : (\E i \in DOMAIN pcaps_to_close' : pcaps_to_close'[i] = q)
                              => q # p
    <2>1. \A i, j \in DOMAIN pcaps_to_close :
             pcaps_to_close[i] = pcaps_to_close[j] => i = j
      BY Zenon DEF IInv, ListInv
    <2>2. \E i \in DOMAIN pcaps_to_close : pcaps_to_close[i] = p
      BY <1>2, Zenon
    <2> QED
      BY <1>1, <1>2, <1>7, <2>1, <2>2, Unlinked
  <1>9. pcaps_to_close' # <<>> => Head(pcaps_to_close') # p
    <2> SUFFICES ASSUME pcaps_to_close' # <<>> PROVE Head(pcaps_to_close') # p
      BY Zenon
    <2>1. 1 \in DOMAIN pcaps_to_close' /\ pcaps_to_close'[1] = Head(pcaps_to_close')
      BY <1>8
    <2>2. Head(pcaps_to_close') \in Handles
      BY <1>8
    <2> QED
      BY <1>8, <2>1, <2>2, Zenon
  <1>10. proc' = proc
    BY <1>4, <1>9, Zenon
  <1> QED
    BY <1>1, <1>2, <1>6, <1>10, ClosedKeeps

\* The invariant holds at the start ...
LEMMA InitHolds == Init => IInv
  <1> SUFFICES ASSUME Init PROVE IInv
    BY Zenon
  <1>1. \A p \in Handles :
           /\ h[p] \in Handle /\ Local(h[p]) /\ RefsOf(h[p]) = {} /\ Apart(h[p])
           /\ h[p].at = "none" /\ ~OnList(h[p])
    BY NoHandleHoldsNothing, Zenon DEF Init
  <1>2. TypeOK
    <2>1. h \in [Handles -> Handle]
      BY NoHandleHoldsNothing, Zenon DEF Init
    <2>2. pcaps_to_close \in Seq(Handles)
      BY DEF Init
    <2>3. mons \subseteq MonNames
      BY HandleAssumption, Zenon DEF Init, MonNames
    <2> QED
      BY <2>1, <2>2, <2>3, Zenon DEF TypeOK, Init
  <1>3. Descs /\ MapsInv /\ Locals
    BY <1>1, Zenon DEF Descs, MapsInv, Locals, Init
  <1>4. ListInv /\ MonInv
    BY <1>1 DEF ListInv, MonInv, Init
  <1>5. ProcInv
    BY Zenon DEF ProcInv, Init
  <1> QED
    BY <1>2, <1>3, <1>4, <1>5, Zenon DEF IInv

\* ... and every step keeps it.
LEMMA NextKeeps ==
    ASSUME NoLeakingFault, IInv, [Next]_vars
    PROVE  IInv'
  <1>1. ASSUME NEW p \in Handles, ActivateStep(p) PROVE IInv'
    BY <1>1, SocketKeeps, AnyDeviceKeeps, EnterRfmonModeKeeps, LinkTypeKeeps,
       SocketOptionsKeeps, EventFdKeeps, MapOneshotKeeps, PrepareTpacketKeeps,
       CreateRingKeeps, BindKeeps, FinishKeeps DEF ActivateStep
  <1>2. ASSUME NEW p \in Handles, Close(p) PROVE IInv'
    BY <1>2, ClosedKeeps, Zenon DEF Close
  <1>3. CASE Exit
    <2>1. /\ proc = "run" /\ proc' = "exiting" /\ \A p \in Handles : h[p].at \notin Steps
          /\ UNCHANGED <<h, openfds, maps, mons, pcaps_to_close, did_atexit>>
      BY <1>3, Zenon DEF Exit
    <2>2. TypeOK' /\ Locals' /\ MapsInv' /\ ListInv' /\ MonInv'
      BY <2>1, Zenon DEF IInv, TypeOK, Locals, MapsInv, ListInv, MonInv
    <2>3. Descs' /\ ProcInv'
      BY <2>1, Zenon DEF IInv, Descs, ProcInv
    <2> QED
      BY <2>2, <2>3, Zenon DEF IInv
  <1>4. CASE Gone
    <2>1. /\ proc = "exiting" /\ proc' = "exited" /\ pcaps_to_close = <<>>
          /\ openfds' = {} /\ maps' = {}
          /\ UNCHANGED <<h, mons, pcaps_to_close, did_atexit>>
      BY <1>4, Zenon DEF Gone, IInv, ProcInv
    <2>2. TypeOK' /\ Locals' /\ MapsInv' /\ ListInv' /\ MonInv'
      BY <2>1 DEF IInv, TypeOK, Locals, MapsInv, ListInv, MonInv
    <2>3. Descs' /\ ProcInv'
      BY <2>1, Zenon DEF IInv, Descs, ProcInv
    <2> QED
      BY <2>2, <2>3 DEF IInv
  <1>5. CASE Restart
    <2>1. /\ proc = "exited" /\ proc' = "run" /\ did_atexit' = FALSE
          /\ h' = [p \in Handles |-> NoHandle] /\ pcaps_to_close' = <<>>
          /\ UNCHANGED <<openfds, maps, mons>>
      BY <1>5, Zenon DEF Restart
    <2>2. openfds = {} /\ maps = {} /\ \A p \in Handles : ~OnList(h[p])
      BY <2>1 DEF IInv, ProcInv, ListInv
    <2>3. \A p \in Handles :
             /\ h'[p] \in Handle /\ Local(h'[p]) /\ RefsOf(h'[p]) = {} /\ Apart(h'[p])
             /\ h'[p].at = "none" /\ ~OnList(h'[p])
      BY <2>1, NoHandleHoldsNothing, Zenon
    <2>4. TypeOK'
      <3>1. h' \in [Handles -> Handle]
        BY <2>1, NoHandleHoldsNothing, Zenon
      <3>2. pcaps_to_close' \in Seq(Handles)
        BY <2>1
      <3> QED
        BY <2>1, <3>1, <3>2, Zenon DEF IInv, TypeOK
    <2>5. Locals' /\ MapsInv'
      BY <2>1, <2>2, <2>3, Zenon DEF Locals, MapsInv
    <2>6. Descs'
      BY <2>1, <2>2, <2>3, Zenon DEF Descs
    <2>7. ListInv'
      BY <2>1, <2>3 DEF ListInv
    <2>8. MonInv'
      BY <2>1, <2>2, <2>3, Zenon DEF IInv, MonInv
    <2>9. ProcInv'
      BY <2>1, Zenon DEF ProcInv
    <2> QED
      BY <2>4, <2>5, <2>6, <2>7, <2>8, <2>9, Zenon DEF IInv
  <1>6. CASE UNCHANGED vars
    BY <1>6, Zenon DEF vars, IInv, TypeOK, Locals, Descs, MapsInv, ListInv, MonInv, ProcInv
  <1> QED
    BY <1>1, <1>2, <1>3, <1>4, <1>5, <1>6, CreateKeeps, SetOptionKeeps,
       ActivateKeeps, SetNonblockKeeps, CloseAllKeeps DEF Next

\* What the invariant means.
LEMMA InvariantMeans ==
    ASSUME IInv
    PROVE  HandlesInv /\ CloseListExact
  <1>1. \A p \in Handles : Refs(p) = RefsOf(h[p])
    BY Zenon DEF Refs, RefsOf, Fields
  <1>2. \A p \in Handles : Listed(p) <=> OnList(h[p])
    BY Zenon DEF Listed, OnList
  <1>3. DescriptorsOwned
    <2> SUFFICES ASSUME proc = "run"
                 PROVE  /\ \A p \in Handles : Refs(p) \subseteq openfds
                        /\ \A p, q \in Handles, f, g \in Fields :
                              (h[p][f] = h[q][g] /\ h[p][f] # NoFd) => (p = q /\ f = g)
      BY Zenon DEF DescriptorsOwned
    <2>1. /\ \A p \in Handles : RefsOf(h[p]) \subseteq openfds /\ Apart(h[p])
          /\ \A p, q \in Handles : p # q => RefsOf(h[p]) \cap RefsOf(h[q]) = {}
      BY Zenon DEF IInv, Descs
    <2>2. ASSUME NEW p \in Handles, NEW q \in Handles, NEW f \in Fields, NEW g \in Fields,
                 h[p][f] = h[q][g], h[p][f] # NoFd
          PROVE  p = q /\ f = g
      <3>1. h[p][f] \in RefsOf(h[p]) /\ h[q][g] \in RefsOf(h[q])
        BY <2>2, Zenon DEF RefsOf, Fields
      <3>2. p = q
        BY <2>1, <2>2, <3>1, Zenon
      <3>3. f = g
        BY <2>1, <2>2, <3>2 DEF Apart, Fields
      <3> QED
        BY <3>2, <3>3, Zenon
    <2> QED
      BY <1>1, <2>1, <2>2
  <1>4. NothingLeaks
    <2> SUFFICES ASSUME proc = "run"
                 PROVE  /\ openfds \subseteq UNION {Refs(p) : p \in Handles}
                        /\ \A m \in maps : h[m[1]].at \in Steps \cup {"active"}
      BY Zenon DEF NothingLeaks
    <2>1. \A d \in openfds : \E p \in Handles : d \in Refs(p)
      BY <1>1 DEF IInv, Descs
    <2>2. \A m \in maps : h[m[1]].at \in Steps \cup {"active"}
      BY Zenon DEF IInv, MapsInv, Mapped, Steps
    <2> QED
      BY <2>1, <2>2, Zenon
  <1>5. MonitorsOwned
    <2>1. \A p \in Handles : OnList(h[p]) => h[p].mondevice \in MonNames
      BY DEF IInv, Locals, Local, OnList, Steps
    <2>2. Foreign \subseteq MonNames /\ mons \subseteq MonNames
      BY HandleAssumption, Zenon DEF IInv, TypeOK, MonNames
    <2>3. \A m \in MonNames :
             m \in mons <=> (m \in Foreign
                             \/ \E p \in Handles : Listed(p) /\ h[p].mondevice = m)
      BY <1>2, Zenon DEF IInv, MonInv
    <2>4. mons = Foreign \cup {h[p].mondevice : p \in {q \in Handles : Listed(q)}}
      BY <1>2, <2>1, <2>2, <2>3, Zenon
    <2>5. \A p, q \in Handles :
             Listed(p) /\ Listed(q) /\ h[p].mondevice = h[q].mondevice => p = q
      BY <1>2, Zenon DEF IInv, MonInv
    <2> QED
      BY <2>4, <2>5, Zenon DEF MonitorsOwned
  <1>6. EventFdIffBlocking
    BY Zenon DEF IInv, Locals, Local, EventFdIffBlocking
  <1>7. CloseListExact
    <2>1. pcaps_to_close \in Seq(Handles)
      BY Zenon DEF IInv, TypeOK
    <2>2. \A i \in DOMAIN pcaps_to_close : pcaps_to_close[i] \in Handles
      BY <2>1
    <2>3. Range(pcaps_to_close) = {p \in Handles : Listed(p)}
      BY <1>2, <2>2 DEF Range, IInv, ListInv
    <2> QED
      BY <2>3, Zenon DEF CloseListExact, IInv, ListInv
  <1> QED
    BY <1>3, <1>4, <1>5, <1>6, <1>7 DEF HandlesInv, IInv

\* Descriptors, mappings and monitor interfaces have one owner each and none is
\* left behind by pcap_close or a failed pcap_activate, for any number of
\* handles whose activations interleave and whichever other calls fail.
THEOREM HandlesHold ==
    ASSUME NoLeakingFault PROVE Spec => []HandlesInv
  <1>1. IInv /\ [Next]_vars => IInv'
    BY NextKeeps, Zenon
  <1>2. IInv => HandlesInv
    BY InvariantMeans, Zenon
  <1> QED
    BY <1>1, <1>2, InitHolds, PTL DEF Spec

\* pcap_close_all closes exactly the live handles that have a monitor interface
\* to delete, each once, and never one that pcap_close has freed.
THEOREM CloseListHolds ==
    ASSUME NoLeakingFault PROVE Spec => []CloseListExact
  <1>1. IInv /\ [Next]_vars => IInv'
    BY NextKeeps
  <1>2. IInv => CloseListExact
    BY InvariantMeans, Zenon
  <1> QED
    BY <1>1, <1>2, InitHolds, PTL DEF Spec

\* The abort() of pcap_close_all is never reached: a round of its loop takes the
\* handle it closed off the list.
THEOREM ExitHandlerEnds ==
    ASSUME NoLeakingFault PROVE Spec => [](proc # "aborted")
  <1>1. IInv /\ [Next]_vars => IInv'
    BY NextKeeps
  <1>2. IInv => proc # "aborted"
    BY Zenon DEF IInv, ProcInv
  <1> QED
    BY <1>1, <1>2, InitHolds, PTL DEF Spec
=============================================================================
