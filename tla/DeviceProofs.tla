---------------------------- MODULE DeviceProofs ----------------------------
(***************************************************************************)
(* Two things that happen before a packet is captured.  First the device   *)
(* that pcap_lookupdev picks from the list pcap_findalldevs makes, for all *)
(* interfaces, hardware and orders of the report.  Then the ring that      *)
(* create_ring maps for a Linux device, for every snapshot length, MTU,    *)
(* buffer size and page size, and whatever memory the kernel has.          *)
(***************************************************************************)
EXTENDS Devices, RingSize, WellFoundedInduction, SequenceTheorems, TLAPS

-----------------------------------------------------------------------------
(* The list of devices.                                                     *)

\* The devices are in the order of their merit.
InOrderOfMerit(list) ==
    \A j, k \in 1..Len(list) :
        j < k => GetFigureOfMerit(list[j]) <= GetFigureOfMerit(list[k])

\* What a merit is figured out from is there.
IsDev(dev) == {"name", "flags"} \subseteq DOMAIN dev

\* A list of devices in order.
Ordered(list) ==
    /\ list \in Seq(Range(list))
    /\ \A k \in 1..Len(list) : IsDev(list[k])
    /\ InOrderOfMerit(list)

-----------------------------------------------------------------------------
\* The figure of merit is a number, and a device that is good enough for
\* pcap_lookupdev to take is not a loopback (get_figure_of_merit).
LEMMA Merit ==
    ASSUME NEW dev
    PROVE  /\ GetFigureOfMerit(dev) \in Nat
           /\ GetFigureOfMerit(dev) < 2 => ~dev.flags.loop
  BY DEF GetFigureOfMerit

\* A set of numbers has a least one.
LEMMA LeastOf ==
    ASSUME NEW T \in SUBSET Nat, T # {}
    PROVE  \E m \in T : \A n \in T : m <= n
  <1>1. PICK m \in T : \A n \in T : ~(<<n, m>> \in OpToRel(<, Nat))
    BY NatLessThanWellFounded, WFMin
  <1>2. \A n \in T : ~(n < m)
    BY <1>1 DEF OpToRel
  <1> QED
    BY <1>2

\* A sequence over any set is one over its own elements.
LEMMA OwnElements ==
    ASSUME NEW S, NEW list \in Seq(S)
    PROVE  list \in Seq(Range(list))
  BY DEF Range

\* dev in place p of the list, what was there and after it one place on.
Insertion(list, p, dev) == SubSeq(list, 1, p - 1) \o <<dev>> \o SubSeq(list, p, Len(list))
InsertedAt(list, p, dev, new) ==
    /\ Len(new) = Len(list) + 1
    /\ \A k \in 1..(Len(list) + 1) :
          new[k] = IF k < p THEN list[k] ELSE IF k = p THEN dev ELSE list[k - 1]

\* What the insertion of pcapint_add_dev makes of the list.
LEMMA Inserted ==
    ASSUME NEW S, NEW list \in Seq(S), NEW dev \in S, NEW p \in 1..(Len(list) + 1)
    PROVE  /\ InsertedAt(list, p, dev, Insertion(list, p, dev))
           /\ Insertion(list, p, dev) \in Seq(S)
  <1>1. Len(list) \in Nat /\ p \in Nat /\ p >= 1 /\ p <= Len(list) + 1
    OBVIOUS
  <1>2. PICK front : front = SubSeq(list, 1, p - 1)
    OBVIOUS
  <1>3. PICK back : back = SubSeq(list, p, Len(list))
    OBVIOUS
  <1>4. front \in Seq(S) /\ Len(front) = p - 1 /\ \A k \in 1..(p - 1) : front[k] = list[k]
    BY <1>2
  <1>5. /\ back \in Seq(S) /\ Len(back) = Len(list) + 1 - p
        /\ \A k \in 1..(Len(list) + 1 - p) : back[k] = list[p + k - 1]
    BY <1>3
  <1>6. PICK mid : mid = front \o <<dev>>
    OBVIOUS
  <1>7. /\ mid \in Seq(S) /\ Len(mid) = p
        /\ \A k \in 1..p : mid[k] = IF k < p THEN list[k] ELSE dev
    BY <1>1, <1>4, <1>6
  <1>8. PICK new : new = mid \o back
    OBVIOUS
  <1>9. /\ new \in Seq(S) /\ Len(new) = Len(mid) + Len(back)
        /\ \A i \in 1..(Len(mid) + Len(back)) :
              new[i] = IF i <= Len(mid) THEN mid[i] ELSE back[i - Len(mid)]
    BY <1>5, <1>7, <1>8, ConcatProperties, Zenon
  <1>10. new = Insertion(list, p, dev)
    BY <1>2, <1>3, <1>6, <1>8, Zenon DEF Insertion
  <1>11. \A k \in 1..(Len(list) + 1) :
            new[k] = IF k < p THEN list[k] ELSE IF k = p THEN dev ELSE list[k - 1]
    <2>1. Len(mid) = p /\ Len(back) = Len(list) + 1 - p
      BY <1>5, <1>7
    <2>2. \A k \in 1..p : new[k] = mid[k]
      BY <1>1, <1>9, <2>1
    <2>3. \A k \in (p + 1)..(Len(list) + 1) :
             new[k] = back[k - p] /\ k - p \in 1..(Len(list) + 1 - p)
      BY <1>1, <1>9, <2>1
    <2>4. \A k \in (p + 1)..(Len(list) + 1) : new[k] = list[k - 1]
      BY <1>1, <1>5, <2>3
    <2> QED
      BY <1>1, <1>7, <2>2, <2>4
  <1>12. Len(new) = Len(list) + 1
    <2>1. Len(mid) = p /\ Len(back) = Len(list) + 1 - p /\ Len(new) = Len(mid) + Len(back)
      BY <1>5, <1>7, <1>9
    <2> QED
      BY <2>1, <1>1
  <1> QED
    BY <1>9, <1>10, <1>11, <1>12, Zenon DEF InsertedAt

\* pcapint_add_dev keeps the list in order, whatever it is given.
LEMMA AddDevOrdered ==
    ASSUME NEW list, NEW dev, Ordered(list), IsDev(dev)
    PROVE  Ordered(AddDev(list, dev))
  <1> DEFINE M(d) == GetFigureOfMerit(d)
             worse == {k \in 1..Len(list) : M(dev) < M(list[k])}
             S == Range(list) \cup {dev}
  <1>1. list \in Seq(S) /\ dev \in S /\ Len(list) \in Nat
    BY DEF Ordered
  <1>2. PICK place :
           place = IF worse = {} THEN Len(list) + 1
                   ELSE CHOOSE k \in worse : \A j \in worse : k <= j
    OBVIOUS
  <1>3. /\ place \in 1..(Len(list) + 1)
        /\ \A k \in 1..Len(list) : M(dev) < M(list[k]) => place <= k
        /\ place <= Len(list) => M(dev) < M(list[place])
    <2>1. CASE worse = {}
      BY <2>1, <1>1, <1>2
    <2>2. CASE worse # {}
      <3>1. worse \in SUBSET Nat
        BY <1>1
      <3>2. \E k \in worse : \A j \in worse : k <= j
        BY <2>2, <3>1, LeastOf
      <3>3. place = CHOOSE k \in worse : \A j \in worse : k <= j
        BY <2>2, <1>2, Zenon
      <3>4. place \in worse /\ \A j \in worse : place <= j
        BY <3>2, <3>3, Zenon
      <3> QED
        BY <3>4, <1>1
    <2> QED
      BY <2>1, <2>2
  <1>4. PICK new : new = AddDev(list, dev)
    OBVIOUS
  <1>5. new = Insertion(list, place, dev)
    <2> DEFINE first == IF worse = {} THEN Len(list) + 1
                        ELSE CHOOSE k \in worse : \A j \in worse : k <= j
    <2>1. AddDev(list, dev) = Insertion(list, first, dev)
      BY DEF AddDev, Insertion
    <2>2. place = first
      BY <1>2
    <2> HIDE DEF first
    <2> QED
      BY <1>4, <2>1, <2>2
  <1> HIDE DEF worse, S
  <1>6. /\ new \in Seq(S) /\ Len(new) = Len(list) + 1
        /\ \A k \in 1..(Len(list) + 1) :
              new[k] = IF k < place THEN list[k] ELSE IF k = place THEN dev ELSE list[k - 1]
    <2>1. list \in Seq(S) /\ dev \in S /\ place \in 1..(Len(list) + 1)
      BY <1>1, <1>3, Zenon
    <2>2. new \in Seq(S) /\ InsertedAt(list, place, dev, new)
      BY <2>1, <1>5, Inserted
    <2> QED
      BY <2>2, Zenon DEF InsertedAt
  <1>7. ASSUME NEW j \in 1..Len(new), NEW k \in 1..Len(new), j < k
        PROVE  M(new[j]) <= M(new[k])
    <2>1. \A a, b \in 1..Len(list) : a < b => M(list[a]) <= M(list[b])
      BY DEF Ordered, InOrderOfMerit
    <2>2. \A d : M(d) \in Nat
      BY Merit
    <2>3. \A b \in 1..Len(list) : b < place => M(list[b]) <= M(dev)
      BY <2>2, <1>3, <1>1
    <2>4. \A b \in 1..Len(list) : b >= place => M(dev) <= M(list[b])
      BY <2>1, <2>2, <1>3, <1>1
    <2> HIDE DEF M
    <2>5. /\ \A i \in 1..Len(new) :
                i < place => new[i] = list[i] /\ i \in 1..Len(list)
          /\ \A i \in 1..Len(new) :
                i > place => new[i] = list[i - 1] /\ i - 1 \in 1..Len(list)
          /\ \A i \in 1..Len(new) : i = place => new[i] = dev
      BY <1>1, <1>3, <1>6
    <2>6. CASE k < place
      <3>1. j < place
        BY <2>6, <1>1, <1>3, <1>7, <1>6
      <3> QED
        BY <3>1, <2>6, <2>1, <2>5, <1>7
    <2>7. CASE k = place
      BY <2>7, <2>3, <2>5, <1>7
    <2>8. CASE k > place /\ j < place
      <3>1. j < k - 1 \/ j = k - 1
        BY <2>8, <1>1, <1>3, <1>6
      <3>2. \A d : M(d) <= M(d)
        BY <2>2
      <3>3. CASE j = k - 1
        BY <2>8, <3>2, <3>3, <2>5, Zenon
      <3>4. CASE j < k - 1
        BY <2>8, <2>1, <3>4, <2>5, Zenon
      <3> QED
        BY <3>1, <3>3, <3>4
    <2>9. CASE k > place /\ j = place
      <3>1. k - 1 >= place
        BY <2>9, <1>1, <1>3, <1>6
      <3> QED
        BY <3>1, <2>9, <2>4, <2>5, Zenon
    <2>10. CASE k > place /\ j > place
      <3>1. j - 1 < k - 1
        BY <2>10, <1>1, <1>3, <1>7, <1>6
      <3> QED
        BY <3>1, <2>10, <2>1, <2>5, Zenon
    <2> QED
      BY <2>6, <2>7, <2>8, <2>9, <2>10, <1>3, <1>6, <1>1
  <1>8. \A k \in 1..Len(new) : IsDev(new[k])
    <2>1. \A k \in 1..Len(list) : IsDev(list[k])
      BY DEF Ordered
    <2>2. \A k \in 1..Len(new) :
             \/ new[k] = dev
             \/ \E a \in 1..Len(list) : new[k] = list[a]
      BY <1>1, <1>3, <1>6
    <2> QED
      BY <2>1, <2>2, Zenon
  <1>9. new \in Seq(Range(new))
    BY <1>6, OwnElements, Zenon
  <1> QED
    BY <1>4, <1>7, <1>8, <1>9 DEF Ordered, InOrderOfMerit

\* A new device is one, whatever its name and flags.
LEMMA NewDevIsDev ==
    ASSUME NEW name, NEW flags, NEW by
    PROVE  IsDev(NewDev(name, flags, by))
  BY DEF NewDev, IsDev

\* pcapint_find_or_add_dev keeps the order.
LEMMA FindOrAddDevOrdered ==
    ASSUME NEW list, NEW name, NEW flags, NEW by, Ordered(list)
    PROVE  Ordered(FindOrAddDev(list, name, flags, by))
  BY AddDevOrdered, NewDevIsDev, Zenon DEF FindOrAddDev

\* An address more does not change what a device is worth.
LEMMA SameMerit ==
    ASSUME NEW dev, NEW addrs, NEW d, IsDev(dev), d = [dev EXCEPT !.addrs = addrs]
    PROVE  IsDev(d) /\ GetFigureOfMerit(d) = GetFigureOfMerit(dev)
  <1>1. DOMAIN d = DOMAIN dev
    OBVIOUS
  <1>2. d.flags = dev.flags /\ d.name = dev.name
    BY DEF IsDev
  <1> QED
    BY <1>1, <1>2, Zenon DEF IsDev, GetFigureOfMerit

\* pcapint_add_addr_to_dev keeps the order.
LEMMA AddAddrOrdered ==
    ASSUME NEW list, NEW name, NEW addr, Ordered(list)
    PROVE  Ordered(AddAddrToDev(list, name, addr))
  <1>1. PICK place : place = FindDev(list, name)
    OBVIOUS
  <1>2. PICK z : z = Append(list[place].addrs, addr)
    OBVIOUS
  <1>3. PICK new : new = [list EXCEPT ![place] = [list[place] EXCEPT !.addrs = z]]
    OBVIOUS
  <1>4. new = AddAddrToDev(list, name, addr)
    BY <1>1, <1>2, <1>3 DEF AddAddrToDev
  <1>5. PICK changed : changed = [list[place] EXCEPT !.addrs = z]
    OBVIOUS
  <1>6. new = [list EXCEPT ![place] = changed]
    BY <1>3, <1>5, Zenon
  <1>7. list \in Seq(Range(list)) /\ Len(list) \in Nat /\ DOMAIN list = 1..Len(list)
    BY DEF Ordered
  <1>8. /\ new \in Seq(Range(list) \cup {changed}) /\ Len(new) = Len(list)
        /\ \A k \in 1..Len(list) : new[k] = IF k = place THEN changed ELSE list[k]
    <2>1. DOMAIN new = 1..Len(list)
      BY <1>6, <1>7, Zenon
    <2>2. \A k \in 1..Len(list) : new[k] = IF k = place THEN changed ELSE list[k]
      BY <1>6, <1>7
    <2>3. \A k \in 1..Len(list) : list[k] \in Range(list)
      BY <1>7, Zenon DEF Range
    <2>4. \A k \in 1..Len(list) : new[k] \in Range(list) \cup {changed}
      BY <2>2, <2>3, Zenon
    <2>5. new = [k \in 1..Len(list) |-> new[k]]
      BY <1>6, <1>7, <2>1
    <2>6. new \in Seq(Range(list) \cup {changed}) /\ Len(new) = Len(list)
      BY <1>7, <2>4, <2>5, IsASeq
    <2> QED
      BY <2>2, <2>6, Zenon
  <1>9. \A k \in 1..Len(list) :
           IsDev(new[k]) /\ GetFigureOfMerit(new[k]) = GetFigureOfMerit(list[k])
    <2> SUFFICES ASSUME NEW k \in 1..Len(list)
                 PROVE  /\ IsDev(new[k])
                        /\ GetFigureOfMerit(new[k]) = GetFigureOfMerit(list[k])
      OBVIOUS
    <2>1. IsDev(list[k])
      BY Zenon DEF Ordered
    <2>2. CASE k = place
      <3>1. new[k] = [list[k] EXCEPT !.addrs = z]
        BY <2>2, <1>5, <1>8, Zenon
      <3>2. IsDev(new[k]) /\ GetFigureOfMerit(new[k]) = GetFigureOfMerit(list[k])
        BY <3>1, <2>1, SameMerit
      <3> QED
        BY <3>2, Zenon
    <2>3. CASE k # place
      BY <2>1, <2>3, <1>8, Zenon
    <2> QED
      BY <2>2, <2>3, Zenon
  <1>10. InOrderOfMerit(new)
    BY <1>8, <1>9, Zenon DEF Ordered, InOrderOfMerit
  <1>11. new \in Seq(Range(new))
    BY <1>8, OwnElements, Zenon
  <1> QED
    BY <1>4, <1>8, <1>9, <1>10, <1>11, Zenon DEF Ordered

-----------------------------------------------------------------------------
\* The list is in order, unless it is SITA's.
OrderInv == platform # "sita" => Ordered(devlist)

\* Every step keeps it so.
LEMMA OrderStep == OrderInv /\ [DevNext]_devVars => OrderInv'
  <1> SUFFICES ASSUME OrderInv, [DevNext]_devVars, platform' # "sita"
               PROVE  Ordered(devlist)'
    BY Zenon DEF OrderInv
  <1>1. platform' = platform
    BY DEF DevNext, devVars, GetadEntry, GlifcEntry, NpfAdapter, SitaFinds, PlatformEnds,
           SourceAdds, SourceEnds, SourceFails, FindalldevsReturns, Unplug, DevError
  <1>2. Ordered(devlist)
    BY <1>1, Zenon DEF OrderInv
  <1>3. devlist' = devlist => Ordered(devlist)'
    BY <1>2 DEF Ordered
  <1>4. DevError => Ordered(devlist)'
    BY DEF DevError, Ordered, InOrderOfMerit, Range
  <1>5. ASSUME NEW e, NEW f, Adds(e, f)
        PROVE  Ordered(devlist)'
    BY <1>2, <1>5, FindOrAddDevOrdered, AddAddrOrdered, Zenon DEF Adds, AddAddrToIf, Ordered
  <1>6. CASE GetadEntry
    BY <1>3, <1>4, <1>5, <1>6, Zenon DEF GetadEntry
  <1>7. CASE GlifcEntry
    BY <1>3, <1>4, <1>5, <1>7, Zenon DEF GlifcEntry
  <1>8. CASE NpfAdapter
    <2>1. ASSUME NEW e, NEW flags, devlist' = AddIfNpf(devlist, e, flags)
          PROVE  Ordered(devlist)'
      <3>1. PICK x :
               x = Reverse(Addrs(SelectSeq(entries,
                      LAMBDA y : StripAlias(y.name) = StripAlias(e.name))))
        OBVIOUS
      <3>2. PICK dev : dev = NewDev(StripAlias(e.name), flags, platform)
        OBVIOUS
      <3>3. IsDev(dev)
        BY <3>2, NewDevIsDev, Zenon
      <3>4. IsDev([dev EXCEPT !.addrs = x])
        BY <3>3, SameMerit, Zenon
      <3>5. \/ devlist' = devlist
            \/ devlist' = AddDev(devlist, [dev EXCEPT !.addrs = x])
        BY <2>1, <3>1, <3>2 DEF AddIfNpf
      <3> QED
        BY <1>2, <1>3, <3>4, <3>5, AddDevOrdered, Zenon DEF Ordered
    <2> QED
      BY <1>4, <1>8, <2>1, Zenon DEF NpfAdapter
  <1>9. CASE SitaFinds
    BY <1>1, <1>9 DEF SitaFinds, Walking
  <1>10. CASE PlatformEnds
    <2>1. Ordered(PlatformFinddevs)
      BY <1>2, AddDevOrdered, FindOrAddDevOrdered, NewDevIsDev, Zenon
         DEF PlatformFinddevs, AnyDev, FinddevsUsb, AtmUnits, DlpiLinks
    <2> QED
      BY <1>4, <1>10, <2>1, Zenon DEF PlatformEnds, Ordered
  <1>11. CASE SourceAdds
    <2>1. ASSUME NEW type, NEW name
          PROVE  Ordered(AddReported(devlist, type, name))
      BY <1>2, AddDevOrdered, FindOrAddDevOrdered, NewDevIsDev, Zenon DEF AddReported
    <2> QED
      BY <1>11, <2>1, Zenon DEF SourceAdds, Ordered
  <1>12. CASE SourceEnds \/ FindalldevsReturns \/ Unplug \/ UNCHANGED devVars
    BY <1>3, <1>12, Zenon DEF SourceEnds, FindalldevsReturns, Unplug, devVars
  <1>13. CASE SourceFails
    BY <1>4, <1>13, Zenon DEF SourceFails
  <1> QED
    BY <1>6, <1>7, <1>8, <1>9, <1>10, <1>11, <1>12, <1>13, Zenon DEF DevNext

\* The list is in order at every step.
LEMMA OrderInvariant == DevSpec => []OrderInv
  <1>1. DevInit => OrderInv
    <2> SUFFICES ASSUME devlist = <<>>
                 PROVE  Ordered(devlist)
      BY Zenon DEF DevInit, OrderInv
    <2> QED
      BY DEF Ordered, InOrderOfMerit, Range
  <1> QED
    BY <1>1, OrderStep, PTL DEF DevSpec

\* pcap_lookupdev finds a device that no other of the list is better than, and finds
\* one if there is one that is worth having: for all interfaces, addresses and
\* hardware, and whatever is reported in what order (pcapint_add_dev,
\* pcapint_find_or_add_dev, pcapint_add_addr_to_dev, pcap_lookupdev).
THEOREM LookupIsBest == DevSpec => []LookupFindsBest
  <1>1. OrderInv => LookupFindsBest
    <2> SUFFICES ASSUME Ordered(devlist)
                 PROVE  LookupFindsBest
      BY Zenon DEF OrderInv, LookupFindsBest
    <2>1. devlist \in Seq(Range(devlist)) /\ Len(devlist) \in Nat
      BY DEF Ordered
    <2>2. \A d : GetFigureOfMerit(d) \in Nat
      BY Merit
    <2>3. ASSUME NEW k \in 1..Len(devlist)
          PROVE  GetFigureOfMerit(devlist[1]) <= GetFigureOfMerit(devlist[k])
      <3>1. CASE k = 1
        BY <2>2, <3>1
      <3>2. CASE k # 1
        <4>1. 1 \in 1..Len(devlist) /\ 1 < k
          BY <2>1, <3>2
        <4> QED
          BY <4>1, Zenon DEF Ordered, InOrderOfMerit
      <3> QED
        BY <3>1, <3>2
    <2>4. \A d \in Range(Lookupdev) : d = devlist[1]
      BY DEF Lookupdev, Range
    <2>5. ASSUME NEW k \in 1..Len(devlist), GetFigureOfMerit(devlist[k]) < 2
          PROVE  Lookupdev = <<devlist[1]>> /\ GetFigureOfMerit(devlist[1]) < 2
      <3>1. GetFigureOfMerit(devlist[1]) < 2
        <4> DEFINE a == GetFigureOfMerit(devlist[1])
                   b == GetFigureOfMerit(devlist[k])
        <4>1. a \in Nat /\ b \in Nat /\ a <= b /\ b < 2
          BY <2>2, <2>3, <2>5, Zenon
        <4> HIDE DEF a, b
        <4>2. a < 2
          BY <4>1
        <4> QED
          BY <4>2 DEF a
      <3>2. ~devlist[1].flags.loop
        BY <3>1, Merit, Zenon
      <3>3. devlist # <<>>
        BY <2>1
      <3> QED
        BY <3>1, <3>2, <3>3, Zenon DEF Lookupdev
    <2>6. ASSUME NEW x, Lookupdev = <<x>>
          PROVE  Lookupdev # <<>> /\ Lookupdev[1] = x
      BY <2>6
    <2>7. \A d \in Range(Lookupdev), k \in 1..Len(devlist) :
             GetFigureOfMerit(d) <= GetFigureOfMerit(devlist[k])
      BY <2>3, <2>4, Zenon
    <2>8. (\E k \in 1..Len(devlist) : GetFigureOfMerit(devlist[k]) < 2)
             => Lookupdev # <<>> /\ GetFigureOfMerit(Lookupdev[1]) < 2
      <3> SUFFICES ASSUME NEW k \in 1..Len(devlist), GetFigureOfMerit(devlist[k]) < 2
                   PROVE  Lookupdev # <<>> /\ GetFigureOfMerit(Lookupdev[1]) < 2
        OBVIOUS
      <3>1. Lookupdev = <<devlist[1]>> /\ GetFigureOfMerit(devlist[1]) < 2
        BY <2>5
      <3>2. Lookupdev # <<>> /\ Lookupdev[1] = devlist[1]
        BY <2>6, <3>1
      <3> QED
        BY <3>1, <3>2, Zenon
    <2> QED
      BY <2>7, <2>8, Zenon DEF LookupFindsBest
  <1> QED
    BY <1>1, OrderInvariant, PTL

-----------------------------------------------------------------------------
(* The ring of a Linux device.                                              *)

Places == {"version", "frame", "block", "ask", "asked", "fill", "ready", "failed"}

TypeOK ==
    /\ req \in Requests
    /\ at \in Places
    /\ version \in Nat
    /\ tp_frame_size \in Nat /\ tp_frame_nr \in Nat
    /\ tp_block_size \in Nat /\ tp_block_nr \in Nat
    /\ mmapbuflen \in Nat /\ cc \in Nat /\ offset \in Nat

Sized == {"block", "ask", "asked", "fill", "ready", "failed"}

\* From the place where they are computed on, a frame holds the packet, a block
\* holds a frame, the ring is whole blocks, and the mapping is the ring.
SizeInv ==
    /\ at \in {"frame"} \cup Sized => version \in {2, 3}
    /\ at \in Sized =>
          /\ tp_frame_size > 0
          /\ version = 2 => tp_frame_size >= MacOff(req) + FrameLen(req)
    /\ at \in Sized \ {"block"} => tp_block_size >= tp_frame_size
    /\ at \in {"asked", "fill", "ready"} =>
          tp_frame_nr = tp_block_nr * frames_per_block
    /\ at \in {"fill", "ready"} =>
          /\ mmapbuflen = tp_block_nr * tp_block_size
          /\ mmapbuflen > 0
          /\ cc = tp_frame_nr
    /\ at = "ready" => offset = tp_block_nr * frames_per_block

IInv == TypeOK /\ SizeInv

-----------------------------------------------------------------------------
(* Arithmetic.                                                              *)

\* Dividing by a positive number.
LEMMA Quotient ==
    ASSUME NEW a \in Nat, NEW b \in Nat, b > 0
    PROVE  /\ a \div b \in Nat
           /\ (a \div b) * b <= a
           /\ a < ((a \div b) + 1) * b
  OBVIOUS

\* A larger factor makes a larger product.
LEMMA ProductGrows ==
    ASSUME NEW a \in Nat, NEW b \in Nat, NEW k \in Nat, a <= b
    PROVE  a * k <= b * k /\ a * k \in Nat /\ b * k \in Nat
  OBVIOUS

\* TPACKET_ALIGN only rounds up.
LEMMA AlignGrows ==
    ASSUME NEW x \in Nat
    PROVE  TPACKET_ALIGN(x) \in Nat /\ TPACKET_ALIGN(x) >= x
  BY DEF TPACKET_ALIGN

\* A block that is at least as long as a frame holds one.
LEMMA BlockHoldsOne ==
    ASSUME NEW b \in Nat, NEW f \in Nat, f > 0, b >= f
    PROVE  b \div f \in Nat /\ b \div f >= 1 /\ (b \div f) * f <= b
  <1>1. /\ b \div f \in Nat
        /\ (b \div f) * f <= b
        /\ b < ((b \div f) + 1) * f
    BY Quotient
  <1>2. b \div f # 0
    BY <1>1
  <1> QED
    BY <1>1, <1>2

\* The frames of a block end before it does, and the blocks before the ring.
LEMMA FrameEnds ==
    ASSUME NEW n \in Nat, NEW b \in Nat, NEW f \in Nat, f > 0, b >= f,
           NEW i \in 0..(n - 1), NEW j \in 0..((b \div f) - 1)
    PROVE  i * b + j * f + f <= n * b
  <1> DEFINE p == b \div f
  <1>1. p \in Nat /\ p * f <= b
    BY BlockHoldsOne
  <1>2. i \in Nat /\ j \in Nat /\ i + 1 <= n /\ j + 1 <= p
    BY <1>1
  <1> HIDE DEF p
  <1>3. (j + 1) * f <= p * f
    BY <1>1, <1>2, ProductGrows
  <1>4. (i + 1) * b <= n * b
    BY <1>2, ProductGrows
  <1>5. (j + 1) * f = j * f + f /\ (i + 1) * b = i * b + b
    BY <1>2
  <1>6. j * f \in Nat /\ i * b \in Nat /\ p * f \in Nat /\ n * b \in Nat
    BY <1>1, <1>2
  <1> QED
    BY <1>1, <1>3, <1>4, <1>5, <1>6

-----------------------------------------------------------------------------
(* The sizes computed from a request.                                       *)

\* The offset and the length of a packet in a V2 frame are numbers, and the
\* kernel's header comes before the packet.
LEMMA PacketPlace ==
    ASSUME NEW r \in Requests
    PROVE  MacOff(r) \in Nat /\ MacOff(r) > 0 /\ FrameLen(r) \in Nat
  <1>1. r.snapshot \in Nat /\ r.mtu \in Nat
    BY SizeAssumption
  <1>2. FrameLen(r) \in Nat
    BY <1>1 DEF FrameLen, Smaller, Larger
  <1>3. CASE r.cooked
    BY <1>2, <1>3 DEF MacOff, TPACKET_ALIGN, Larger, VLAN_TAG_LEN, SLL2_HDR_LEN,
       MAX_LINKHEADER_SIZE, Tpacket2HdrLen, SockaddrLlLen
  <1>4. CASE ~r.cooked
    BY <1>2, <1>4 DEF MacOff, TPACKET_ALIGN, Larger, VLAN_TAG_LEN, SLL2_HDR_LEN,
       MAX_LINKHEADER_SIZE, Tpacket2HdrLen, SockaddrLlLen
  <1> QED
    BY <1>3, <1>4

\* The number of frames asked for is a number.
LEMMA FramesCounted ==
    ASSUME NEW r \in Requests, NEW f \in Nat, f > 0
    PROVE  FramesFor(BufferSize(r), f) \in Nat
  <1>1. BufferSize(r) \in Nat
    BY SizeAssumption DEF BufferSize, DefaultBufferSize
  <1>2. BufferSize(r) + f - 1 \in Nat
    BY <1>1
  <1> QED
    BY <1>2, Quotient DEF FramesFor

-----------------------------------------------------------------------------
\* Initially nothing is computed.
LEMMA InitIInv == Init => IInv
  BY DEF Init, IInv, TypeOK, SizeInv, Places, Sized

\* Every step of setup_mmapped and create_ring keeps the sizes in proportion.
LEMMA NextIInv == IInv /\ [Next]_vars => IInv'
  <1> SUFFICES ASSUME IInv, [Next]_vars
               PROVE  IInv'
    OBVIOUS
  <1> USE DEF IInv, TypeOK, Places, Sized
  <1>1. CASE PrepareTpacketSocket
    BY <1>1 DEF PrepareTpacketSocket, SizeInv, sizes, frames_per_block
  <1>2. CASE FrameSize
    <2>1. MacOff(req) \in Nat /\ MacOff(req) > 0 /\ FrameLen(req) \in Nat
      BY PacketPlace
    <2>2. /\ tp_frame_size' \in Nat
          /\ tp_frame_size' > 0
          /\ version = 2 => tp_frame_size' >= MacOff(req) + FrameLen(req)
      BY <1>2, <2>1, AlignGrows DEF FrameSize, MAXIMUM_SNAPLEN
    <2>3. tp_frame_nr' \in Nat
      BY <1>2, <2>2, FramesCounted DEF FrameSize
    <2> QED
      BY <1>2, <2>2, <2>3, SizeAssumption DEF FrameSize, SizeInv
  <1>3. CASE BlockSize
    BY <1>3 DEF BlockSize, SizeInv
  <1>4. CASE Ask
    <2>1. frames_per_block \in Nat /\ frames_per_block > 0
      BY <1>4, BlockHoldsOne DEF Ask, SizeInv, frames_per_block
    <2>2. tp_block_nr' \in Nat /\ tp_frame_nr' \in Nat
      BY <1>4, <2>1, Quotient, ProductGrows DEF Ask
    <2>3. frames_per_block' = frames_per_block
      BY <1>4 DEF Ask, frames_per_block
    <2> QED
      BY <1>4, <2>2, <2>3 DEF Ask, SizeInv
  <1>5. CASE NoMemory
    <2>1. CASE tp_block_nr > 1 /\ tp_frame_nr' = Shrink(tp_frame_nr) /\ at' = "ask"
      <3>1. frames_per_block \in Nat /\ frames_per_block > 0
        BY <1>5, BlockHoldsOne DEF NoMemory, SizeInv, frames_per_block
      <3>2. tp_frame_nr > 0
        BY <1>5, <2>1, <3>1 DEF NoMemory, SizeInv
      <3>3. tp_frame_nr' \in Nat
        BY <2>1, <3>2 DEF Shrink
      <3> QED
        BY <1>5, <2>1, <3>3 DEF NoMemory, SizeInv
    <2>2. CASE at' = "failed" /\ UNCHANGED tp_frame_nr
      BY <1>5, <2>2 DEF NoMemory, SizeInv
    <2> QED
      BY <1>5, <2>1, <2>2 DEF NoMemory
  <1>6. CASE Granted
    <2>1. mmapbuflen' \in Nat
      BY <1>6, ProductGrows DEF Granted
    <2>2. frames_per_block' = frames_per_block
      BY <1>6 DEF Granted, sizes, frames_per_block
    <2> QED
      BY <1>6, <2>1, <2>2 DEF Granted, SizeInv, sizes
  <1>7. CASE Fill
    <2>1. frames_per_block \in Nat /\ frames_per_block' = frames_per_block
      BY <1>7, BlockHoldsOne DEF Fill, SizeInv, sizes, frames_per_block
    <2>2. offset' \in Nat
      BY <1>7, <2>1, ProductGrows DEF Fill
    <2> QED
      BY <1>7, <2>1, <2>2 DEF Fill, SizeInv, sizes
  <1>8. CASE UNCHANGED vars
    BY <1>8 DEF vars, SizeInv, frames_per_block
  <1> QED
    BY <1>1, <1>2, <1>3, <1>4, <1>5, <1>6, <1>7, <1>8 DEF Next, Step, Done

\* In proportion, every frame is inside the mapping and holds its packet.
LEMMA IInvFits == IInv => RingFits
  <1> SUFFICES ASSUME IInv, at = "ready"
               PROVE  RingFits
    BY DEF RingFits, FramesInsideMapping, FrameHoldsPacket
  <1> USE DEF IInv, TypeOK, SizeInv, Places, Sized
  <1>1. tp_frame_size > 0 /\ tp_block_size >= tp_frame_size
    OBVIOUS
  <1>2. frames_per_block \in Nat /\ frames_per_block >= 1
    BY <1>1, BlockHoldsOne DEF frames_per_block
  <1>3. tp_block_nr > 0
    OBVIOUS
  <1>4. offset = cc /\ cc > 0
    BY <1>2, <1>3
  <1>5. \A i \in 0..(tp_block_nr - 1), j \in 0..(frames_per_block - 1) :
           i * tp_block_size + j * tp_frame_size + tp_frame_size <= mmapbuflen
    BY <1>1, FrameEnds DEF frames_per_block
  <1>6. version = 2 => tp_frame_size - MacOff(req) >= FrameLen(req)
    BY PacketPlace
  <1> QED
    BY <1>4, <1>5, <1>6 DEF RingFits, FramesInsideMapping, FrameHoldsPacket

\* Whatever was asked for and however often memory was short, every address in
\* the table of frames is inside the mapping, the table is as long as what is
\* written to it, and a V2 frame has room for the packet it was sized for.
THEOREM RingAlwaysFits == Spec => []RingFits
  BY InitIInv, NextIInv, IInvFits, PTL DEF Spec

\* A retry asks for fewer frames than the request the kernel refused.
RetrySmaller ==
    at \in {"ask", "asked"} =>
       /\ tp_frame_nr' <= tp_frame_nr
       /\ at = "asked" /\ at' = "ask" => tp_frame_nr' < tp_frame_nr

\* One step.
LEMMA StepSmaller == IInv /\ [Next]_vars => RetrySmaller
  <1> SUFFICES ASSUME IInv, [Next]_vars, at \in {"ask", "asked"}
               PROVE  RetrySmaller
    BY DEF RetrySmaller
  <1> USE DEF IInv, TypeOK, Places, Sized
  <1>1. frames_per_block \in Nat /\ frames_per_block > 0
    BY BlockHoldsOne DEF SizeInv, frames_per_block
  <1>2. CASE Ask
    BY <1>1, <1>2, Quotient DEF Ask, RetrySmaller
  <1>3. CASE NoMemory
    <2>1. tp_block_nr > 1 => tp_frame_nr > 0
      BY <1>1, <1>3 DEF NoMemory, SizeInv
    <2> QED
      BY <1>3, <2>1 DEF NoMemory, Shrink, RetrySmaller
  <1>4. CASE Granted \/ UNCHANGED vars
    BY <1>4 DEF Granted, sizes, vars, RetrySmaller
  <1> QED
    BY <1>2, <1>3, <1>4 DEF Next, Step, Done, PrepareTpacketSocket, FrameSize,
       BlockSize, Fill

\* The loop of retries cannot go on for ever: each of them asks for strictly fewer
\* frames than the one before, also where 5% of the frames is less than one.
THEOREM RetriesShrink == Spec => [][RetrySmaller]_vars
  <1>1. IInv /\ [Next]_vars => [RetrySmaller]_vars
    BY StepSmaller
  <1> QED
    BY <1>1, InitIInv, NextIInv, PTL DEF Spec
=============================================================================
