----------------------------- MODULE MCOpening -----------------------------
(* A wireless interface with an alias, a wired one that is a card too, and   *)
(* the loopback.  One or two cards of every source.                          *)
EXTENDS Opening

MCInterface(name, rank, running, loop, wifi, link) ==
    [name |-> name, rank |-> rank, up |-> TRUE, running |-> running, loop |-> loop,
     wifi |-> wifi, link |-> link]

Eth == Name("eth", 0, None)
Lo == Name("lo", None, None)
Myri == Name("myri", 0, None)

MCInterfaces ==
    {MCInterface(Eth, 2, TRUE, FALSE, TRUE, "up"),
     MCInterface(Lo, 3, TRUE, TRUE, FALSE, "none"),
     MCInterface(Myri, 4, TRUE, FALSE, FALSE, "down")}


MCEntries ==
    {[name |-> Eth, addr |-> "a4"], [name |-> [Eth EXCEPT !.sub = 1], addr |-> "b4"],
     [name |-> Lo, addr |-> "l4"], [name |-> Myri, addr |-> "none"]}

Card(type, name) == [type |-> type, name |-> name]
MCCards ==
    {Card("dag", Name("dag", 0, None)), Card("dag", Name("dag", 0, 0)),
     Card("snf", Myri), Card("snf", Name("snf", 1, None)), Card("tc", Name("tc", 0, None)),
     Card("bt", Name("bluetooth", 0, None)), Card("usb", Name("usbmon", 0, None)),
     Card("usb", Name("usbmon", 1, None)), Card("rdma", Name("mlx5_", 0, None)),
     Card("dpdk", Name("dpdk:", 0, None)), Card("airpcap", Name("airpcap", 0, None))}

MCGivenNames == {Name("vale", 0, None), Plain("netmap:"), Name("dag", 0, 2)}
=============================================================================
