------------------------------ MODULE Opening ------------------------------
(***************************************************************************)
(* From the list of devices to a closed handle: pcap_findalldevs, then     *)
(* pcap_create of a name that was listed or that the user knows, then the  *)
(* life of the handle of the source that took the name.                    *)
(***************************************************************************)
EXTENDS Lifecycle, Devices

CONSTANT GivenNames     \* names no source lists: netmap ports, D-Bus addresses

openVars == <<vars, devVars>>

OpenInit ==
    /\ DevInit
    /\ kind = "none" /\ opt = {} /\ at = "none" /\ i = 1
    /\ held = {} /\ refs = {} /\ own = FALSE /\ stray = {}

Discovers == DevNext /\ UNCHANGED vars

\* pcap_create, of a name of the list or of the user's; the list is freed.  The
\* handles of Linux interfaces are PcapHandle's.
PcapCreate ==
    /\ at = "none" /\ found = "done"
    /\ \E n \in {devlist[k].name : k \in 1..Len(devlist)} \cup GivenNames :
          /\ kind' = OpenedBy(n, plugged)
          /\ kind' \in Kinds
          /\ opt' \in Options(kind')
    /\ at' = "created"
    /\ held' = Created(kind')
    /\ refs' = Created(kind') \cup (IF kind' = "haiku" THEN {"orig_unset"} ELSE {})
    /\ devlist' = <<>> /\ entries' = <<>> /\ found' = "freed"
    /\ UNCHANGED <<i, own, stray, platform, todo, source, cards, plugged>>

Handles == at # "none" /\ Next /\ UNCHANGED devVars

OpenNext == Discovers \/ PcapCreate \/ Handles

OpenSpec == OpenInit /\ [][OpenNext]_openVars
=============================================================================
