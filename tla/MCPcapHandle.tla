---------------------------- MODULE MCPcapHandle ----------------------------
(* Small instances of PcapHandle for TLC. *)
EXTENDS PcapHandle

Opt(r, p, n) == [rfmon |-> r, promisc |-> p, nonblock |-> n]

\* Monitor mode asked for or not, blocking or not.
MonitorOptions == {Opt(r, FALSE, n) : r \in BOOLEAN, n \in BOOLEAN}

\* Every call may fail, except after two failures that leave something behind:
\* the list of link-layer types of the "any" device (its socket), and giving up
\* between monitor mode and the end of setup_socket (the monitor interface).
Calls == {"device", "socket", "add_mon", "atexit", "mon_up", "event", "oneshot",
          "version", "ring", "bind", "fcntl"}
LinkCalls == {"link", "cooked", "options"}

SomeFaults == ({"any", "wifi", "wired"} \X Calls) \cup ({"any", "wired"} \X LinkCalls)

=============================================================================
