------------------------------ MODULE MCRpcap -------------------------------
(* libpcap's client with the daemon, for TLC. *)
EXTENDS Rpcap
=============================================================================
