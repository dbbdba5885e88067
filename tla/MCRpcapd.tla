------------------------------ MODULE MCRpcapd ------------------------------
(* The daemon, its main program and one service loop with a client that    *)
(* follows no protocol, for TLC.                                           *)
EXTENDS Server
=============================================================================
