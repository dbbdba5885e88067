------------------------------- MODULE Rpcap --------------------------------
(***************************************************************************)
(* libpcap's client of remote capture, pcap-rpcap.c, composed with the     *)
(* daemon of module Rpcapd: pcap_open, the start of the capture on the     *)
(* first read, reads, pcap_setfilter, pcap_stats and pcap_close, in        *)
(* passive mode (the client connects, one pcap_t per control connection)   *)
(* and in active mode (the daemon connects, the control connection is kept *)
(* in activeHosts and serves one pcap_t after the other).                  *)
(*                                                                         *)
(* The client's descriptors are numbers that the kernel reuses, and the    *)
(* application opens files of its own at any time.                         *)
(***************************************************************************)
EXTENDS Rpcapd

CONSTANTS
    MaxFd,      \* client descriptors 1..MaxFd
    NoCapture   \* whether PCAP_OPENFLAG_NOCAPTURE_RPCAP is given to pcap_open

ASSUME RpcapAssumption == MaxFd \in Nat /\ NoCapture \subseteq BOOLEAN

VARIABLES
    c,      \* the pcap_t, its private structure and the call in progress
    cfds,   \* the descriptors open in the client
    files   \* those among them that the application opened itself

client == <<c, cfds, files>>
allvars == <<vars, client>>

-----------------------------------------------------------------------------
NoFd == 0

\* Where the client is.  Those of Waiting sent a request and read the answer.
Waiting == {"auth", "opening", "starting", "filtering", "asking", "ending"}
ClientPlaces == Waiting \cup {"none", "idle", "opened", "running", "failed", "done",
                            "crashed"}

\* The kernel gives out the lowest number that is free, if there is one.
IsLowest(fd) == fd \notin cfds /\ \A g \in 1..(fd - 1) : g \in cfds
HaveFd == \E fd \in 1..MaxFd : IsLowest(fd)
NewFd == CHOOSE fd \in 1..MaxFd : IsLowest(fd)

\* sock_send of a request on the control connection.
Asks(type, ok) ==
    /\ sent' = sent + 1
    /\ toD' = Append(toD, [type |-> type, id |-> sent + 1, ok |-> ok])

\* The bound on requests; n of them are kept for what the call must still send.
MaySend(n) == sent + n <= MaxReq

\* rpcap_process_msg_header: the answer, if it is one to this request.
Gets == toC # <<>> /\ toC' = Tail(toC)
Good(type) == Head(toC).type = type /\ ~Head(toC).err

\* The daemon closed the control connection: the read of the header fails.
HungUp == toC = <<>> /\ d.pc = "gone" /\ toC' = toC

\* The answer is the reply the call waits for; or it is anything else.
Succeeds(type) == Gets /\ Good(type)
Fails(type) == (Gets /\ ~Good(type)) \/ HungUp

\* sock_close by number, whatever has the number now; and what closing the control
\* or the data connection does to the other end.
Closes(fds) == cfds' = cfds \ fds /\ files' = files \ fds
CtlClosed == ctl' = "closed"
DataClosed(k) == cdata' = [cdata EXCEPT ![k] = IF @ = "up" THEN "closed" ELSE @]

Fresh == [pc |-> "none", req |-> "none", rmt_sockctrl |-> NoFd, rmt_sockdata |-> NoFd,
          listen |-> NoFd, sess |-> NoSession, TotCapt |-> 0]

-----------------------------------------------------------------------------
(* Control connection and authentication. *)

\* rpcap_setup_session connects, or pcap_remoteact_accept accepts, and
\* rpcap_doauth sends the credentials.
Connect ==
    /\ c.pc = "none" /\ HaveFd /\ MaySend(2)
    /\ \E ok \in BOOLEAN : Asks("AUTH", ok)
    /\ c' = [c EXCEPT !.pc = "auth", !.rmt_sockctrl = NewFd]
    /\ cfds' = cfds \cup {NewFd}
    /\ UNCHANGED <<toC, ctl, d, s, t, data, cdata, files>>

\* A passive client goes on to open the device; an active one has its entry in
\* activeHosts.
Authenticated ==
    /\ c.pc = "auth" /\ Succeeds("AUTH")
    /\ IF d.active
       THEN c' = [c EXCEPT !.pc = "idle"] /\ UNCHANGED <<toD, sent>>
       ELSE c' = [c EXCEPT !.pc = "opening"] /\ \E ok \in BOOLEAN : Asks("OPEN", ok)
    /\ UNCHANGED <<ctl, d, s, t, data, cdata, cfds, files>>

\* The control connection is closed and nothing is left of the attempt.
Rejected ==
    /\ \/ c.pc = "auth" /\ Fails("AUTH")
       \/ c.pc = "opening" /\ ~d.active /\ Fails("OPEN")
    /\ CtlClosed
    /\ c' = [Fresh EXCEPT !.pc = "done"]
    /\ Closes({c.rmt_sockctrl})
    /\ UNCHANGED <<toD, sent, d, s, t, data, cdata>>

\* pcap_open on a host of activeHosts.
OpenActive ==
    /\ c.pc = "idle" /\ MaySend(2)
    /\ \E ok \in BOOLEAN : Asks("OPEN", ok)
    /\ c' = [c EXCEPT !.pc = "opening"]
    /\ UNCHANGED <<toC, ctl, d, s, t, data, cdata, cfds, files>>

OpenRefused ==
    /\ c.pc = "opening" /\ d.active /\ Fails("OPEN")
    /\ c' = [c EXCEPT !.pc = "idle"]
    /\ UNCHANGED <<toD, sent, ctl, d, s, t, data, cdata, cfds, files>>

OpenDone ==
    /\ c.pc = "opening" /\ Succeeds("OPEN")
    /\ c' = [c EXCEPT !.pc = "opened", !.TotCapt = 0]
    /\ UNCHANGED <<toD, sent, ctl, d, s, t, data, cdata, cfds, files>>

\* pcap_remoteact_close: the control connection is closed with a message.
RemoteClose ==
    /\ c.pc = "idle"
    /\ toD' = Append(toD, [type |-> "CLOSE", id |-> 0, ok |-> TRUE])
    /\ CtlClosed
    /\ c' = [Fresh EXCEPT !.pc = "done"]
    /\ Closes({c.rmt_sockctrl})
    /\ UNCHANGED <<toC, sent, d, s, t, data, cdata>>

-----------------------------------------------------------------------------
(* pcap_startcapture_remote, called by the first read. *)

\* In active mode the client listens on a data port before it asks.
Start ==
    /\ c.pc = "opened" /\ MaySend(3)
    /\ d.active => HaveFd
    /\ \E ok \in BOOLEAN : Asks("STARTCAP", ok)
    /\ c' = [c EXCEPT !.pc = "starting", !.listen = IF d.active THEN NewFd ELSE NoFd]
    /\ cfds' = IF d.active THEN cfds \cup {NewFd} ELSE cfds
    /\ UNCHANGED <<toC, ctl, d, s, t, data, cdata, files>>

\* The data connections that connect() or accept() finds.
Reachable == {k \in Slots : IF d.active THEN cdata[k] = "up" ELSE s[k].sock = "listen"}

\* error_nodiscard: the data socket is closed, and in passive mode the control
\* socket; rmt_sockctrl, and rmt_sockdata once it was set, keep their numbers.
Aborts(fd) ==
    /\ Closes({fd} \cup (IF d.active THEN {} ELSE {c.rmt_sockctrl}))
    /\ ctl' = IF d.active THEN ctl ELSE "closed"

\* The daemon refuses, or the data connection cannot be made: nothing was saved.
StartRefused ==
    /\ c.pc = "starting"
    /\ \/ Fails("STARTCAP")
       \/ Succeeds("STARTCAP") /\ (Reachable = {} \/ MayFail("connect"))
    /\ Aborts(c.listen)
    /\ c' = [c EXCEPT !.pc = "failed", !.listen = NoFd]
    /\ cdata' = [k \in Slots |-> IF cdata[k] = "up" THEN "closed" ELSE cdata[k]]
    /\ UNCHANGED <<toD, sent, d, s, t, data>>

\* The data connection is there: its descriptor (the accepted one replaces the
\* listening one) is saved, and the packet buffer allocated.  With the flag the
\* capture starts with a new filter.
StartDone ==
    /\ c.pc = "starting" /\ Succeeds("STARTCAP") /\ HaveFd
    /\ \E k \in Reachable : LET fd == NewFd IN
       \/ /\ \E flag \in NoCapture :
             /\ c' = [c EXCEPT !.pc = IF flag THEN "filtering" ELSE "running",
                               !.rmt_sockdata = fd, !.listen = NoFd, !.sess = k]
             /\ IF flag THEN Asks("UPDATEFILTER", TRUE) ELSE UNCHANGED <<toD, sent>>
          /\ cfds' = (cfds \ {c.listen}) \cup {fd} /\ files' = files \ {c.listen}
          /\ cdata' = [cdata EXCEPT ![k] = "up"]
          /\ ctl' = ctl
       \/ /\ MayFail("buffer")
          /\ c' = [c EXCEPT !.pc = "failed", !.rmt_sockdata = fd, !.listen = NoFd]
          /\ Aborts(c.listen)
          /\ cdata' = [cdata EXCEPT ![k] = "closed"]
          /\ UNCHANGED <<toD, sent>>
    /\ UNCHANGED <<d, s, t, data>>

\* The filter that keeps rpcap's own packets out.
FilterDone ==
    /\ c.pc = "filtering"
    /\ \/ /\ Succeeds("UPDATEFILTER")
          /\ c' = [c EXCEPT !.pc = "running"]
          /\ UNCHANGED <<cfds, files, ctl, cdata>>
       \/ /\ Fails("UPDATEFILTER")
          /\ c' = [c EXCEPT !.pc = "failed", !.sess = NoSession]
          /\ Aborts(c.rmt_sockdata)
          /\ DataClosed(c.sess)
    /\ UNCHANGED <<toD, sent, d, s, t, data>>

-----------------------------------------------------------------------------
(* The running capture. *)

\* A mutant: a message is dropped without being counted.
ReadDrops ==
    /\ c.pc = "running" /\ data[c.sess] # <<>>
    /\ data' = [data EXCEPT ![c.sess] = Tail(@)]
    /\ UNCHANGED <<Wire, d, s, t, cdata, client>>

\* pcap_read_nocb_remote on a TCP connection: one message of plen octets.
Read ==
    /\ c.pc = "running" /\ data[c.sess] # <<>>
    /\ LET m == Head(data[c.sess]) IN
       c' = IF m.caplen > m.plen THEN [c EXCEPT !.pc = "failed"]
                                 ELSE [c EXCEPT !.TotCapt = @ + 1]
    /\ data' = [data EXCEPT ![c.sess] = Tail(@)]
    /\ UNCHANGED <<Wire, d, s, t, cdata, cfds, files>>

\* The daemon closed the data connection.
ReadEof ==
    /\ c.pc = "running" /\ data[c.sess] = <<>> /\ ~s[c.sess].live
    /\ c' = [c EXCEPT !.pc = "failed"]
    /\ UNCHANGED <<vars, cfds, files>>

\* pcap_setfilter and pcap_stats while the capture runs.
Ask ==
    /\ c.pc = "running" /\ MaySend(2)
    /\ \E type \in {"UPDATEFILTER", "STATS"} :
         /\ \E ok \in (IF type \in Carriers THEN BOOLEAN ELSE {TRUE}) : Asks(type, ok)
         /\ c' = [c EXCEPT !.pc = "asking", !.req = type]
    /\ UNCHANGED <<toC, ctl, d, s, t, data, cdata, cfds, files>>

Told ==
    /\ c.pc = "asking" /\ (Succeeds(c.req) \/ Fails(c.req))
    /\ c' = [c EXCEPT !.pc = "running", !.req = "none"]
    /\ UNCHANGED <<toD, sent, ctl, d, s, t, data, cdata, cfds, files>>

-----------------------------------------------------------------------------
(* pcap_close: pcap_cleanup_rpcap. *)

Closable == {"opened", "running", "failed"}

\* Passive mode: a message if the control connection still is one, and both
\* descriptors are closed by number.
ClosePassive ==
    /\ ~d.active /\ c.pc \in Closable
    /\ toD' = IF ctl = "up" THEN Append(toD, [type |-> "CLOSE", id |-> 0, ok |-> TRUE]) ELSE toD
    /\ Closes({c.rmt_sockdata, c.rmt_sockctrl})
    /\ CtlClosed
    /\ cdata' = IF c.sess = NoSession THEN cdata ELSE [cdata EXCEPT ![c.sess] = "closed"]
    /\ c' = [Fresh EXCEPT !.pc = "done"]
    /\ UNCHANGED <<toC, sent, d, s, t, data>>

\* Active mode: the capture is ended, the control connection kept.
CloseActive ==
    /\ d.active /\ c.pc \in Closable
    /\ Asks("ENDCAP", TRUE)
    /\ c' = [c EXCEPT !.pc = "ending"]
    /\ UNCHANGED <<toC, ctl, d, s, t, data, cdata, cfds, files>>

\* A mutant: the control connection, kept for the next handle, is closed as well.
CloseAnsweredAll ==
    /\ c.pc = "ending" /\ (Gets \/ HungUp)
    /\ c' = [Fresh EXCEPT !.pc = "idle", !.rmt_sockctrl = c.rmt_sockctrl]
    /\ Closes({c.rmt_sockdata, c.rmt_sockctrl})
    /\ ctl' = ctl
    /\ cdata' = IF c.sess = NoSession THEN cdata ELSE [cdata EXCEPT ![c.sess] = "closed"]
    /\ UNCHANGED <<toD, sent, d, s, t, data>>

\* rpcap_process_msg_header is called without an error buffer, and rpcap_msg_err
\* stores the text of an error message in it.
CloseAnswered ==
    /\ c.pc = "ending"
    /\ \/ /\ Gets /\ Head(toC).err
          /\ c' = [Fresh EXCEPT !.pc = "crashed"]
          /\ cfds' = {} /\ files' = {}
          /\ CtlClosed
          /\ cdata' = [k \in Slots |-> IF cdata[k] = "up" THEN "closed" ELSE cdata[k]]
       \/ /\ (Gets /\ ~Head(toC).err) \/ HungUp
          /\ c' = [Fresh EXCEPT !.pc = "idle", !.rmt_sockctrl = c.rmt_sockctrl]
          /\ Closes({c.rmt_sockdata})
          /\ ctl' = ctl
          /\ cdata' = IF c.sess = NoSession THEN cdata ELSE [cdata EXCEPT ![c.sess] = "closed"]
    /\ UNCHANGED <<toD, sent, d, s, t, data>>

\* The application opens a file of its own.
OpenFile ==
    /\ HaveFd /\ c.pc \notin {"done", "crashed"}
    /\ files' = files \cup {NewFd} /\ cfds' = cfds \cup {NewFd}
    /\ UNCHANGED <<vars, c>>

-----------------------------------------------------------------------------
Client ==
    \/ Connect \/ Authenticated \/ Rejected \/ OpenActive \/ OpenRefused \/ OpenDone
    \/ RemoteClose \/ Start \/ StartRefused \/ StartDone \/ FilterDone
    \/ Read \/ ReadEof \/ Ask \/ Told
    \/ ClosePassive \/ CloseActive \/ CloseAnswered

SessionInit ==
    /\ DaemonInit
    /\ c = Fresh /\ cfds = {} /\ files = {}

SessionNext == Client \/ OpenFile \/ (Daemon /\ UNCHANGED client)

\* What a call in progress does next; a call in progress comes to its end.
Proceed ==
    \/ Authenticated \/ Rejected \/ OpenRefused \/ OpenDone
    \/ StartRefused \/ StartDone \/ FilterDone \/ Told \/ CloseAnswered

\* The daemon's threads and the client's call in progress are scheduled; the
\* application is not obliged to call anything.
SessionFairness ==
    /\ WF_allvars(DaemonMain /\ UNCHANGED client)
    /\ \A k \in Slots : WF_allvars(ThreadRuns(k) /\ UNCHANGED client)
    /\ WF_allvars(Proceed)

SessionSpec == SessionInit /\ [][SessionNext]_allvars
LiveSession == SessionSpec /\ SessionFairness

-----------------------------------------------------------------------------
ClientTypeOK ==
    /\ TypeOK
    /\ cfds \subseteq 1..MaxFd /\ files \subseteq 1..MaxFd
    /\ c \in [pc : ClientPlaces, req : MsgTypes \cup {"none"},
              rmt_sockctrl : 0..MaxFd, rmt_sockdata : 0..MaxFd, listen : 0..MaxFd,
              sess : Slots \cup {NoSession}, TotCapt : Nat]

\* The answer that waits for a call is the answer to that call's request, and not
\* one to an earlier request (or the farewell of a daemon that timed out); unless a
\* start failed late, whose second answer puts all that follow out of step.
ReplyIsMine ==
    c.pc \in Waiting /\ toC # <<>> /\ ~d.late =>
        Head(toC).id = sent \/ Head(toC).type = "TIMEOUT"

\* The client and the daemon keep in step on the control connection, and what each
\* of them holds keeps its type.
InStep == ClientTypeOK /\ ReplyIsMine

\* Every packet the daemon counted in TotCapt has been delivered, waits in the
\* data connection or is about to be sent; they arrive in order, and the read takes
\* none of their messages for a malformed one.  (After a start that failed late the
\* client may take the answer to an earlier start for the one it waits for, and read
\* what is left of that capture.)
PacketsConserved ==
    c.pc \in {"running", "asking"} /\ d.session = c.sess /\ s[c.sess].TotCapt # Uninit
        /\ ~d.late =>
        /\ s[c.sess].TotCapt = c.TotCapt + Len(data[c.sess])
                                 + (IF t[c.sess].pc = "send" THEN 1 ELSE 0)
        /\ data[c.sess] # <<>> => Head(data[c.sess]).npkt = c.TotCapt + 1
        /\ \A i \in DOMAIN data[c.sess] : data[c.sess][i].caplen <= data[c.sess][i].plen

\* What the handle's numbers are once a start has failed: in passive mode both
\* sockets are closed, in active mode the data socket if it was saved.
ClosedAlready ==
    \/ c.pc = "failed" /\ ctl = "closed"
    \/ c.pc = "ending" /\ c.rmt_sockdata # NoFd /\ c.sess = NoSession

\* A descriptor is closed once: no call closes a file that the application opened
\* under a number that was the handle's, except pcap_close() after a start that
\* failed, which closes the numbers of pcap_startcapture_remote's sockets again.
FilesIntact ==
    [][files \subseteq files' \/ ClosedAlready \/ c'.pc = "crashed"]_allvars

\* In passive mode a call that waits for an answer gets one, or sees the
\* connection closed, unless the daemon is left in the middle of a payload.
CallsReturn ==
    (c.pc \in Waiting /\ ~d.active) ~> (c.pc \notin Waiting \/ d.pc = "garbled")

=============================================================================
