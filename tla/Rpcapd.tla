------------------------------- MODULE Rpcapd -------------------------------
(***************************************************************************)
(* One connection of the remote capture daemon, rpcapd/daemon.c: the       *)
(* service loop of the main thread (daemon_serviceloop and its message     *)
(* handlers), the data threads it starts (daemon_thrdatamain), and the     *)
(* control and data connections between daemon and client.                 *)
(*                                                                         *)
(* The client is what the next module makes of it: here it may send any    *)
(* request at any time without waiting for answers; module Rpcap puts      *)
(* libpcap's own client, pcap-rpcap.c, in its place.                       *)
(*                                                                         *)
(* A request is its type, an identity (the client's count of requests) and *)
(* whether its payload is one the handler accepts.  TLS, the host list and *)
(* message texts are left out.                                             *)
(***************************************************************************)
EXTENDS Naturals, Integers, Sequences, FiniteSets

CONSTANTS
    Modes,      \* the modes of the daemon: TRUE if it connects to the client
    Slots,      \* session structures malloc can return
    Requests,   \* the types of request the client sends
    MaxReq,     \* bound on the requests of a behaviour
    MaxQueue,   \* bound on requests in flight
    MaxPkts,    \* bound on the packets a capture sees
    CapLens,    \* captured lengths of packets
    DataRoom,   \* messages the data connection holds before a send blocks
    EventFd,    \* pcap_breakloop wakes a waiting read, as on Linux
    Timeouts,   \* the read timeout of the capture expires
    Faults      \* names of the calls that may fail

ASSUME RpcapdAssumption ==
    /\ Modes \subseteq BOOLEAN /\ {EventFd, Timeouts} \subseteq BOOLEAN
    /\ Slots \subseteq Nat \ {0} /\ IsFiniteSet(Slots)
    /\ {MaxReq, MaxQueue, MaxPkts, DataRoom} \subseteq Nat
    /\ CapLens \subseteq Nat

VARIABLES
    toD,    \* control connection, client to daemon
    toC,    \* control connection, daemon to client
    ctl,    \* the client's end of the control connection: "up" or "closed"
    sent,   \* the number of requests the client has sent
    d,      \* the main thread: daemon_serviceloop's locals
    s,      \* s[k]: session structure k
    t,      \* t[k]: the data thread of session k
    data,   \* data[k]: the data connection of session k, towards the client
    cdata   \* cdata[k]: the client's end of it

vars == <<toD, toC, ctl, sent, d, s, t, data, cdata>>

-----------------------------------------------------------------------------
NoSession == 0
Uninit == -1
PktHdr == 20              \* sizeof(struct rpcap_pkthdr)
U16 == 65536              \* the number of values of a uint16_t

\* The request types, and those of them that carry a payload.  "PACKET" stands for
\* the messages that only a server sends, and for unknown ones.
MsgTypes == {"AUTH", "FINDALLIF", "OPEN", "STARTCAP", "UPDATEFILTER", "STATS",
             "ENDCAP", "SETSAMPLING", "CLOSE", "ERROR", "PACKET"}
Carriers == {"AUTH", "OPEN", "STARTCAP", "UPDATEFILTER", "SETSAMPLING"}
Unanswered == {"CLOSE", "ERROR"}

ASSUME RequestsAssumption == Requests \subseteq MsgTypes

Request == [type : MsgTypes, id : 0..MaxReq, ok : BOOLEAN]
Answer == [type : MsgTypes \cup {"READEX", "TIMEOUT"}, id : 0..MaxReq,
           err : BOOLEAN, svrcapt : 0..MaxPkts \cup {Uninit}]
Packet == [npkt : 0..MaxPkts, caplen : CapLens, plen : 0..(U16 - 1)]

Places == {"peek", "auth", "serve", "accept", "thread", "close", "join",
           "garbled", "gone"}
ThreadPlaces == {"none", "init", "next", "checked", "wait", "send", "exit"}

NoStruct == [live |-> FALSE, fp |-> FALSE, sock |-> "none", have_thread |-> FALSE,
             TotCapt |-> Uninit, brk |-> FALSE]
NoThread == [pc |-> "none", caplen |-> 0]

\* malloc of a session, pcap_open_live and the data socket.
Opened(sock) == [NoStruct EXCEPT !.live = TRUE, !.fp = TRUE, !.sock = sock]

MayFail(f) == f \in Faults

-----------------------------------------------------------------------------
\* Answers on the control connection.  A send to a client that closed it fails,
\* and the service loop gives up.
Reply(m, sv) == [type |-> m.type, id |-> m.id, err |-> FALSE, svrcapt |-> sv]
Error(m) == [type |-> m.type, id |-> m.id, err |-> TRUE, svrcapt |-> 0]
Unsolicited(type) == [type |-> type, id |-> 0, err |-> TRUE, svrcapt |-> 0]

Sent(a) == IF ctl = "up" THEN Append(toC, a) ELSE toC
AfterSend(pc) == IF ctl = "up" THEN pc ELSE "close"

\* A handler answers m, having read its payload to the end, and goes on.
Answered(a, pc) ==
    /\ toC' = Sent(a)
    /\ d' = [d EXCEPT !.pc = AfterSend(pc), !.why = "end"]

\* An error message whose sending is not checked.
Refused(m) == toC' = Sent(Error(m)) /\ d' = d

\* rpcapd_recv_msg_header: the next request, and the end of the connection.
Receives == toD # <<>> /\ toD' = Tail(toD)
AtEnd == toD = <<>> /\ ctl = "closed"

\* goto end
GiveUp == d' = [d EXCEPT !.pc = "close", !.why = "end"]

Capture == <<s, t, data, cdata>>
Wire == <<toD, toC, ctl, sent>>

-----------------------------------------------------------------------------
(* The main thread before authentication. *)

\* sock_recv(SOCK_MSG_PEEK) of the first octet, without a timeout.
Peek ==
    /\ d.pc = "peek"
    /\ \/ toD # <<>> /\ d' = [d EXCEPT !.pc = "auth"]
       \/ AtEnd /\ GiveUp
    /\ UNCHANGED <<Wire, Capture>>

\* The switch of the authentication loop.
AuthSwitch(m) ==
    CASE m.type = "AUTH" /\ m.ok ->
              /\ toC' = Sent(Reply(m, 0))
              /\ d' = [d EXCEPT !.pc = AfterSend("serve"), !.authenticated = (ctl = "up")]
      [] m.type \in Unanswered -> GiveUp /\ toC' = toC
      [] OTHER -> Answered(Error(m), "auth")

AuthMsg ==
    /\ d.pc = "auth"
    /\ Receives /\ AuthSwitch(Head(toD))
    /\ UNCHANGED <<ctl, sent, Capture>>

\* select() timeouts; only a passive daemon uses them, and once serving only
\* while no capture session exists.
Timeout ==
    /\ ~d.active /\ toD = <<>> /\ ctl = "up"
    /\ \/ d.pc = "auth"
       \/ d.pc = "serve" /\ d.session = NoSession
    /\ toC' = Sent(Unsolicited("TIMEOUT"))
    /\ GiveUp
    /\ UNCHANGED <<toD, ctl, sent, Capture>>

Eof ==
    /\ d.pc \in {"auth", "serve"} /\ AtEnd
    /\ GiveUp
    /\ UNCHANGED <<Wire, Capture>>

-----------------------------------------------------------------------------
(* The requests of an authenticated client. *)

\* session_close and free of a session that has no thread (yet).
Released(k) == [s EXCEPT ![k] = NoStruct]

FreeSlots == {k \in Slots : ~s[k].live}

\* daemon_msg_findallif_req, daemon_msg_setsampling_req
Simple(m) ==
    /\ Answered(IF m.ok THEN Reply(m, 0) ELSE Error(m), "serve")
    /\ UNCHANGED Capture

\* daemon_msg_open_req opens the device and closes it again; the service loop
\* then has a source, whatever the handler answered.
Open(m) ==
    /\ toC' = Sent(IF m.ok THEN Reply(m, 0) ELSE Error(m))
    /\ d' = [d EXCEPT !.pc = AfterSend("serve"), !.why = "end", !.got_source = TRUE]
    /\ UNCHANGED Capture

\* A failure of daemon_msg_startcap_req: the session built so far is closed, the
\* caller's pointer is cleared and the client gets an error message (late, when the
\* reply has been sent: a history variable).
StartFails(m, ss) ==
    /\ s' = ss
    /\ toC' = Sent(Error(m))
    /\ d' = [d EXCEPT !.pc = AfterSend("serve"), !.why = "end",
                      !.session = IF d.got_source THEN NoSession ELSE @,
                      !.new = NoSession, !.late = @ \/ d.new # NoSession]

\* daemon_msg_startcap_req up to the reply.  An active daemon has connected to
\* the client's data port by then; a passive one listens on its own.
StartCap(m) ==
    \/ /\ ~d.got_source \/ ~m.ok \/ MayFail("open") \/ FreeSlots = {} \/ ctl = "closed"
       /\ StartFails(m, s)
       /\ UNCHANGED <<t, data, cdata>>
    \/ /\ d.got_source /\ m.ok /\ FreeSlots # {} /\ ctl = "up"
       /\ LET k == CHOOSE k \in FreeSlots : TRUE IN
          /\ s' = [s EXCEPT ![k] = Opened(IF d.active THEN "conn" ELSE "listen")]
          /\ cdata' = [cdata EXCEPT ![k] = IF d.active THEN "up" ELSE "none"]
          /\ data' = [data EXCEPT ![k] = <<>>]
          /\ t' = t
          /\ toC' = Sent(Reply(m, 0))
          /\ d' = [d EXCEPT !.pc = IF d.active THEN "thread" ELSE "accept",
                            !.req = m.id, !.new = k]

\* Mutants: a rejected filter is answered with the error and with a reply, and
\* a filter is not answered.
FilterTwice(m) ==
    /\ toC' = IF m.ok THEN Sent(Reply(m, 0)) ELSE Append(Sent(Error(m)), Reply(m, 0))
    /\ d' = d
    /\ UNCHANGED Capture

FilterUnanswered(m) == d' = d /\ toC' = toC /\ UNCHANGED Capture

\* Without a session the error is sent and the payload, the filter, stays unread:
\* the next header is taken from the middle of it.
UpdateFilter(m) ==
    /\ IF d.session # NoSession
       THEN IF m.ok THEN Answered(Reply(m, 0), "serve") ELSE Refused(m)
       ELSE Answered(Error(m), "garbled")
    /\ UNCHANGED Capture

\* daemon_msg_stats_req: the running session's count, or the saved one.
Stats(m) ==
    /\ \/ Answered(Reply(m, IF d.session # NoSession THEN s[d.session].TotCapt
                                                     ELSE d.svrcapt), "serve")
       \/ d.session # NoSession /\ MayFail("stats") /\ Refused(m)
    /\ UNCHANGED Capture

\* RPCAP_MSG_ENDCAP_REQ: the count is saved when pcap_stats returns nonzero, and
\* zeroed when it returns 0.
EndCap(m) ==
    /\ IF d.session = NoSession
       THEN Refused(m)
       ELSE /\ \E failed \in (IF MayFail("stats") THEN BOOLEAN ELSE {FALSE}) :
                 d' = [d EXCEPT !.pc = "close", !.why = "endcap", !.req = m.id,
                                !.svrcapt = IF failed THEN s[d.session].TotCapt ELSE 0]
            /\ toC' = toC
    /\ UNCHANGED Capture

\* The switch of the service loop.
ServiceSwitch(m) ==
    CASE m.type = "ERROR" -> d' = d /\ toC' = toC /\ UNCHANGED Capture
      [] m.type \in {"FINDALLIF", "SETSAMPLING"} -> Simple(m)
      [] m.type = "OPEN" -> Open(m)
      [] m.type = "STARTCAP" -> StartCap(m)
      [] m.type = "UPDATEFILTER" -> UpdateFilter(m)
      [] m.type = "STATS" -> Stats(m)
      [] m.type = "ENDCAP" -> EndCap(m)
      [] m.type = "CLOSE" ->
              /\ d' = [d EXCEPT !.pc = "close", !.why = "end", !.told = TRUE]
              /\ toC' = toC /\ UNCHANGED Capture
      [] m.type \in {"AUTH", "PACKET"} -> Answered(Error(m), "close") /\ UNCHANGED Capture

Service ==
    /\ d.pc = "serve"
    /\ Receives /\ ServiceSwitch(Head(toD))
    /\ UNCHANGED <<ctl, sent>>

-----------------------------------------------------------------------------
(* daemon_msg_startcap_req after the reply. *)

StartRequest == [type |-> "STARTCAP", id |-> d.req, ok |-> TRUE]

\* accept() of the data connection; the control connection is not served.
Accept ==
    /\ d.pc = "accept"
    /\ \/ /\ cdata[d.new] \in {"up", "closed"}
          /\ s' = [s EXCEPT ![d.new].sock = "conn"]
          /\ d' = [d EXCEPT !.pc = "thread"]
          /\ toC' = toC
       \/ MayFail("accept") /\ StartFails(StartRequest, Released(d.new))
    /\ UNCHANGED <<toD, ctl, sent, t, data, cdata>>

\* pthread_create; only now the service loop's session is the new one.
MakeThread ==
    /\ d.pc = "thread"
    /\ \/ /\ t' = [t EXCEPT ![d.new].pc = "init"]
          /\ s' = [s EXCEPT ![d.new].have_thread = TRUE]
          /\ d' = [d EXCEPT !.pc = "serve", !.session = d.new, !.new = NoSession]
          /\ toC' = toC
       \/ /\ MayFail("thread")
          /\ StartFails(StartRequest, Released(d.new))
          /\ t' = t
    /\ UNCHANGED <<toD, ctl, sent, data, cdata>>

-----------------------------------------------------------------------------
(* session_close, for RPCAP_MSG_ENDCAP_REQ and at the end of the service loop. *)

\* A mutant: the thread is waited for and never told.
InterruptQuietly ==
    /\ d.pc = "close" /\ d.session # NoSession
    /\ d' = [d EXCEPT !.pc = "join"]
    /\ UNCHANGED <<Wire, Capture>>

\* pcap_breakloop, and SIGUSR1, which ends a wait it finds the thread in.
Interrupt ==
    /\ d.pc = "close" /\ d.session # NoSession
    /\ s' = [s EXCEPT ![d.session].brk = TRUE]
    /\ t' = [t EXCEPT ![d.session].pc = IF @ = "wait" THEN "next" ELSE @]
    /\ d' = [d EXCEPT !.pc = "join"]
    /\ UNCHANGED <<Wire, data, cdata>>

\* A mutant: the session is closed under a thread that still runs.
NoJoin ==
    /\ d.pc = "join"
    /\ s' = Released(d.session)
    /\ d' = [d EXCEPT !.pc = IF d.why = "endcap" THEN AfterSend("serve") ELSE "close",
                      !.why = "end", !.session = NoSession]
    /\ toC' = toC
    /\ UNCHANGED <<toD, ctl, sent, t, data, cdata>>

\* pthread_join, then the data socket and the pcap_t are closed and the session
\* freed; daemon_msg_endcap_req sends its reply last.
Join ==
    /\ d.pc = "join" /\ t[d.session].pc = "exit"
    /\ t' = [t EXCEPT ![d.session] = NoThread]
    /\ s' = Released(d.session)
    /\ IF d.why = "endcap"
       THEN /\ toC' = Sent([type |-> "ENDCAP", id |-> d.req, err |-> FALSE, svrcapt |-> 0])
            /\ d' = [d EXCEPT !.pc = AfterSend("serve"), !.why = "end", !.session = NoSession]
       ELSE toC' = toC /\ d' = [d EXCEPT !.pc = "close", !.session = NoSession]
    /\ UNCHANGED <<toD, ctl, sent, data, cdata>>

\* The control socket is closed and the service loop returns.
Gone ==
    /\ d.pc = "close" /\ d.session = NoSession
    /\ d' = [d EXCEPT !.pc = "gone"]
    /\ UNCHANGED <<Wire, Capture>>

-----------------------------------------------------------------------------
(* daemon_thrdatamain *)

ThreadInit(k) ==
    /\ t[k].pc = "init"
    /\ \/ t' = [t EXCEPT ![k].pc = "next"]
       \/ MayFail("malloc") /\ t' = [t EXCEPT ![k].pc = "exit"]
    /\ s' = [s EXCEPT ![k].TotCapt = 0]
    /\ UNCHANGED <<Wire, d, data, cdata>>

\* pcap_next_ex looks at break_loop first, and then waits for a packet.
ThreadCheck(k) ==
    /\ t[k].pc = "next"
    /\ t' = [t EXCEPT ![k].pc = IF s[k].brk THEN "exit" ELSE "checked"]
    /\ s' = [s EXCEPT ![k].brk = FALSE]
    /\ UNCHANGED <<Wire, d, data, cdata>>

ThreadWait(k) ==
    /\ t[k].pc = "checked"
    /\ t' = [t EXCEPT ![k].pc = "wait"]
    /\ UNCHANGED <<Wire, d, s, data, cdata>>

\* The wait ends without a packet: the event descriptor that pcap_breakloop
\* wrote to is readable, or the read timeout expired.
ThreadWake(k) ==
    /\ t[k].pc = "wait"
    /\ (s[k].brk /\ EventFd) \/ Timeouts
    /\ t' = [t EXCEPT ![k].pc = "next"]
    /\ UNCHANGED <<Wire, d, s, data, cdata>>

\* A packet is read and the message for it built; the payload length goes
\* through a cast to uint16_t.
ThreadPacket(k, caplen) ==
    /\ t[k].pc = "wait" /\ s[k].TotCapt < MaxPkts
    /\ t' = [t EXCEPT ![k] = [pc |-> "send", caplen |-> caplen]]
    /\ s' = [s EXCEPT ![k].TotCapt = @ + 1]
    /\ UNCHANGED <<Wire, d, data, cdata>>

\* pcap_next_ex fails: the thread tells the client on the control connection.
ThreadError(k) ==
    /\ t[k].pc = "wait" /\ MayFail("read")
    /\ t' = [t EXCEPT ![k].pc = "exit"]
    /\ toC' = Sent(Unsolicited("READEX"))
    /\ UNCHANGED <<toD, ctl, sent, d, s, data, cdata>>

PacketMsg(k) == [npkt |-> s[k].TotCapt, caplen |-> t[k].caplen,
                 plen |-> (PktHdr + t[k].caplen) % U16]

\* sock_send blocks while the connection is full, and fails once the client has
\* closed it.
ThreadSend(k) ==
    /\ t[k].pc = "send"
    /\ \/ /\ cdata[k] = "up" /\ Len(data[k]) < DataRoom
          /\ data' = [data EXCEPT ![k] = Append(@, PacketMsg(k))]
          /\ t' = [t EXCEPT ![k] = [pc |-> "next", caplen |-> 0]]
       \/ /\ cdata[k] = "closed"
          /\ data' = data
          /\ t' = [t EXCEPT ![k] = [pc |-> "exit", caplen |-> 0]]
    /\ UNCHANGED <<Wire, d, s, cdata>>

-----------------------------------------------------------------------------
DaemonMain ==
    \/ Peek \/ AuthMsg \/ Timeout \/ Eof \/ Service
    \/ Accept \/ MakeThread \/ Interrupt \/ Join \/ Gone

\* What a data thread does by itself, and what comes from the device.
ThreadRuns(k) ==
    \/ ThreadInit(k) \/ ThreadCheck(k) \/ ThreadWait(k) \/ ThreadWake(k)
    \/ ThreadSend(k)

DataThread(k) ==
    \/ ThreadRuns(k)
    \/ \E caplen \in CapLens : ThreadPacket(k, caplen)
    \/ ThreadError(k)

Daemon == DaemonMain \/ \E k \in Slots : DataThread(k)

\* The locals of daemon_serviceloop; told is client_told_us_to_close.
NewService(active) ==
    [pc |-> "peek", why |-> "end", active |-> active, authenticated |-> FALSE,
     got_source |-> FALSE, session |-> NoSession, new |-> NoSession, req |-> 0,
     svrcapt |-> 0, late |-> FALSE, told |-> FALSE]

DaemonInit ==
    /\ toD = <<>> /\ toC = <<>> /\ ctl = "up" /\ sent = 0
    /\ \E active \in Modes : d = NewService(active)
    /\ s = [k \in Slots |-> NoStruct]
    /\ t = [k \in Slots |-> NoThread]
    /\ data = [k \in Slots |-> <<>>]
    /\ cdata = [k \in Slots |-> "none"]

-----------------------------------------------------------------------------
(* A client that follows no protocol. *)

Main == <<d, s, t>>

\* Requests that are answered are numbered.
AnySend ==
    /\ ctl = "up" /\ sent < MaxReq /\ Len(toD) < MaxQueue
    /\ \E type \in Requests, ok \in BOOLEAN :
         /\ type \notin Carriers => ok
         /\ toD' = Append(toD, [type |-> type, ok |-> ok,
                                id |-> IF type \in Unanswered THEN 0 ELSE sent + 1])
         /\ sent' = IF type \in Unanswered THEN sent ELSE sent + 1
    /\ UNCHANGED <<toC, ctl, Main, data, cdata>>

AnyClose ==
    /\ ctl = "up" /\ ctl' = "closed"
    /\ UNCHANGED <<toD, toC, sent, Main, data, cdata>>

AnyConnect(k) ==
    /\ s[k].sock = "listen" /\ cdata[k] = "none"
    /\ cdata' = [cdata EXCEPT ![k] = "up"]
    /\ UNCHANGED <<Wire, Main, data>>

AnyDisconnect(k) ==
    /\ cdata[k] = "up" /\ cdata' = [cdata EXCEPT ![k] = "closed"]
    /\ UNCHANGED <<Wire, Main, data>>

AnyRead(k) ==
    /\ cdata[k] = "up" /\ data[k] # <<>>
    /\ data' = [data EXCEPT ![k] = Tail(@)]
    /\ UNCHANGED <<Wire, Main, cdata>>

AnyClient ==
    \/ AnySend \/ AnyClose
    \/ \E k \in Slots : AnyConnect(k) \/ AnyDisconnect(k) \/ AnyRead(k)

Next == Daemon \/ AnyClient

\* The threads of the daemon are scheduled; that a packet comes or a read fails is
\* not promised.  An idle connection's timeout is a step of the main thread.
DaemonFairness == WF_vars(DaemonMain) /\ \A k \in Slots : WF_vars(ThreadRuns(k))

Spec == DaemonInit /\ [][Next]_vars
LiveSpec == Spec /\ DaemonFairness

-----------------------------------------------------------------------------
TypeOK ==
    /\ toD \in Seq(Request) /\ toC \in Seq(Answer)
    /\ ctl \in {"up", "closed"} /\ sent \in 0..MaxReq
    /\ d \in [pc : Places, why : {"end", "endcap"}, active : BOOLEAN,
              authenticated : BOOLEAN, got_source : BOOLEAN,
              session : Slots \cup {NoSession}, new : Slots \cup {NoSession},
              req : 0..MaxReq, svrcapt : 0..MaxPkts \cup {Uninit},
              late : BOOLEAN, told : BOOLEAN]
    /\ s \in [Slots -> [live : BOOLEAN, fp : BOOLEAN,
                        sock : {"none", "listen", "conn"}, have_thread : BOOLEAN,
                        TotCapt : 0..MaxPkts \cup {Uninit}, brk : BOOLEAN]]
    /\ t \in [Slots -> [pc : ThreadPlaces, caplen : CapLens \cup {0}]]
    /\ data \in [Slots -> Seq(Packet)]
    /\ cdata \in [Slots -> {"none", "up", "closed"}]

Running(k) == t[k].pc \notin {"none", "exit"}

\* A data thread never runs on a session structure that has been freed, on a
\* pcap_t that has been closed or without its data connection: session_close
\* joins the thread "so we don't close sockets out from under it".
ThreadOwnsSession ==
    \A k \in Slots : Running(k) =>
        s[k].live /\ s[k].fp /\ s[k].sock = "conn" /\ s[k].have_thread

\* Nothing is captured for a client that has not authenticated itself and
\* then named a device: sessions exist only after both.
AuthenticatedFirst ==
    (\E k \in Slots : s[k].live) => d.authenticated /\ d.got_source

\* Answers come one per request and in the order of the requests: an answer that
\* waits for the client bears a later number than the one before it.  Only a start
\* that fails after its reply, in accept() or pthread_create(), is answered again.
StartTakenBack(a, b) == a.type = "STARTCAP" /\ ~a.err /\ b.err /\ a.id = b.id

AnswersInOrder ==
    \A i, j \in 1..Len(toC) :
        i < j /\ toC[i].id # 0 /\ toC[j].id # 0 =>
            toC[i].id < toC[j].id \/ StartTakenBack(toC[i], toC[j])

\* A session has its thread, and its client has been let in, as long as it lives, and
\* the client can tell the answers apart.
SessionsInv == TypeOK /\ ThreadOwnsSession /\ AuthenticatedFirst /\ AnswersInOrder

\* Once the client has closed both connections the daemon ends, whatever was
\* under way, unless it waits for a data connection that never comes.
ClosedEnds ==
    (ctl = "closed" /\ \A k \in Slots : cdata[k] # "up")
        ~> (d.pc \in {"gone", "garbled", "accept"} \/ \E k \in Slots : cdata[k] = "up")

=============================================================================
