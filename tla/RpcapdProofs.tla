---------------------------- MODULE RpcapdProofs ----------------------------
(***************************************************************************)
(* Theorems about remote capture, for every number of sessions, requests,  *)
(* packets, descriptors, clients, addresses and signals, and every choice  *)
(* of faults: about the service loop and the data threads of module        *)
(* Rpcapd, about the main program of module Server and what it serves, and *)
(* about the descriptors of the client of module Rpcap.  Last comes what   *)
(* the client does to the control connection, on which RpcapProofs builds. *)
(***************************************************************************)
EXTENDS Server, Rpcap, TLAPS

(* Where the service loop is says what exists: a session is served by the  *)
(* thread that is joined before the session is freed, and one that is      *)
(* being started has no thread yet.                                        *)
SessionInv ==
    /\ d.pc \in {"peek", "auth"} => ~d.authenticated
    /\ d.pc \in {"serve", "accept", "thread"} => d.authenticated
    /\ d.pc \in {"peek", "auth", "serve", "accept", "thread"} => d.why = "end"
    /\ d.session # NoSession => t[d.session].pc # "none"
    /\ d.pc = "join" => d.session # NoSession
    /\ d.pc \in {"accept", "thread"} =>
          /\ d.new \in Slots /\ d.got_source
          /\ s[d.new].live /\ s[d.new].fp /\ t[d.new].pc = "none"
    /\ d.pc = "thread" => s[d.new].sock = "conn"
    /\ AuthenticatedFirst
    /\ \A k \in Slots :
          /\ t[k].pc # "none" =>
                s[k].live /\ s[k].fp /\ s[k].sock = "conn" /\ s[k].have_thread
          /\ t[k].pc \notin {"none", "init"} => s[k].TotCapt # Uninit \/ t[k].pc = "exit"
          /\ t[k].pc = "send" => t[k].caplen \in CapLens

(* The numbers of requests that wait, and of answers.  The one that is     *)
(* being worked on lies between them.                                      *)
InOrderD == \A i, j \in 1..Len(toD) :
               i < j /\ toD[i].id # 0 /\ toD[j].id # 0 => toD[i].id < toD[j].id
Asked == \A j \in 1..Len(toD) : toD[j].id <= sent
Given == \A i \in 1..Len(toC) : toC[i].id <= sent
GivenFirst == \A i \in 1..Len(toC), j \in 1..Len(toD) :
                 toC[i].id # 0 /\ toD[j].id # 0 => toC[i].id < toD[j].id

OrderInv == AnswersInOrder /\ InOrderD /\ Asked /\ Given /\ GivenFirst

(* A number that no request that waits has, and that every answer is       *)
(* before, but for the answer that a failing start takes back.             *)
Current(id) ==
    /\ id \in Nat /\ id <= sent
    /\ \A j \in 1..Len(toD) : toD[j].id # 0 => id < toD[j].id

InHand ==
    /\ d.pc \in {"accept", "thread"} /\ d.req # 0 =>
          /\ Current(d.req)
          /\ \A i \in 1..Len(toC) : toC[i].id # 0 =>
                \/ toC[i].id < d.req
                \/ toC[i].type = "STARTCAP" /\ ~toC[i].err /\ toC[i].id = d.req
    /\ d.why = "endcap" /\ d.req # 0 =>
          /\ Current(d.req)
          /\ \A i \in 1..Len(toC) : toC[i].id # 0 => toC[i].id < d.req

IInv == TypeOK /\ SessionInv /\ OrderInv /\ InHand

-----------------------------------------------------------------------------
(* The queues. *)

QueuesOK == toD \in Seq(Request) /\ toC \in Seq(Answer) /\ sent \in 0..MaxReq

(* A request that is taken from the queue, with or without an answer to    *)
(* it, and with an answer that has no number.                              *)
LEMMA TakeOrder ==
    ASSUME QueuesOK, OrderInv, toD # <<>>, toD' = Tail(toD), sent' = sent,
           \/ toC' = toC
           \/ \E a \in Answer : a.id \in {0, Head(toD).id} /\ toC' = Append(toC, a)
    PROVE  OrderInv'
  <1>1. /\ Len(toD') = Len(toD) - 1 /\ Len(toD) \in Nat \ {0}
        /\ \A i \in 1..Len(toD') : toD'[i] = toD[i + 1]
    BY DEF QueuesOK
  <1>2. InOrderD' /\ Asked'
    BY <1>1 DEF OrderInv, InOrderD, Asked
  <1>3. CASE toC' = toC
    BY <1>1, <1>2, <1>3 DEF OrderInv, AnswersInOrder, Given, GivenFirst, StartTakenBack
  <1>4. ASSUME NEW a \in Answer, a.id \in {0, Head(toD).id}, toC' = Append(toC, a)
        PROVE  OrderInv'
    <2>1. /\ Len(toC') = Len(toC) + 1 /\ toC'[Len(toC) + 1] = a /\ Len(toC) \in Nat
          /\ \A i \in 1..Len(toC) : toC'[i] = toC[i]
      BY <1>4 DEF QueuesOK
    <2>2. Head(toD) = toD[1] /\ toD[1] \in Request
      BY <1>1 DEF QueuesOK
    <2>3. a.id <= sent /\ Given'
      BY <1>1, <1>4, <2>1, <2>2 DEF OrderInv, Given, Asked, QueuesOK
    <2>4. AnswersInOrder'
      <3> SUFFICES ASSUME NEW i \in 1..Len(toC'), NEW j \in 1..Len(toC'),
                          i < j, toC'[i].id # 0, toC'[j].id # 0
                   PROVE  toC'[i].id < toC'[j].id \/ StartTakenBack(toC'[i], toC'[j])
        BY Zenon DEF AnswersInOrder, StartTakenBack
      <3>1. i \in 1..Len(toC) /\ toC'[i] = toC[i]
        BY <2>1
      <3>2. CASE j \in 1..Len(toC)
        BY <2>1, <3>1, <3>2, Zenon DEF OrderInv, AnswersInOrder
      <3>3. CASE j = Len(toC) + 1
        BY <1>1, <1>4, <2>1, <2>2, <3>1, <3>3 DEF OrderInv, GivenFirst
      <3> QED
        BY <2>1, <3>2, <3>3
    <2>5. GivenFirst'
      BY <1>1, <1>4, <2>1, <2>2 DEF OrderInv, InOrderD, GivenFirst
    <2> QED
      BY <1>2, <2>3, <2>4, <2>5, Zenon DEF OrderInv
  <1> QED
    BY <1>3, <1>4, Zenon

(* An answer that comes while no request is taken: it has no number, or    *)
(* that of the request in hand, which every answer before it is before,    *)
(* but for the reply that it takes back.                                   *)
LEMMA AnswerOrder ==
    ASSUME QueuesOK, OrderInv, toD' = toD, sent' = sent,
           NEW a \in Answer, toC' = Append(toC, a),
           \/ a.id = 0
           \/ /\ Current(a.id)
              /\ \A i \in 1..Len(toC) : toC[i].id # 0 =>
                    toC[i].id < a.id \/ StartTakenBack(toC[i], a)
    PROVE  OrderInv'
  <1>1. /\ Len(toC') = Len(toC) + 1 /\ toC'[Len(toC) + 1] = a /\ Len(toC) \in Nat
        /\ \A i \in 1..Len(toC) : toC'[i] = toC[i]
    BY DEF QueuesOK
  <1>2. InOrderD' /\ Asked'
    BY Zenon DEF OrderInv, InOrderD, Asked
  <1>3. Given'
    BY <1>1 DEF OrderInv, Given, Current, QueuesOK
  <1>4. GivenFirst'
    BY <1>1 DEF OrderInv, GivenFirst, Current
  <1>5. AnswersInOrder'
    <2> SUFFICES ASSUME NEW i \in 1..Len(toC'), NEW j \in 1..Len(toC'),
                        i < j, toC'[i].id # 0, toC'[j].id # 0
                 PROVE  toC'[i].id < toC'[j].id \/ StartTakenBack(toC'[i], toC'[j])
      BY DEF AnswersInOrder, StartTakenBack
    <2>1. i \in 1..Len(toC) /\ toC'[i] = toC[i]
      BY <1>1
    <2>2. CASE j \in 1..Len(toC)
      BY <1>1, <2>1, <2>2, Zenon DEF OrderInv, AnswersInOrder
    <2>3. CASE j = Len(toC) + 1
      BY <1>1, <2>1, <2>3, Zenon
    <2> QED
      BY <1>1, <2>2, <2>3
  <1> QED
    BY <1>2, <1>3, <1>4, <1>5, Zenon DEF OrderInv

(* A request that is sent. *)
LEMMA SendOrder ==
    ASSUME QueuesOK, OrderInv, toC' = toC, NEW m \in Request, toD' = Append(toD, m),
           \/ m.id = 0 /\ sent' = sent
           \/ m.id = sent + 1 /\ sent' = sent + 1
    PROVE  /\ OrderInv'
           /\ \A id \in Nat : Current(id) => Current(id)'
  <1>1. /\ Len(toD') = Len(toD) + 1 /\ toD'[Len(toD) + 1] = m /\ Len(toD) \in Nat
        /\ \A i \in 1..Len(toD) : toD'[i] = toD[i] /\ toD[i] \in Request
        /\ \A i \in 1..Len(toC) : toC[i] \in Answer
    BY DEF QueuesOK
  <1>2. sent \in Nat /\ \A i \in 1..Len(toD) : toD[i].id \in Nat
    BY <1>1 DEF QueuesOK, Request
  <1>3. \A i \in 1..Len(toC) : toC[i].id \in Nat
    BY <1>1 DEF Answer
  <1>4. InOrderD' /\ Asked'
    BY <1>1, <1>2 DEF OrderInv, InOrderD, Asked
  <1>5. Given' /\ GivenFirst'
    BY <1>1, <1>2, <1>3 DEF OrderInv, Given, GivenFirst
  <1>6. AnswersInOrder'
    BY DEF OrderInv, AnswersInOrder, StartTakenBack
  <1>7. \A id \in Nat : Current(id) => Current(id)'
    BY <1>1, <1>2 DEF Current
  <1> QED
    BY <1>4, <1>5, <1>6, <1>7, Zenon DEF OrderInv

(* The answers are answers, with the numbers of what they answer. *)
LEMMA AnswerTypes ==
    /\ \A m \in Request : /\ Error(m) \in Answer /\ Error(m).id = m.id
                          /\ Reply(m, 0) \in Answer /\ Reply(m, 0).id = m.id
    /\ \A m \in Request, sv \in 0..MaxPkts \cup {Uninit} :
          Reply(m, sv) \in Answer /\ Reply(m, sv).id = m.id
    /\ \A type \in {"READEX", "TIMEOUT"} :
          Unsolicited(type) \in Answer /\ Unsolicited(type).id = 0
  <1>1. 0 \in 0..MaxPkts /\ 0 \in 0..MaxReq
    BY RpcapdAssumption
  <1>2. \A m \in Request, sv \in 0..MaxPkts \cup {Uninit} :
          Reply(m, sv) \in Answer /\ Reply(m, sv).id = m.id
    BY Zenon DEF Reply, Answer, Request
  <1>3. \A m \in Request : Error(m) \in Answer /\ Error(m).id = m.id
    BY <1>1, Zenon DEF Error, Answer, Request
  <1>4. \A type \in {"READEX", "TIMEOUT"} :
          Unsolicited(type) \in Answer /\ Unsolicited(type).id = 0
    BY <1>1, Zenon DEF Unsolicited, Answer
  <1> QED
    BY <1>1, <1>2, <1>3, <1>4, Zenon

-----------------------------------------------------------------------------
(* The type of the service loop's locals. *)
Locals == [pc : Places, why : {"end", "endcap"}, active : BOOLEAN,
           authenticated : BOOLEAN, got_source : BOOLEAN,
           session : Slots \cup {NoSession}, new : Slots \cup {NoSession},
           req : 0..MaxReq, svrcapt : 0..MaxPkts \cup {Uninit},
           late : BOOLEAN, told : BOOLEAN]

(* A request that is taken, and at most answered, while no session is made *)
(* or closed.                                                              *)
LEMMA HandlerKeeps ==
    ASSUME IInv, d.pc = "serve", toD # <<>>, toD' = Tail(toD),
           UNCHANGED <<ctl, sent, Capture>>,
           \/ toC' = toC
           \/ \E a \in Answer : a.id \in {0, Head(toD).id} /\ toC' = Append(toC, a),
           d' \in Locals, d'.session \in {d.session, NoSession},
           d'.authenticated = d.authenticated,
           d'.got_source = d.got_source \/ d'.got_source = TRUE,
           d'.pc \in {"serve", "close", "garbled"},
           \/ d'.why = "end"
           \/ d'.why = "endcap" /\ d'.pc = "close" /\ d'.req = Head(toD).id /\ toC' = toC
    PROVE  IInv'
  <1>1. /\ QueuesOK /\ Head(toD) = toD[1] /\ Head(toD) \in Request /\ 1 \in 1..Len(toD)
        /\ Tail(toD) \in Seq(Request)
    BY DEF IInv, TypeOK, QueuesOK
  <1>2. TypeOK'
    <2>1. toC' \in Seq(Answer)
      <3>1. toC \in Seq(Answer)
        BY <1>1, Zenon DEF QueuesOK
      <3>2. \A a \in Answer : Append(toC, a) \in Seq(Answer)
        BY <3>1
      <3> QED
        BY <3>1, <3>2, Zenon
    <2> QED
      BY <1>1, <2>1, Zenon DEF IInv, TypeOK, Capture, Locals
  <1>3. SessionInv'
    <2>1. AuthenticatedFirst'
      BY Zenon DEF IInv, SessionInv, AuthenticatedFirst, Capture
    <2>2. d'.authenticated
      BY Zenon DEF IInv, SessionInv
    <2> QED
      BY <2>1, <2>2, Zenon DEF IInv, SessionInv, Capture
  <1>4. OrderInv'
    BY <1>1, TakeOrder, Zenon DEF IInv
  <1>5. InHand'
    <2>1. CASE d'.why = "end"
      BY <2>1, Zenon DEF InHand
    <2>2. CASE d'.why = "endcap" /\ d'.pc = "close" /\ d'.req = Head(toD).id /\ toC' = toC
      <3>1. /\ Len(toD') = Len(toD) - 1 /\ Len(toD) \in Nat
            /\ \A i \in 1..Len(toD') : toD'[i] = toD[i + 1]
        BY <1>1 DEF QueuesOK
      <3> QED
        BY <1>1, <2>2, <3>1 DEF IInv, OrderInv, InOrderD, Asked, GivenFirst, InHand, Current, Request
    <2> QED
      BY <2>1, <2>2, Zenon
  <1> QED
    BY <1>2, <1>3, <1>4, <1>5, Zenon DEF IInv

(* The handlers of the service loop but for the one that starts a capture. *)
LEMMA HandlerStep ==
    ASSUME IInv, d.pc = "serve", Receives, UNCHANGED <<ctl, sent>>,
           NEW m, m = Head(toD), m.type # "STARTCAP", ServiceSwitch(m)
    PROVE  IInv'
  <1> DEFINE Answers == \/ toC' = toC
                        \/ \E a \in Answer : a.id \in {0, Head(toD).id} /\ toC' = Append(toC, a)
  <1>1. /\ m \in Request /\ toD # <<>> /\ toD' = Tail(toD)
        /\ d \in Locals /\ s \in [Slots -> [live : BOOLEAN, fp : BOOLEAN,
                        sock : {"none", "listen", "conn"}, have_thread : BOOLEAN,
                        TotCapt : 0..MaxPkts \cup {Uninit}, brk : BOOLEAN]]
    BY DEF IInv, TypeOK, Locals, Receives
  <1>2. m.id \in 0..MaxReq /\ m.type \in MsgTypes
    BY <1>1, Zenon DEF Request
  <1>3. \A a \in Answer : a.id = m.id /\ toC' = Sent(a) => Answers
    BY Zenon DEF Sent
  <1> HIDE DEF Answers
  <1>4. ASSUME NEW a \in Answer, a.id = m.id, NEW pc \in {"serve", "close", "garbled"},
               Answered(a, pc), UNCHANGED Capture
        PROVE  IInv'
    <2>1. /\ d' \in Locals /\ d'.session = d.session /\ d'.authenticated = d.authenticated
          /\ d'.got_source = d.got_source /\ d'.pc \in {"serve", "close", "garbled"}
          /\ d'.why = "end"
      BY <1>1, <1>4 DEF Answered, AfterSend, Locals, Places
    <2>2. Answers
      BY <1>3, <1>4, Zenon DEF Answered
    <2> QED
      BY <1>1, <1>4, <2>1, <2>2, HandlerKeeps, Zenon DEF Answers
  <1>5. ASSUME toC' = toC \/ toC' = Sent(Error(m)), d' = d, UNCHANGED Capture
        PROVE  IInv'
    <2>1. Answers
      BY <1>1, <1>3, <1>5, AnswerTypes, Zenon DEF Answers
    <2>2. d.why = "end"
      BY Zenon DEF IInv, SessionInv
    <2> QED
      BY <1>1, <1>5, <2>1, <2>2, HandlerKeeps, Zenon DEF Answers
  <1>6. CASE m.type = "ERROR"
    BY <1>5, <1>6, Zenon DEF ServiceSwitch
  <1>7. CASE m.type \in {"FINDALLIF", "SETSAMPLING"}
    <2>1. Simple(m)
      BY <1>7, Zenon DEF ServiceSwitch
    <2> QED
      BY <1>1, <1>4, <2>1, AnswerTypes, Zenon DEF Simple
  <1>8. CASE m.type = "OPEN"
    <2>1. Open(m)
      BY <1>8, Zenon DEF ServiceSwitch
    <2>2. /\ d' \in Locals /\ d'.session = d.session /\ d'.authenticated = d.authenticated
          /\ d'.got_source = TRUE /\ d'.pc \in {"serve", "close", "garbled"} /\ d'.why = "end"
      BY <1>1, <2>1, Zenon DEF Open, AfterSend, Locals, Places
    <2>3. Answers
      BY <1>1, <1>3, <2>1, AnswerTypes, Zenon DEF Open
    <2> QED
      BY <1>1, <2>1, <2>2, <2>3, HandlerKeeps, Zenon DEF Open, Answers
  <1>9. CASE m.type = "UPDATEFILTER"
    <2>1. UpdateFilter(m)
      BY <1>9, Zenon DEF ServiceSwitch
    <2> QED
      BY <1>1, <1>4, <1>5, <2>1, AnswerTypes, Zenon DEF UpdateFilter, Refused
  <1>10. CASE m.type = "STATS"
    <2>1. Stats(m)
      BY <1>10, Zenon DEF ServiceSwitch
    <2>2. (IF d.session # NoSession THEN s[d.session].TotCapt ELSE d.svrcapt)
             \in 0..MaxPkts \cup {Uninit}
      BY <1>1, Zenon DEF Locals
    <2> QED
      BY <1>1, <1>4, <1>5, <2>1, <2>2, AnswerTypes, Zenon DEF Stats, Refused
  <1>11. CASE m.type = "ENDCAP"
    <2>1. EndCap(m)
      BY <1>11, Zenon DEF ServiceSwitch
    <2>2. CASE d.session = NoSession
      BY <1>5, <2>1, <2>2, Zenon DEF EndCap, Refused
    <2>3. CASE d.session # NoSession
      <3>1. PICK failed \in BOOLEAN :
               d' = [d EXCEPT !.pc = "close", !.why = "endcap", !.req = m.id,
                              !.svrcapt = IF failed THEN s[d.session].TotCapt ELSE 0]
        <4>1. (IF MayFail("stats") THEN BOOLEAN ELSE {FALSE}) \subseteq BOOLEAN
          BY Zenon
        <4> QED
          BY <2>1, <2>3, <4>1, Zenon DEF EndCap
      <3>2. 0 \in 0..MaxPkts /\ s[d.session].TotCapt \in 0..MaxPkts \cup {Uninit}
        <4>1. d.session \in Slots
          BY <1>1, <2>3, Zenon DEF Locals
        <4>2. 0 \in 0..MaxPkts
          BY RpcapdAssumption
        <4> QED
          BY <1>1, <4>1, <4>2, Zenon
      <3>3. /\ d' \in Locals /\ d'.session = d.session /\ d'.authenticated = d.authenticated
            /\ d'.got_source = d.got_source /\ d'.pc = "close" /\ d'.why = "endcap"
            /\ d'.req = m.id
        BY <1>1, <1>2, <3>1, <3>2 DEF Locals, Places
      <3>4. toC' = toC /\ UNCHANGED Capture
        BY <2>1, <2>3, Zenon DEF EndCap
      <3> QED
        BY <1>1, <3>3, <3>4, HandlerKeeps, Zenon
    <2> QED
      BY <2>2, <2>3, Zenon
  <1>12. CASE m.type = "CLOSE"
    <2>1. d' = [d EXCEPT !.pc = "close", !.why = "end", !.told = TRUE]
             /\ toC' = toC /\ UNCHANGED Capture
      BY <1>12, Zenon DEF ServiceSwitch
    <2>2. /\ d' \in Locals /\ d'.session = d.session /\ d'.authenticated = d.authenticated
          /\ d'.got_source = d.got_source /\ d'.pc = "close" /\ d'.why = "end"
      BY <1>1, <2>1, Zenon DEF Locals, Places
    <2> QED
      BY <1>1, <2>1, <2>2, HandlerKeeps, Zenon
  <1>13. CASE m.type \in {"AUTH", "PACKET"}
    <2>1. Answered(Error(m), "close") /\ UNCHANGED Capture
      BY <1>13, Zenon DEF ServiceSwitch
    <2> QED
      BY <1>1, <1>4, <2>1, AnswerTypes, Zenon
  <1> QED
    BY <1>2, <1>6, <1>7, <1>8, <1>9, <1>10, <1>11, <1>12, <1>13, Zenon DEF MsgTypes

(* A failing start: the session that was built is released, and the error  *)
(* takes back the reply, if there was one.                                 *)
LEMMA StartFailsType ==
    ASSUME TypeOK, NEW m \in Request, NEW ss, StartFails(m, ss)
    PROVE  /\ d' \in Locals /\ d'.pc \in {"serve", "close"} /\ d'.why = "end"
           /\ d'.authenticated = d.authenticated /\ d'.got_source = d.got_source
           /\ d'.session \in {d.session, NoSession} /\ d'.pc = AfterSend("serve")
           /\ \/ toC' = toC /\ d'.pc = "close"
              \/ toC' = Append(toC, Error(m))
           /\ toC' \in Seq(Answer)
  <1>1. d \in Locals /\ toC \in Seq(Answer)
    BY Zenon DEF TypeOK, Locals
  <1>2. Error(m) \in Answer
    BY AnswerTypes, Zenon
  <1>3. (d.late \/ d.new # NoSession) \in BOOLEAN
    BY Zenon
  <1>4. /\ d' \in Locals /\ d'.pc \in {"serve", "close"} /\ d'.why = "end"
        /\ d'.authenticated = d.authenticated /\ d'.got_source = d.got_source
        /\ d'.session \in {d.session, NoSession} /\ d'.pc = AfterSend("serve")
    <2>1. PICK pc, k, late : /\ pc = AfterSend("serve") /\ late = (d.late \/ d.new # NoSession)
                             /\ k = IF d.got_source THEN NoSession ELSE d.session
      BY Zenon
    <2>2. d' = [d EXCEPT !.pc = pc, !.why = "end", !.session = k, !.new = NoSession, !.late = late]
      BY <2>1, Zenon DEF StartFails
    <2>3. pc \in {"serve", "close"} /\ k \in {d.session, NoSession} /\ late \in BOOLEAN
      BY <1>3, <2>1, Zenon DEF AfterSend
    <2>4. pc \in Places
      BY <2>3 DEF Places
    <2>5. d' \in Locals
      BY <1>1, <2>2, <2>3, <2>4 DEF Locals
    <2>6. /\ d'.pc = pc /\ d'.why = "end" /\ d'.session = k
          /\ d'.authenticated = d.authenticated /\ d'.got_source = d.got_source
      BY <1>1, <2>2 DEF Locals
    <2> QED
      BY <2>1, <2>3, <2>5, <2>6, Zenon
  <1> QED
    BY <1>1, <1>2, <1>4 DEF StartFails, Sent, AfterSend

(* The type of the session structures. *)
Structs == [live : BOOLEAN, fp : BOOLEAN, sock : {"none", "listen", "conn"},
            have_thread : BOOLEAN, TotCapt : 0..MaxPkts \cup {Uninit}, brk : BOOLEAN]

(* daemon_msg_startcap_req up to its reply. *)
LEMMA StartStep ==
    ASSUME IInv, d.pc = "serve", Receives, UNCHANGED <<ctl, sent>>,
           NEW m, m = Head(toD), m.type = "STARTCAP", StartCap(m)
    PROVE  IInv'
  <1>1. /\ m \in Request /\ toD # <<>> /\ toD' = Tail(toD) /\ d \in Locals
        /\ s \in [Slots -> Structs] /\ toC \in Seq(Answer) /\ QueuesOK
        /\ m.id \in 0..MaxReq
    <2>1. /\ toD \in Seq(Request) /\ toD # <<>> /\ toD' = Tail(toD) /\ d \in Locals
          /\ s \in [Slots -> Structs] /\ toC \in Seq(Answer) /\ QueuesOK
      BY Zenon DEF IInv, TypeOK, Locals, Structs, Receives, QueuesOK
    <2>2. m \in Request
      BY <2>1
    <2> QED
      BY <2>1, <2>2, Zenon DEF Request
  <1>2. CASE StartFails(m, s) /\ UNCHANGED <<t, data, cdata>>
    <2>1. UNCHANGED Capture
      BY <1>2, Zenon DEF StartFails, Capture
    <2>2. /\ d' \in Locals /\ d'.pc \in {"serve", "close"} /\ d'.why = "end"
          /\ d'.authenticated = d.authenticated /\ d'.got_source = d.got_source
          /\ d'.session \in {d.session, NoSession}
          /\ toC' = toC \/ toC' = Append(toC, Error(m))
      BY <1>1, <1>2, StartFailsType, Zenon DEF IInv
    <2>3. Error(m) \in Answer /\ Error(m).id = m.id
      BY <1>1, AnswerTypes, Zenon
    <2> QED
      BY <1>1, <2>1, <2>2, <2>3, HandlerKeeps, Zenon
  <1>3. ASSUME NEW k \in FreeSlots, d.got_source, ctl = "up",
               s' = [s EXCEPT ![k] = Opened(IF d.active THEN "conn" ELSE "listen")],
               cdata' = [cdata EXCEPT ![k] = IF d.active THEN "up" ELSE "none"],
               data' = [data EXCEPT ![k] = <<>>], t' = t, toC' = Sent(Reply(m, 0)),
               d' = [d EXCEPT !.pc = IF d.active THEN "thread" ELSE "accept",
                              !.req = m.id, !.new = k]
        PROVE  IInv'
    <2>1. Reply(m, 0) \in Answer /\ Reply(m, 0).id = m.id
      BY <1>1, AnswerTypes, Zenon
    <2>2. toC' = Append(toC, Reply(m, 0))
      BY <1>3, Zenon DEF Sent
    <2>3. k \in Slots /\ ~s[k].live
      BY <1>3, Zenon DEF FreeSlots
    <2>4. Opened(IF d.active THEN "conn" ELSE "listen") \in Structs
      BY Zenon DEF Opened, NoStruct, Structs
    <2>5. /\ d' \in Locals /\ d'.session = d.session /\ d'.authenticated = d.authenticated
          /\ d'.got_source = d.got_source /\ d'.pc \in {"accept", "thread"} /\ d'.why = d.why
          /\ d'.req = m.id /\ d'.new = k /\ (d'.pc = "thread" => d.active)
      BY <1>1, <1>3, <2>3 DEF Locals, Places
    <2>6. TypeOK'
      <3>1. toC' \in Seq(Answer) /\ toD' \in Seq(Request)
        BY <1>1, <2>1, <2>2 DEF QueuesOK
      <3>2. s' \in [Slots -> Structs]
        BY <1>1, <1>3, <2>3, <2>4, Zenon
      <3>3. cdata' \in [Slots -> {"none", "up", "closed"}]
        BY <1>3, Zenon DEF IInv, TypeOK
      <3>4. data' \in [Slots -> Seq(Packet)]
        <4>1. <<>> \in Seq(Packet) /\ data \in [Slots -> Seq(Packet)]
          BY DEF IInv, TypeOK
        <4> HIDE DEF Packet
        <4> QED
          BY <1>3, <4>1, Zenon
      <3> QED
        BY <1>3, <2>5, <3>1, <3>2, <3>3, <3>4, Zenon DEF IInv, TypeOK, Structs, Locals
    <2>7. SessionInv'
      <3>1. t[k].pc = "none" /\ d.why = "end" /\ d.authenticated
        <4>1. \A j \in Slots : t[j].pc # "none" => s[j].live
          BY Zenon DEF IInv, SessionInv
        <4>2. d.why = "end" /\ d.authenticated
          BY Zenon DEF IInv, SessionInv
        <4> QED
          BY <2>3, <4>1, <4>2, Zenon
      <3>2. d.session # k
        BY <2>3, <3>1, RpcapdAssumption, Zenon DEF IInv, SessionInv, NoSession
      <3>3. /\ s'[k].live /\ s'[k].fp /\ (d'.pc = "thread" => s'[k].sock = "conn")
            /\ \A j \in Slots : j # k => s'[j] = s[j]
        BY <1>1, <1>3, <2>3, <2>5, Zenon DEF Opened, NoStruct, Structs
      <3>4. d'.authenticated /\ d'.got_source
        BY <1>3, <2>5, <3>1, Zenon
      <3>5. AuthenticatedFirst'
        BY <3>4, Zenon DEF AuthenticatedFirst
      <3>6. \A j \in Slots : t[j].pc # "none" => s'[j] = s[j]
        BY <3>1, <3>3, Zenon
      <3> QED
        BY <1>3, <2>3, <2>5, <3>1, <3>2, <3>3, <3>4, <3>5, <3>6 DEF IInv, SessionInv
    <2>8. OrderInv'
      BY <1>1, <2>1, <2>2, TakeOrder, Zenon DEF IInv
    <2>9. InHand'
      <3>1. /\ Len(toD') = Len(toD) - 1 /\ Len(toD) \in Nat \ {0} /\ toD[1] = m
            /\ \A i \in 1..Len(toD') : toD'[i] = toD[i + 1]
        BY <1>1 DEF QueuesOK
      <3>2. m.id # 0 => Current(m.id)'
        BY <1>1, <3>1 DEF IInv, OrderInv, InOrderD, Asked, Current
      <3>3. /\ Len(toC') = Len(toC) + 1 /\ toC'[Len(toC) + 1] = Reply(m, 0) /\ Len(toC) \in Nat
            /\ \A i \in 1..Len(toC) : toC'[i] = toC[i]
        BY <1>1, <2>1, <2>2
      <3>4. m.id # 0 => \A i \in 1..Len(toC) : toC[i].id # 0 => toC[i].id < m.id
        BY <3>1 DEF IInv, OrderInv, GivenFirst
      <3>5. Reply(m, 0).type = "STARTCAP" /\ ~Reply(m, 0).err
        BY Zenon DEF Reply
      <3>6. d'.why = "end"
        BY <2>5, Zenon DEF IInv, SessionInv
      <3> QED
        BY <2>1, <2>5, <3>2, <3>3, <3>4, <3>5, <3>6 DEF InHand
    <2> QED
      BY <2>6, <2>7, <2>8, <2>9, Zenon DEF IInv
  <1>4. ASSUME FreeSlots # {}
        PROVE  (CHOOSE k \in FreeSlots : TRUE) \in FreeSlots
    BY <1>4, Zenon
  <1> QED
    BY <1>2, <1>3, <1>4, Zenon DEF StartCap

(* Authentication: Peek and AuthMsg.  There are no sessions yet. *)
LEMMA AuthStep == ASSUME IInv, Peek \/ AuthMsg PROVE IInv'
  <1>1. d \in Locals /\ QueuesOK /\ toC \in Seq(Answer)
    BY Zenon DEF IInv, TypeOK, Locals, QueuesOK
  <1>2. d.pc \in {"peek", "auth"} /\ UNCHANGED <<ctl, sent, s, t, data, cdata>>
    BY Zenon DEF Peek, AuthMsg, Wire, Capture
  <1>3. ~d.authenticated
    BY <1>2, Zenon DEF IInv, SessionInv
  <1>4. \A k \in Slots : ~s[k].live
    BY <1>3, Zenon DEF IInv, SessionInv, AuthenticatedFirst
  <1>5. \A k \in Slots : t[k].pc = "none"
    BY <1>4, Zenon DEF IInv, SessionInv
  <1>6. d.session = NoSession
    BY <1>1, <1>5, Zenon DEF IInv, SessionInv, Locals
  <1>7. /\ d' \in Locals /\ d'.session = NoSession
        /\ \/ d'.pc \in {"auth", "close"} /\ d'.authenticated = d.authenticated
           \/ d'.pc = "serve" /\ d'.authenticated = TRUE
           \/ d'.pc = "close" /\ d'.authenticated = FALSE
        /\ d'.why = "end" \/ d'.why = d.why
        /\ \/ toD' = toD /\ toC' = toC
           \/ /\ toD # <<>> /\ toD' = Tail(toD)
              /\ \/ toC' = toC
                 \/ \E a \in Answer : a.id \in {0, Head(toD).id} /\ toC' = Append(toC, a)
    <2>1. CASE Peek
      BY <1>1, <1>6, <2>1 DEF Peek, GiveUp, Locals, Places, Wire
    <2>2. CASE AuthMsg
      <3> DEFINE m == Head(toD)
      <3>1. toD # <<>> /\ toD' = Tail(toD) /\ AuthSwitch(m) /\ m \in Request
        BY <1>1, <2>2 DEF AuthMsg, Receives, QueuesOK
      <3>2. CASE m.type = "AUTH" /\ m.ok
        <4>1. /\ toC' = Sent(Reply(m, 0))
              /\ d' = [d EXCEPT !.pc = AfterSend("serve"), !.authenticated = (ctl = "up")]
          BY <3>1, <3>2, Zenon DEF AuthSwitch, Unanswered
        <4>2. Reply(m, 0) \in Answer /\ Reply(m, 0).id = m.id
          BY <3>1, AnswerTypes, Zenon
        <4>3. CASE ctl = "up"
          <5>1. d' = [d EXCEPT !.pc = "serve", !.authenticated = TRUE]
            BY <4>1, <4>3, Zenon DEF AfterSend
          <5> QED
            BY <1>1, <1>6, <3>1, <4>1, <4>2, <4>3, <5>1 DEF Sent, Locals, Places
        <4>4. CASE ctl # "up"
          <5>1. d' = [d EXCEPT !.pc = "close", !.authenticated = FALSE]
            BY <4>1, <4>4, Zenon DEF AfterSend
          <5> QED
            BY <1>1, <1>6, <3>1, <4>1, <4>4, <5>1 DEF Sent, Locals, Places
        <4> QED
          BY <4>3, <4>4, Zenon
      <3>3. CASE ~(m.type = "AUTH" /\ m.ok) /\ m.type \in Unanswered
        <4>1. GiveUp /\ toC' = toC
          BY <3>1, <3>3, Zenon DEF AuthSwitch
        <4> QED
          BY <1>1, <1>6, <3>1, <4>1, Zenon DEF GiveUp, Locals, Places
      <3>4. CASE ~(m.type = "AUTH" /\ m.ok) /\ m.type \notin Unanswered
        <4>1. Answered(Error(m), "auth")
          BY <3>1, <3>4, Zenon DEF AuthSwitch
        <4>2. Error(m) \in Answer /\ Error(m).id = m.id
          BY <3>1, AnswerTypes, Zenon
        <4> QED
          BY <1>1, <1>6, <3>1, <4>1, <4>2 DEF Answered, Sent, AfterSend, Locals, Places
      <3> QED
        BY <3>2, <3>3, <3>4, Zenon
    <2> QED
      BY <2>1, <2>2, Zenon
  <1>8. d'.why = "end"
    BY <1>2, <1>7, Zenon DEF IInv, SessionInv
  <1>9. OrderInv'
    <2>1. CASE toD' = toD /\ toC' = toC
      BY <1>2, <2>1 DEF IInv, OrderInv, AnswersInOrder, InOrderD, Asked, Given, GivenFirst,
                        StartTakenBack
    <2> QED
      BY <1>1, <1>2, <1>7, <2>1, TakeOrder, Zenon DEF IInv
  <1>10. TypeOK'
    <2>1. toD' \in Seq(Request)
      <3>1. toD \in Seq(Request) /\ (toD # <<>> => Tail(toD) \in Seq(Request))
        BY <1>1 DEF QueuesOK
      <3> QED
        BY <1>7, <3>1, Zenon
    <2>2. toC' \in Seq(Answer)
      <3>1. \A a \in Answer : Append(toC, a) \in Seq(Answer)
        BY <1>1
      <3> QED
        BY <1>1, <1>7, <3>1, Zenon
    <2> QED
      BY <1>2, <1>7, <2>1, <2>2, Zenon DEF IInv, TypeOK, Locals
  <1>11. SessionInv'
    <2>1. AuthenticatedFirst'
      BY <1>2, <1>4, Zenon DEF AuthenticatedFirst
    <2>2. d'.pc \in {"peek", "auth"} => ~d'.authenticated
      BY <1>3, <1>7, Zenon
    <2> QED
      BY <1>2, <1>5, <1>7, <1>8, <2>1, <2>2, Zenon DEF SessionInv
  <1>12. InHand'
    BY <1>7, <1>8, Zenon DEF InHand
  <1> QED
    BY <1>9, <1>10, <1>11, <1>12, Zenon DEF IInv

(* The end of the service loop: Timeout, Eof and Gone. *)
LEMMA EndStep == ASSUME IInv, Timeout \/ Eof \/ Gone PROVE IInv'
  <1>1. d \in Locals /\ QueuesOK /\ toC \in Seq(Answer)
    BY Zenon DEF IInv, TypeOK, Locals, QueuesOK
  <1>2. UNCHANGED <<toD, ctl, sent, s, t, data, cdata>>
    BY Zenon DEF Timeout, Eof, Gone, Wire, Capture
  <1>3. /\ d' \in Locals /\ d'.session = d.session /\ d'.authenticated = d.authenticated
        /\ d'.got_source = d.got_source /\ d'.pc \in {"close", "gone"}
    BY <1>1 DEF Timeout, Eof, Gone, GiveUp, Locals, Places
  <1>4. \/ toC' = toC /\ (d'.why = "end" \/ (d'.why = d.why /\ d'.req = d.req))
        \/ toC' = Append(toC, Unsolicited("TIMEOUT")) /\ d'.why = "end"
    BY <1>1, Zenon DEF Timeout, Eof, Gone, GiveUp, Wire, Sent, Locals
  <1>5. Unsolicited("TIMEOUT") \in Answer /\ Unsolicited("TIMEOUT").id = 0
    BY AnswerTypes, Zenon
  <1>6. TypeOK'
    <2>1. toC' \in Seq(Answer)
      BY <1>1, <1>4, <1>5
    <2> QED
      BY <1>2, <1>3, <2>1, Zenon DEF IInv, TypeOK, Locals
  <1>7. SessionInv'
    <2>1. AuthenticatedFirst'
      BY <1>2, <1>3, Zenon DEF IInv, SessionInv, AuthenticatedFirst
    <2> QED
      BY <1>2, <1>3, <2>1, Zenon DEF IInv, SessionInv
  <1>8. CASE toC' = toC
    <2>1. OrderInv'
      BY <1>2, <1>8 DEF IInv, OrderInv, AnswersInOrder, InOrderD, Asked, Given, GivenFirst,
                        StartTakenBack
    <2>2. InHand'
      BY <1>2, <1>3, <1>4, <1>8, Zenon DEF IInv, InHand, Current
    <2> QED
      BY <1>6, <1>7, <2>1, <2>2, Zenon DEF IInv
  <1>9. CASE toC' = Append(toC, Unsolicited("TIMEOUT")) /\ d'.why = "end"
    <2>1. OrderInv'
      BY <1>1, <1>2, <1>5, <1>9, AnswerOrder, Zenon DEF IInv
    <2>2. InHand'
      BY <1>3, <1>9, Zenon DEF InHand
    <2> QED
      BY <1>6, <1>7, <2>1, <2>2 DEF IInv
  <1> QED
    BY <1>4, <1>8, <1>9, Zenon

(* A start that fails after its reply. *)
LEMMA LateFailure ==
    ASSUME IInv, d.pc \in {"accept", "thread"}, StartFails(StartRequest, Released(d.new)),
           UNCHANGED <<toD, ctl, sent, t, data, cdata>>
    PROVE  IInv'
  <1> DEFINE a == Error(StartRequest)
  <1>1. /\ d \in Locals /\ QueuesOK /\ toC \in Seq(Answer) /\ s \in [Slots -> Structs]
        /\ d.req \in 0..MaxReq
    BY Zenon DEF IInv, TypeOK, Locals, QueuesOK, Structs
  <1>2. StartRequest \in Request /\ StartRequest.id = d.req
    BY <1>1, Zenon DEF StartRequest, Request, MsgTypes
  <1>3. a \in Answer /\ a.id = d.req /\ a.err
    <2>1. a.err
      BY Zenon DEF Error
    <2> QED
      BY <1>2, <2>1, AnswerTypes, Zenon
  <1>4. /\ d' \in Locals /\ d'.pc \in {"serve", "close"} /\ d'.why = "end"
        /\ d'.authenticated = d.authenticated /\ d'.got_source = d.got_source
        /\ d'.session \in {d.session, NoSession}
        /\ toC' = toC \/ toC' = Append(toC, a)
        /\ toC' \in Seq(Answer)
    BY <1>2, StartFailsType, Zenon DEF IInv
  <1>5. d.new \in Slots /\ t[d.new].pc = "none" /\ d.authenticated
    BY Zenon DEF IInv, SessionInv
  <1>6. NoStruct \in Structs /\ ~NoStruct.live
    BY Zenon DEF NoStruct, Structs
  <1>7. /\ s' = [s EXCEPT ![d.new] = NoStruct] /\ s' \in [Slots -> Structs]
        /\ ~s'[d.new].live /\ \A k \in Slots : k # d.new => s'[k] = s[k]
    <2>1. s' = [s EXCEPT ![d.new] = NoStruct]
      BY Zenon DEF StartFails, Released
    <2> HIDE DEF Structs
    <2> QED
      BY <1>1, <1>5, <1>6, <2>1, Zenon
  <1>8. TypeOK'
    BY <1>4, <1>7, Zenon DEF IInv, TypeOK, Locals, Structs
  <1>9. SessionInv'
    <2>1. AuthenticatedFirst'
      BY <1>4, <1>5, <1>7, Zenon DEF IInv, SessionInv, AuthenticatedFirst
    <2>2. \A k \in Slots : t[k].pc # "none" => s'[k] = s[k]
      BY <1>5, <1>7, Zenon
    <2>3. d'.authenticated
      BY <1>4, <1>5, Zenon
    <2> QED
      BY <1>4, <2>1, <2>2, <2>3 DEF IInv, SessionInv
  <1>10. OrderInv'
    <2>1. CASE toC' = toC
      BY <2>1 DEF IInv, OrderInv, AnswersInOrder, InOrderD, Asked, Given, GivenFirst,
                  StartTakenBack
    <2>2. CASE toC' = Append(toC, a)
      <3>1. a.id # 0 =>
              /\ Current(a.id)
              /\ \A i \in 1..Len(toC) : toC[i].id # 0 =>
                    toC[i].id < a.id \/ StartTakenBack(toC[i], a)
        BY <1>3, Zenon DEF IInv, InHand, StartTakenBack
      <3> HIDE DEF a
      <3> QED
        BY <1>1, <1>3, <2>2, <3>1, AnswerOrder, Zenon DEF IInv
    <2> QED
      BY <1>4, <2>1, <2>2, Zenon
  <1>11. InHand'
    BY <1>4, Zenon DEF InHand
  <1> QED
    BY <1>8, <1>9, <1>10, <1>11, Zenon DEF IInv

(* What the queues and d leave alone: the order is kept. *)
LEMMA QuietOrder ==
    ASSUME IInv, UNCHANGED <<toD, toC, sent>>
    PROVE  /\ OrderInv'
           /\ d'.pc = d.pc /\ d'.why = d.why /\ d'.req = d.req => InHand'
  <1>1. OrderInv'
    BY DEF IInv, OrderInv, AnswersInOrder, InOrderD, Asked, Given, GivenFirst, StartTakenBack
  <1>2. d'.pc = d.pc /\ d'.why = d.why /\ d'.req = d.req => InHand'
    BY Zenon DEF IInv, InHand, Current
  <1> QED
    BY <1>1, <1>2, Zenon

(* The start of a capture after its reply: Accept and MakeThread. *)
LEMMA ThreadMadeStep == ASSUME IInv, Accept \/ MakeThread PROVE IInv'
  <1>1. /\ d \in Locals /\ s \in [Slots -> Structs]
        /\ t \in [Slots -> [pc : ThreadPlaces, caplen : CapLens \cup {0}]]
    BY Zenon DEF IInv, TypeOK, Locals, Structs
  <1>2. d.pc \in {"accept", "thread"} /\ UNCHANGED <<toD, ctl, sent, data, cdata>>
    BY Zenon DEF Accept, MakeThread
  <1>3. /\ d.new \in Slots /\ t[d.new].pc = "none" /\ d.authenticated /\ d.got_source
        /\ s[d.new].live /\ s[d.new].fp /\ d.why = "end"
    BY <1>2, Zenon DEF IInv, SessionInv
  <1>4. CASE StartFails(StartRequest, Released(d.new)) /\ t' = t
    BY <1>2, <1>4, LateFailure, Zenon
  <1>5. CASE /\ Accept /\ s' = [s EXCEPT ![d.new].sock = "conn"]
             /\ d' = [d EXCEPT !.pc = "thread"] /\ toC' = toC /\ t' = t
    <2>1. /\ s' \in [Slots -> Structs] /\ s'[d.new].sock = "conn"
          /\ s'[d.new].live = s[d.new].live /\ s'[d.new].fp = s[d.new].fp
          /\ \A k \in Slots : k # d.new => s'[k] = s[k]
      <3> DEFINE r == [s[d.new] EXCEPT !.sock = "conn"]
      <3>1. /\ r \in Structs /\ r.sock = "conn" /\ r.live = s[d.new].live
            /\ r.fp = s[d.new].fp
        BY <1>1, <1>3 DEF Structs
      <3>2. s' = [s EXCEPT ![d.new] = r]
        BY <1>5, Zenon
      <3> HIDE DEF r
      <3> QED
        BY <1>1, <1>3, <3>1, <3>2, Zenon
    <2>2. /\ d' \in Locals /\ d'.session = d.session /\ d'.authenticated = d.authenticated
          /\ d'.got_source = d.got_source /\ d'.pc = "thread" /\ d'.why = d.why
          /\ d'.req = d.req /\ d'.new = d.new
      BY <1>1, <1>5, Zenon DEF Locals, Places
    <2>3. TypeOK'
      BY <1>2, <1>5, <2>1, <2>2, Zenon DEF IInv, TypeOK, Locals, Structs
    <2>4. SessionInv'
      <3>1. AuthenticatedFirst' /\ d'.authenticated /\ d'.got_source
        BY <1>3, <2>2, Zenon DEF AuthenticatedFirst
      <3>2. s'[d.new].live /\ s'[d.new].fp
        BY <1>3, <2>1, Zenon
      <3>3. \A k \in Slots : t[k].pc # "none" => s'[k] = s[k]
        BY <1>3, <2>1, Zenon
      <3> QED
        BY <1>3, <1>5, <2>1, <2>2, <3>1, <3>2, <3>3 DEF IInv, SessionInv
    <2>5. OrderInv' /\ InHand'
      <3>1. OrderInv'
        BY <1>2, <1>5, QuietOrder, Zenon
      <3> QED
        BY <1>2, <1>3, <1>5, <2>2, <3>1, Zenon DEF IInv, InHand, Current
    <2> QED
      BY <2>3, <2>4, <2>5, Zenon DEF IInv
  <1>6. CASE /\ MakeThread /\ t' = [t EXCEPT ![d.new].pc = "init"]
             /\ s' = [s EXCEPT ![d.new].have_thread = TRUE]
             /\ d' = [d EXCEPT !.pc = "serve", !.session = d.new, !.new = NoSession]
             /\ toC' = toC
    <2>1. /\ s' \in [Slots -> Structs] /\ s'[d.new].have_thread = TRUE
          /\ s'[d.new].live = s[d.new].live /\ s'[d.new].fp = s[d.new].fp
          /\ s'[d.new].sock = s[d.new].sock
          /\ \A k \in Slots : k # d.new => s'[k] = s[k]
      <3> DEFINE r == [s[d.new] EXCEPT !.have_thread = TRUE]
      <3>1. /\ r \in Structs /\ r.have_thread = TRUE /\ r.live = s[d.new].live
            /\ r.fp = s[d.new].fp /\ r.sock = s[d.new].sock
        BY <1>1, <1>3 DEF Structs
      <3>2. s' = [s EXCEPT ![d.new] = r]
        BY <1>6, Zenon
      <3> HIDE DEF r
      <3> QED
        BY <1>1, <1>3, <3>1, <3>2, Zenon
    <2>2. /\ t' \in [Slots -> [pc : ThreadPlaces, caplen : CapLens \cup {0}]]
          /\ t'[d.new].pc = "init" /\ \A k \in Slots : k # d.new => t'[k] = t[k]
      BY <1>1, <1>3, <1>6 DEF ThreadPlaces
    <2>3. /\ d' \in Locals /\ d'.session = d.new /\ d'.authenticated = d.authenticated
          /\ d'.got_source = d.got_source /\ d'.pc = "serve" /\ d'.why = d.why
      BY <1>1, <1>3, <1>6, Zenon DEF Locals, Places
    <2>4. TypeOK'
      BY <1>2, <1>6, <2>1, <2>2, <2>3, Zenon DEF IInv, TypeOK, Locals, Structs
    <2>5. SessionInv'
      <3>1. AuthenticatedFirst' /\ d'.authenticated
        BY <1>3, <2>3, Zenon DEF AuthenticatedFirst
      <3>2. /\ s'[d.new].live /\ s'[d.new].fp /\ s'[d.new].have_thread
            /\ s'[d.new].sock = "conn"
        <4>1. s[d.new].sock = "conn"
          BY <1>6, Zenon DEF IInv, SessionInv, MakeThread
        <4> QED
          BY <1>3, <2>1, <4>1, Zenon
      <3> QED
        BY <1>3, <2>1, <2>2, <2>3, <3>1, <3>2 DEF IInv, SessionInv
    <2>6. OrderInv' /\ InHand'
      <3>1. OrderInv'
        BY <1>2, <1>6, QuietOrder, Zenon
      <3> QED
        BY <1>3, <2>3, <3>1, Zenon DEF InHand
    <2> QED
      BY <2>4, <2>5, <2>6 DEF IInv
  <1> QED
    BY <1>4, <1>5, <1>6, Zenon DEF Accept, MakeThread

(* The type of the data threads' locals. *)
Threads == [pc : ThreadPlaces, caplen : CapLens \cup {0}]

(* What a data thread does, or what is done to it, while it has not been   *)
(* joined: its structure stays what it is but for TotCapt and break_loop.  *)
Moves(k, u, r) ==
    /\ t[k].pc # "none" /\ u \in Threads /\ t' = [t EXCEPT ![k] = u] /\ u.pc # "none"
    /\ r \in Structs /\ s' = [s EXCEPT ![k] = r]
    /\ r.live = s[k].live /\ r.fp = s[k].fp /\ r.sock = s[k].sock
    /\ r.have_thread = s[k].have_thread
    /\ u.pc \notin {"init", "exit"} => r.TotCapt # Uninit
    /\ u.pc = "send" => u.caplen \in CapLens

LEMMA ThreadKeeps ==
    ASSUME IInv, NEW k \in Slots, NEW u, NEW r, Moves(k, u, r),
           d'.session = d.session, d'.authenticated = d.authenticated,
           d'.got_source = d.got_source, d'.why = d.why, d'.new = d.new,
           \/ d'.pc = d.pc
           \/ d.pc = "close" /\ d'.pc = "join" /\ d.session # NoSession
    PROVE  SessionInv' /\ t' \in [Slots -> Threads] /\ s' \in [Slots -> Structs]
  <1> USE DEF Moves
  <1>1. t \in [Slots -> Threads] /\ s \in [Slots -> Structs]
    BY Zenon DEF IInv, TypeOK, Threads, Structs
  <1>2. /\ t' \in [Slots -> Threads] /\ t'[k] = u
        /\ \A j \in Slots : j # k => t'[j] = t[j]
    BY <1>1, Zenon
  <1>3. /\ s' \in [Slots -> Structs] /\ s'[k] = r
        /\ \A j \in Slots : j # k => s'[j] = s[j]
    BY <1>1, Zenon
  <1>4. \A j \in Slots : s'[j].live = s[j].live
    BY <1>3, Zenon
  <1>5. AuthenticatedFirst'
    BY <1>4, Zenon DEF IInv, SessionInv, AuthenticatedFirst
  <1>6. s[k].live /\ s[k].fp /\ s[k].sock = "conn" /\ s[k].have_thread
    BY Zenon DEF IInv, SessionInv
  <1>7. r.live /\ r.fp /\ r.sock = "conn" /\ r.have_thread
    BY <1>6, Zenon
  <1>8. \A j \in Slots :
          /\ t'[j].pc # "none" =>
                s'[j].live /\ s'[j].fp /\ s'[j].sock = "conn" /\ s'[j].have_thread
          /\ t'[j].pc \notin {"none", "init"} => s'[j].TotCapt # Uninit \/ t'[j].pc = "exit"
          /\ t'[j].pc = "send" => t'[j].caplen \in CapLens
    <2> SUFFICES ASSUME NEW j \in Slots
                 PROVE  /\ t'[j].pc # "none" =>
                              /\ s'[j].live /\ s'[j].fp
                              /\ s'[j].sock = "conn" /\ s'[j].have_thread
                        /\ t'[j].pc \notin {"none", "init"} =>
                              s'[j].TotCapt # Uninit \/ t'[j].pc = "exit"
                        /\ t'[j].pc = "send" => t'[j].caplen \in CapLens
      BY Zenon
    <2>1. CASE j = k
      BY <1>2, <1>3, <1>7, <2>1
    <2>2. CASE j # k
      BY <1>2, <1>3, <2>2 DEF IInv, SessionInv
    <2> QED
      BY <2>1, <2>2, Zenon
  <1>9. d.pc \in {"accept", "thread"} =>
          d.new # k /\ s'[d.new] = s[d.new] /\ t'[d.new] = t[d.new]
    BY <1>2, <1>3 DEF IInv, SessionInv
  <1>10. d.session # NoSession => d.session \in Slots /\ t'[d.session].pc # "none"
    <2>1. d.session \in Slots \cup {NoSession}
      BY Zenon DEF IInv, TypeOK
    <2> QED
      BY <1>2, <2>1 DEF IInv, SessionInv
  <1>11. SessionInv'
    <2>1. /\ d'.pc \in {"peek", "auth"} => ~d'.authenticated
          /\ d'.pc \in {"serve", "accept", "thread"} => d'.authenticated
          /\ d'.pc \in {"peek", "auth", "serve", "accept", "thread"} => d'.why = "end"
      BY DEF IInv, SessionInv
    <2>2. /\ d'.session # NoSession => t'[d'.session].pc # "none"
          /\ d'.pc = "join" => d'.session # NoSession
      BY <1>10 DEF IInv, SessionInv
    <2>3. d'.pc \in {"accept", "thread"} =>
            /\ d'.new \in Slots /\ d'.got_source
            /\ s'[d'.new].live /\ s'[d'.new].fp /\ t'[d'.new].pc = "none"
      BY <1>9 DEF IInv, SessionInv
    <2>4. d'.pc = "thread" => s'[d'.new].sock = "conn"
      BY <1>9 DEF IInv, SessionInv
    <2> QED
      BY <1>5, <1>8, <2>1, <2>2, <2>3, <2>4, Zenon DEF SessionInv
  <1> QED
    BY <1>2, <1>3, <1>11, Zenon

(* ... and the rest of the state with it. *)
LEMMA ThreadQuiet ==
    ASSUME IInv, NEW k \in Slots, NEW u, NEW r, Moves(k, u, r),
           UNCHANGED <<toD, ctl, sent, d, cdata>>, data' \in [Slots -> Seq(Packet)],
           toC' = toC \/ toC' = Append(toC, Unsolicited("READEX"))
    PROVE  IInv'
  <1>1. toC \in Seq(Answer) /\ QueuesOK
    BY Zenon DEF IInv, TypeOK, QueuesOK
  <1>2. SessionInv' /\ t' \in [Slots -> Threads] /\ s' \in [Slots -> Structs]
    <2>1. /\ d'.session = d.session /\ d'.authenticated = d.authenticated
          /\ d'.got_source = d.got_source /\ d'.why = d.why /\ d'.new = d.new
          /\ d'.pc = d.pc
      BY Zenon
    <2> QED
      BY <2>1, ThreadKeeps, Zenon
  <1>3. Unsolicited("READEX") \in Answer /\ Unsolicited("READEX").id = 0
    BY AnswerTypes, Zenon
  <1>4. TypeOK'
    <2>1. Append(toC, Unsolicited("READEX")) \in Seq(Answer)
      BY <1>1, <1>3
    <2>2. toC' \in Seq(Answer)
      BY <1>1, <2>1, Zenon
    <2> QED
      BY <1>2, <2>2 DEF IInv, TypeOK, Threads, Structs
  <1>5. CASE toC' = toC
    BY <1>2, <1>4, <1>5, QuietOrder, Zenon DEF IInv
  <1>6. CASE toC' = Append(toC, Unsolicited("READEX"))
    <2>1. OrderInv'
      BY <1>1, <1>3, <1>6, AnswerOrder, Zenon DEF IInv
    <2>2. /\ Len(toC') = Len(toC) + 1 /\ toC'[Len(toC) + 1] = Unsolicited("READEX")
          /\ Len(toC) \in Nat /\ \A i \in 1..Len(toC) : toC'[i] = toC[i]
      BY <1>1, <1>3, <1>6
    <2>3. \A i \in 1..Len(toC') : toC'[i].id # 0 => i \in 1..Len(toC) /\ toC'[i] = toC[i]
      BY <1>3, <2>2
    <2>4. InHand'
      BY <2>3, Zenon DEF IInv, InHand, Current
    <2> QED
      BY <1>2, <1>4, <2>1, <2>4, Zenon DEF IInv
  <1> QED
    BY <1>5, <1>6, Zenon

(* A data thread. *)
LEMMA ThreadStep == ASSUME IInv, NEW k \in Slots, DataThread(k) PROVE IInv'
  <1>1. /\ t[k] \in Threads /\ s[k] \in Structs /\ t \in [Slots -> Threads]
        /\ s \in [Slots -> Structs] /\ data \in [Slots -> Seq(Packet)]
    BY Zenon DEF IInv, TypeOK, Threads, Structs
  <1>2. /\ t[k].pc \notin {"none", "init", "exit"} => s[k].TotCapt # Uninit
        /\ t[k].pc = "send" => t[k].caplen \in CapLens
    BY Zenon DEF IInv, SessionInv
  <1>3. \A place \in ThreadPlaces :
          LET u == [t[k] EXCEPT !.pc = place] IN
          /\ u \in Threads /\ u.pc = place /\ u.caplen = t[k].caplen
          /\ [t EXCEPT ![k].pc = place] = [t EXCEPT ![k] = u]
    BY <1>1, Zenon DEF Threads
  <1>4. s = [s EXCEPT ![k] = s[k]]
    BY <1>1, Zenon
  <1>5. CASE ThreadInit(k)
    <2> DEFINE r == [s[k] EXCEPT !.TotCapt = 0]
               u(place) == [t[k] EXCEPT !.pc = place]
    <2>1. /\ t' = [t EXCEPT ![k].pc = "next"] \/ t' = [t EXCEPT ![k].pc = "exit"]
          /\ s' = [s EXCEPT ![k].TotCapt = 0]
          /\ t[k].pc = "init" /\ UNCHANGED <<toD, toC, ctl, sent, d, data, cdata>>
      BY <1>5, Zenon DEF ThreadInit, Wire
    <2>2. 0 \in 0..MaxPkts
      BY RpcapdAssumption
    <2>3. /\ r \in Structs /\ r.TotCapt = 0 /\ s' = [s EXCEPT ![k] = r]
          /\ r.live = s[k].live /\ r.fp = s[k].fp /\ r.sock = s[k].sock
          /\ r.have_thread = s[k].have_thread
      BY <1>1, <2>1, <2>2, Zenon DEF Structs
    <2>4. r.TotCapt # Uninit
      BY <2>3 DEF Uninit
    <2>5. PICK place \in {"next", "exit"} : t' = [t EXCEPT ![k].pc = place]
      BY <2>1, Zenon
    <2>6. u(place) \in Threads /\ u(place).pc = place /\ t' = [t EXCEPT ![k] = u(place)]
      BY <1>3, <2>5, Zenon DEF ThreadPlaces
    <2> HIDE DEF r, u
    <2>7. Moves(k, u(place), r)
      BY <2>1, <2>3, <2>6, <2>4, Zenon DEF Moves
    <2> QED
      BY <1>1, <2>1, <2>7, ThreadQuiet, Zenon
  <1>6. CASE ThreadCheck(k)
    <2> DEFINE r == [s[k] EXCEPT !.brk = FALSE]
               u(place) == [t[k] EXCEPT !.pc = place]
    <2>1. /\ t' = [t EXCEPT ![k].pc = "exit"] \/ t' = [t EXCEPT ![k].pc = "checked"]
          /\ s' = [s EXCEPT ![k].brk = FALSE]
          /\ t[k].pc = "next" /\ UNCHANGED <<toD, toC, ctl, sent, d, data, cdata>>
      BY <1>6, Zenon DEF ThreadCheck, Wire
    <2>2. /\ r \in Structs /\ r.TotCapt = s[k].TotCapt /\ s' = [s EXCEPT ![k] = r]
          /\ r.live = s[k].live /\ r.fp = s[k].fp /\ r.sock = s[k].sock
          /\ r.have_thread = s[k].have_thread
      BY <1>1, <2>1, Zenon DEF Structs
    <2>3. PICK place \in {"checked", "exit"} : t' = [t EXCEPT ![k].pc = place]
      BY <2>1, Zenon
    <2>4. u(place) \in Threads /\ u(place).pc = place /\ t' = [t EXCEPT ![k] = u(place)]
      BY <1>3, <2>3, Zenon DEF ThreadPlaces
    <2> HIDE DEF r, u
    <2>5. Moves(k, u(place), r)
      BY <1>2, <2>1, <2>2, <2>3, <2>4, Zenon DEF Moves
    <2> QED
      BY <1>1, <2>1, <2>5, ThreadQuiet, Zenon
  <1>7. CASE ThreadWait(k) \/ ThreadWake(k) \/ ThreadError(k)
    <2> DEFINE u(place) == [t[k] EXCEPT !.pc = place]
    <2>1. /\ \/ t' = [t EXCEPT ![k].pc = "wait"] \/ t' = [t EXCEPT ![k].pc = "next"]
             \/ t' = [t EXCEPT ![k].pc = "exit"]
          /\ t[k].pc \in {"checked", "wait"} /\ UNCHANGED <<toD, ctl, sent, d, s, data, cdata>>
          /\ toC' = toC \/ toC' = Append(toC, Unsolicited("READEX"))
      BY <1>7, Zenon DEF ThreadWait, ThreadWake, ThreadError, Wire, Sent
    <2>2. PICK place \in {"wait", "next", "exit"} : t' = [t EXCEPT ![k].pc = place]
      BY <2>1, Zenon
    <2>3. u(place) \in Threads /\ u(place).pc = place /\ t' = [t EXCEPT ![k] = u(place)]
      BY <1>3, <2>2 DEF ThreadPlaces
    <2> HIDE DEF u
    <2>4. Moves(k, u(place), s[k])
      BY <1>1, <1>2, <1>4, <2>1, <2>2, <2>3, Zenon DEF Moves
    <2> QED
      BY <1>1, <2>1, <2>4, ThreadQuiet, Zenon
  <1>8. ASSUME NEW caplen \in CapLens, ThreadPacket(k, caplen)
        PROVE  IInv'
    <2> DEFINE r == [s[k] EXCEPT !.TotCapt = @ + 1]
               u == [pc |-> "send", caplen |-> caplen]
    <2>1. /\ t[k].pc = "wait" /\ s[k].TotCapt < MaxPkts /\ t' = [t EXCEPT ![k] = u]
          /\ UNCHANGED <<toD, toC, ctl, sent, d, data, cdata>>
          /\ s' = [s EXCEPT ![k].TotCapt = @ + 1]
      BY <1>8, Zenon DEF ThreadPacket, Wire
    <2>2. u \in Threads /\ u.pc = "send" /\ u.caplen \in CapLens
      BY <1>8, Zenon DEF Threads, ThreadPlaces
    <2>3. s[k].TotCapt + 1 \in 0..MaxPkts
      <3>1. MaxPkts \in Nat /\ s[k].TotCapt \in 0..MaxPkts
        BY <1>1, <1>2, <2>1, RpcapdAssumption, Zenon DEF Structs
      <3> QED
        BY <2>1, <3>1
    <2>4. /\ r \in Structs /\ r.TotCapt \in 0..MaxPkts /\ s' = [s EXCEPT ![k] = r]
          /\ r.live = s[k].live /\ r.fp = s[k].fp /\ r.sock = s[k].sock
          /\ r.have_thread = s[k].have_thread
      BY <1>1, <2>1, <2>3, Zenon DEF Structs
    <2>5. r.TotCapt # Uninit
      BY <2>4 DEF Uninit
    <2> HIDE DEF r, u
    <2>6. Moves(k, u, r)
      BY <2>1, <2>2, <2>4, <2>5, Zenon DEF Moves
    <2> QED
      BY <1>1, <2>1, <2>6, ThreadQuiet, Zenon
  <1>9. CASE ThreadSend(k)
    <2> DEFINE u(place) == [pc |-> place, caplen |-> 0]
    <2>1. /\ \/ /\ t' = [t EXCEPT ![k] = u("next")]
                /\ data' = [data EXCEPT ![k] = Append(@, PacketMsg(k))]
             \/ t' = [t EXCEPT ![k] = u("exit")] /\ data' = data
          /\ t[k].pc = "send" /\ UNCHANGED <<toD, toC, ctl, sent, d, s, cdata>>
      BY <1>9, Zenon DEF ThreadSend, Wire
    <2>2. /\ u("next") \in Threads /\ u("next").pc = "next"
          /\ u("exit") \in Threads /\ u("exit").pc = "exit"
      BY Zenon DEF Threads, ThreadPlaces
    <2>3. PacketMsg(k) \in Packet
      <3>1. s[k].TotCapt \in 0..MaxPkts \cup {Uninit}
        BY <1>1, Zenon DEF Structs
      <3>2. s[k].TotCapt \in 0..MaxPkts /\ t[k].caplen \in CapLens
        BY <1>2, <2>1, <3>1, Zenon
      <3>3. t[k].caplen \in Nat
        BY <3>2, RpcapdAssumption, Zenon
      <3>4. U16 \in Nat \ {0}
        BY SMT DEF U16
      <3>5. (PktHdr + t[k].caplen) % U16 \in 0..(U16 - 1)
        BY <3>3, <3>4 DEF PktHdr
      <3> QED
        BY <3>2, <3>5, Zenon DEF PacketMsg, Packet
    <2>4. data' \in [Slots -> Seq(Packet)]
      <3>1. Append(data[k], PacketMsg(k)) \in Seq(Packet)
        BY <1>1, <2>3
      <3>2. [data EXCEPT ![k] = Append(data[k], PacketMsg(k))] \in [Slots -> Seq(Packet)]
        BY <1>1, <3>1, Zenon
      <3> QED
        BY <1>1, <2>1, <3>2, Zenon
    <2> HIDE DEF u
    <2>5. Moves(k, u("next"), s[k]) \/ Moves(k, u("exit"), s[k])
      BY <1>1, <1>2, <1>4, <2>1, <2>2, Zenon DEF Moves
    <2> QED
      BY <2>1, <2>4, <2>5, ThreadQuiet, Zenon
  <1> QED
    BY <1>5, <1>6, <1>7, <1>8, <1>9, Zenon DEF DataThread, ThreadRuns

(* session_close: Interrupt and Join. *)
LEMMA CloseStep == ASSUME IInv, Interrupt \/ Join PROVE IInv'
  <1> DEFINE k == d.session
  <1>1. /\ d \in Locals /\ s \in [Slots -> Structs] /\ t \in [Slots -> Threads]
        /\ toC \in Seq(Answer) /\ QueuesOK
    BY Zenon DEF IInv, TypeOK, Locals, Structs, Threads, QueuesOK
  <1>2. k # NoSession
    BY Zenon DEF IInv, SessionInv, Interrupt, Join
  <1>3. k \in Slots /\ t[k] \in Threads /\ s[k] \in Structs /\ t[k].pc # "none"
    <2>1. k \in Slots
      BY <1>1, <1>2, Zenon DEF Locals
    <2> QED
      BY <1>1, <1>2, <2>1, Zenon DEF IInv, SessionInv
  <1>4. CASE Interrupt
    <2> DEFINE u == [t[k] EXCEPT !.pc = IF @ = "wait" THEN "next" ELSE @]
               r == [s[k] EXCEPT !.brk = TRUE]
    <2>1. /\ s' = [s EXCEPT ![k] = r] /\ r \in Structs /\ r.TotCapt = s[k].TotCapt
          /\ r.live = s[k].live /\ r.fp = s[k].fp /\ r.sock = s[k].sock
          /\ r.have_thread = s[k].have_thread
      BY <1>1, <1>3, <1>4, Zenon DEF Interrupt, Structs
    <2>2. t' = [t EXCEPT ![k] = u] /\ u \in Threads
      BY <1>1, <1>3, <1>4, Zenon DEF Interrupt, Threads, ThreadPlaces
    <2>3. /\ u.pc = (IF t[k].pc = "wait" THEN "next" ELSE t[k].pc)
          /\ u.caplen = t[k].caplen
      BY <1>1, <1>3, Zenon DEF Threads
    <2>4. /\ d' \in Locals /\ d'.session = d.session /\ d'.authenticated = d.authenticated
          /\ d'.got_source = d.got_source /\ d'.why = d.why /\ d'.new = d.new
          /\ d.pc = "close" /\ d'.pc = "join" /\ d'.req = d.req
      BY <1>1, <1>4, Zenon DEF Interrupt, Locals, Places
    <2>5. UNCHANGED <<toD, toC, ctl, sent, data, cdata>>
      BY <1>4, Zenon DEF Interrupt, Wire
    <2>6. /\ t[k].pc \notin {"none", "init", "exit"} => s[k].TotCapt # Uninit
          /\ t[k].pc = "send" => t[k].caplen \in CapLens
      BY <1>3, Zenon DEF IInv, SessionInv
    <2> HIDE DEF u, r
    <2>7. Moves(k, u, r)
      BY <1>3, <2>1, <2>2, <2>3, <2>6, Zenon DEF Moves
    <2>8. SessionInv' /\ t' \in [Slots -> Threads] /\ s' \in [Slots -> Structs]
      BY <1>2, <1>3, <2>4, <2>7, ThreadKeeps
    <2>9. TypeOK'
      BY <2>4, <2>5, <2>8, Zenon DEF IInv, TypeOK, Locals, Threads, Structs
    <2>10. OrderInv' /\ InHand'
      <3>1. OrderInv'
        BY <2>5, QuietOrder, Zenon
      <3> QED
        BY <2>4, <2>5, <3>1, Zenon DEF IInv, InHand, Current
    <2> QED
      BY <2>8, <2>9, <2>10, Zenon DEF IInv
  <1>5. CASE Join
    <2> DEFINE a == [type |-> "ENDCAP", id |-> d.req, err |-> FALSE, svrcapt |-> 0]
    <2>1. /\ t' = [t EXCEPT ![k] = NoThread] /\ s' = [s EXCEPT ![k] = NoStruct]
          /\ UNCHANGED <<toD, ctl, sent, data, cdata>>
      BY <1>5, Zenon DEF Join, Released
    <2>2. /\ NoStruct \in Structs /\ ~NoStruct.live
          /\ NoThread \in Threads /\ NoThread.pc = "none"
      BY Zenon DEF NoStruct, Structs, NoThread, Threads, ThreadPlaces
    <2>3. /\ t' \in [Slots -> Threads] /\ t'[k].pc = "none"
          /\ \A j \in Slots : j # k => t'[j] = t[j]
      BY <1>1, <1>3, <2>1, <2>2, Zenon
    <2>4. /\ s' \in [Slots -> Structs] /\ ~s'[k].live
          /\ \A j \in Slots : j # k => s'[j] = s[j]
      BY <1>1, <1>3, <2>1, <2>2, Zenon
    <2>5. d.authenticated
      <3>1. s[k].live
        BY <1>3, Zenon DEF IInv, SessionInv
      <3> QED
        BY <1>3, <3>1, Zenon DEF IInv, SessionInv, AuthenticatedFirst
    <2>6. \/ d.why = "endcap" /\ d' = [d EXCEPT !.pc = AfterSend("serve"), !.why = "end",
                                                !.session = NoSession]
             /\ toC' = Sent(a)
          \/ d.why # "endcap" /\ d' = [d EXCEPT !.pc = "close", !.session = NoSession]
             /\ toC' = toC
      BY <1>5, Zenon DEF Join
    <2>7. /\ d' \in Locals /\ d'.session = NoSession /\ d'.authenticated = d.authenticated
          /\ d'.got_source = d.got_source /\ d'.why = "end" /\ d'.pc \in {"serve", "close"}
      BY <1>1, <2>6 DEF AfterSend, Locals, Places
    <2>8. a \in Answer /\ a.id = d.req
      <3>1. d.req \in 0..MaxReq /\ 0 \in 0..MaxPkts
        BY <1>1, RpcapdAssumption DEF Locals
      <3> QED
        BY <3>1, Zenon DEF Answer, MsgTypes
    <2>9. toC' = toC \/ (d.why = "endcap" /\ toC' = Append(toC, a))
      BY <2>6, Zenon DEF Sent
    <2> HIDE DEF a
    <2>10. TypeOK'
      <3>1. Append(toC, a) \in Seq(Answer)
        BY <1>1, <2>8
      <3>2. toC' \in Seq(Answer)
        BY <1>1, <2>9, <3>1, Zenon
      <3> QED
        BY <2>1, <2>3, <2>4, <2>7, <3>2, Zenon DEF IInv, TypeOK, Locals, Threads, Structs
    <2>11. SessionInv'
      <3>1. AuthenticatedFirst'
        BY <2>4, <2>7, Zenon DEF IInv, SessionInv, AuthenticatedFirst
      <3>2. d'.authenticated
        BY <2>5, <2>7, Zenon
      <3>3. ASSUME NEW j \in Slots
            PROVE  /\ t'[j].pc # "none" =>
                         s'[j].live /\ s'[j].fp /\ s'[j].sock = "conn" /\ s'[j].have_thread
                   /\ t'[j].pc \notin {"none", "init"} =>
                         s'[j].TotCapt # Uninit \/ t'[j].pc = "exit"
                   /\ t'[j].pc = "send" => t'[j].caplen \in CapLens
        BY <2>3, <2>4 DEF IInv, SessionInv
      <3> QED
        BY <2>7, <3>1, <3>2, <3>3, Zenon DEF SessionInv
    <2>12. OrderInv'
      <3>1. CASE toC' = toC
        BY <2>1, <3>1, QuietOrder, Zenon
      <3>2. CASE d.why = "endcap" /\ toC' = Append(toC, a)
        <4>1. a.id # 0 =>
                /\ Current(a.id)
                /\ \A i \in 1..Len(toC) : toC[i].id # 0 =>
                      toC[i].id < a.id \/ StartTakenBack(toC[i], a)
          BY <2>8, <3>2, Zenon DEF IInv, InHand
        <4> QED
          BY <1>1, <2>1, <2>8, <3>2, <4>1, AnswerOrder, Zenon DEF IInv
      <3> QED
        BY <2>9, <3>1, <3>2, Zenon
    <2>13. InHand'
      BY <2>7, Zenon DEF InHand
    <2> QED
      BY <2>10, <2>11, <2>12, <2>13, Zenon DEF IInv
  <1> QED
    BY <1>4, <1>5, Zenon

-----------------------------------------------------------------------------
(* The main thread and the client together. *)

LEMMA ServiceStep == ASSUME IInv, Service PROVE IInv'
  <1>1. /\ d.pc = "serve" /\ Receives /\ UNCHANGED <<ctl, sent>>
        /\ ServiceSwitch(Head(toD))
    BY Zenon DEF Service
  <1>2. CASE Head(toD).type # "STARTCAP"
    BY <1>1, <1>2, HandlerStep, Zenon
  <1>3. CASE Head(toD).type = "STARTCAP"
    <2>1. StartCap(Head(toD))
      BY <1>1, <1>3, Zenon DEF ServiceSwitch
    <2> QED
      BY <1>1, <1>3, <2>1, StartStep, Zenon
  <1> QED
    BY <1>2, <1>3, Zenon

(* Whatever the client sends, connects and closes. *)
LEMMA ClientStep == ASSUME IInv, AnyClient PROVE IInv'
  <1>1. toD \in Seq(Request) /\ QueuesOK /\ sent \in 0..MaxReq /\ MaxReq \in Nat
    BY RpcapdAssumption, Zenon DEF IInv, TypeOK, QueuesOK
  <1>2. CASE AnySend
    <2>1. UNCHANGED <<toC, ctl, d, s, t, data, cdata>>
      BY <1>2, Zenon DEF AnySend, Main
    <2>2. PICK type \in Requests, ok \in BOOLEAN :
             /\ toD' = Append(toD, [type |-> type, ok |-> ok,
                                    id |-> IF type \in Unanswered THEN 0 ELSE sent + 1])
             /\ sent' = IF type \in Unanswered THEN sent ELSE sent + 1
      BY <1>2, Zenon DEF AnySend
    <2> DEFINE m == [type |-> type, ok |-> ok,
                     id |-> IF type \in Unanswered THEN 0 ELSE sent + 1]
    <2>3. /\ \/ m.id = 0 /\ sent' = sent
             \/ m.id = sent + 1 /\ sent' = sent + 1
          /\ m.id \in 0..MaxReq /\ sent' \in 0..MaxReq
      BY <1>1, <1>2, <2>2 DEF AnySend
    <2>4. m \in Request
      BY <2>2, <2>3, RequestsAssumption, Zenon DEF Request
    <2>5. toD' = Append(toD, m)
      BY <2>2, Zenon
    <2> HIDE DEF m
    <2>6. OrderInv' /\ \A id \in Nat : Current(id) => Current(id)'
      BY <1>1, <2>1, <2>3, <2>4, <2>5, SendOrder, Zenon DEF IInv
    <2>7. TypeOK'
      <3>1. toD' \in Seq(Request)
        BY <1>1, <2>4, <2>5
      <3> QED
        BY <2>1, <2>3, <3>1 DEF IInv, TypeOK
    <2>8. SessionInv'
      BY <2>1, Zenon DEF IInv, SessionInv, AuthenticatedFirst
    <2>9. InHand'
      <3>1. d.req \in Nat
        BY DEF IInv, TypeOK
      <3> QED
        BY <2>1, <2>6, <3>1, Zenon DEF IInv, InHand
    <2> QED
      BY <2>6, <2>7, <2>8, <2>9, Zenon DEF IInv
  <1>3. ASSUME UNCHANGED <<toD, toC, sent, d, s, t>>, ctl' \in {"up", "closed"},
               data' \in [Slots -> Seq(Packet)],
               cdata' \in [Slots -> {"none", "up", "closed"}]
        PROVE  IInv'
    <2>1. TypeOK'
      BY <1>3 DEF IInv, TypeOK
    <2>2. SessionInv'
      BY <1>3, Zenon DEF IInv, SessionInv, AuthenticatedFirst
    <2>3. OrderInv' /\ InHand'
      <3>1. d'.pc = d.pc /\ d'.why = d.why /\ d'.req = d.req
        BY <1>3, Zenon
      <3> QED
        BY <1>3, <3>1, QuietOrder, Zenon
    <2> QED
      BY <2>1, <2>2, <2>3, Zenon DEF IInv
  <1>4. /\ data \in [Slots -> Seq(Packet)] /\ ctl \in {"up", "closed"}
        /\ cdata \in [Slots -> {"none", "up", "closed"}]
    BY Zenon DEF IInv, TypeOK
  <1>5. CASE AnyClose
    BY <1>3, <1>4, <1>5, Zenon DEF AnyClose, Main
  <1>6. ASSUME NEW k \in Slots, AnyConnect(k) \/ AnyDisconnect(k)
        PROVE  IInv'
    <2>1. UNCHANGED <<toD, toC, ctl, sent, d, s, t, data>>
      BY <1>6, Zenon DEF AnyConnect, AnyDisconnect, Wire, Main
    <2>2. cdata' \in [Slots -> {"none", "up", "closed"}]
      BY <1>4, <1>6, Zenon DEF AnyConnect, AnyDisconnect
    <2> QED
      BY <1>3, <1>4, <2>1, <2>2, Zenon
  <1>7. ASSUME NEW k \in Slots, AnyRead(k)
        PROVE  IInv'
    <2>1. UNCHANGED <<toD, toC, ctl, sent, d, s, t, cdata>>
      BY <1>7, Zenon DEF AnyRead, Wire, Main
    <2>2. Tail(data[k]) \in Seq(Packet)
      BY <1>4, <1>7 DEF AnyRead
    <2>3. data' \in [Slots -> Seq(Packet)]
      BY <1>4, <1>7, <2>2, Zenon DEF AnyRead
    <2> QED
      BY <1>3, <1>4, <2>1, <2>3, Zenon
  <1> QED
    BY <1>2, <1>5, <1>6, <1>7, Zenon DEF AnyClient

LEMMA NextStep == IInv /\ [Next]_vars => IInv'
  <1> SUFFICES ASSUME IInv, [Next]_vars PROVE IInv'
    BY Zenon
  <1>1. CASE Next
    <2>1. CASE Peek \/ AuthMsg
      BY <2>1, AuthStep, Zenon
    <2>2. CASE Timeout \/ Eof \/ Gone
      BY <2>2, EndStep, Zenon
    <2>3. CASE Service
      BY <2>3, ServiceStep, Zenon
    <2>4. CASE Accept \/ MakeThread
      BY <2>4, ThreadMadeStep
    <2>5. CASE Interrupt \/ Join
      BY <2>5, CloseStep
    <2>6. ASSUME NEW k \in Slots, DataThread(k) PROVE IInv'
      BY <2>6, ThreadStep, Zenon
    <2>7. CASE AnyClient
      BY <2>7, ClientStep
    <2> QED
      BY <1>1, <2>1, <2>2, <2>3, <2>4, <2>5, <2>6, <2>7, Zenon DEF Next, Daemon, DaemonMain
  <1>2. CASE UNCHANGED vars
    <2>1. TypeOK'
      BY <1>2 DEF vars, IInv, TypeOK
    <2>2. SessionInv'
      BY <1>2, Zenon DEF vars, IInv, SessionInv, AuthenticatedFirst
    <2>3. OrderInv'
      BY <1>2 DEF vars, IInv, OrderInv, AnswersInOrder, InOrderD, Asked, Given,
                  GivenFirst, StartTakenBack
    <2>4. InHand'
      BY <1>2, Zenon DEF vars, IInv, InHand, Current
    <2> QED
      BY <2>1, <2>2, <2>3, <2>4, Zenon DEF IInv
  <1> QED
    BY <1>1, <1>2, Zenon

(* A connection that begins, in either mode. *)
FreshService ==
    /\ toD = <<>> /\ toC = <<>> /\ ctl = "up" /\ sent = 0
    /\ \E active \in BOOLEAN : d = NewService(active)
    /\ s = [k \in Slots |-> NoStruct] /\ t = [k \in Slots |-> NoThread]
    /\ data = [k \in Slots |-> <<>>] /\ cdata = [k \in Slots |-> "none"]

LEMMA FreshInv == FreshService => IInv
  <1> SUFFICES ASSUME FreshService PROVE IInv
    BY Zenon
  <1> USE DEF FreshService
  <1>1. 0 \in 0..MaxReq /\ 0 \in 0..MaxPkts
    BY RpcapdAssumption
  <1>2. /\ d \in Locals /\ d.pc = "peek" /\ d.why = "end" /\ d.session = NoSession
        /\ d.authenticated = FALSE
    BY <1>1 DEF NewService, Locals, Places
  <1>3. NoStruct \in Structs /\ ~NoStruct.live /\ NoThread \in Threads /\ NoThread.pc = "none"
    BY Zenon DEF NoStruct, Structs, NoThread, Threads, ThreadPlaces
  <1>4. TypeOK
    <2>1. s \in [Slots -> Structs] /\ t \in [Slots -> Threads]
      BY <1>3, Zenon
    <2>2. data \in [Slots -> Seq(Packet)]
      OBVIOUS
    <2> QED
      BY <1>1, <1>2, <2>1, <2>2 DEF TypeOK, Locals, Structs, Threads
  <1>5. SessionInv
    BY <1>2, <1>3, Zenon DEF SessionInv, AuthenticatedFirst
  <1>6. OrderInv
    BY DEF OrderInv, AnswersInOrder, InOrderD, Asked, Given, GivenFirst
  <1>7. InHand
    BY <1>2, Zenon DEF InHand
  <1> QED
    BY <1>4, <1>5, <1>6, <1>7, Zenon DEF IInv

LEMMA IInvImplies == IInv => SessionsInv
  BY Zenon DEF IInv, SessionInv, OrderInv, SessionsInv, ThreadOwnsSession, Running

(* However many sessions, requests and packets there are, whatever the     *)
(* client sends and whichever calls fail: a data thread runs only on the   *)
(* session that daemon_serviceloop keeps for it, no session exists for a   *)
(* client that has not been let in, and answers keep the order of the      *)
(* requests.                                                               *)
THEOREM SessionsSafe == Spec => []SessionsInv
  <1>1. DaemonInit => IInv
    BY FreshInv, RpcapdAssumption, Zenon DEF DaemonInit, FreshService
  <1>2. IInv /\ [Next]_vars => IInv'
    BY NextStep, Zenon
  <1> QED
    BY <1>1, <1>2, IInvImplies, PTL DEF Spec

-----------------------------------------------------------------------------
(* The main program. *)

Fields == {"system", "follow", "passivemode", "active", "pc", "i", "listen", "fds",
           "queue", "ready", "children", "zombies", "sigchld", "shutdown", "reread",
           "event", "hostlist", "activelist", "signals", "conns"}

(* While a connection is being given away it is the one descriptor more. *)
ServerIInv ==
    /\ DOMAIN srv = Fields
    /\ srv.listen \subseteq Addresses
    /\ ServerInv
    /\ srv.pc = "fork" => srv.fds = srv.listen \cup {"sockctrl"}

(* Starting the processes of the active list, and the service of a         *)
(* connection: StartActive, StartService and Listen.                       *)
LEMMA BeginStep == ServerIInv /\ (StartActive \/ Listen \/ StartService) => ServerIInv'
  <1> SUFFICES ASSUME ServerIInv, StartActive \/ Listen \/ StartService
               PROVE  ServerIInv'
    BY Zenon
  <1>1. CASE StartActive
    <2>1. CASE srv' = WithChild([srv EXCEPT !.i = @ + 1])
      BY <1>1, <2>1, Zenon DEF StartActive, At, WithChild, ServerIInv, ServerInv, Fields
    <2>2. CASE srv' = [srv EXCEPT !.i = IF Unix THEN @ + 1 ELSE @]
      BY <1>1, <2>2, Zenon DEF StartActive, At, ServerIInv, ServerInv, Fields
    <2>3. CASE Becomes("main_active", TRUE)
      BY <2>3, Zenon DEF Becomes, Process, ServerIInv, ServerInv, Fields
    <2> QED
      BY <1>1, <2>1, <2>2, <2>3, Zenon DEF StartActive
  <1>2. CASE Listen
    <2>1. CASE srv' = [srv EXCEPT !.pc = "closing"]
      BY <2>1, Zenon DEF ServerIInv, ServerInv, Fields
    <2>2. CASE srv' = [srv EXCEPT !.pc = "failed"]
      BY <2>2, Zenon DEF ServerIInv, ServerInv, Fields
    <2>3. CASE \E socks \in SUBSET Addresses \ {{}} :
                  srv' = [srv EXCEPT !.listen = socks, !.fds = socks, !.pc = "select"]
      BY <2>3 DEF ServerIInv, ServerInv, Fields
    <2> QED
      BY <1>2, <2>1, <2>2, <2>3, Zenon DEF Listen
  <1>3. CASE StartService
    <2>1. CASE srv' = GivenAway(WithChild(srv))
      BY <1>3, <2>1, ServerAssumption
         DEF StartService, At, GivenAway, WithChild, ServerIInv, ServerInv, Fields
    <2>2. CASE srv' = GivenAway(srv)
      BY <1>3, <2>2, ServerAssumption DEF StartService, At, GivenAway, ServerIInv, ServerInv, Fields
    <2>3. CASE Becomes("passive", FALSE)
      BY <2>3, Zenon DEF Becomes, Process, ServerIInv, ServerInv, Fields
    <2> QED
      BY <1>3, <2>1, <2>2, <2>3, Zenon DEF StartService
  <1> QED
    BY <1>1, <1>2, <1>3, Zenon

(* Signals and the end of children: Terminate, RereadConfig, ReapChildren  *)
(* and ChildEnds.                                                          *)
LEMMA SignalStep ==
    ServerIInv /\ (Terminate \/ RereadConfig \/ ReapChildren \/ ChildEnds) => ServerIInv'
  <1> SUFFICES ASSUME ServerIInv, Terminate \/ RereadConfig \/ ReapChildren \/ ChildEnds
               PROVE  ServerIInv'
    BY Zenon
  <1>1. CASE Terminate
    BY <1>1, Zenon DEF Terminate, Interrupted, ServerIInv, ServerInv, Fields
  <1>2. CASE RereadConfig
    BY <1>2, Zenon DEF RereadConfig, Interrupted, ServerIInv, ServerInv, Fields
  <1>3. CASE ReapChildren
    BY <1>3, Zenon DEF ReapChildren, Reap, Interrupted, Alive, ServerIInv, ServerInv, Fields
  <1>4. CASE ChildEnds
    <2>1. PICK pid \in srv.children :
             srv' = IF Unix /\ Alive
                    THEN [srv EXCEPT !.children = @ \ {pid}, !.zombies = @ \cup {pid},
                                     !.sigchld = TRUE]
                    ELSE [srv EXCEPT !.children = @ \ {pid}]
      BY <1>4, Zenon DEF ChildEnds
    <2> QED
      BY <2>1, Zenon DEF ServerIInv, ServerInv, Fields
  <1> QED
    BY <1>1, <1>2, <1>3, <1>4, Zenon

(* What StateChange changes is the flags, the lists and where the loop is. *)
LEMMA StateChangeKeeps ==
    ASSUME NEW r, NEW next, DOMAIN r = Fields, StateChange(r, next)
    PROVE  /\ DOMAIN srv' = Fields /\ srv'.pc \in {"leave", next}
           /\ srv'.listen = r.listen /\ srv'.fds = r.fds /\ srv'.children = r.children
           /\ srv'.zombies = r.zombies /\ srv'.sigchld = r.sigchld
  <1>1. CASE r.shutdown
    BY <1>1 DEF StateChange, Fields
  <1>2. CASE ~r.shutdown
    <2>1. PICK conf \in IF r.reread THEN fileconf_read(r) ELSE {r} : srv' = [conf EXCEPT !.pc = next]
      BY <1>2, Zenon DEF StateChange
    <2>2. /\ DOMAIN conf = Fields
          /\ conf.listen = r.listen /\ conf.fds = r.fds /\ conf.children = r.children
          /\ conf.zombies = r.zombies /\ conf.sigchld = r.sigchld
      BY <2>1 DEF fileconf_read, Fields
    <2> QED
      BY <2>1, <2>2, Zenon DEF Fields
  <1> QED
    BY <1>1, <1>2, Zenon

(* Waiting and what it ends with: Eintr, Select, WaitEvent, WaitFails and  *)
(* NextReady.                                                              *)
LEMMA WaitStep ==
    ServerIInv /\ (Eintr \/ Select \/ WaitEvent \/ WaitFails \/ NextReady) => ServerIInv'
  <1> SUFFICES ASSUME ServerIInv, Eintr \/ Select \/ WaitEvent \/ WaitFails \/ NextReady
               PROVE  ServerIInv'
    BY Zenon
  <1>1. CASE Eintr
    BY <1>1, StateChangeKeeps DEF Eintr, At, ServerIInv, ServerInv
  <1>2. CASE Select
    BY <1>2, Zenon DEF Select, At, ServerIInv, ServerInv, Fields
  <1>3. CASE WaitEvent
    <2> DEFINE r == [srv EXCEPT !.event = FALSE, !.ready = srv.queue]
    <2>1. /\ DOMAIN r = Fields
          /\ r.listen = srv.listen /\ r.fds = srv.fds /\ r.children = srv.children
          /\ r.zombies = srv.zombies /\ r.sigchld = srv.sigchld
      BY Zenon DEF ServerIInv, Fields
    <2>2. StateChange(r, "accept") /\ srv.pc = "select"
      BY <1>3, Zenon DEF WaitEvent, At
    <2> HIDE DEF r
    <2> QED
      BY <2>1, <2>2, StateChangeKeeps DEF ServerIInv, ServerInv
  <1>4. CASE WaitFails
    BY <1>4, Zenon DEF WaitFails, At, ServerIInv, ServerInv, Fields
  <1>5. CASE NextReady
    BY <1>5, Zenon DEF NextReady, At, ServerIInv, ServerInv, Fields
  <1> QED
    BY <1>1, <1>2, <1>3, <1>4, <1>5, Zenon

(* Connections and the end: ClientConnects, Withdraw, AcceptConnection,    *)
(* Leave and Kill.                                                         *)
LEMMA ConnectionStep ==
    ServerIInv /\ (ClientConnects \/ Withdraw \/ AcceptConnection \/ Leave \/ Kill) => ServerIInv'
  <1> SUFFICES ASSUME ServerIInv, ClientConnects \/ Withdraw \/ AcceptConnection \/ Leave \/ Kill
               PROVE  ServerIInv'
    BY SMTT(30)
  <1>1. CASE ClientConnects
    BY <1>1 DEF ClientConnects, ServerIInv, ServerInv, Fields
  <1>2. CASE Withdraw
    BY <1>2 DEF Withdraw, ServerIInv, ServerInv, Fields
  <1>3. CASE AcceptConnection
    <2>1. PICK l \in srv.ready :
             \/ srv' = [Taken(l) EXCEPT !.queue = @ \ {l}, !.fds = @ \cup {"sockctrl"},
                                        !.pc = "fork"]
             \/ srv' = Taken(l)
      BY <1>3, Zenon DEF AcceptConnection
    <2>2. /\ DOMAIN Taken(l) = Fields /\ srv.pc = "accept"
          /\ Taken(l).listen = srv.listen /\ Taken(l).fds = srv.fds
          /\ Taken(l).children = srv.children /\ Taken(l).zombies = srv.zombies
          /\ Taken(l).sigchld = srv.sigchld /\ Taken(l).pc = srv.pc
      BY <1>3, Zenon DEF AcceptConnection, At, Taken, ServerIInv, Fields
    <2>3. CASE srv' = Taken(l)
      BY <2>2, <2>3, Zenon DEF ServerIInv, ServerInv
    <2>4. CASE srv' = [Taken(l) EXCEPT !.queue = @ \ {l}, !.fds = @ \cup {"sockctrl"},
                                       !.pc = "fork"]
      BY <2>2, <2>4, Zenon DEF ServerIInv, ServerInv, Fields
    <2> QED
      BY <2>1, <2>3, <2>4, Zenon
  <1>4. CASE Leave
    BY <1>4, Zenon DEF Leave, At, ServerIInv, ServerInv, Fields
  <1>5. CASE Kill
    BY <1>5, Zenon DEF Kill, At, ServerIInv, ServerInv, Fields
  <1> QED
    BY <1>1, <1>2, <1>3, <1>4, <1>5

(* Whatever the number of clients, addresses and signals, the server holds *)
(* no descriptor of a connection while it waits for the next one, waits    *)
(* for every child that has ended, and does not leave one behind when it   *)
(* is stopped (accept_connections, main_reap_children and main_startup of  *)
(* rpcapd.c).                                                              *)
THEOREM ServerHolds == ServerSpec => []ServerInv
  <1>1. ServerInit => ServerIInv
    BY ServerAssumption DEF ServerInit, Process, ServerIInv, ServerInv, Fields
  <1>2. ServerIInv /\ [ServerNext]_<<vars, srv>> => ServerIInv'
    <2> SUFFICES ASSUME ServerIInv, [ServerNext]_<<vars, srv>>
                 PROVE  ServerIInv'
      BY Zenon
    <2>1. CASE UNCHANGED srv
      BY <2>1, Zenon DEF ServerIInv, ServerInv, Fields
    <2>2. CASE ServerNext
      BY <2>1, <2>2, BeginStep, SignalStep, WaitStep, ConnectionStep, Zenon
         DEF ServerNext, ParentSteps, Serve, Reconnect
    <2> QED
      BY <2>1, <2>2, Zenon
  <1>3. ServerIInv => ServerInv
    BY Zenon DEF ServerIInv
  <1> QED
    BY <1>1, <1>2, <1>3, PTL DEF ServerSpec

(* The service loop keeps its promises also when it is main_active that    *)
(* runs it, once for every connection, or a child of the server.           *)
THEOREM ServedSafely == ServerSpec => []SessionsInv
  <1>1. ServerInit => IInv
    BY FreshInv, RpcapdAssumption, Zenon DEF ServerInit, DaemonInit, FreshService
  <1>2. IInv /\ [ServerNext]_<<vars, srv>> => IInv'
    <2> SUFFICES ASSUME IInv, [ServerNext]_<<vars, srv>>
                 PROVE  IInv'
      OBVIOUS
    <2>1. CASE UNCHANGED vars
      BY <2>1, NextStep, Zenon
    <2>2. CASE Serve
      BY <2>2, NextStep, Zenon DEF Serve
    <2>3. CASE Reconnect
      <3>1. FreshService'
        BY <2>3, Zenon DEF Reconnect, FreshService
      <3>2. FreshService' => IInv'
        BY FreshInv, PTL
      <3> QED
        BY <3>1, <3>2, Zenon
    <2>4. CASE ServerNext
      BY <2>1, <2>2, <2>3, <2>4, Zenon
         DEF ServerNext, ParentSteps, StartActive, Listen, Eintr, Select, WaitEvent,
             NextReady, AcceptConnection, StartService, Leave, Kill, ReapChildren, WaitFails,
             Terminate, RereadConfig, ChildEnds, ClientConnects, Withdraw
    <2> QED
      BY <2>1, <2>4, Zenon DEF vars
  <1> QED
    BY <1>1, <1>2, IInvImplies, PTL DEF ServerSpec

-----------------------------------------------------------------------------
(* The client.  What it does to the connections, and the types it keeps. *)

(* The number that the kernel gives is free. *)
LEMMA NewFdIsFree ==
    ASSUME HaveFd
    PROVE  NewFd \in 1..MaxFd /\ NewFd \notin cfds /\ NewFd \in 0..MaxFd /\ NewFd # NoFd
  <1>1. NewFd \in 1..MaxFd /\ IsLowest(NewFd)
    BY Zenon DEF HaveFd, NewFd
  <1>2. MaxFd \in Nat
    BY RpcapAssumption
  <1> QED
    BY <1>1, <1>2 DEF NoFd, IsLowest

(* What the client may do to the control connection in a step: take the    *)
(* first message, send one.                                                *)
Takes == toC' = toC \/ (toC # <<>> /\ toC' = Tail(toC))
Sends(m) ==
    /\ m \in Request /\ toD' = Append(toD, m)
    /\ \/ m.id = 0 /\ sent' = sent
       \/ m.id = sent + 1 /\ sent' = sent + 1
SendsAtMost == UNCHANGED <<toD, sent>> \/ \E m \in Request : Sends(m)

(* Taking an answer keeps the queue's type, and leaves one answer fewer,   *)
(* or as many.                                                             *)
LEMMA TakeAnswer ==
    ASSUME QueuesOK, Takes
    PROVE  /\ toC' \in Seq(Answer)
           /\ \E o \in {0, 1} :
                 /\ Len(toC') + o = Len(toC)
                 /\ \A i \in 1..Len(toC') : i + o \in 1..Len(toC) /\ toC'[i] = toC[i + o]
  <1>1. toC \in Seq(Answer)
    BY Zenon DEF QueuesOK
  <1>2. CASE toC' = toC
    <2>1. \A i \in 1..Len(toC) : i + 0 \in 1..Len(toC) /\ toC[i] = toC[i + 0]
      BY <1>1
    <2>2. Len(toC) + 0 = Len(toC)
      BY <1>1, SMTT(30)
    <2> QED
      BY <1>1, <1>2, <2>1, <2>2
  <1>3. CASE toC # <<>> /\ toC' = Tail(toC)
    <2>1. PICK q : q = Tail(toC)
      OBVIOUS
    <2>2. q \in Seq(Answer) /\ Len(q) + 1 = Len(toC) /\ Len(toC) \in Nat
      BY <1>1, <1>3, <2>1
    <2>3. \A i \in 1..Len(q) : q[i] = toC[i + 1]
      BY <1>1, <1>3, <2>1
    <2>4. \A i \in 1..Len(q) : i + 1 \in 1..Len(toC)
      BY <2>2
    <2> QED
      BY <1>3, <2>1, <2>2, <2>3, <2>4
  <1> QED
    BY <1>2, <1>3, Zenon DEF Takes

(* The order of the requests and of the answers is kept, and a request     *)
(* that is being worked on stays where it was in it.                       *)
LEMMA ClientOrder ==
    ASSUME QueuesOK, OrderInv, Takes, SendsAtMost
    PROVE  /\ OrderInv'
           /\ \A id \in Nat : Current(id) => Current(id)'
  <1>1. PICK o \in {0, 1} :
           /\ Len(toC') + o = Len(toC)
           /\ \A i \in 1..Len(toC') : i + o \in 1..Len(toC) /\ toC'[i] = toC[i + o]
    BY TakeAnswer, Zenon
  <1>2. /\ \A i \in 1..Len(toD) : toD[i].id \in Nat
        /\ \A i \in 1..Len(toC) : toC[i].id \in Nat
        /\ sent \in Nat
    <2>1. \A i \in 1..Len(toD) : toD[i] \in Request
      BY DEF QueuesOK
    <2>2. \A i \in 1..Len(toC) : toC[i] \in Answer
      BY DEF QueuesOK
    <2>3. \A m \in Request : m.id \in Nat
      BY DEF Request
    <2>4. \A a \in Answer : a.id \in Nat
      BY DEF Answer
    <2>5. sent \in Nat
      BY DEF QueuesOK
    <2> QED
      BY <2>1, <2>2, <2>3, <2>4, <2>5, Zenon
  <1>3. AnswersInOrder'
    <2> SUFFICES ASSUME NEW i \in 1..Len(toC'), NEW j \in 1..Len(toC'),
                        i < j, toC'[i].id # 0, toC'[j].id # 0
                 PROVE  toC'[i].id < toC'[j].id \/ StartTakenBack(toC'[i], toC'[j])
      BY Zenon DEF AnswersInOrder, StartTakenBack
    <2>1. i + o < j + o
      BY <1>1
    <2>2. i + o \in 1..Len(toC) /\ j + o \in 1..Len(toC) /\ toC'[i] = toC[i + o] /\ toC'[j] = toC[j + o]
      BY <1>1, Zenon
    <2> QED
      BY <2>1, <2>2, Zenon DEF OrderInv, AnswersInOrder
  <1>4. CASE UNCHANGED <<toD, sent>>
    <2>1. InOrderD' /\ Asked'
      BY <1>4, Zenon DEF OrderInv, InOrderD, Asked
    <2>2. Given'
      BY <1>1, <1>4, Zenon DEF OrderInv, Given
    <2>3. GivenFirst'
      BY <1>1, <1>4, Zenon DEF OrderInv, GivenFirst
    <2>4. \A id \in Nat : Current(id) => Current(id)'
      BY <1>4, Zenon DEF Current
    <2> QED
      BY <1>3, <2>1, <2>2, <2>3, <2>4, Zenon DEF OrderInv
  <1>5. ASSUME NEW m \in Request, Sends(m)
        PROVE  /\ OrderInv'
               /\ \A id \in Nat : Current(id) => Current(id)'
    <2>1. /\ Len(toD') = Len(toD) + 1 /\ toD'[Len(toD) + 1] = m /\ Len(toD) \in Nat
          /\ \A i \in 1..Len(toD) : toD'[i] = toD[i]
      BY <1>5 DEF Sends, QueuesOK
    <2>2. \/ m.id = 0 /\ sent' = sent
          \/ m.id = sent + 1 /\ sent' = sent + 1
      BY <1>5, Zenon DEF Sends
    <2>3. InOrderD' /\ Asked'
      <3>1. \A i \in 1..Len(toD') : i \in 1..Len(toD) \/ i = Len(toD) + 1
        BY <2>1
      <3>2. \A i \in 1..Len(toD) : toD'[i] = toD[i] /\ toD[i].id <= sent /\ toD[i].id \in Nat
        BY <1>2, <2>1, Zenon DEF OrderInv, Asked
      <3>3. Asked'
        BY <1>2, <2>1, <2>2, <3>1, <3>2 DEF Asked
      <3>4. ASSUME NEW i \in 1..Len(toD'), NEW j \in 1..Len(toD'),
                   i < j, toD'[i].id # 0, toD'[j].id # 0
            PROVE  toD'[i].id < toD'[j].id
        <4>1. i \in 1..Len(toD)
          BY <2>1, <3>1, <3>4
        <4>2. CASE j \in 1..Len(toD)
          BY <3>2, <3>4, <4>1, <4>2, Zenon DEF OrderInv, InOrderD
        <4>3. CASE j = Len(toD) + 1
          <5>1. m.id = sent + 1
            BY <2>1, <2>2, <3>4, <4>3, Zenon
          <5> QED
            BY <1>2, <2>1, <3>2, <4>1, <4>3, <5>1
        <4> QED
          BY <3>1, <4>2, <4>3, Zenon
      <3> QED
        BY <3>3, <3>4, Zenon DEF InOrderD
    <2>4. \A i \in 1..Len(toC') : toC'[i].id <= sent /\ toC'[i].id \in Nat
      BY <1>1, <1>2, Zenon DEF OrderInv, Given
    <2>5. Given'
      BY <1>2, <2>2, <2>4 DEF Given
    <2>6. \A i \in 1..Len(toC'), j \in 1..Len(toD) :
             toC'[i].id # 0 /\ toD[j].id # 0 => toC'[i].id < toD[j].id
      BY <1>1, Zenon DEF OrderInv, GivenFirst
    <2>7. GivenFirst'
      BY <1>2, <2>1, <2>2, <2>4, <2>6 DEF GivenFirst
    <2>8. \A id \in Nat : Current(id) => Current(id)'
      BY <1>2, <2>1, <2>2 DEF Current
    <2> QED
      BY <1>3, <2>3, <2>5, <2>7, <2>8, Zenon DEF OrderInv
  <1> QED
    BY <1>4, <1>5, Zenon DEF SendsAtMost

(* The client leaves the daemon's state alone. *)
LEMMA ClientKeeps ==
    ASSUME IInv, UNCHANGED <<d, s, t>>, Takes, SendsAtMost, sent' \in 0..MaxReq,
           ctl' \in {"up", "closed"}, data' \in [Slots -> Seq(Packet)],
           cdata' \in [Slots -> {"none", "up", "closed"}]
    PROVE  IInv'
  <1>1. QueuesOK /\ OrderInv
    BY Zenon DEF IInv, TypeOK, QueuesOK
  <1>2. OrderInv' /\ \A id \in Nat : Current(id) => Current(id)'
    BY <1>1, ClientOrder, Zenon
  <1>3. toC' \in Seq(Answer)
    BY <1>1, TakeAnswer, Zenon
  <1>4. toD' \in Seq(Request)
    <2>1. CASE toD' = toD
      BY <1>1, <2>1, Zenon DEF QueuesOK
    <2>2. ASSUME NEW m \in Request, toD' = Append(toD, m)
          PROVE  toD' \in Seq(Request)
      BY <1>1, <2>2 DEF QueuesOK
    <2> QED
      BY <2>1, <2>2, Zenon DEF SendsAtMost, Sends
  <1>5. TypeOK'
    BY <1>3, <1>4, Zenon DEF IInv, TypeOK
  <1>6. SessionInv'
    BY Zenon DEF IInv, SessionInv, AuthenticatedFirst
  <1>7. InHand'
    <2>1. d.req \in Nat
      BY DEF IInv, TypeOK
    <2>2. PICK o \in {0, 1} :
             \A i \in 1..Len(toC') : i + o \in 1..Len(toC) /\ toC'[i] = toC[i + o]
      BY <1>1, TakeAnswer, Zenon
    <2> QED
      BY <1>2, <2>1, <2>2, Zenon DEF IInv, InHand
  <1> QED
    BY <1>2, <1>5, <1>6, <1>7, Zenon DEF IInv

-----------------------------------------------------------------------------
(* Where the client goes. *)

ClientRecord ==
    [pc : ClientPlaces, req : MsgTypes \cup {"none"},
     rmt_sockctrl : 0..MaxFd, rmt_sockdata : 0..MaxFd, listen : 0..MaxFd,
     sess : Slots \cup {NoSession}, TotCapt : Nat]

Move(from, to, n) == c.pc = from /\ c'.pc = to /\ sent' = sent + n

(* The control connection as error_nodiscard leaves it. *)
AfterAbort == ctl' = IF d.active THEN ctl ELSE "closed"

(* A step that ends the conversation, one that begins or fails a call, and *)
(* one that goes on with it, each with the requests it sends and may still *)
(* send.                                                                   *)
Farewell == c'.pc \in {"done", "crashed"} /\ sent' = sent /\ ctl' = "closed"
Failure ==
    /\ AfterAbort
    /\ Move("starting", "failed", 0) \/ Move("filtering", "failed", 0)
Calling ==
    /\ ctl' = ctl
    /\ \/ Move("none", "auth", 1) /\ MaySend(2)
       \/ Move("idle", "opening", 1) /\ MaySend(2)
       \/ Move("opened", "starting", 1) /\ MaySend(3)
       \/ Move("running", "asking", 1) /\ MaySend(2)
       \/ c.pc \in Closable /\ c'.pc = "ending" /\ sent' = sent + 1 /\ d.active
Going ==
    /\ ctl' = ctl
    /\ \/ Move("auth", "idle", 0) /\ d.active
       \/ Move("auth", "opening", 1) /\ ~d.active
       \/ Move("opening", "idle", 0) /\ d.active
       \/ Move("opening", "opened", 0)
       \/ Move("starting", "filtering", 1) \/ Move("starting", "running", 0)
       \/ Move("filtering", "running", 0)
       \/ Move("running", "running", 0) \/ Move("running", "failed", 0)
       \/ Move("asking", "running", 0)
       \/ Move("ending", "idle", 0)

(* Every action of the client ends its session, fails, starts a call, or   *)
(* goes on with one: from where to where, and with how many requests.      *)
LEMMA ClientMoves ==
    ASSUME c \in ClientRecord, sent \in Nat, Client
    PROVE  Farewell \/ Failure \/ Calling \/ Going
  <1> DEFINE Goal == Farewell \/ Failure \/ Calling \/ Going
  <1>1. sent + 0 = sent
    OBVIOUS
  <1>2. \A v : [c EXCEPT !.pc = v].pc = v
    BY DEF ClientRecord
  <1>3. \A v : [Fresh EXCEPT !.pc = v].pc = v
    BY DEF Fresh
  <1>4. CASE Connect
    <2>1. c'.pc = "auth"
      BY <1>4 DEF Connect, ClientRecord
    <2> QED
      BY <1>4, <2>1, Zenon DEF Connect, Asks, Calling, Move
  <1>5. CASE Authenticated
    BY <1>1, <1>2, <1>5, Zenon DEF Authenticated, Asks, Going, Move
  <1>6. CASE Rejected
    BY <1>3, <1>6, Zenon DEF Rejected, CtlClosed, Farewell
  <1>7. CASE OpenActive
    BY <1>2, <1>7, Zenon DEF OpenActive, Asks, Calling, Move
  <1>8. CASE OpenRefused
    BY <1>1, <1>2, <1>8, Zenon DEF OpenRefused, Going, Move
  <1>9. CASE OpenDone
    <2>1. c'.pc = "opened"
      BY <1>9 DEF OpenDone, ClientRecord
    <2> QED
      BY <1>1, <1>9, <2>1, Zenon DEF OpenDone, Going, Move
  <1>10. CASE RemoteClose
    BY <1>3, <1>10, Zenon DEF RemoteClose, CtlClosed, Farewell
  <1>11. CASE Start
    <2>1. c'.pc = "starting"
      BY <1>11 DEF Start, ClientRecord
    <2> QED
      BY <1>11, <2>1, Zenon DEF Start, Asks, Calling, Move
  <1>12. CASE StartRefused
    <2>1. c'.pc = "failed"
      BY <1>12 DEF StartRefused, ClientRecord
    <2> QED
      BY <1>1, <1>12, <2>1, Zenon DEF StartRefused, Aborts, AfterAbort, Failure, Move
  <1>13. CASE StartDone
    <2>1. PICK k, fd :
             \/ /\ \E flag \in NoCapture :
                   /\ c' = [c EXCEPT !.pc = IF flag THEN "filtering" ELSE "running",
                                     !.rmt_sockdata = fd, !.listen = NoFd, !.sess = k]
                   /\ IF flag THEN Asks("UPDATEFILTER", TRUE) ELSE UNCHANGED <<toD, sent>>
                /\ ctl' = ctl
             \/ /\ c' = [c EXCEPT !.pc = "failed", !.rmt_sockdata = fd, !.listen = NoFd]
                /\ Aborts(c.listen)
                /\ UNCHANGED <<toD, sent>>
      BY <1>13, Zenon DEF StartDone
    <2>2. c.pc = "starting"
      BY <1>13, Zenon DEF StartDone
    <2>3. ASSUME NEW flag \in NoCapture, ctl' = ctl,
                 c' = [c EXCEPT !.pc = IF flag THEN "filtering" ELSE "running",
                                !.rmt_sockdata = fd, !.listen = NoFd, !.sess = k],
                 IF flag THEN Asks("UPDATEFILTER", TRUE) ELSE UNCHANGED <<toD, sent>>
          PROVE  Goal
      <3>1. c'.pc = IF flag THEN "filtering" ELSE "running"
        BY <2>3 DEF ClientRecord
      <3> QED
        BY <1>1, <2>2, <2>3, <3>1, Zenon DEF Asks, Going, Move
    <2>4. CASE /\ c' = [c EXCEPT !.pc = "failed", !.rmt_sockdata = fd, !.listen = NoFd]
               /\ Aborts(c.listen)
               /\ UNCHANGED <<toD, sent>>
      <3>1. c'.pc = "failed"
        BY <2>4 DEF ClientRecord
      <3> QED
        BY <1>1, <2>2, <2>4, <3>1, Zenon DEF Aborts, AfterAbort, Failure, Move
    <2> QED
      BY <2>1, <2>3, <2>4, Zenon
  <1>14. CASE FilterDone
    <2>1. CASE c' = [c EXCEPT !.pc = "running"] /\ ctl' = ctl
      BY <1>1, <1>2, <1>14, <2>1, Zenon DEF FilterDone, Going, Move
    <2>2. CASE c' = [c EXCEPT !.pc = "failed", !.sess = NoSession] /\ Aborts(c.rmt_sockdata)
      <3>1. c'.pc = "failed"
        BY <2>2 DEF ClientRecord
      <3> QED
        BY <1>1, <1>14, <2>2, <3>1, Zenon DEF FilterDone, Aborts, AfterAbort, Failure, Move
    <2> QED
      BY <1>14, <2>1, <2>2, Zenon DEF FilterDone
  <1>15. CASE Read
    <2>1. c.pc = "running" /\ c'.pc \in {"running", "failed"}
      BY <1>15 DEF Read, ClientRecord
    <2> QED
      BY <1>1, <1>15, <2>1, Zenon DEF Read, Wire, Going, Move
  <1>16. CASE ReadEof
    BY <1>1, <1>2, <1>16, Zenon DEF ReadEof, vars, Going, Move
  <1>17. CASE Ask
    <2>1. PICK type, ok : Asks(type, ok) /\ c' = [c EXCEPT !.pc = "asking", !.req = type]
      BY <1>17, Zenon DEF Ask
    <2>2. c'.pc = "asking"
      BY <2>1 DEF ClientRecord
    <2> QED
      BY <1>17, <2>1, <2>2, Zenon DEF Ask, Asks, Calling, Move
  <1>18. CASE Told
    <2>1. c'.pc = "running"
      BY <1>18 DEF Told, ClientRecord
    <2> QED
      BY <1>1, <1>18, <2>1, Zenon DEF Told, Going, Move
  <1>19. CASE ClosePassive
    BY <1>3, <1>19, Zenon DEF ClosePassive, CtlClosed, Farewell
  <1>20. CASE CloseActive
    BY <1>2, <1>20, Zenon DEF CloseActive, Asks, Calling
  <1>21. CASE CloseAnswered
    <2>1. CASE c' = [Fresh EXCEPT !.pc = "crashed"] /\ CtlClosed
      BY <1>3, <1>21, <2>1, Zenon DEF CloseAnswered, CtlClosed, Farewell
    <2>2. CASE c' = [Fresh EXCEPT !.pc = "idle", !.rmt_sockctrl = c.rmt_sockctrl] /\ ctl' = ctl
      <3>1. c'.pc = "idle"
        BY <2>2 DEF Fresh
      <3> QED
        BY <1>1, <1>21, <2>2, <3>1, Zenon DEF CloseAnswered, Going, Move
    <2> QED
      BY <1>21, <2>1, <2>2, Zenon DEF CloseAnswered
  <1> QED
    BY <1>4, <1>5, <1>6, <1>7, <1>8, <1>9, <1>10, <1>11, <1>12, <1>13, <1>14, <1>15,
       <1>16, <1>17, <1>18, <1>19, <1>20, <1>21, Zenon DEF Client

(* Requests are kept for what a call must still send. *)
Reserved ==
    /\ c.pc \in {"auth", "filtering", "running", "asking"} => sent + 1 <= MaxReq
    /\ c.pc = "starting" => sent + 2 <= MaxReq
    /\ d.active /\ c.pc \in {"opening", "opened", "failed"} => sent + 1 <= MaxReq

(* A client that has closed the control connection has no call in          *)
(* progress, and it is in active mode that the connection outlives a       *)
(* handle.                                                                 *)
PlaceInv ==
    /\ ctl = "closed" => c.pc \in {"failed", "done", "crashed"}
    /\ c.pc = "failed" /\ ctl = "closed" => ~d.active
    /\ c.pc \in {"done", "crashed"} => ctl = "closed"
    /\ c.pc \in {"idle", "ending"} => d.active

(* No action of the client sends a request that it has no number left for, *)
(* or goes where PlaceInv does not allow.                                  *)
LEMMA PlacesStep ==
    ASSUME c \in ClientRecord, sent \in 0..MaxReq, Reserved, PlaceInv,
           Farewell \/ Failure \/ Calling \/ Going, d' = d
    PROVE  Reserved' /\ PlaceInv' /\ sent' \in 0..MaxReq
  <1>1. MaxReq \in Nat /\ sent \in Nat
    BY RpcapdAssumption
  <1>2. CASE Farewell
    BY <1>1, <1>2 DEF Farewell, Reserved, PlaceInv
  <1>3. CASE Failure
    <2>1. sent' = sent /\ c'.pc = "failed" /\ c.pc \in {"starting", "filtering"}
      BY <1>1, <1>3 DEF Failure, Move
    <2>2. sent + 1 <= MaxReq
      BY <1>1, <2>1 DEF Reserved
    <2> QED
      BY <1>3, <2>1, <2>2 DEF Failure, AfterAbort, Reserved, PlaceInv
  <1>4. CASE Calling
    <2>1. CASE c.pc \in Closable /\ c'.pc = "ending" /\ sent' = sent + 1 /\ d.active
      <3>1. sent + 1 <= MaxReq
        BY <2>1 DEF Closable, Reserved
      <3>2. sent' \in 0..MaxReq
        BY <1>1, <2>1, <3>1
      <3>3. ctl' = ctl /\ ctl # "closed"
        BY <1>4, <2>1, Zenon DEF Calling, Closable, PlaceInv
      <3> QED
        BY <2>1, <3>2, <3>3, Zenon DEF Reserved, PlaceInv
    <2>2. ctl' = ctl
      BY <1>4, Zenon DEF Calling
    <2>3. CASE Move("none", "auth", 1) /\ MaySend(2)
      BY <1>1, <2>2, <2>3 DEF Move, MaySend, Reserved, PlaceInv
    <2>4. CASE Move("idle", "opening", 1) /\ MaySend(2)
      BY <1>1, <2>2, <2>4 DEF Move, MaySend, Reserved, PlaceInv
    <2>5. CASE Move("opened", "starting", 1) /\ MaySend(3)
      BY <1>1, <2>2, <2>5 DEF Move, MaySend, Reserved, PlaceInv
    <2>6. CASE Move("running", "asking", 1) /\ MaySend(2)
      BY <1>1, <2>2, <2>6 DEF Move, MaySend, Reserved, PlaceInv
    <2> QED
      BY <1>4, <2>1, <2>3, <2>4, <2>5, <2>6, Zenon DEF Calling
  <1>5. CASE Going
    BY <1>1, <1>5, SMTT(30) DEF Going, Move, Reserved, PlaceInv
  <1> QED
    BY <1>2, <1>3, <1>4, <1>5, Zenon

(* What the client holds has its type. *)
ClientTypes == cfds \subseteq 1..MaxFd /\ files \subseteq 1..MaxFd /\ c \in ClientRecord

(* A handle that has just been made has its type. *)
LEMMA FreshTypes ==
    /\ Fresh \in ClientRecord
    /\ \A pc \in ClientPlaces : [Fresh EXCEPT !.pc = pc] \in ClientRecord
    /\ \A pc \in ClientPlaces, fd \in 0..MaxFd :
          [Fresh EXCEPT !.pc = pc, !.rmt_sockctrl = fd] \in ClientRecord
  <1>1. 0 \in 0..MaxFd /\ 0 \in Nat
    BY RpcapAssumption
  <1>2. "none" \in ClientPlaces
    BY SMTT(30) DEF ClientPlaces
  <1> QED
    BY <1>1, <1>2 DEF Fresh, ClientRecord, NoFd, NoSession

(* Assigning a handle's fields keeps its type. *)
LEMMA RecordTypes ==
    ASSUME c \in ClientRecord
    PROVE  /\ \A pc \in ClientPlaces : [c EXCEPT !.pc = pc] \in ClientRecord
           /\ \A pc \in ClientPlaces, fd \in 0..MaxFd :
                 /\ [c EXCEPT !.pc = pc, !.rmt_sockctrl = fd] \in ClientRecord
                 /\ [c EXCEPT !.pc = pc, !.listen = fd] \in ClientRecord
           /\ \A pc \in ClientPlaces, fd, l \in 0..MaxFd, k \in Slots :
                 /\ [c EXCEPT !.pc = pc, !.rmt_sockdata = fd, !.listen = l] \in ClientRecord
                 /\ [c EXCEPT !.pc = pc, !.rmt_sockdata = fd, !.listen = l, !.sess = k] \in ClientRecord
           /\ \A pc \in ClientPlaces, n \in Nat : [c EXCEPT !.pc = pc, !.TotCapt = n] \in ClientRecord
           /\ \A n \in Nat : [c EXCEPT !.TotCapt = n] \in ClientRecord
           /\ \A pc \in ClientPlaces : [c EXCEPT !.pc = pc, !.sess = NoSession] \in ClientRecord
           /\ \A pc \in ClientPlaces, type \in MsgTypes \cup {"none"} :
                 [c EXCEPT !.pc = pc, !.req = type] \in ClientRecord
  BY DEF ClientRecord

(* What a request or a farewell adds to the control connection. *)
LEMMA AskIsSend ==
    ASSUME NEW type \in MsgTypes, NEW ok \in BOOLEAN, Asks(type, ok), sent' \in 0..MaxReq
    PROVE  SendsAtMost
  <1> DEFINE m == [type |-> type, id |-> sent + 1, ok |-> ok]
  <1>1. m \in Request
    BY Zenon DEF Request, Asks
  <1>2. m.id = sent + 1
    OBVIOUS
  <1> QED
    BY <1>1, <1>2, Zenon DEF Asks, Sends, SendsAtMost

(* The CLOSE message of pcap_cleanup_rpcap has a request's type. *)
LEMMA CloseIsSend ==
    ASSUME toD' = Append(toD, [type |-> "CLOSE", id |-> 0, ok |-> TRUE]), sent' = sent
    PROVE  SendsAtMost
  <1> DEFINE m == [type |-> "CLOSE", id |-> 0, ok |-> TRUE]
  <1>1. m \in Request
    BY RpcapdAssumption DEF Request, MsgTypes
  <1>2. m.id = 0
    OBVIOUS
  <1> QED
    BY <1>1, <1>2, Zenon DEF Sends, SendsAtMost

(* Receiving an answer takes it from the connection. *)
LEMMA GetIsTake ==
    /\ \A type : Succeeds(type) \/ Fails(type) => Takes
    /\ Gets \/ HungUp => Takes
  BY Zenon DEF Succeeds, Fails, Gets, HungUp, Takes

DataTypes ==
    /\ ctl \in {"up", "closed"} /\ data \in [Slots -> Seq(Packet)]
    /\ cdata \in [Slots -> {"none", "up", "closed"}]

(* Closing a data socket keeps the type of the data connections. *)
LEMMA DataClosedTypes ==
    ASSUME cdata \in [Slots -> {"none", "up", "closed"}]
    PROVE  /\ [k \in Slots |-> IF cdata[k] = "up" THEN "closed" ELSE cdata[k]]
                 \in [Slots -> {"none", "up", "closed"}]
           /\ \A k, v : v \in {"up", "closed"} =>
                 [cdata EXCEPT ![k] = v] \in [Slots -> {"none", "up", "closed"}]
           /\ \A k : [cdata EXCEPT ![k] = IF @ = "up" THEN "closed" ELSE @]
                        \in [Slots -> {"none", "up", "closed"}]
  <1>1. \A k \in Slots : (IF cdata[k] = "up" THEN "closed" ELSE cdata[k]) \in {"none", "up", "closed"}
    BY Zenon
  <1>2. \A k : [cdata EXCEPT ![k] = IF @ = "up" THEN "closed" ELSE @]
                  \in [Slots -> {"none", "up", "closed"}]
    OBVIOUS
  <1>3. \A k, v : v \in {"up", "closed"} =>
                 [cdata EXCEPT ![k] = v] \in [Slots -> {"none", "up", "closed"}]
    OBVIOUS
  <1> QED
    BY <1>1, <1>2, <1>3, Zenon

(* The descriptors and the connections that a step of the client leaves. *)
Leaves == UNCHANGED <<d, s, t>> /\ Takes /\ SendsAtMost /\ ClientTypes' /\ DataTypes'

(* What authenticating, opening and closing the control connection leave   *)
(* alone, and the types they keep.                                         *)
LEMMA ControlActs ==
    ASSUME ClientTypes, DataTypes, sent' \in 0..MaxReq,
           Connect \/ Authenticated \/ Rejected \/ OpenActive \/ OpenRefused \/ OpenDone \/ RemoteClose
    PROVE  Leaves
  <1>1. UNCHANGED <<d, s, t, data, cdata>>
    BY Zenon DEF Connect, Authenticated, Rejected, OpenActive, OpenRefused, OpenDone, RemoteClose
  <1>2. c \in ClientRecord /\ {"auth", "idle", "opening", "opened", "done"} \subseteq ClientPlaces
    BY DEF ClientTypes, ClientPlaces, Waiting
  <1>3. {"AUTH", "OPEN"} \subseteq MsgTypes
    BY DEF MsgTypes
  <1>4. CASE Connect
    <2>1. NewFd \in 1..MaxFd /\ NewFd \in 0..MaxFd
      BY <1>4, NewFdIsFree, Zenon DEF Connect
    <2>2. SendsAtMost
      BY <1>3, <1>4, AskIsSend, Zenon DEF Connect
    <2>3. c' \in ClientRecord
      BY <1>2, <1>4, <2>1, RecordTypes, Zenon DEF Connect
    <2>4. cfds' \subseteq 1..MaxFd
      BY <1>4, <2>1, Zenon DEF Connect, ClientTypes
    <2> QED
      BY <1>1, <1>4, <2>2, <2>3, <2>4, Zenon DEF Connect, Leaves, Takes, ClientTypes, DataTypes
  <1>5. CASE Authenticated
    <2>1. c' \in ClientRecord
      BY <1>2, <1>5, RecordTypes, Zenon DEF Authenticated
    <2>2. SendsAtMost
      <3>1. CASE d.active
        BY <1>5, <3>1, Zenon DEF Authenticated, SendsAtMost
      <3>2. CASE ~d.active
        BY <1>3, <1>5, <3>2, AskIsSend, Zenon DEF Authenticated
      <3> QED
        BY <3>1, <3>2, Zenon
    <2> QED
      BY <1>1, <1>5, <2>1, <2>2, GetIsTake, Zenon
         DEF Authenticated, Leaves, ClientTypes, DataTypes
  <1>6. CASE Rejected
    <2>1. c' \in ClientRecord
      BY <1>2, <1>6, FreshTypes, Zenon DEF Rejected
    <2> QED
      BY <1>1, <1>6, <2>1, GetIsTake, Zenon
         DEF Rejected, Closes, CtlClosed, SendsAtMost, Leaves, ClientTypes, DataTypes
  <1>7. CASE OpenActive
    <2>1. c' \in ClientRecord
      BY <1>2, <1>7, RecordTypes, Zenon DEF OpenActive
    <2>2. SendsAtMost
      BY <1>3, <1>7, AskIsSend, Zenon DEF OpenActive
    <2> QED
      BY <1>1, <1>7, <2>1, <2>2, Zenon DEF OpenActive, Leaves, Takes, ClientTypes, DataTypes
  <1>8. CASE OpenRefused
    <2>1. c' \in ClientRecord
      BY <1>2, <1>8, RecordTypes, Zenon DEF OpenRefused
    <2> QED
      BY <1>1, <1>8, <2>1, GetIsTake, Zenon
         DEF OpenRefused, SendsAtMost, Leaves, ClientTypes, DataTypes
  <1>9. CASE OpenDone
    <2>1. c' \in ClientRecord
      <3>1. 0 \in Nat
        OBVIOUS
      <3> QED
        BY <1>2, <1>9, <3>1, RecordTypes, Zenon DEF OpenDone
    <2> QED
      BY <1>1, <1>9, <2>1, GetIsTake, Zenon
         DEF OpenDone, SendsAtMost, Leaves, ClientTypes, DataTypes
  <1>10. CASE RemoteClose
    <2>1. c' \in ClientRecord
      BY <1>2, <1>10, FreshTypes, Zenon DEF RemoteClose
    <2>2. SendsAtMost
      BY <1>10, CloseIsSend, Zenon DEF RemoteClose
    <2> QED
      BY <1>1, <1>10, <2>1, <2>2, Zenon
         DEF RemoteClose, Closes, CtlClosed, Leaves, Takes, ClientTypes, DataTypes
  <1> QED
    BY <1>4, <1>5, <1>6, <1>7, <1>8, <1>9, <1>10, Zenon

(* What starting a capture leaves alone, and the types it keeps. *)
LEMMA StartActs ==
    ASSUME ClientTypes, DataTypes, sent' \in 0..MaxReq,
           Start \/ StartRefused \/ StartDone \/ FilterDone
    PROVE  Leaves
  <1>1. UNCHANGED <<d, s, t, data>>
    BY Zenon DEF Start, StartRefused, StartDone, FilterDone
  <1>2. /\ c \in ClientRecord /\ NoFd \in 0..MaxFd
        /\ {"starting", "failed", "filtering", "running"} \subseteq ClientPlaces
    BY RpcapAssumption DEF ClientTypes, ClientPlaces, Waiting, NoFd
  <1>3. {"STARTCAP", "UPDATEFILTER"} \subseteq MsgTypes
    BY DEF MsgTypes
  <1>4. CASE Start
    <2>1. HaveFd => NewFd \in 1..MaxFd /\ NewFd \in 0..MaxFd
      BY NewFdIsFree, Zenon
    <2>2. SendsAtMost
      BY <1>3, <1>4, AskIsSend, Zenon DEF Start
    <2>3. c' \in ClientRecord
      BY <1>2, <1>4, <2>1, RecordTypes, Zenon DEF Start
    <2>4. cfds' \subseteq 1..MaxFd
      BY <1>4, <2>1, Zenon DEF Start, ClientTypes
    <2> QED
      BY <1>1, <1>4, <2>2, <2>3, <2>4, Zenon DEF Start, Leaves, Takes, ClientTypes, DataTypes
  <1>5. ASSUME NEW fd, Aborts(fd)
        PROVE  /\ ctl' \in {"up", "closed"} /\ cfds' \subseteq 1..MaxFd /\ files' \subseteq 1..MaxFd
    BY <1>5, Zenon DEF Aborts, Closes, ClientTypes, DataTypes
  <1>6. CASE StartRefused
    <2>1. c' \in ClientRecord
      BY <1>2, <1>6, RecordTypes, Zenon DEF StartRefused
    <2>2. cdata' \in [Slots -> {"none", "up", "closed"}]
      BY <1>6, DataClosedTypes, Zenon DEF StartRefused, DataTypes
    <2> QED
      BY <1>1, <1>5, <1>6, <2>1, <2>2, GetIsTake, Zenon
         DEF StartRefused, SendsAtMost, Leaves, ClientTypes, DataTypes
  <1>7. CASE StartDone
    <2>1. PICK k, fd :
             /\ k \in Reachable /\ fd = NewFd
             /\ \/ /\ \E flag \in NoCapture :
                      /\ c' = [c EXCEPT !.pc = IF flag THEN "filtering" ELSE "running",
                                        !.rmt_sockdata = fd, !.listen = NoFd, !.sess = k]
                      /\ IF flag THEN Asks("UPDATEFILTER", TRUE) ELSE UNCHANGED <<toD, sent>>
                   /\ cfds' = (cfds \ {c.listen}) \cup {fd} /\ files' = files \ {c.listen}
                   /\ cdata' = [cdata EXCEPT ![k] = "up"]
                   /\ ctl' = ctl
                \/ /\ c' = [c EXCEPT !.pc = "failed", !.rmt_sockdata = fd, !.listen = NoFd]
                   /\ Aborts(c.listen)
                   /\ cdata' = [cdata EXCEPT ![k] = "closed"]
                   /\ UNCHANGED <<toD, sent>>
      BY <1>7, Zenon DEF StartDone
    <2>2. k \in Slots /\ fd \in 1..MaxFd /\ fd \in 0..MaxFd
      BY <1>7, <2>1, NewFdIsFree, Zenon DEF StartDone, Reachable
    <2>3. Takes
      BY <1>7, GetIsTake, Zenon DEF StartDone
    <2>4. cdata' \in [Slots -> {"none", "up", "closed"}]
      BY <2>1, DataClosedTypes, Zenon DEF DataTypes
    <2>5. ASSUME NEW flag \in NoCapture,
                 c' = [c EXCEPT !.pc = IF flag THEN "filtering" ELSE "running",
                                !.rmt_sockdata = fd, !.listen = NoFd, !.sess = k],
                 IF flag THEN Asks("UPDATEFILTER", TRUE) ELSE UNCHANGED <<toD, sent>>,
                 cfds' = (cfds \ {c.listen}) \cup {fd}, files' = files \ {c.listen}, ctl' = ctl
          PROVE  Leaves
      <3>1. c' \in ClientRecord
        BY <1>2, <2>2, <2>5, RecordTypes, Zenon
      <3>2. SendsAtMost
        BY <1>3, <2>5, AskIsSend, Zenon DEF SendsAtMost
      <3> QED
        BY <1>1, <2>2, <2>3, <2>4, <2>5, <3>1, <3>2, Zenon DEF Leaves, ClientTypes, DataTypes
    <2>6. CASE /\ c' = [c EXCEPT !.pc = "failed", !.rmt_sockdata = fd, !.listen = NoFd]
               /\ Aborts(c.listen)
               /\ UNCHANGED <<toD, sent>>
      <3>1. c' \in ClientRecord
        BY <1>2, <2>2, <2>6, RecordTypes, Zenon
      <3> QED
        BY <1>1, <1>5, <2>3, <2>4, <2>6, <3>1, Zenon DEF Leaves, SendsAtMost, ClientTypes, DataTypes
    <2> QED
      BY <2>1, <2>5, <2>6, Zenon
  <1>8. CASE FilterDone
    <2>1. CASE c' = [c EXCEPT !.pc = "running"] /\ UNCHANGED <<cfds, files, ctl, cdata>>
      <3>1. c' \in ClientRecord
        BY <1>2, <2>1, RecordTypes, Zenon
      <3> QED
        BY <1>1, <1>8, <2>1, <3>1, GetIsTake, Zenon
           DEF FilterDone, SendsAtMost, Leaves, ClientTypes, DataTypes
    <2>2. CASE /\ c' = [c EXCEPT !.pc = "failed", !.sess = NoSession]
               /\ Aborts(c.rmt_sockdata) /\ DataClosed(c.sess)
      <3>1. c' \in ClientRecord
        BY <1>2, <2>2, RecordTypes, Zenon
      <3>2. cdata' \in [Slots -> {"none", "up", "closed"}]
        BY <2>2, DataClosedTypes, Zenon DEF DataClosed, DataTypes
      <3> QED
        BY <1>1, <1>5, <1>8, <2>2, <3>1, <3>2, GetIsTake, Zenon
           DEF FilterDone, SendsAtMost, Leaves, ClientTypes, DataTypes
    <2> QED
      BY <1>8, <2>1, <2>2, Zenon DEF FilterDone
  <1> QED
    BY <1>4, <1>6, <1>7, <1>8, Zenon

(* What reading and asking leave alone, and the types they keep. *)
LEMMA RunActs ==
    ASSUME ClientTypes, DataTypes, sent' \in 0..MaxReq, Read \/ ReadEof \/ Ask \/ Told
    PROVE  Leaves
  <1>1. UNCHANGED <<d, s, t, ctl, cdata, cfds, files>>
    BY Zenon DEF Read, ReadEof, Ask, Told, vars, Wire
  <1>2. c \in ClientRecord /\ {"running", "failed", "asking"} \subseteq ClientPlaces
    BY DEF ClientTypes, ClientPlaces, Waiting
  <1>3. {"UPDATEFILTER", "STATS"} \subseteq MsgTypes
    BY DEF MsgTypes
  <1>4. CASE Read
    <2>1. c.TotCapt + 1 \in Nat
      BY <1>2 DEF ClientRecord
    <2>2. c' = [c EXCEPT !.pc = "failed"] \/ c' = [c EXCEPT !.TotCapt = c.TotCapt + 1]
      BY <1>2, <1>4 DEF Read, ClientRecord
    <2>3. c' \in ClientRecord
      BY <1>2, <2>1, <2>2, RecordTypes, Zenon
    <2>4. data' \in [Slots -> Seq(Packet)]
      <3>1. CASE c.sess \in Slots
        <4>1. data[c.sess] \in Seq(Packet) /\ data[c.sess] # <<>>
          BY <1>4, <3>1, Zenon DEF Read, DataTypes
        <4>2. Tail(data[c.sess]) \in Seq(Packet)
          BY <4>1
        <4> QED
          BY <1>4, <4>2, Zenon DEF Read, DataTypes
      <3>2. CASE c.sess \notin Slots
        BY <1>4, <3>2, Zenon DEF Read, DataTypes
      <3> QED
        BY <3>1, <3>2, Zenon
    <2> QED
      BY <1>1, <1>4, <2>3, <2>4, Zenon
         DEF Read, Wire, Leaves, Takes, SendsAtMost, ClientTypes, DataTypes
  <1>5. CASE ReadEof
    <2>1. c' \in ClientRecord
      BY <1>2, <1>5, RecordTypes, Zenon DEF ReadEof
    <2> QED
      BY <1>1, <1>5, <2>1, Zenon
         DEF ReadEof, vars, Leaves, Takes, SendsAtMost, ClientTypes, DataTypes
  <1>6. CASE Ask
    <2>1. PICK type \in {"UPDATEFILTER", "STATS"}, ok \in BOOLEAN :
             Asks(type, ok) /\ c' = [c EXCEPT !.pc = "asking", !.req = type]
      BY <1>6, Zenon DEF Ask
    <2>2. c' \in ClientRecord
      BY <1>2, <1>3, <2>1, RecordTypes, Zenon
    <2>3. SendsAtMost
      BY <1>3, <2>1, AskIsSend, Zenon
    <2> QED
      BY <1>1, <1>6, <2>2, <2>3, Zenon DEF Ask, Leaves, Takes, ClientTypes, DataTypes
  <1>7. CASE Told
    <2>1. c' \in ClientRecord
      BY <1>2, <1>7, RecordTypes, Zenon DEF Told
    <2> QED
      BY <1>1, <1>7, <2>1, GetIsTake, Zenon DEF Told, SendsAtMost, Leaves, ClientTypes, DataTypes
  <1> QED
    BY <1>4, <1>5, <1>6, <1>7, Zenon

(* What closing the handle leaves alone, and the types it keeps. *)
LEMMA CloseActs ==
    ASSUME ClientTypes, DataTypes, sent' \in 0..MaxReq, ClosePassive \/ CloseActive \/ CloseAnswered
    PROVE  Leaves
  <1>1. UNCHANGED <<d, s, t, data>>
    BY Zenon DEF ClosePassive, CloseActive, CloseAnswered
  <1>2. c \in ClientRecord /\ {"done", "ending", "crashed", "idle"} \subseteq ClientPlaces
    BY DEF ClientTypes, ClientPlaces, Waiting
  <1>3. CASE ClosePassive
    <2>1. c' \in ClientRecord
      BY <1>2, <1>3, FreshTypes, Zenon DEF ClosePassive
    <2>2. SendsAtMost
      BY <1>3, CloseIsSend, Zenon DEF ClosePassive, SendsAtMost
    <2>3. cdata' \in [Slots -> {"none", "up", "closed"}]
      BY <1>3, DataClosedTypes, Zenon DEF ClosePassive, DataTypes
    <2> QED
      BY <1>1, <1>3, <2>1, <2>2, <2>3, Zenon
         DEF ClosePassive, Closes, CtlClosed, Leaves, Takes, ClientTypes, DataTypes
  <1>4. CASE CloseActive
    <2>1. c' \in ClientRecord
      BY <1>2, <1>4, RecordTypes, Zenon DEF CloseActive
    <2>2. SendsAtMost
      <3>1. "ENDCAP" \in MsgTypes
        BY DEF MsgTypes
      <3> QED
        BY <1>4, <3>1, AskIsSend, Zenon DEF CloseActive
    <2> QED
      BY <1>1, <1>4, <2>1, <2>2, Zenon DEF CloseActive, Leaves, Takes, ClientTypes, DataTypes
  <1>5. CASE CloseAnswered
    <2>1. UNCHANGED <<toD, sent>> /\ Takes
      BY <1>5, GetIsTake, Zenon DEF CloseAnswered
    <2>2. CASE /\ c' = [Fresh EXCEPT !.pc = "crashed"] /\ cfds' = {} /\ files' = {} /\ CtlClosed
               /\ cdata' = [k \in Slots |-> IF cdata[k] = "up" THEN "closed" ELSE cdata[k]]
      <3>1. c' \in ClientRecord
        BY <1>2, <2>2, FreshTypes, Zenon
      <3>2. cdata' \in [Slots -> {"none", "up", "closed"}]
        BY <2>2, DataClosedTypes, Zenon DEF DataTypes
      <3> QED
        BY <1>1, <2>1, <2>2, <3>1, <3>2, Zenon
           DEF CtlClosed, SendsAtMost, Leaves, ClientTypes, DataTypes
    <2>3. CASE /\ c' = [Fresh EXCEPT !.pc = "idle", !.rmt_sockctrl = c.rmt_sockctrl]
               /\ Closes({c.rmt_sockdata}) /\ ctl' = ctl
               /\ cdata' = IF c.sess = NoSession THEN cdata
                           ELSE [cdata EXCEPT ![c.sess] = "closed"]
      <3>1. c.rmt_sockctrl \in 0..MaxFd
        BY <1>2 DEF ClientRecord
      <3>2. c' \in ClientRecord
        BY <1>2, <2>3, <3>1, FreshTypes, Zenon
      <3>3. cdata' \in [Slots -> {"none", "up", "closed"}]
        BY <2>3, DataClosedTypes, Zenon DEF DataTypes
      <3> QED
        BY <1>1, <2>1, <2>3, <3>2, <3>3, Zenon
           DEF Closes, SendsAtMost, Leaves, ClientTypes, DataTypes
    <2> QED
      BY <1>5, <2>2, <2>3, Zenon DEF CloseAnswered
  <1> QED
    BY <1>3, <1>4, <1>5, Zenon

-----------------------------------------------------------------------------
(* What holds of the two together, whatever fails. *)
BaseInv == IInv /\ ClientTypes /\ Reserved /\ PlaceInv

(* The client keeps the daemon's invariant and its own types. *)
LEMMA BaseClientStep == ASSUME BaseInv, Client PROVE BaseInv' /\ Leaves /\ Takes /\ d' = d
  <1>1. c \in ClientRecord /\ sent \in 0..MaxReq /\ DataTypes /\ sent \in Nat
    <2>1. sent \in 0..MaxReq /\ MaxReq \in Nat
      BY RpcapdAssumption, Zenon DEF BaseInv, IInv, TypeOK
    <2> QED
      BY <2>1 DEF BaseInv, ClientTypes, DataTypes, IInv, TypeOK
  <1>2. d' = d
    BY Zenon DEF Client, Connect, Authenticated, Rejected, OpenActive, OpenRefused, OpenDone,
           RemoteClose, Start, StartRefused, StartDone, FilterDone, Read, ReadEof, vars, Ask,
           Told, ClosePassive, CloseActive, CloseAnswered
  <1>3. Farewell \/ Failure \/ Calling \/ Going
    BY <1>1, ClientMoves, Zenon
  <1>4. Reserved' /\ PlaceInv' /\ sent' \in 0..MaxReq
    BY <1>1, <1>2, <1>3, PlacesStep, Zenon DEF BaseInv
  <1>5. Leaves
    BY <1>1, <1>4, ControlActs, StartActs, RunActs, CloseActs, Zenon DEF BaseInv, Client
  <1>6. IInv'
    BY <1>4, <1>5, ClientKeeps, Zenon DEF BaseInv, Leaves, DataTypes
  <1> QED
    BY <1>2, <1>4, <1>5, <1>6, Zenon DEF BaseInv, Leaves

(* The daemon leaves the client's end of the control connection alone, and *)
(* its mode, and a start that failed late stays one.                       *)
SameMode == d'.active = d.active /\ (d.late => d'.late)

(* The daemon's steps leave the control connection open, keep its mode and *)
(* forget no late failure.                                                 *)
LEMMA DaemonKeeps ==
    ASSUME IInv, Daemon
    PROVE  ctl' = ctl /\ sent' = sent /\ SameMode
  <1>1. ctl' = ctl /\ sent' = sent
    BY Zenon DEF Daemon, DaemonMain, Peek, AuthMsg, Timeout, Eof, Service, Accept, MakeThread,
           Interrupt, Join, Gone, DataThread, ThreadRuns, ThreadInit, ThreadCheck, ThreadWait,
           ThreadWake, ThreadSend, ThreadPacket, ThreadError, Wire
  <1>2. d \in Locals
    BY Zenon DEF IInv, TypeOK, Locals
  <1>3. CASE Peek \/ Timeout \/ Eof \/ Gone \/ Interrupt
    <2>1. GiveUp \/ \E pc : d' = [d EXCEPT !.pc = pc]
      BY <1>3, Zenon DEF Peek, Timeout, Eof, Gone, Interrupt
    <2> QED
      BY <1>1, <1>2, <2>1 DEF GiveUp, Locals, SameMode
  <1>4. ASSUME NEW m, AuthSwitch(m) PROVE SameMode
    BY <1>2, <1>4 DEF AuthSwitch, GiveUp, Answered, Locals, SameMode
  <1>5. ASSUME NEW m, NEW ss, StartFails(m, ss) PROVE SameMode
    BY <1>2, <1>5 DEF StartFails, Locals, SameMode
  <1>6. ASSUME NEW m \in Request, ServiceSwitch(m) PROVE SameMode
    <2>1. CASE Simple(m) \/ Open(m) \/ UpdateFilter(m)
      BY <1>2, <2>1 DEF Simple, Open, UpdateFilter, Answered, Refused, Locals, SameMode
    <2>2. CASE StartCap(m)
      BY <1>2, <1>5, <2>2, ZenonT(30) DEF StartCap, Locals, SameMode
    <2>3. CASE Stats(m) \/ EndCap(m)
      <3>1. \/ d' = d \/ \E pc : d' = [d EXCEPT !.pc = pc, !.why = "end"]
            \/ \E x, y : d' = [d EXCEPT !.pc = "close", !.why = "endcap", !.req = x, !.svrcapt = y]
        BY <2>3, Zenon DEF Stats, EndCap, Answered, Refused
      <3> QED
        BY <1>2, <3>1 DEF Locals, SameMode
    <2>4. CASE d' = [d EXCEPT !.pc = "close", !.why = "end", !.told = TRUE]
      BY <1>2, <2>4 DEF Locals, SameMode
    <2>5. CASE Answered(Error(m), "close") \/ d' = d
      BY <1>2, <2>5 DEF Answered, Locals, SameMode
    <2>6. \/ Simple(m) \/ Open(m) \/ UpdateFilter(m) \/ StartCap(m) \/ Stats(m) \/ EndCap(m)
          \/ d' = [d EXCEPT !.pc = "close", !.why = "end", !.told = TRUE]
          \/ Answered(Error(m), "close") \/ d' = d
      BY <1>6 DEF ServiceSwitch, Request, MsgTypes
    <2> QED
      BY <2>1, <2>2, <2>3, <2>4, <2>5, <2>6, Zenon
  <1>7. CASE Accept \/ MakeThread
    <2>1. \/ \E m, ss : StartFails(m, ss) \/ \E pc : d' = [d EXCEPT !.pc = pc]
          \/ d' = [d EXCEPT !.pc = "serve", !.session = d.new, !.new = NoSession]
      BY <1>7, Zenon DEF Accept, MakeThread
    <2> QED
      BY <1>1, <1>2, <1>5, <2>1 DEF Locals, SameMode
  <1>8. CASE Join
    <2>1. \/ \E pc : d' = [d EXCEPT !.pc = pc, !.why = "end", !.session = NoSession]
          \/ d' = [d EXCEPT !.pc = "close", !.session = NoSession]
      BY <1>8, Zenon DEF Join
    <2> QED
      BY <1>1, <1>2, <2>1 DEF Locals, SameMode
  <1>9. CASE \E k \in Slots : DataThread(k)
    <2>1. d' = d
      BY <1>9, Zenon DEF DataThread, ThreadRuns, ThreadInit, ThreadCheck, ThreadWait, ThreadWake,
                        ThreadSend, ThreadPacket, ThreadError
    <2> QED
      BY <1>1, <2>1 DEF SameMode
  <1>10. CASE AuthMsg \/ Service
    <2>1. toD # <<>> => Head(toD) \in Request
      BY DEF IInv, TypeOK
    <2>2. SameMode
      BY <1>4, <1>6, <1>10, <2>1, Zenon DEF AuthMsg, Service, Receives
    <2> QED
      BY <1>1, <2>2, Zenon
  <1> QED
    BY <1>3, <1>7, <1>8, <1>9, <1>10, Zenon DEF Daemon, DaemonMain

(* Every step keeps the types, the daemon's invariant and the client's     *)
(* places.                                                                 *)
LEMMA BaseStep == BaseInv /\ [SessionNext]_allvars => BaseInv'
  <1> SUFFICES ASSUME BaseInv, [SessionNext]_allvars PROVE BaseInv'
    BY Zenon
  <1>1. CASE Client
    BY <1>1, BaseClientStep, Zenon
  <1>2. CASE OpenFile
    <2>1. UNCHANGED vars /\ c' = c
      BY <1>2, Zenon DEF OpenFile
    <2>2. IInv'
      BY <2>1, NextStep, Zenon DEF BaseInv
    <2>3. NewFd \in 1..MaxFd
      BY <1>2, NewFdIsFree, Zenon DEF OpenFile
    <2> QED
      BY <1>2, <2>1, <2>2, <2>3, Zenon
         DEF BaseInv, OpenFile, ClientTypes, Reserved, PlaceInv, vars
  <1>3. CASE Daemon /\ UNCHANGED client
    <2>1. IInv'
      BY <1>3, NextStep, Zenon DEF BaseInv, Next
    <2>2. ctl' = ctl /\ sent' = sent /\ d'.active = d.active
      BY <1>3, DaemonKeeps, Zenon DEF BaseInv, SameMode
    <2> QED
      BY <1>3, <2>1, <2>2, Zenon DEF BaseInv, client, ClientTypes, Reserved, PlaceInv
  <1>4. CASE UNCHANGED allvars
    <2>1. IInv'
      BY <1>4, NextStep, Zenon DEF BaseInv, allvars
    <2> QED
      BY <1>4, <2>1, Zenon DEF BaseInv, allvars, client, vars, ClientTypes, Reserved, PlaceInv
  <1> QED
    BY <1>1, <1>2, <1>3, <1>4, Zenon DEF SessionNext

(* The types, the daemon's invariant and the client's places, in every     *)
(* session.                                                                *)
LEMMA BaseHolds == SessionSpec => []BaseInv
  <1>1. SessionInit => BaseInv
    <2> SUFFICES ASSUME SessionInit PROVE BaseInv
      BY Zenon
    <2>1. IInv
      BY FreshInv, RpcapdAssumption, Zenon DEF SessionInit, DaemonInit, FreshService
    <2>2. ClientTypes
      BY FreshTypes, Zenon DEF SessionInit, ClientTypes
    <2>3. Reserved /\ PlaceInv
      BY DEF SessionInit, DaemonInit, Fresh, Reserved, PlaceInv
    <2> QED
      BY <2>1, <2>2, <2>3, Zenon DEF BaseInv
  <1> QED
    BY <1>1, BaseStep, PTL DEF SessionSpec

-----------------------------------------------------------------------------
(* Descriptors.  The handle's numbers are open and not the application's,  *)
(* and no two are the same, until a start fails: then the numbers of the   *)
(* sockets that were closed are kept.                                      *)

Capturing == {"filtering", "running", "asking", "failed", "ending"}

FdInv ==
    /\ files \subseteq cfds
    /\ (c.pc = "failed" /\ ctl = "closed") \/ c.rmt_sockctrl \in (cfds \ files) \cup {NoFd}
    /\ c.listen # NoFd =>
          c.pc = "starting" /\ c.listen \in cfds \ files /\ c.listen # c.rmt_sockctrl
    /\ c.rmt_sockdata # NoFd => c.pc \in Capturing /\ c.rmt_sockdata # c.rmt_sockctrl
    /\ c.sess # NoSession => c.pc \in Capturing /\ c.rmt_sockdata \in cfds \ files
    /\ c.pc \in {"filtering", "running", "asking"} => c.sess # NoSession
    /\ c.pc = "failed" /\ ctl = "up" /\ ~d.active => c.sess # NoSession

FileKept == files \subseteq files' \/ ClosedAlready \/ c'.pc = "crashed"

(* Steps that leave the numbers alone. *)
SameFds == c'.rmt_sockctrl = c.rmt_sockctrl /\ c'.rmt_sockdata = c.rmt_sockdata
               /\ c'.listen = c.listen /\ c'.sess = c.sess

(* A step that opens and closes nothing keeps FdInv. *)
LEMMA QuietFds ==
    ASSUME ClientTypes, FdInv, SameFds, UNCHANGED <<cfds, files, ctl, d>>, c.pc # "starting",
           ~(c.pc = "failed" /\ ctl = "closed"),
           c.pc \in Capturing => c'.pc \in Capturing,
           c'.pc \in {"filtering", "running", "asking", "failed"} =>
               c.pc \in {"filtering", "running", "asking"}
    PROVE  FdInv' /\ FileKept
  BY Zenon DEF FdInv, FileKept, SameFds

(* Authenticating and opening: only the control connection's number is     *)
(* taken or closed.                                                        *)
LEMMA FdControlStep ==
    ASSUME BaseInv, FdInv,
           Connect \/ Authenticated \/ Rejected \/ OpenActive \/ OpenRefused \/ OpenDone \/ RemoteClose
    PROVE  FdInv' /\ FileKept
  <1>1. c \in ClientRecord /\ ClientTypes /\ PlaceInv /\ d' = d
    BY BaseClientStep, Zenon DEF BaseInv, ClientTypes, Client
  <1>2. CASE Connect
    <2>1. NewFd \notin cfds /\ NewFd # NoFd
      BY <1>2, NewFdIsFree, Zenon DEF Connect
    <2>2. /\ c'.rmt_sockctrl = NewFd /\ c'.rmt_sockdata = c.rmt_sockdata
          /\ c'.listen = c.listen /\ c'.sess = c.sess /\ c'.pc = "auth" /\ c.pc = "none"
      BY <1>1, <1>2 DEF Connect, ClientRecord
    <2>3. c.listen = NoFd /\ c.rmt_sockdata = NoFd /\ c.sess = NoSession
      BY <2>2 DEF FdInv, Capturing
    <2>4. files' = files /\ cfds' = cfds \cup {NewFd}
      BY <1>2, Zenon DEF Connect
    <2> QED
      BY <2>1, <2>2, <2>3, <2>4 DEF FdInv, FileKept
  <1>3. CASE Authenticated \/ OpenActive \/ OpenRefused \/ OpenDone
    <2>1. SameFds /\ c'.pc \in {"idle", "opening", "opened"} /\ c.pc \in {"auth", "opening", "idle"}
      BY <1>1, <1>3 DEF Authenticated, OpenActive, OpenRefused, OpenDone, SameFds, ClientRecord
    <2>2. UNCHANGED <<cfds, files, ctl, d>>
      BY <1>3, Zenon DEF Authenticated, OpenActive, OpenRefused, OpenDone
    <2>3. /\ c.pc # "starting" /\ c.pc # "failed" /\ c.pc \notin Capturing
          /\ c'.pc \notin {"filtering", "running", "asking", "failed"}
      BY <2>1 DEF Capturing
    <2> QED
      BY <1>1, <2>1, <2>2, <2>3, QuietFds, Zenon
  <1>4. CASE Rejected \/ RemoteClose
    <2>1. /\ c'.rmt_sockctrl = NoFd /\ c'.rmt_sockdata = NoFd /\ c'.listen = NoFd
          /\ c'.sess = NoSession /\ c'.pc = "done"
      BY <1>4 DEF Rejected, RemoteClose, Fresh
    <2>2. /\ cfds' = cfds \ {c.rmt_sockctrl} /\ files' = files \ {c.rmt_sockctrl}
          /\ c.pc \in {"auth", "opening", "idle"}
      BY <1>4, Zenon DEF Rejected, RemoteClose, Closes
    <2>3. c.rmt_sockctrl \notin files
      <3>1. NoFd \notin files
        BY <1>1 DEF ClientTypes, NoFd
      <3>2. c.pc # "failed"
        BY <2>2
      <3> QED
        BY <3>1, <3>2, Zenon DEF FdInv
    <2>4. c'.pc \notin Capturing /\ c'.pc # "failed"
      BY <2>1 DEF Capturing
    <2> QED
      BY <2>1, <2>2, <2>3, <2>4 DEF FdInv, FileKept, Capturing
  <1> QED
    BY <1>2, <1>3, <1>4, Zenon

(* pcap_startcapture_remote's error path closes the control socket in      *)
(* passive mode, and the data socket if it has one: none is the            *)
(* application's.                                                          *)
LEMMA FdAborts ==
    ASSUME NEW fd, ClientTypes, FdInv, Aborts(fd), d' = d, c.pc # "failed", c'.pc = "failed",
           fd = NoFd \/ fd \in cfds \ files, fd # NoFd => fd # c.rmt_sockctrl,
           c'.rmt_sockctrl = c.rmt_sockctrl, c'.listen = NoFd, c'.sess = NoSession,
           c'.rmt_sockdata # NoFd => c'.rmt_sockdata # c.rmt_sockctrl
    PROVE  FdInv' /\ FileKept
  <1>1. NoFd \notin files /\ NoFd \notin cfds
    BY DEF ClientTypes, NoFd
  <1>2. c.rmt_sockctrl \in (cfds \ files) \cup {NoFd}
    BY Zenon DEF FdInv
  <1>3. CASE d.active
    <2>1. cfds' = cfds \ {fd} /\ files' = files \ {fd} /\ ctl' = ctl
      BY <1>3, Zenon DEF Aborts, Closes
    <2> QED
      BY <1>1, <1>2, <1>3, <2>1 DEF FdInv, FileKept, Capturing
  <1>4. CASE ~d.active
    <2>1. /\ cfds' = cfds \ ({fd} \cup {c.rmt_sockctrl}) /\ files' = files \ ({fd} \cup {c.rmt_sockctrl})
          /\ ctl' = "closed"
      BY <1>4, Zenon DEF Aborts, Closes
    <2> QED
      BY <1>1, <1>2, <1>4, <2>1 DEF FdInv, FileKept, Capturing
  <1> QED
    BY <1>3, <1>4, Zenon

(* Starting a capture, with each of its error paths. *)
LEMMA FdStartStep ==
    ASSUME BaseInv, FdInv, Start \/ StartRefused \/ StartDone \/ FilterDone
    PROVE  FdInv' /\ FileKept
  <1>1. c \in ClientRecord /\ ClientTypes /\ PlaceInv /\ d' = d
    BY BaseClientStep, Zenon DEF BaseInv, ClientTypes, Client
  <1>2. NoFd \notin files /\ NoFd \notin cfds
    BY <1>1 DEF ClientTypes, NoFd
  <1>3. c.pc # "failed" /\ c.rmt_sockctrl \in (cfds \ files) \cup {NoFd}
    <2>1. c.pc # "failed"
      BY DEF Start, StartRefused, StartDone, FilterDone
    <2> QED
      BY <2>1, ZenonT(30) DEF FdInv
  <1>4. CASE Start
    <2>1. /\ c'.rmt_sockctrl = c.rmt_sockctrl /\ c'.rmt_sockdata = c.rmt_sockdata
          /\ c'.sess = c.sess /\ c'.pc = "starting" /\ c.pc = "opened"
          /\ c'.listen = IF d.active THEN NewFd ELSE NoFd
      BY <1>1, <1>4 DEF Start, ClientRecord
    <2>2. c.rmt_sockdata = NoFd /\ c.sess = NoSession
      BY <2>1 DEF FdInv, Capturing
    <2>3. files' = files /\ (d.active => HaveFd)
          /\ cfds' = IF d.active THEN cfds \cup {NewFd} ELSE cfds
      BY <1>4, Zenon DEF Start
    <2>4. d.active => NewFd \notin cfds /\ NewFd # NoFd
      BY <2>3, NewFdIsFree, Zenon
    <2> QED
      BY <1>2, <1>3, <2>1, <2>2, <2>3, <2>4 DEF FdInv, FileKept
  <1>5. ASSUME c.pc = "starting"
        PROVE  /\ c.rmt_sockdata = NoFd /\ c.sess = NoSession
               /\ c.listen = NoFd \/ c.listen \in cfds \ files
               /\ c.listen # NoFd => c.listen # c.rmt_sockctrl
    BY <1>5 DEF FdInv, Capturing
  <1>6. CASE StartRefused
    <2>1. /\ c'.rmt_sockctrl = c.rmt_sockctrl /\ c'.rmt_sockdata = c.rmt_sockdata
          /\ c'.sess = c.sess /\ c'.pc = "failed" /\ c.pc = "starting" /\ c'.listen = NoFd
      BY <1>1, <1>6 DEF StartRefused, ClientRecord
    <2>2. Aborts(c.listen)
      BY <1>6, Zenon DEF StartRefused
    <2> QED
      BY <1>1, <1>3, <1>5, <2>1, <2>2, FdAborts, Zenon
  <1>7. CASE StartDone
    <2>1. c.pc = "starting" /\ NewFd \notin cfds /\ NewFd # NoFd
      BY <1>7, NewFdIsFree, ZenonT(30) DEF StartDone
    <2>2. PICK k \in Reachable :
             \/ /\ \E pc \in {"filtering", "running"} :
                      c' = [c EXCEPT !.pc = pc, !.rmt_sockdata = NewFd, !.listen = NoFd, !.sess = k]
                /\ cfds' = (cfds \ {c.listen}) \cup {NewFd} /\ files' = files \ {c.listen}
             \/ /\ c' = [c EXCEPT !.pc = "failed", !.rmt_sockdata = NewFd, !.listen = NoFd]
                /\ Aborts(c.listen)
      BY <1>7 DEF StartDone
    <2>3. CASE /\ c' = [c EXCEPT !.pc = "failed", !.rmt_sockdata = NewFd, !.listen = NoFd]
               /\ Aborts(c.listen)
      <3>1. /\ c'.rmt_sockctrl = c.rmt_sockctrl /\ c'.rmt_sockdata = NewFd
            /\ c'.sess = c.sess /\ c'.pc = "failed" /\ c'.listen = NoFd
        BY <1>1, <2>3 DEF ClientRecord
      <3> QED
        BY <1>1, <1>3, <1>5, <2>1, <2>3, <3>1, FdAborts, Zenon
    <2>4. ASSUME NEW pc \in {"filtering", "running"},
                 c' = [c EXCEPT !.pc = pc, !.rmt_sockdata = NewFd, !.listen = NoFd, !.sess = k],
                 cfds' = (cfds \ {c.listen}) \cup {NewFd}, files' = files \ {c.listen}
          PROVE  FdInv' /\ FileKept
      <3>1. /\ c'.rmt_sockctrl = c.rmt_sockctrl /\ c'.rmt_sockdata = NewFd
            /\ c'.sess = k /\ c'.pc = pc /\ c'.listen = NoFd
        BY <1>1, <2>4 DEF ClientRecord
      <3>2. k # NoSession
        BY RpcapdAssumption DEF NoSession, Reachable
      <3>3. c'.pc \in Capturing /\ c'.pc # "failed"
        BY <3>1 DEF Capturing
      <3>4. c.listen \notin files /\ files \subseteq cfds
        BY <1>2, <1>5, <2>1, Zenon DEF FdInv
      <3>5. files' = files
        BY <2>4, <3>4
      <3>6. NewFd \in cfds' \ files'
        BY <2>1, <2>4, <3>4, <3>5
      <3>7. c.rmt_sockctrl \in (cfds' \ files') \cup {NoFd} /\ NewFd # c.rmt_sockctrl
        BY <1>2, <1>3, <1>5, <2>1, <2>4, <3>5
      <3>8. files' \subseteq cfds'
        BY <2>4, <3>4, <3>5
      <3> QED
        BY <3>1, <3>2, <3>3, <3>5, <3>6, <3>7, <3>8, Zenon DEF FdInv, FileKept
    <2> QED
      BY <2>2, <2>3, <2>4, Zenon
  <1>8. CASE FilterDone
    <2>1. c.pc = "filtering"
      BY <1>8, Zenon DEF FilterDone
    <2>2. c.sess # NoSession /\ c.rmt_sockdata \in cfds \ files /\ c.listen = NoFd
      BY <2>1 DEF FdInv
    <2>3. c.rmt_sockdata # c.rmt_sockctrl
      BY <1>2, <2>2, Zenon DEF FdInv
    <2>4. \/ c' = [c EXCEPT !.pc = "running"] /\ UNCHANGED <<cfds, files, ctl>>
          \/ c' = [c EXCEPT !.pc = "failed", !.sess = NoSession] /\ Aborts(c.rmt_sockdata)
      BY <1>8, Zenon DEF FilterDone
    <2>5. CASE c' = [c EXCEPT !.pc = "running"] /\ UNCHANGED <<cfds, files, ctl>>
      <3>1. SameFds /\ c'.pc = "running"
        BY <1>1, <2>5 DEF SameFds, ClientRecord
      <3> QED
        BY <1>1, <2>1, <2>5, <3>1, QuietFds DEF Capturing
    <2>6. CASE c' = [c EXCEPT !.pc = "failed", !.sess = NoSession] /\ Aborts(c.rmt_sockdata)
      <3>1. /\ c'.rmt_sockctrl = c.rmt_sockctrl /\ c'.rmt_sockdata = c.rmt_sockdata
            /\ c'.sess = NoSession /\ c'.pc = "failed" /\ c'.listen = NoFd
        BY <1>1, <2>2, <2>6 DEF ClientRecord
      <3> QED
        BY <1>1, <1>3, <2>2, <2>3, <2>6, <3>1, FdAborts, Zenon
    <2> QED
      BY <2>4, <2>5, <2>6, Zenon
  <1> QED
    BY <1>4, <1>6, <1>7, <1>8, Zenon

(* Reading, asking, and the first half of a close in active mode touch no  *)
(* descriptor.                                                             *)
LEMMA FdRunStep ==
    ASSUME BaseInv, FdInv, Read \/ ReadEof \/ Ask \/ Told \/ CloseActive
    PROVE  FdInv' /\ FileKept
  <1>1. c \in ClientRecord /\ ClientTypes /\ PlaceInv
    BY Zenon DEF BaseInv, ClientTypes
  <1>2. UNCHANGED <<cfds, files, ctl, d>>
    BY Zenon DEF Read, ReadEof, Ask, Told, CloseActive, vars, Wire
  <1>3. CASE CloseActive
    <2>1. SameFds /\ c'.pc = "ending" /\ d.active /\ c.pc \in {"opened", "running", "failed"}
      BY <1>1, <1>3 DEF CloseActive, Closable, SameFds, ClientRecord
    <2>2. ~(c.pc = "failed" /\ ctl = "closed")
      BY <1>1, <2>1, Zenon DEF PlaceInv
    <2> QED
      BY <1>1, <1>2, <2>1, <2>2, QuietFds DEF Capturing
  <1>4. CASE Read \/ ReadEof \/ Ask \/ Told
    <2>1. SameFds /\ c'.pc \in {"running", "asking", "failed"} /\ c.pc \in {"running", "asking"}
      BY <1>1, <1>4 DEF Read, ReadEof, Ask, Told, SameFds, ClientRecord
    <2> QED
      BY <1>1, <1>2, <2>1, QuietFds DEF Capturing
  <1> QED
    BY <1>3, <1>4, Zenon

(* pcap_cleanup_rpcap closes the handle's numbers, which are the           *)
(* application's only if they were closed already.                         *)
LEMMA FdCloseStep ==
    ASSUME BaseInv, FdInv, ClosePassive \/ CloseAnswered
    PROVE  FdInv' /\ FileKept
  <1>1. c \in ClientRecord /\ ClientTypes /\ PlaceInv
    BY Zenon DEF BaseInv, ClientTypes
  <1>2. NoFd \notin files /\ NoFd \notin cfds
    BY <1>1 DEF ClientTypes, NoFd
  <1>3. CASE ClosePassive
    <2>1. /\ c'.rmt_sockctrl = NoFd /\ c'.rmt_sockdata = NoFd /\ c'.listen = NoFd
          /\ c'.sess = NoSession /\ c'.pc = "done"
      BY <1>3 DEF ClosePassive, Fresh
    <2>2. /\ cfds' = cfds \ {c.rmt_sockdata, c.rmt_sockctrl}
          /\ files' = files \ {c.rmt_sockdata, c.rmt_sockctrl}
          /\ c.pc \in {"opened", "running", "failed"} /\ ~d.active
      BY <1>3, Zenon DEF ClosePassive, Closes, Closable
    <2>3. FdInv'
      BY <2>1, <2>2 DEF FdInv, Capturing
    <2>4. ASSUME ~(c.pc = "failed" /\ ctl = "closed")
          PROVE  c.rmt_sockctrl \notin files /\ c.rmt_sockdata \notin files
      <3>1. c.rmt_sockctrl \notin files
        BY <1>2, <2>4, Zenon DEF FdInv
      <3>2. CASE c.pc = "opened"
        BY <1>2, <3>1, <3>2 DEF FdInv, Capturing
      <3>3. CASE c.pc = "running"
        BY <3>1, <3>3 DEF FdInv
      <3>4. CASE c.pc = "failed"
        <4>1. ctl = "up"
          BY <2>4, <3>4 DEF BaseInv, IInv, TypeOK, QueuesOK
        <4> QED
          BY <2>2, <3>1, <3>4, <4>1, Zenon DEF FdInv
      <3> QED
        BY <2>2, <3>2, <3>3, <3>4
    <2> QED
      BY <2>2, <2>3, <2>4 DEF FileKept, ClosedAlready
  <1>4. CASE CloseAnswered
    <2>1. c.pc = "ending" /\ c.rmt_sockctrl \in (cfds \ files) \cup {NoFd}
      <3>1. c.pc = "ending" /\ c.pc # "failed"
        BY <1>4 DEF CloseAnswered
      <3> QED
        BY <3>1, Zenon DEF FdInv
    <2>2. \/ c' = [Fresh EXCEPT !.pc = "crashed"] /\ cfds' = {} /\ files' = {}
          \/ /\ c' = [Fresh EXCEPT !.pc = "idle", !.rmt_sockctrl = c.rmt_sockctrl]
             /\ cfds' = cfds \ {c.rmt_sockdata} /\ files' = files \ {c.rmt_sockdata}
      BY <1>4, Zenon DEF CloseAnswered, Closes
    <2>3. CASE c' = [Fresh EXCEPT !.pc = "crashed"] /\ cfds' = {} /\ files' = {}
      <3>1. /\ c'.rmt_sockctrl = NoFd /\ c'.rmt_sockdata = NoFd /\ c'.listen = NoFd
            /\ c'.sess = NoSession /\ c'.pc = "crashed"
        BY <2>3 DEF Fresh
      <3> QED
        BY <2>3, <3>1 DEF FdInv, FileKept, Capturing
    <2>4. CASE /\ c' = [Fresh EXCEPT !.pc = "idle", !.rmt_sockctrl = c.rmt_sockctrl]
               /\ cfds' = cfds \ {c.rmt_sockdata} /\ files' = files \ {c.rmt_sockdata}
      <3>1. /\ c'.rmt_sockctrl = c.rmt_sockctrl /\ c'.rmt_sockdata = NoFd /\ c'.listen = NoFd
            /\ c'.sess = NoSession /\ c'.pc = "idle"
        BY <2>4 DEF Fresh
      <3>2. c.rmt_sockdata # NoFd => c.rmt_sockdata # c.rmt_sockctrl
        BY Zenon DEF FdInv
      <3>3. c.rmt_sockctrl \in (cfds' \ files') \cup {NoFd}
        BY <1>2, <2>1, <2>4, <3>2
      <3>4. FdInv'
        BY <2>4, <3>1, <3>3 DEF FdInv, Capturing
      <3>5. c.rmt_sockdata \notin files \/ ClosedAlready
        BY <1>2, <2>1, Zenon DEF FdInv, ClosedAlready
      <3> QED
        BY <2>4, <3>4, <3>5 DEF FileKept
    <2> QED
      BY <2>2, <2>3, <2>4, Zenon
  <1> QED
    BY <1>3, <1>4, Zenon

(* Every step keeps FdInv, and no file of the application is closed but by *)
(* a handle whose start has failed.                                        *)
LEMMA FdStep == BaseInv /\ FdInv /\ [SessionNext]_allvars => FdInv' /\ (FileKept \/ UNCHANGED allvars)
  <1> SUFFICES ASSUME BaseInv, FdInv, [SessionNext]_allvars
               PROVE  FdInv' /\ (FileKept \/ UNCHANGED allvars)
    OBVIOUS
  <1>1. CASE Client
    BY <1>1, FdControlStep, FdStartStep, FdRunStep, FdCloseStep, Zenon DEF Client
  <1>2. CASE OpenFile
    <2>1. NewFd \notin cfds /\ NewFd # NoFd
      BY <1>2, NewFdIsFree, Zenon DEF OpenFile
    <2>2. c' = c /\ ctl' = ctl /\ d' = d
      BY <1>2, Zenon DEF OpenFile, vars, Wire
    <2>3. files' = files \cup {NewFd} /\ cfds' = cfds \cup {NewFd}
      BY <1>2, Zenon DEF OpenFile
    <2>4. \A n : n \in cfds \ files => n \in cfds' \ files'
      BY <2>1, <2>3
    <2>5. files' \subseteq cfds' /\ files \subseteq files'
      BY <2>3 DEF FdInv
    <2>6. (c.pc = "failed" /\ ctl = "closed") \/ c.rmt_sockctrl \in (cfds' \ files') \cup {NoFd}
      BY <2>4, Zenon DEF FdInv
    <2> QED
      BY <2>2, <2>4, <2>5, <2>6, Zenon DEF FdInv, FileKept
  <1>3. CASE (Daemon /\ UNCHANGED client) \/ UNCHANGED allvars
    <2>1. c' = c /\ cfds' = cfds /\ files' = files
      BY <1>3, Zenon DEF client, allvars
    <2>2. ctl' = ctl /\ d'.active = d.active
      BY <1>3, DaemonKeeps, Zenon DEF BaseInv, SameMode, allvars, vars, Wire
    <2> QED
      BY <2>1, <2>2, Zenon DEF FdInv, FileKept
  <1> QED
    BY <1>1, <1>2, <1>3, Zenon DEF SessionNext

(* For any number of descriptors, packets, requests and sessions, and any  *)
(* faults of the daemon: no call of the remote client closes a file that   *)
(* the application opened (pcap_startcapture_remote, pcap_cleanup_rpcap),  *)
(* except pcap_close() after a start that failed, which kept the numbers   *)
(* of sockets it had closed, and the end of the process.                   *)
THEOREM FilesOfTheApplication == SessionSpec => FilesIntact
  <1>1. SessionInit => FdInv
    <2> SUFFICES ASSUME SessionInit PROVE FdInv
      OBVIOUS
    <2>1. files = {} /\ cfds = {} /\ c.rmt_sockctrl = NoFd /\ c.rmt_sockdata = NoFd
            /\ c.listen = NoFd /\ c.sess = NoSession /\ c.pc = "none"
      BY DEF SessionInit, Fresh
    <2> QED
      BY <2>1 DEF FdInv
  <1>2. BaseInv /\ FdInv /\ [SessionNext]_allvars =>
            [files \subseteq files' \/ ClosedAlready \/ c'.pc = "crashed"]_allvars
    BY FdStep, Zenon DEF FileKept
  <1> QED
    BY <1>1, <1>2, BaseHolds, FdStep, PTL DEF SessionSpec, FilesIntact

-----------------------------------------------------------------------------
(* The control connection, while it is open and no start has failed late:  *)
(* one request or its answer is on it at a time.                           *)

Up == ctl = "up" /\ ~d.late

(* The type of the request of the call in progress. *)
Mine(type) ==
    \/ c.pc = "auth" /\ type = "AUTH"
    \/ c.pc = "opening" /\ type = "OPEN"
    \/ c.pc = "starting" /\ type = "STARTCAP"
    \/ c.pc = "filtering" /\ type = "UPDATEFILTER"
    \/ c.pc = "asking" /\ type = c.req /\ c.req \in {"UPDATEFILTER", "STATS"}
    \/ c.pc = "ending" /\ type = "ENDCAP"

(* The service loop has ended or is about to. *)
Leaving == d.pc \in {"close", "join", "gone"} /\ d.why = "end"

(* A capture has been started, and not ended. *)
Started == d.pc \in {"accept", "thread"} \/ d.session # NoSession

Farewells(q) == \A i \in 1..Len(q) : q[i].id = 0 /\ q[i].type = "TIMEOUT" /\ Leaving

RequestInv ==
    toD # <<>> =>
        /\ Len(toD) = 1 /\ toD[1].id = sent /\ sent # 0 /\ Mine(toD[1].type)
        /\ Farewells(toC)
AnswerInv ==
    \A i \in 1..Len(toC) :
       \/ toC[i].id = 0 /\ toC[i].type = "TIMEOUT" /\ Leaving
       \/ toC[i].id = sent /\ sent # 0 /\ Mine(toC[i].type)
OnceInv == \A i, j \in 1..Len(toC) : toC[i].id # 0 /\ toC[j].id # 0 => i = j
EndingInv ==
    d.why = "endcap" =>
        /\ d.pc \in {"close", "join"} /\ d.session # NoSession /\ c.pc = "ending"
        /\ d.req = sent /\ sent # 0 /\ toD = <<>> /\ Farewells(toC)
LeavingInv ==
    Leaving => /\ ~d.active /\ d.session = NoSession
               /\ c.pc \in {"auth", "opening", "opened", "starting"}
AuthInv ==
    /\ c.pc = "none" => d.pc = "peek"
    /\ c.pc \notin {"none", "auth"} => d.authenticated
    /\ c.pc = "auth" /\ toD # <<>> => ~d.authenticated
    /\ \A i \in 1..Len(toC) : toC[i].type = "AUTH" /\ ~toC[i].err => d.authenticated
MustBeStarted ==
    c.pc \in {"filtering", "running", "asking"} \/ (c.pc = "failed" /\ ~d.active)
StartedInv ==
    /\ \A i \in 1..Len(toC) : toC[i].type = "STARTCAP" /\ ~toC[i].err => Started
    /\ MustBeStarted => Started

ControlInv ==
    RequestInv /\ AnswerInv /\ OnceInv /\ EndingInv /\ LeavingInv /\ AuthInv /\ StartedInv

(* What is left on the connection between two calls. *)
Settled(q) == toD = <<>> /\ d.why # "endcap" /\ Farewells(q)

(* Between two calls nothing is on the way but farewells. *)
LEMMA IdleIsSettled ==
    ASSUME QueuesOK, ControlInv, c.pc \notin Waiting
    PROVE  Settled(toC)
  <1>1. \A type : ~Mine(type)
    BY DEF Mine, Waiting
  <1>2. toD = <<>>
    BY <1>1, Zenon DEF ControlInv, RequestInv
  <1>3. d.why # "endcap"
    BY DEF ControlInv, EndingInv, Waiting
  <1>4. Farewells(toC)
    BY <1>1, Zenon DEF ControlInv, AnswerInv, Farewells
  <1> QED
    BY <1>2, <1>3, <1>4, Zenon DEF Settled

(* An answer is taken; what stays behind it is what was behind it. *)
LEMMA TailOf ==
    ASSUME QueuesOK, Gets
    PROVE  /\ Head(toC) = toC[1] /\ 1 \in 1..Len(toC) /\ Head(toC) \in Answer
           /\ toC' \in Seq(Answer)
           /\ \A i \in 1..Len(toC') :
                 /\ i + 1 \in 1..Len(toC) /\ toC'[i] = toC[i + 1] /\ i + 1 # 1
  <1>1. toC \in Seq(Answer) /\ toC # <<>> /\ toC' = Tail(toC)
    BY Zenon DEF QueuesOK, Gets
  <1> HIDE DEF Answer
  <1>2. Len(toC) \in Nat /\ Len(toC) > 0 /\ toC' \in Seq(Answer) /\ Len(toC') = Len(toC) - 1
    BY <1>1
  <1> QED
    BY <1>1, <1>2

(* The answer that the client takes is its own, and it is the last. *)
LEMMA TakenIsSettled ==
    ASSUME QueuesOK, ControlInv, Gets, Head(toC).type # "TIMEOUT"
    PROVE  /\ Head(toC).id = sent /\ Mine(Head(toC).type)
           /\ Settled(toC') /\ toC' \in Seq(Answer)
  <1>1. /\ Head(toC) = toC[1] /\ 1 \in 1..Len(toC) /\ toC' \in Seq(Answer)
        /\ \A i \in 1..Len(toC') :
              /\ i + 1 \in 1..Len(toC) /\ toC'[i] = toC[i + 1] /\ i + 1 # 1
    BY TailOf, Zenon
  <1>2. toC[1].id = sent /\ toC[1].id # 0 /\ Mine(toC[1].type)
    BY <1>1, Zenon DEF ControlInv, AnswerInv
  <1>3. toD = <<>> /\ d.why # "endcap"
    BY <1>1, <1>2, Zenon DEF ControlInv, RequestInv, EndingInv, Farewells
  <1>4. \A i \in 1..Len(toC') : toC[i + 1].id = 0
    BY <1>1, <1>2, Zenon DEF ControlInv, OnceInv
  <1>5. \A i \in 1..Len(toC') : toC[i + 1].type = "TIMEOUT" /\ Leaving
    BY <1>1, <1>4, Zenon DEF ControlInv, AnswerInv
  <1>6. Farewells(toC')
    BY <1>1, <1>4, <1>5, Zenon DEF Farewells
  <1> QED
    BY <1>1, <1>2, <1>3, <1>6, Zenon DEF Settled

(* A call that takes the daemon's farewell, or finds the connection        *)
(* closed, is one of a passive client that has no capture.                 *)
LEMMA NotLeft ==
    ASSUME BaseInv, ControlInv, NEW type, Fails(type),
           d.active \/ c.pc \notin {"auth", "opening", "opened", "starting"}
    PROVE  Gets /\ Head(toC).type # "TIMEOUT"
  <1>1. ~Leaving
    BY Zenon DEF ControlInv, LeavingInv
  <1>2. QueuesOK /\ d.why \in {"end", "endcap"}
    <2>1. d \in Locals /\ QueuesOK
      BY Zenon DEF BaseInv, IInv, TypeOK, Locals, QueuesOK
    <2> QED
      BY <2>1 DEF Locals
  <1>3. d.pc # "gone"
    BY <1>1, <1>2 DEF Leaving, ControlInv, EndingInv
  <1>4. Gets
    BY <1>3, Zenon DEF Fails, HungUp
  <1>5. 1 \in 1..Len(toC) /\ Head(toC) = toC[1]
    BY <1>2, <1>4, TailOf, Zenon
  <1>6. Head(toC).type # "TIMEOUT"
    <2>1. toC[1].id = sent /\ sent # 0 /\ Mine(toC[1].type)
      BY <1>1, <1>5, Zenon DEF ControlInv, AnswerInv
    <2> QED
      BY <1>5, <2>1 DEF Mine
  <1> QED
    BY <1>4, <1>6

(* The client goes on: it asks, or it has nothing to ask. *)
LEMMA GoesOn ==
    ASSUME QueuesOK, ControlInv, Settled(toC'), toC' \in Seq(Answer), d' = d,
           UNCHANGED <<toD, sent>>
             \/ \E type \in MsgTypes, ok \in BOOLEAN : Asks(type, ok) /\ Mine(type)',
           Leaving => c'.pc \in {"auth", "opening", "opened", "starting"},
           c'.pc # "none", IF c'.pc = "auth" THEN ~d.authenticated ELSE d.authenticated,
           MustBeStarted' => Started
    PROVE  ControlInv'
  <1>1. toD = <<>> /\ d'.why # "endcap" /\ Farewells(toC)'
    BY Zenon DEF Settled, Farewells, Leaving
  <1>2. AnswerInv' /\ OnceInv'
    BY <1>1, Zenon DEF Farewells, AnswerInv, OnceInv
  <1>3. EndingInv'
    BY <1>1, Zenon DEF EndingInv
  <1>4. LeavingInv'
    BY Zenon DEF ControlInv, LeavingInv, Leaving
  <1>5. AuthInv'
    <2>1. \A i \in 1..Len(toC') : toC'[i].type # "AUTH"
      BY <1>1 DEF Farewells
    <2> QED
      BY <2>1, Zenon DEF AuthInv
  <1>6. StartedInv'
    <2>1. \A i \in 1..Len(toC') : toC'[i].type # "STARTCAP"
      BY <1>1 DEF Farewells
    <2> QED
      BY <2>1, Zenon DEF StartedInv, Started
  <1>7. RequestInv'
    <2>1. CASE UNCHANGED <<toD, sent>>
      BY <1>1, <2>1, Zenon DEF RequestInv
    <2>2. ASSUME NEW type \in MsgTypes, NEW ok \in BOOLEAN, Asks(type, ok), Mine(type)'
          PROVE  RequestInv'
      <3>1. PICK m : m = [type |-> type, id |-> sent + 1, ok |-> ok]
        BY Zenon
      <3>2. m.type = type /\ m.id = sent + 1
        BY <3>1
      <3>3. sent' = sent + 1 /\ toD' = Append(<<>>, m)
        BY <1>1, <2>2, <3>1, Zenon DEF Asks
      <3>4. Len(toD') = 1 /\ toD'[1] = m
        BY <3>3
      <3>5. sent' # 0
        BY <3>3 DEF QueuesOK
      <3> QED
        BY <1>1, <2>2, <3>2, <3>3, <3>4, <3>5, Zenon DEF RequestInv
    <2> QED
      BY <2>1, <2>2, Zenon
  <1> QED
    BY <1>2, <1>3, <1>4, <1>5, <1>6, <1>7, Zenon DEF ControlInv

(* Calls that answer to nothing yet: the application calls. *)
LEMMA ControlCalls ==
    ASSUME BaseInv, ControlInv, Up,
           Connect \/ OpenActive \/ Start \/ Read \/ ReadEof \/ Ask \/ CloseActive
    PROVE  ControlInv'
  <1>1. QueuesOK /\ c \in ClientRecord /\ PlaceInv /\ d' = d
    <2>1. QueuesOK /\ c \in ClientRecord /\ PlaceInv
      BY Zenon DEF BaseInv, IInv, TypeOK, QueuesOK, ClientTypes
    <2> QED
      BY <2>1, Zenon DEF Connect, OpenActive, Start, Read, ReadEof, Ask, CloseActive, vars
  <1>2. toC' = toC
    BY Zenon DEF Connect, OpenActive, Start, Read, ReadEof, Ask, CloseActive, vars, Wire
  <1>3. /\ Connect => c.pc = "none" /\ c'.pc = "auth"
        /\ OpenActive => c.pc = "idle" /\ c'.pc = "opening"
        /\ Start => c.pc = "opened" /\ c'.pc = "starting"
        /\ Read \/ ReadEof => c.pc = "running" /\ c'.pc \in {"running", "failed"}
        /\ Ask => c.pc = "running" /\ c'.pc = "asking"
        /\ CloseActive => c.pc \in {"opened", "running", "failed"} /\ c'.pc = "ending"
    BY <1>1 DEF Connect, OpenActive, Start, Read, ReadEof, Ask, CloseActive, Closable, ClientRecord
  <1>4. c.pc \notin Waiting
    BY <1>3 DEF Waiting
  <1>5. Settled(toC') /\ toC' \in Seq(Answer)
    BY <1>1, <1>2, <1>4, IdleIsSettled, Zenon DEF QueuesOK
  <1>6. UNCHANGED <<toD, sent>>
          \/ \E type \in MsgTypes, ok \in BOOLEAN : Asks(type, ok) /\ Mine(type)'
    <2>1. CASE Connect
      <3>1. "AUTH" \in MsgTypes /\ Mine("AUTH")'
        BY <1>3, <2>1 DEF Mine, MsgTypes
      <3> QED
        BY <2>1, <3>1, Zenon DEF Connect
    <2>2. CASE OpenActive
      <3>1. "OPEN" \in MsgTypes /\ Mine("OPEN")'
        BY <1>3, <2>2 DEF Mine, MsgTypes
      <3> QED
        BY <2>2, <3>1, Zenon DEF OpenActive
    <2>3. CASE Start
      <3>1. "STARTCAP" \in MsgTypes /\ Mine("STARTCAP")'
        BY <1>3, <2>3 DEF Mine, MsgTypes
      <3> QED
        BY <2>3, <3>1, Zenon DEF Start
    <2>4. CASE Read \/ ReadEof
      BY <2>4, Zenon DEF Read, ReadEof, vars, Wire
    <2>5. CASE Ask
      <3>1. PICK type \in {"UPDATEFILTER", "STATS"} :
               /\ \E ok \in (IF type \in Carriers THEN BOOLEAN ELSE {TRUE}) : Asks(type, ok)
               /\ c' = [c EXCEPT !.pc = "asking", !.req = type]
        BY <2>5, Zenon DEF Ask
      <3>2. PICK ok \in BOOLEAN : Asks(type, ok)
        BY <3>1
      <3>3. c'.pc = "asking" /\ c'.req = type
        BY <1>1, <3>1 DEF ClientRecord
      <3>4. type \in MsgTypes /\ Mine(type)'
        BY <3>3 DEF Mine, MsgTypes
      <3> QED
        BY <3>2, <3>4, Zenon
    <2>6. CASE CloseActive
      <3>1. "ENDCAP" \in MsgTypes /\ Mine("ENDCAP")'
        BY <1>3, <2>6 DEF Mine, MsgTypes
      <3> QED
        BY <2>6, <3>1, Zenon DEF CloseActive
    <2> QED
      BY <2>1, <2>2, <2>3, <2>4, <2>5, <2>6, Zenon
  <1>7. Leaving => c'.pc \in {"auth", "opening", "opened", "starting"}
    <2>1. CASE Connect \/ OpenActive \/ Start
      BY <1>3, <2>1
    <2>2. CASE Read \/ ReadEof \/ Ask
      BY <1>3, <2>2 DEF ControlInv, LeavingInv
    <2>3. CASE CloseActive
      BY <2>3, Zenon DEF CloseActive, ControlInv, LeavingInv
    <2> QED
      BY <2>1, <2>2, <2>3, Zenon
  <1>8. c'.pc # "none" /\ IF c'.pc = "auth" THEN ~d.authenticated ELSE d.authenticated
    <2>1. CASE Connect
      <3>1. d.pc = "peek"
        BY <1>3, <2>1, Zenon DEF ControlInv, AuthInv
      <3> QED
        BY <1>3, <2>1, <3>1 DEF BaseInv, IInv, SessionInv
    <2>2. CASE OpenActive \/ Start \/ Read \/ ReadEof \/ Ask \/ CloseActive
      <3>1. c.pc \notin {"none", "auth"} /\ c'.pc \notin {"none", "auth"}
        BY <1>3, <2>2
      <3>2. d.authenticated
        BY <3>1, Zenon DEF ControlInv, AuthInv
      <3> QED
        BY <3>1, <3>2
    <2> QED
      BY <2>1, <2>2, Zenon
  <1>9. MustBeStarted' => Started
    <2>1. MustBeStarted' => c.pc = "running"
      BY <1>3 DEF MustBeStarted
    <2> QED
      BY <2>1, Zenon DEF ControlInv, StartedInv, MustBeStarted
  <1> QED
    BY <1>1, <1>5, <1>6, <1>7, <1>8, <1>9, GoesOn, Zenon

(* Calls that take their answer and keep the control connection. *)
LEMMA ControlAnswers ==
    ASSUME BaseInv, ControlInv, Up, ctl' = "up",
           Authenticated \/ OpenRefused \/ OpenDone \/ StartRefused \/ StartDone \/ FilterDone
             \/ Told \/ CloseAnswered
    PROVE  ControlInv'
  <1>1. QueuesOK /\ c \in ClientRecord /\ PlaceInv /\ d' = d
    <2>1. QueuesOK /\ c \in ClientRecord /\ PlaceInv
      BY Zenon DEF BaseInv, IInv, TypeOK, QueuesOK, ClientTypes
    <2> QED
      BY <2>1, Zenon DEF Authenticated, OpenRefused, OpenDone, StartRefused, StartDone, FilterDone,
             Told, CloseAnswered
  <1>2. ASSUME NEW type, Succeeds(type), type # "TIMEOUT"
        PROVE  Gets /\ Head(toC).type # "TIMEOUT" /\ Head(toC).type = type /\ ~Head(toC).err
    BY <1>2, Zenon DEF Succeeds, Good
  <1>3. (StartRefused \/ FilterDone) /\ ctl' = "up" /\ c'.pc = "failed" => d.active
    <2>1. ASSUME NEW fd, Aborts(fd) PROVE d.active
      BY <2>1 DEF Aborts
    <2>2. FilterDone /\ c'.pc = "failed" => Aborts(c.rmt_sockdata)
      BY <1>1 DEF FilterDone, ClientRecord
    <2> QED
      BY <2>1, <2>2, Zenon DEF StartRefused
  <1>4. Gets /\ Head(toC).type # "TIMEOUT"
    <2>1. CASE Authenticated
      BY <1>2, <2>1 DEF Authenticated
    <2>2. CASE OpenRefused
      BY <2>2, NotLeft, Zenon DEF OpenRefused
    <2>3. CASE OpenDone
      BY <1>2, <2>3 DEF OpenDone
    <2>4. CASE StartRefused
      <3>1. d.active
        BY <1>1, <1>3, <2>4 DEF StartRefused, ClientRecord
      <3>2. Succeeds("STARTCAP") \/ Fails("STARTCAP")
        BY <2>4, ZenonT(30) DEF StartRefused
      <3> QED
        BY <1>2, <3>1, <3>2, NotLeft
    <2>5. CASE StartDone
      BY <1>2, <2>5 DEF StartDone
    <2>6. CASE FilterDone
      <3>1. c.pc = "filtering" /\ (Succeeds("UPDATEFILTER") \/ Fails("UPDATEFILTER"))
        BY <2>6, Zenon DEF FilterDone
      <3> QED
        BY <1>2, <3>1, NotLeft
    <2>7. CASE Told
      <3>1. c.pc = "asking" /\ (Succeeds(c.req) \/ Fails(c.req))
        BY <2>7, Zenon DEF Told
      <3>2. c.req # "TIMEOUT"
        BY <1>1 DEF ClientRecord, MsgTypes
      <3> QED
        BY <1>2, <3>1, <3>2, NotLeft
    <2>8. CASE CloseAnswered
      <3>1. c.pc = "ending" /\ (Gets \/ HungUp)
        BY <2>8, Zenon DEF CloseAnswered
      <3>2. Succeeds("ENDCAP") \/ Fails("ENDCAP")
        BY <3>1, Zenon DEF Succeeds, Fails
      <3> QED
        BY <1>2, <3>1, <3>2, NotLeft
    <2> QED
      BY <2>1, <2>2, <2>3, <2>4, <2>5, <2>6, <2>7, <2>8, Zenon
  <1>5. /\ Head(toC).id = sent /\ Mine(Head(toC).type)
        /\ Settled(toC') /\ toC' \in Seq(Answer)
    BY <1>1, <1>4, TakenIsSettled, Zenon
  <1>6. 1 \in 1..Len(toC) /\ Head(toC) = toC[1]
    BY <1>1, <1>4, TailOf, Zenon
  <1>7. /\ Authenticated =>
              /\ c.pc = "auth"
              /\ (c'.pc = "idle" /\ d.active) \/ (c'.pc = "opening" /\ ~d.active)
        /\ OpenRefused => c.pc = "opening" /\ c'.pc = "idle" /\ d.active
        /\ OpenDone => c.pc = "opening" /\ c'.pc = "opened"
        /\ StartRefused => c.pc = "starting" /\ c'.pc = "failed"
        /\ FilterDone => c.pc = "filtering" /\ c'.pc \in {"running", "failed"}
        /\ Told => c.pc = "asking" /\ c'.pc = "running"
    <2>1. Authenticated =>
             /\ c.pc = "auth"
             /\ \/ d.active /\ c' = [c EXCEPT !.pc = "idle"]
                \/ ~d.active /\ c' = [c EXCEPT !.pc = "opening"]
      BY Zenon DEF Authenticated
    <2>2. FilterDone => /\ c.pc = "filtering"
                        /\ \/ c' = [c EXCEPT !.pc = "running"]
                           \/ c' = [c EXCEPT !.pc = "failed", !.sess = NoSession]
      BY Zenon DEF FilterDone
    <2> QED
      BY <1>1, <2>1, <2>2 DEF OpenRefused, OpenDone, StartRefused, Told, ClientRecord
  <1>8. CloseAnswered => c.pc = "ending" /\ c'.pc = "idle"
    BY DEF CloseAnswered, Fresh, CtlClosed
  <1>9. StartDone => /\ c.pc = "starting" /\ c'.pc \in {"filtering", "running", "failed"}
                     /\ c'.pc = "failed" => d.active
    <2> SUFFICES ASSUME StartDone
                 PROVE  /\ c.pc = "starting" /\ c'.pc \in {"filtering", "running", "failed"}
                        /\ c'.pc = "failed" => d.active
      BY Zenon
    <2>1. c.pc = "starting"
      BY ZenonT(30) DEF StartDone
    <2>2. \/ \E pc \in {"filtering", "running"} : \E k :
                c' = [c EXCEPT !.pc = pc, !.rmt_sockdata = NewFd, !.listen = NoFd, !.sess = k]
          \/ /\ c' = [c EXCEPT !.pc = "failed", !.rmt_sockdata = NewFd, !.listen = NoFd]
             /\ Aborts(c.listen)
      BY DEF StartDone
    <2>3. Aborts(c.listen) => d.active
      BY DEF Aborts
    <2> QED
      BY <1>1, <2>1, <2>2, <2>3 DEF ClientRecord
  <1>10. UNCHANGED <<toD, sent>>
           \/ \E type \in MsgTypes, ok \in BOOLEAN : Asks(type, ok) /\ Mine(type)'
    <2>1. CASE Authenticated
      <3>1. CASE d.active
        BY <2>1, <3>1, Zenon DEF Authenticated
      <3>2. CASE ~d.active
        <4>1. "OPEN" \in MsgTypes /\ Mine("OPEN")'
          BY <1>7, <2>1, <3>2 DEF Mine, MsgTypes
        <4> QED
          BY <2>1, <3>2, <4>1, Zenon DEF Authenticated
      <3> QED
        BY <3>1, <3>2, Zenon
    <2>2. CASE StartDone
      <3>1. \/ UNCHANGED <<toD, sent>>
            \/ /\ Asks("UPDATEFILTER", TRUE)
               /\ \E k : c' = [c EXCEPT !.pc = "filtering", !.rmt_sockdata = NewFd,
                                        !.listen = NoFd, !.sess = k]
        BY <2>2 DEF StartDone
      <3>2. ASSUME NEW k, c' = [c EXCEPT !.pc = "filtering", !.rmt_sockdata = NewFd,
                                         !.listen = NoFd, !.sess = k]
            PROVE  "UPDATEFILTER" \in MsgTypes /\ Mine("UPDATEFILTER")'
        BY <1>1, <3>2 DEF Mine, MsgTypes, ClientRecord
      <3>3. TRUE \in BOOLEAN
        BY Zenon
      <3> QED
        BY <3>1, <3>2, <3>3, ZenonT(30)
    <2>3. CASE OpenRefused \/ OpenDone \/ StartRefused \/ FilterDone \/ Told \/ CloseAnswered
      BY <2>3, Zenon DEF OpenRefused, OpenDone, StartRefused, FilterDone, Told, CloseAnswered
    <2> QED
      BY <2>1, <2>2, <2>3, Zenon
  <1>11. StartDone => Started
    <2> SUFFICES ASSUME StartDone PROVE Started
      BY Zenon
    <2>1. Succeeds("STARTCAP")
      BY Zenon DEF StartDone
    <2> QED
      BY <1>2, <1>6, <2>1, Zenon DEF ControlInv, StartedInv, Succeeds, Good
  <1>12. Leaving => c'.pc \in {"auth", "opening", "opened", "starting"}
    <2> SUFFICES ASSUME Leaving PROVE c'.pc \in {"auth", "opening", "opened", "starting"}
      BY Zenon
    <2>1. ~d.active /\ d.session = NoSession /\ c.pc \in {"auth", "opening", "opened", "starting"}
      BY Zenon DEF ControlInv, LeavingInv
    <2>2. ~Started
      BY <2>1 DEF Started, Leaving
    <2>3. ~StartDone /\ ~StartRefused
      BY <1>3, <1>7, <1>11, <2>1, <2>2, Zenon
    <2> QED
      BY <1>7, <1>8, <2>1, <2>3
  <1>13. c'.pc # "none" /\ IF c'.pc = "auth" THEN ~d.authenticated ELSE d.authenticated
    <2>1. c'.pc \notin {"none", "auth"}
      BY <1>7, <1>8, <1>9
    <2>2. CASE Authenticated
      <3>1. toC[1].type = "AUTH" /\ ~toC[1].err
        BY <1>2, <1>6, <2>2, Zenon DEF Authenticated, Succeeds, Good
      <3> QED
        BY <1>6, <2>1, <3>1, Zenon DEF ControlInv, AuthInv
    <2>3. CASE ~Authenticated
      <3>1. c.pc \notin {"none", "auth"}
        BY <1>7, <1>8, <1>9, <2>3
      <3> QED
        BY <2>1, <3>1, Zenon DEF ControlInv, AuthInv
    <2> QED
      BY <2>2, <2>3, Zenon
  <1>14. MustBeStarted' => Started
    <2> SUFFICES ASSUME MustBeStarted' PROVE Started
      BY Zenon
    <2>1. CASE StartDone
      BY <1>11, <2>1, Zenon
    <2>2. CASE FilterDone \/ Told
      BY <1>7, <2>2 DEF ControlInv, StartedInv, MustBeStarted
    <2>3. CASE Authenticated \/ OpenRefused \/ OpenDone \/ StartRefused \/ CloseAnswered
      BY <1>1, <1>3, <1>7, <1>8, <2>3 DEF MustBeStarted
    <2> QED
      BY <2>1, <2>2, <2>3, Zenon
  <1> QED
    BY <1>1, <1>5, <1>10, <1>12, <1>13, <1>14, GoesOn, Zenon

(* The client keeps ControlInv while the connection is open. *)
LEMMA ControlClientStep ==
    ASSUME BaseInv, Up => ControlInv, Client
    PROVE  (Up => ControlInv)'
  <1>1. ctl' \in {ctl, "closed"} /\ d' = d
    <2>1. ctl' \in {ctl, "closed"}
      BY DEF Client, Connect, Authenticated, Rejected, OpenActive, OpenRefused, OpenDone,
             RemoteClose, Start, StartRefused, StartDone, FilterDone, Read, ReadEof, vars, Ask,
             Told, ClosePassive, CloseActive, CloseAnswered, CtlClosed, Aborts, Wire
    <2> QED
      BY <2>1, BaseClientStep, ZenonT(30)
  <1>2. (Rejected \/ RemoteClose \/ ClosePassive) => ctl' = "closed"
    BY Zenon DEF Rejected, RemoteClose, ClosePassive, CtlClosed
  <1> SUFFICES ASSUME Up' PROVE ControlInv'
    BY Zenon
  <1>3. Up /\ ctl' = "up" /\ ~(Rejected \/ RemoteClose \/ ClosePassive)
    BY <1>1, <1>2 DEF Up
  <1> QED
    BY <1>3, ControlCalls, ControlAnswers, Zenon DEF Client
=============================================================================
