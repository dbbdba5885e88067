---------------------------- MODULE RpcapProofs -----------------------------
(***************************************************************************)
(* Theorems about the two connections between libpcap's client and the     *)
(* daemon, for any number of requests, packets, sessions and descriptors:  *)
(* on the control connection a call gets the answer to its own request,    *)
(* and on the data connection no packet is lost or changes its place.      *)
(***************************************************************************)
EXTENDS RpcapdProofs

-----------------------------------------------------------------------------
(* The daemon's steps on the control connection.                            *)

(* The daemon takes the one request there is. *)
LEMMA OneRequest ==
    ASSUME BaseInv, ControlInv, Receives, d.pc \in {"auth", "serve"}
    PROVE  /\ Head(toD) \in Request /\ Head(toD).id = sent /\ sent # 0 /\ Mine(Head(toD).type)
           /\ toD' = <<>> /\ toC = <<>>
  <1>1. toD \in Seq(Request) /\ toD # <<>> /\ toD' = Tail(toD) /\ toC \in Seq(Answer)
    BY Zenon DEF BaseInv, IInv, TypeOK, Receives
  <1>2. ~Leaving
    BY DEF Leaving
  <1>3. /\ Len(toD) = 1 /\ toD[1].id = sent /\ sent # 0 /\ Mine(toD[1].type)
        /\ Farewells(toC)
    BY <1>1, Zenon DEF ControlInv, RequestInv
  <1>4. ~(1 \in 1..Len(toC))
    BY <1>2, <1>3, Zenon DEF Farewells
  <1> HIDE DEF Answer, Request
  <1>5. toC = <<>>
    BY <1>1, <1>4
  <1>6. Head(toD) = toD[1] /\ Head(toD) \in Request /\ toD' = <<>>
    BY <1>1, <1>3
  <1> QED
    BY <1>3, <1>5, <1>6, Zenon

(* It answers it, and stays in the service loop. *)
LEMMA OneReply ==
    ASSUME BaseInv, ControlInv, ctl = "up", Receives, d.pc \in {"auth", "serve"},
           NEW a, toC' = Sent(a), a.id = Head(toD).id, a.type = Head(toD).type,
           UNCHANGED <<c, sent>>, d'.active = d.active, d'.why = "end",
           d'.pc \notin {"peek", "close", "join", "gone"},
           d.authenticated => d'.authenticated,
           a.type = "AUTH" /\ ~a.err => d'.authenticated,
           a.type = "STARTCAP" /\ ~a.err => Started',
           MustBeStarted => Started'
    PROVE  ControlInv'
  <1>1. /\ Head(toD).id = sent /\ sent # 0 /\ Mine(Head(toD).type)
        /\ toD' = <<>> /\ toC = <<>>
    BY OneRequest, Zenon
  <1>2. Len(toC') = 1 /\ \A i \in 1..Len(toC') : i = 1 /\ toC'[i] = a
    <2>1. toC' = Append(<<>>, a)
      BY <1>1, Zenon DEF Sent
    <2> QED
      BY <2>1
  <1>3. c.pc # "none"
    BY <1>1 DEF Mine
  <1>4. Mine(a.type)'
    BY <1>1, Zenon DEF Mine
  <1>5. RequestInv' /\ AnswerInv' /\ OnceInv'
    BY <1>1, <1>2, <1>4, Zenon DEF RequestInv, AnswerInv, OnceInv
  <1>6. EndingInv' /\ LeavingInv'
    BY DEF EndingInv, LeavingInv, Leaving
  <1>7. AuthInv'
    BY <1>1, <1>2, <1>3, Zenon DEF ControlInv, AuthInv
  <1>8. StartedInv'
    BY <1>2, Zenon DEF StartedInv, MustBeStarted
  <1> QED
    BY <1>5, <1>6, <1>7, <1>8, Zenon DEF ControlInv

(* The queues and the client are left alone. *)
LEMMA NoMessage ==
    ASSUME ControlInv, UNCHANGED <<c, toD, toC, sent>>, d'.active = d.active,
           c.pc = "none" => d'.pc = "peek", d'.authenticated = d.authenticated,
           d'.why = d.why, d'.req = d.req, Leaving => Leaving', Started => Started',
           d.why = "endcap" => d'.pc \in {"close", "join"} /\ d'.session # NoSession,
           Leaving' => Leaving /\ d'.session = d.session
    PROVE  ControlInv'
  <1>1. Farewells(toC) => Farewells(toC)'
    BY Zenon DEF Farewells
  <1>2. \A type : Mine(type) => Mine(type)'
    BY Zenon DEF Mine
  <1>3. RequestInv' /\ AnswerInv' /\ OnceInv'
    BY <1>1, <1>2, Zenon DEF ControlInv, RequestInv, AnswerInv, OnceInv
  <1>4. EndingInv'
    BY <1>1, Zenon DEF ControlInv, EndingInv
  <1>5. LeavingInv'
    BY Zenon DEF ControlInv, LeavingInv
  <1>6. AuthInv' /\ StartedInv'
    BY Zenon DEF ControlInv, AuthInv, StartedInv, MustBeStarted
  <1> QED
    BY <1>3, <1>4, <1>5, <1>6, Zenon DEF ControlInv

(* The daemon keeps ControlInv: authentication. *)
LEMMA ControlAuthStep ==
    ASSUME BaseInv, ControlInv, ctl = "up", c' = c, Peek \/ AuthMsg
    PROVE  ControlInv'
  <1>1. d \in Locals
    BY Zenon DEF BaseInv, IInv, TypeOK, Locals
  <1>2. d.pc \in {"peek", "auth"} /\ ~d.authenticated /\ d.why = "end"
    <2>1. d.pc \in {"peek", "auth"}
      BY Zenon DEF Peek, AuthMsg
    <2> QED
      BY <2>1, Zenon DEF BaseInv, IInv, SessionInv
  <1>3. CASE Peek
    <2>1. toD # <<>> /\ d' = [d EXCEPT !.pc = "auth"] /\ UNCHANGED <<toD, toC, sent>>
      BY <1>3 DEF Peek, AtEnd, Wire
    <2>2. /\ d'.pc = "auth" /\ d'.active = d.active /\ d'.authenticated = d.authenticated
          /\ d'.why = d.why /\ d'.req = d.req /\ d'.session = d.session
      BY <1>1, <2>1 DEF Locals
    <2>3. c.pc # "none"
      BY <2>1 DEF ControlInv, RequestInv, Mine
    <2> QED
      BY <1>2, <2>1, <2>2, <2>3, NoMessage DEF Leaving, Started
  <1>4. CASE AuthMsg
    <2>1. Receives /\ d.pc = "auth" /\ AuthSwitch(Head(toD)) /\ sent' = sent
      BY <1>4, Zenon DEF AuthMsg
    <2>2. Head(toD) \in Request /\ Mine(Head(toD).type)
      BY <2>1, OneRequest
    <2>3. c.pc = "auth"
      <3>1. c.pc \in {"none", "auth"}
        BY <1>2, Zenon DEF ControlInv, AuthInv
      <3> QED
        BY <2>2, <3>1 DEF Mine
    <2>4. Head(toD).type = "AUTH"
      BY <2>2, <2>3 DEF Mine
    <2>5. ~MustBeStarted
      BY <2>3 DEF MustBeStarted
    <2>6. PICK m : m = Head(toD)
      BY Zenon
    <2>7. CASE /\ toC' = Sent(Reply(m, 0))
               /\ d' = [d EXCEPT !.pc = AfterSend("serve"), !.authenticated = (ctl = "up")]
      <3>1. PICK a : a = Reply(m, 0)
        BY Zenon
      <3>2. a.id = m.id /\ a.type = m.type
        BY <3>1 DEF Reply
      <3>3. /\ d'.pc = "serve" /\ d'.active = d.active /\ d'.authenticated
            /\ d'.why = d.why
        BY <1>1, <2>7 DEF Locals, AfterSend
      <3>4. toC' = Sent(a) /\ a.id = Head(toD).id /\ a.type = Head(toD).type
        BY <2>6, <2>7, <3>1, <3>2, Zenon
      <3>5. d'.pc \notin {"peek", "close", "join", "gone"} /\ a.type # "STARTCAP"
        BY <2>4, <3>3, <3>4
      <3> QED
        BY <1>2, <2>1, <2>5, <3>3, <3>4, <3>5, OneReply, Zenon
    <2>8. CASE Answered(Error(m), "auth")
      <3>1. PICK a : a = Error(m)
        BY Zenon
      <3>2. a.id = m.id /\ a.type = m.type /\ a.err
        BY <3>1 DEF Error
      <3>3. /\ d'.pc = "auth" /\ d'.active = d.active /\ d'.authenticated = d.authenticated
            /\ d'.why = "end"
        BY <1>1, <2>8 DEF Answered, Locals, AfterSend
      <3>4. toC' = Sent(a) /\ a.id = Head(toD).id /\ a.type = Head(toD).type
        BY <2>6, <2>8, <3>1, <3>2, Zenon DEF Answered
      <3>5. d'.pc \notin {"peek", "close", "join", "gone"} /\ a.type # "STARTCAP"
        BY <2>4, <3>3, <3>4
      <3> QED
        BY <2>1, <2>5, <3>2, <3>3, <3>4, <3>5, OneReply, Zenon
    <2> QED
      BY <2>1, <2>4, <2>6, <2>7, <2>8 DEF AuthSwitch, Unanswered
  <1> QED
    BY <1>3, <1>4

(* The daemon keeps ControlInv: time-out, end of file and the last         *)
(* farewell.                                                               *)
LEMMA ControlEndStep ==
    ASSUME BaseInv, ControlInv, ctl = "up", c' = c, Timeout \/ Eof \/ Gone
    PROVE  ControlInv'
  <1>1. d \in Locals /\ QueuesOK /\ PlaceInv /\ SessionInv
    BY Zenon DEF BaseInv, IInv, TypeOK, Locals, QueuesOK
  <1>2. ~Eof
    BY DEF Eof, AtEnd
  <1>3. CASE Gone
    <2>1. /\ d.pc = "close" /\ d.session = NoSession /\ d' = [d EXCEPT !.pc = "gone"]
          /\ UNCHANGED <<toD, toC, sent>>
      BY <1>3, Zenon DEF Gone, Wire
    <2>2. d.why = "end"
      <3>1. d.why # "endcap"
        BY <2>1, Zenon DEF ControlInv, EndingInv
      <3> QED
        BY <1>1, <3>1 DEF Locals
    <2>3. /\ d'.pc = "gone" /\ d'.active = d.active /\ d'.authenticated = d.authenticated
          /\ d'.why = d.why /\ d'.req = d.req /\ d'.session = d.session
      BY <1>1, <2>1 DEF Locals
    <2>4. c.pc # "none"
      BY <2>1 DEF ControlInv, AuthInv
    <2> QED
      BY <2>1, <2>2, <2>3, <2>4, NoMessage DEF Leaving, Started
  <1>4. CASE Timeout
    <2>1. /\ ~d.active /\ toD = <<>> /\ toC' = Sent(Unsolicited("TIMEOUT")) /\ GiveUp
          /\ UNCHANGED <<toD, sent>>
          /\ d.pc = "auth" \/ (d.pc = "serve" /\ d.session = NoSession)
      BY <1>4, Zenon DEF Timeout
    <2>2. /\ d'.pc = "close" /\ d'.why = "end" /\ d'.active = d.active
          /\ d'.authenticated = d.authenticated /\ d'.session = d.session
      BY <1>1, <2>1 DEF GiveUp, Locals
    <2>3. d.session = NoSession
      BY <1>1, <2>1 DEF SessionInv, AuthenticatedFirst, Locals
    <2>4. ~Started /\ ~Leaving /\ Leaving'
      BY <2>1, <2>2, <2>3 DEF Started, Leaving
    <2>5. c.pc \in {"auth", "opening", "opened", "starting"}
      <3>1. c.pc # "none"
        BY <2>1 DEF ControlInv, AuthInv
      <3>2. ~MustBeStarted
        BY <2>4, Zenon DEF ControlInv, StartedInv
      <3>3. c.pc \notin {"idle", "ending", "done", "crashed"}
        BY <1>1, <2>1 DEF PlaceInv
      <3>4. c.pc \in ClientPlaces
        BY DEF BaseInv, ClientTypes, ClientRecord
      <3> QED
        BY <2>1, <3>1, <3>2, <3>3, <3>4 DEF ClientPlaces, Waiting, MustBeStarted
    <2>6. PICK a : a = Unsolicited("TIMEOUT")
      BY Zenon
    <2>7. a.id = 0 /\ a.type = "TIMEOUT"
      BY <2>6 DEF Unsolicited
    <2>8. \A i \in 1..Len(toC') : (i \in 1..Len(toC) /\ toC'[i] = toC[i]) \/ toC'[i] = a
      <3>1. toC' = Append(toC, a) /\ toC \in Seq(Answer)
        BY <1>1, <2>1, <2>6, Zenon DEF Sent, QueuesOK
      <3> HIDE DEF Answer
      <3> QED
        BY <3>1
    <2>9. \A type : Mine(type) => Mine(type)'
      BY Zenon DEF Mine
    <2>10. RequestInv' /\ EndingInv' /\ LeavingInv'
      BY <2>1, <2>2, <2>3, <2>5 DEF RequestInv, EndingInv, LeavingInv
    <2>11. AnswerInv'
      BY <2>1, <2>4, <2>7, <2>8, <2>9, Zenon DEF ControlInv, AnswerInv
    <2>12. OnceInv'
      <3>1. \A i \in 1..Len(toC') : toC'[i].id # 0 => i \in 1..Len(toC) /\ toC'[i] = toC[i]
        BY <2>7, <2>8, Zenon
      <3> QED
        BY <3>1, Zenon DEF ControlInv, OnceInv
    <2>13. AuthInv' /\ StartedInv'
      <3>1. c.pc # "none"
        BY <2>5
      <3>2. \A i \in 1..Len(toC') : toC'[i].type \in {"AUTH", "STARTCAP"} =>
               i \in 1..Len(toC) /\ toC'[i] = toC[i]
        BY <2>7, <2>8
      <3>3. ~MustBeStarted'
        BY <2>5 DEF MustBeStarted
      <3>4. \A i \in 1..Len(toC') : toC'[i].type = "AUTH" /\ ~toC'[i].err => d.authenticated
        BY <3>2 DEF ControlInv, AuthInv
      <3>5. \A i \in 1..Len(toC') : ~(toC'[i].type = "STARTCAP" /\ ~toC'[i].err)
        BY <2>4, <3>2 DEF ControlInv, StartedInv
      <3> QED
        BY <2>1, <2>2, <3>1, <3>3, <3>4, <3>5, Zenon DEF ControlInv, AuthInv, StartedInv
    <2> QED
      BY <2>10, <2>11, <2>12, <2>13, Zenon DEF ControlInv
  <1> QED
    BY <1>2, <1>3, <1>4

(* The handlers that answer at once and start or end nothing. *)
LEMMA ControlReplies ==
    ASSUME BaseInv, ControlInv, ctl = "up", c' = c, sent' = sent, Receives, d.pc = "serve",
           NEW a, toC' = Sent(a), a.id = Head(toD).id, a.type = Head(toD).type,
           d' = d \/ \E g \in BOOLEAN :
                        d' = [d EXCEPT !.pc = "serve", !.why = "end", !.got_source = g],
           a.type = "STARTCAP" => a.err
    PROVE  ControlInv'
  <1>1. d \in Locals /\ d.why = "end" /\ d.authenticated
    BY Zenon DEF BaseInv, IInv, TypeOK, Locals, SessionInv
  <1>2. /\ d'.active = d.active /\ d'.why = "end" /\ d'.pc = "serve" /\ d'.session = d.session
        /\ d'.authenticated = d.authenticated
    BY <1>1 DEF Locals
  <1>3. MustBeStarted => Started'
    BY <1>2 DEF ControlInv, StartedInv, Started
  <1>4. d'.pc \notin {"peek", "close", "join", "gone"}
    BY <1>2
  <1> QED
    BY <1>1, <1>2, <1>3, <1>4, OneReply, Zenon

(* The daemon keeps ControlInv: one request of the service loop. *)
LEMMA ControlServiceStep ==
    ASSUME BaseInv, ControlInv, ctl = "up", c' = c, Service
    PROVE  ControlInv'
  <1>1. Receives /\ d.pc = "serve" /\ ServiceSwitch(Head(toD)) /\ sent' = sent
    BY Zenon DEF Service
  <1>2. PICK m : m = Head(toD)
    BY Zenon
  <1>3. m \in Request /\ m.id = sent /\ sent # 0 /\ Mine(m.type) /\ toD' = <<>> /\ toC = <<>>
    BY <1>1, <1>2, OneRequest
  <1>4. d \in Locals /\ d.why = "end" /\ d.authenticated
    BY <1>1 DEF BaseInv, IInv, TypeOK, Locals, SessionInv
  <1>5. m.type \in {"OPEN", "STARTCAP", "UPDATEFILTER", "STATS", "ENDCAP"}
    <2>1. c.pc # "auth"
      BY <1>1, <1>4, Zenon DEF ControlInv, AuthInv, Receives
    <2> QED
      BY <1>3, <2>1 DEF Mine
  <1>6. \A sv : Reply(m, sv).id = m.id /\ Reply(m, sv).type = m.type
    BY DEF Reply
  <1>7. Error(m).id = m.id /\ Error(m).type = m.type /\ Error(m).err
    BY DEF Error
  <1>8. ASSUME NEW a, toC' = Sent(a), a.id = m.id, a.type = m.type, m.type # "STARTCAP",
               d' = d \/ \E g \in BOOLEAN :
                            d' = [d EXCEPT !.pc = "serve", !.why = "end", !.got_source = g]
        PROVE  ControlInv'
    BY <1>1, <1>2, <1>8, ControlReplies, Zenon
  <1>9. AfterSend("serve") = "serve" /\ d' \in Locals
    <2>1. IInv'
      <3>1. Next
        BY Zenon DEF Next, Daemon, DaemonMain
      <3> QED
        BY <3>1, NextStep, Zenon DEF BaseInv
    <2> QED
      BY <2>1, Zenon DEF AfterSend, IInv, TypeOK, Locals
  <1>10. d.got_source \in BOOLEAN /\ [d EXCEPT !.pc = "serve", !.why = "end"] =
               [d EXCEPT !.pc = "serve", !.why = "end", !.got_source = d.got_source]
    BY <1>4 DEF Locals
  <1>11. ASSUME NEW sv, m.type # "STARTCAP", Answered(Reply(m, sv), "serve") PROVE ControlInv'
    <2>1. d' = [d EXCEPT !.pc = "serve", !.why = "end"]
      BY <1>9, <1>11, Zenon DEF Answered
    <2>2. \E g \in BOOLEAN : d' = [d EXCEPT !.pc = "serve", !.why = "end", !.got_source = g]
      BY <1>10, <2>1, Zenon
    <2>3. toC' = Sent(Reply(m, sv))
      BY <1>11, Zenon DEF Answered
    <2> QED
      BY <1>6, <1>8, <1>11, <2>2, <2>3, Zenon
  <1>12. m.type # "STARTCAP" /\ Refused(m) => ControlInv'
    BY <1>7, <1>8, Zenon DEF Refused
  <1>13. CASE m.type = "OPEN"
    <2>1. Open(m)
      BY <1>1, <1>2, <1>13 DEF ServiceSwitch
    <2>2. PICK a : a = IF m.ok THEN Reply(m, 0) ELSE Error(m)
      BY Zenon
    <2>3. a.id = m.id /\ a.type = m.type
      BY <1>6, <1>7, <2>2, Zenon
    <2>4. toC' = Sent(a) /\ d' = [d EXCEPT !.pc = "serve", !.why = "end", !.got_source = TRUE]
      BY <1>9, <2>1, <2>2, Zenon DEF Open
    <2>5. m.type # "STARTCAP" /\ TRUE \in BOOLEAN
      BY <1>13
    <2> QED
      BY <1>8, <2>3, <2>4, <2>5, Zenon
  <1>14. CASE m.type = "UPDATEFILTER"
    <2>1. UpdateFilter(m)
      BY <1>1, <1>2, <1>14 DEF ServiceSwitch
    <2>2. d.session # NoSession
      <3>1. c.pc \in {"filtering", "asking"}
        BY <1>3, <1>14 DEF Mine
      <3>2. Started
        BY <3>1 DEF ControlInv, StartedInv, MustBeStarted
      <3> QED
        BY <1>1, <3>2 DEF Started
    <2>3. Answered(Reply(m, 0), "serve") \/ Refused(m)
      BY <2>1, <2>2, Zenon DEF UpdateFilter
    <2>4. m.type # "STARTCAP"
      BY <1>14
    <2> QED
      BY <1>11, <1>12, <2>3, <2>4, Zenon
  <1>15. CASE m.type = "STATS"
    <2>1. Stats(m)
      BY <1>1, <1>2, <1>15 DEF ServiceSwitch
    <2>2. (\E sv : Answered(Reply(m, sv), "serve")) \/ Refused(m)
      BY <2>1, Zenon DEF Stats
    <2>3. m.type # "STARTCAP"
      BY <1>15
    <2> QED
      BY <1>11, <1>12, <2>2, <2>3, Zenon
  <1>16. CASE m.type = "ENDCAP"
    <2>1. EndCap(m) /\ c.pc = "ending"
      BY <1>1, <1>2, <1>3, <1>16 DEF ServiceSwitch, Mine
    <2>2. CASE Refused(m)
      <3>1. m.type # "STARTCAP"
        BY <1>16
      <3> QED
        BY <1>6, <1>7, <1>8, <2>2, <3>1, Zenon DEF Refused
    <2>3. CASE /\ d.session # NoSession /\ toC' = toC
               /\ \E x : d' = [d EXCEPT !.pc = "close", !.why = "endcap", !.req = m.id,
                                        !.svrcapt = x]
      <3>1. /\ d'.pc = "close" /\ d'.why = "endcap" /\ d'.req = m.id
            /\ d'.session = d.session /\ d'.authenticated
        BY <1>4, <2>3 DEF Locals
      <3>2. toC' = <<>> /\ \A i \in 1..Len(toC') : FALSE
        <4>1. toC' = <<>>
          BY <1>3, <2>3, Zenon
        <4> QED
          BY <4>1
      <3>3. RequestInv' /\ AnswerInv' /\ OnceInv'
        BY <1>3, <3>2, Zenon DEF RequestInv, AnswerInv, OnceInv
      <3>4. EndingInv'
        BY <1>1, <1>3, <2>1, <2>3, <3>1, <3>2 DEF EndingInv, Farewells
      <3>5. LeavingInv'
        BY <3>1 DEF LeavingInv, Leaving
      <3>6. AuthInv'
        BY <1>3, <2>1, <3>1, <3>2 DEF AuthInv
      <3>7. StartedInv'
        BY <2>1, <3>2 DEF StartedInv, MustBeStarted
      <3> QED
        BY <3>3, <3>4, <3>5, <3>6, <3>7, Zenon DEF ControlInv
    <2> QED
      BY <2>1, <2>2, <2>3, Zenon DEF EndCap
  <1>17. CASE m.type = "STARTCAP"
    <2>1. StartCap(m) /\ c.pc = "starting"
      BY <1>1, <1>2, <1>3, <1>17 DEF ServiceSwitch, Mine
    <2>2. ~MustBeStarted
      BY <2>1 DEF MustBeStarted
    <2>3. CASE StartFails(m, s)
      <3>1. /\ d'.active = d.active /\ d'.why = "end" /\ d'.pc = "serve"
            /\ d'.authenticated = d.authenticated
        BY <1>4, <1>9, <2>3 DEF StartFails, Locals
      <3>2. PICK a : a = Error(m)
        BY Zenon
      <3>3. toC' = Sent(a) /\ a.id = m.id /\ a.type = m.type /\ a.err
        BY <1>7, <2>3, <3>2, Zenon DEF StartFails
      <3>4. d'.pc \notin {"peek", "close", "join", "gone"}
        BY <3>1
      <3> QED
        BY <1>1, <1>2, <1>4, <2>2, <3>1, <3>3, <3>4, OneReply, Zenon
    <2>4. CASE /\ toC' = Sent(Reply(m, 0))
               /\ \E k : d' = [d EXCEPT !.pc = IF d.active THEN "thread" ELSE "accept",
                                        !.req = m.id, !.new = k]
      <3>1. /\ d'.active = d.active /\ d'.why = "end" /\ d'.pc \in {"thread", "accept"}
            /\ d'.authenticated = d.authenticated
        BY <1>4, <2>4 DEF Locals
      <3>2. PICK a : a = Reply(m, 0)
        BY Zenon
      <3>3. toC' = Sent(a) /\ a.id = m.id /\ a.type = m.type
        BY <1>6, <2>4, <3>2, Zenon
      <3>4. d'.pc \notin {"peek", "close", "join", "gone"} /\ Started'
        BY <3>1 DEF Started
      <3> QED
        BY <1>1, <1>2, <1>4, <2>2, <3>1, <3>3, <3>4, OneReply, Zenon
    <2> QED
      BY <2>1, <2>3, <2>4, Zenon DEF StartCap
  <1> QED
    BY <1>5, <1>13, <1>14, <1>15, <1>16, <1>17

(* The daemon keeps ControlInv: the two halves of a start after the bind. *)
LEMMA ControlThreadStep ==
    ASSUME BaseInv, ControlInv, ctl = "up", c' = c, ~d'.late, Accept \/ MakeThread
    PROVE  ControlInv'
  <1>1. d \in Locals /\ SessionInv
    BY Zenon DEF BaseInv, IInv, TypeOK, Locals
  <1>2. d.pc \in {"accept", "thread"} /\ d.why = "end" /\ d.new \in Slots
    <2>1. d.pc \in {"accept", "thread"}
      BY Zenon DEF Accept, MakeThread
    <2> QED
      BY <1>1, <2>1, Zenon DEF SessionInv
  <1>3. d.new # NoSession
    BY <1>2, RpcapdAssumption DEF NoSession
  <1>4. ASSUME NEW m, NEW ss PROVE ~StartFails(m, ss)
    BY <1>1, <1>3 DEF StartFails, Locals
  <1>5. /\ UNCHANGED <<toD, toC, sent>>
        /\ \/ d' = [d EXCEPT !.pc = "thread"]
           \/ d' = [d EXCEPT !.pc = "serve", !.session = d.new, !.new = NoSession]
    BY <1>4, Zenon DEF Accept, MakeThread
  <1>6. /\ d'.active = d.active /\ d'.authenticated = d.authenticated /\ d'.why = d.why
        /\ d'.req = d.req
        /\ d'.pc = "thread" \/ (d'.pc = "serve" /\ d'.session = d.new)
    BY <1>1, <1>5 DEF Locals
  <1>7. c.pc # "none"
    BY <1>2 DEF ControlInv, AuthInv
  <1>8. ~Leaving /\ ~Leaving' /\ Started' /\ d.why # "endcap"
    BY <1>2, <1>3, <1>6 DEF Leaving, Started
  <1> QED
    BY <1>5, <1>6, <1>7, <1>8, NoMessage, Zenon

(* The daemon keeps ControlInv: ending a capture. *)
LEMMA ControlCloseStep ==
    ASSUME BaseInv, ControlInv, ctl = "up", c' = c, Interrupt \/ Join
    PROVE  ControlInv'
  <1>1. d \in Locals /\ SessionInv
    BY Zenon DEF BaseInv, IInv, TypeOK, Locals
  <1>2. d.pc \in {"close", "join"} /\ d.session # NoSession
    BY <1>1 DEF Interrupt, Join, SessionInv
  <1>3. d.why = "endcap"
    <2>1. ~Leaving
      BY <1>2, Zenon DEF ControlInv, LeavingInv
    <2> QED
      BY <1>1, <1>2, <2>1 DEF Leaving, Locals
  <1>4. /\ c.pc = "ending" /\ d.req = sent /\ sent # 0 /\ toD = <<>> /\ Farewells(toC)
    BY <1>3, Zenon DEF ControlInv, EndingInv
  <1>5. CASE Interrupt
    <2>1. d' = [d EXCEPT !.pc = "join"] /\ UNCHANGED <<toD, toC, sent>>
      BY <1>5, Zenon DEF Interrupt, Wire
    <2>2. /\ d'.active = d.active /\ d'.authenticated = d.authenticated /\ d'.why = d.why
          /\ d'.req = d.req /\ d'.pc = "join" /\ d'.session = d.session
      BY <1>1, <2>1 DEF Locals
    <2>3. c.pc # "none" /\ ~Leaving /\ ~Leaving' /\ Started'
      BY <1>2, <1>3, <1>4, <2>2 DEF Leaving, Started
    <2> QED
      BY <1>2, <2>1, <2>2, <2>3, NoMessage, Zenon
  <1>6. CASE Join
    <2>1. PICK a : a = [type |-> "ENDCAP", id |-> d.req, err |-> FALSE, svrcapt |-> 0]
      BY Zenon
    <2>2. a.type = "ENDCAP" /\ a.id = d.req
      BY <2>1
    <2>3. /\ toC' = Append(toC, a) /\ UNCHANGED <<toD, sent>>
          /\ d' = [d EXCEPT !.pc = AfterSend("serve"), !.why = "end", !.session = NoSession]
      BY <1>3, <1>6, <2>1, Zenon DEF Join, Sent
    <2>4. /\ d'.pc = "serve" /\ d'.authenticated = d.authenticated /\ d'.why = "end"
      BY <1>1, <2>3 DEF Locals, AfterSend
    <2>5. \A i \in 1..Len(toC') : i = 1 /\ toC'[i] = a
      <3>1. toC \in Seq(Answer)
        BY Zenon DEF BaseInv, IInv, TypeOK
      <3>2. ~(1 \in 1..Len(toC))
        BY <1>3, <1>4 DEF Farewells, Leaving
      <3> HIDE DEF Answer
      <3>3. Len(toC) = 0
        BY <3>1, <3>2
      <3> QED
        BY <2>3, <3>1, <3>3
    <2>6. Mine(a.type)'
      BY <1>4, <2>2 DEF Mine
    <2>7. RequestInv' /\ AnswerInv' /\ OnceInv'
      BY <1>4, <2>2, <2>3, <2>5, <2>6, Zenon DEF RequestInv, AnswerInv, OnceInv
    <2>8. EndingInv' /\ LeavingInv'
      BY <2>4 DEF EndingInv, LeavingInv, Leaving
    <2>9. AuthInv'
      BY <1>4, <2>3, <2>4 DEF ControlInv, AuthInv
    <2>10. StartedInv'
      BY <1>4, <2>2, <2>5 DEF StartedInv, MustBeStarted
    <2> QED
      BY <2>7, <2>8, <2>9, <2>10, Zenon DEF ControlInv
  <1> QED
    BY <1>5, <1>6

(* The data threads say nothing on the control connection while reading    *)
(* does not fail.                                                          *)
LEMMA ControlDataStep ==
    ASSUME BaseInv, ControlInv, c' = c, "read" \notin Faults, NEW k \in Slots, DataThread(k)
    PROVE  ControlInv'
  <1>1. UNCHANGED <<toD, toC, sent, d>>
    BY Zenon DEF DataThread, ThreadRuns, ThreadInit, ThreadCheck, ThreadWait, ThreadWake,
                 ThreadSend, ThreadPacket, ThreadError, MayFail, Wire
  <1>2. Leaving => Leaving' /\ d'.session = d.session
    BY <1>1 DEF Leaving
  <1>3. (Leaving' => Leaving) /\ (Started => Started')
    BY <1>1 DEF Leaving, Started
  <1>4. d.why = "endcap" => d'.pc \in {"close", "join"} /\ d'.session # NoSession
    BY <1>1, Zenon DEF ControlInv, EndingInv
  <1>5. c.pc = "none" => d'.pc = "peek"
    BY <1>1, Zenon DEF ControlInv, AuthInv
  <1> QED
    BY <1>1, <1>2, <1>3, <1>4, <1>5, NoMessage, Zenon

(* Every step keeps ControlInv while the connection is open and no start   *)
(* has failed late.                                                        *)
LEMMA ControlStep ==
    ASSUME "read" \notin Faults
    PROVE  BaseInv /\ (Up => ControlInv) /\ [SessionNext]_allvars => (Up => ControlInv)'
  <1> SUFFICES ASSUME BaseInv, Up => ControlInv, [SessionNext]_allvars
               PROVE  (Up => ControlInv)'
    BY Zenon
  <1>1. CASE Client
    BY <1>1, ControlClientStep, Zenon
  <1>2. CASE OpenFile \/ UNCHANGED allvars
    <2>1. UNCHANGED vars /\ c' = c
      BY <1>2, Zenon DEF OpenFile, allvars, client
    <2>2. UNCHANGED <<c, d, toD, toC, sent, ctl>>
      BY <2>1, Zenon DEF vars
    <2> QED
      BY <2>2 DEF Up, ControlInv, RequestInv, AnswerInv, OnceInv, EndingInv, LeavingInv, AuthInv,
             StartedInv, MustBeStarted, Started, Farewells, Leaving, Mine
  <1>3. CASE Daemon /\ UNCHANGED client
    <2> SUFFICES ASSUME Up' PROVE ControlInv'
      BY Zenon
    <2>1. ctl' = ctl /\ SameMode /\ c' = c
      BY <1>3, DaemonKeeps, Zenon DEF BaseInv, client
    <2>2. ControlInv /\ ctl = "up" /\ ~d'.late
      BY <2>1, Zenon DEF Up, SameMode
    <2> QED
      BY <1>3, <2>1, <2>2, ControlAuthStep, ControlEndStep, ControlServiceStep, ControlThreadStep,
         ControlCloseStep, ControlDataStep, Zenon DEF Daemon, DaemonMain
  <1> QED
    BY <1>1, <1>2, <1>3, Zenon DEF SessionNext

(* ControlInv holds when the session begins. *)
LEMMA ControlStart == SessionInit => (Up => ControlInv)
  <1> SUFFICES ASSUME SessionInit PROVE ControlInv
    BY Zenon
  <1>1. toD = <<>> /\ toC = <<>> /\ c.pc = "none" /\ d.pc = "peek" /\ d.why = "end"
    BY DEF SessionInit, DaemonInit, Fresh, NewService
  <1>2. \A i \in 1..Len(toC) : FALSE
    BY <1>1
  <1> QED
    BY <1>1, <1>2 DEF ControlInv, RequestInv, AnswerInv, OnceInv, EndingInv, LeavingInv, AuthInv,
           StartedInv, MustBeStarted, Leaving

(* For any number of descriptors, packets, requests and sessions: when the *)
(* capture itself does not fail, the answer that the client takes          *)
(* (rpcap_process_msg_header) is the one the daemon gave to the request    *)
(* the client waits for (daemon_serviceloop), or the daemon's farewell,    *)
(* until a start fails after it was answered.                              *)
THEOREM KeepsInStep ==
    ASSUME "read" \notin Faults
    PROVE  SessionSpec => []InStep
  <1>1. BaseInv /\ (Up => ControlInv) => InStep
    <2> SUFFICES ASSUME BaseInv, Up => ControlInv PROVE InStep
      BY Zenon
    <2>1. ClientTypeOK
      BY Zenon DEF BaseInv, IInv, ClientTypes, ClientTypeOK, ClientRecord
    <2>2. ASSUME c.pc \in Waiting, toC # <<>>, ~d.late
          PROVE  Head(toC).id = sent \/ Head(toC).type = "TIMEOUT"
      <3>1. ctl = "up"
        <4>1. ctl # "closed"
          BY <2>2 DEF BaseInv, PlaceInv, Waiting
        <4> QED
          BY <4>1 DEF BaseInv, IInv, TypeOK
      <3>2. AnswerInv
        BY <2>2, <3>1, Zenon DEF Up, ControlInv
      <3>3. 1 \in 1..Len(toC) /\ Head(toC) = toC[1]
        <4>1. toC \in Seq(Answer)
          BY Zenon DEF BaseInv, IInv, TypeOK
        <4> HIDE DEF Answer
        <4> QED
          BY <2>2, <4>1
      <3> QED
        BY <3>2, <3>3, Zenon DEF AnswerInv
    <2> QED
      BY <2>1, <2>2, Zenon DEF InStep, ReplyIsMine
  <1> QED
    BY <1>1, ControlStart, ControlStep, BaseHolds, PTL DEF SessionSpec

-----------------------------------------------------------------------------
(* The capture that the client reads from.                                 *)

Reading == {"filtering", "running", "asking"}

(* At most one session exists, and it is the service loop's or the one     *)
(* that is being started.                                                  *)
SlotInv ==
    /\ d.pc \notin {"accept", "thread"} => d.new = NoSession
    /\ d.new = NoSession \/ d.session = NoSession
    /\ \A k \in Slots :
          /\ s[k].live => k \in {d.session, d.new}
          /\ ~s[k].live => s[k].sock = "none"
          /\ t[k].pc \in {"none", "init"} => s[k].TotCapt = Uninit

(* Places of the client where the daemon has no session. *)
Before ==
    \/ c.pc \in {"none", "auth", "idle", "opening", "opened"}
    \/ c.pc = "starting" /\ toD # <<>>
    \/ c.pc = "ending" /\ toC # <<>>

CallInv ==
    /\ Before => ~Started
    /\ c.pc \in {"opened", "starting"} => c.TotCapt = 0
    /\ c.pc \in Reading => c.sess \in {d.session, d.new} /\ cdata[c.sess] = "up"
    /\ \A k \in Slots : cdata[k] = "up" =>
          k = c.sess \/ (c.pc = "starting" /\ k \in {d.session, d.new})

(* Sessions whose packets the client reads, or is about to. *)
Ours(k) ==
    \/ c.pc \in Reading /\ k = c.sess
    \/ c.pc = "starting" /\ k \in {d.session, d.new}

InTransit(k) == Len(data[k]) + (IF t[k].pc = "send" THEN 1 ELSE 0)

Kept(k) ==
    /\ cdata[k] # "closed"
    /\ s[k].TotCapt = Uninit => data[k] = <<>> /\ c.TotCapt = 0
    /\ s[k].TotCapt # Uninit => s[k].TotCapt = c.TotCapt + InTransit(k)
    /\ \A i \in 1..Len(data[k]) :
          data[k][i].npkt = c.TotCapt + i /\ data[k][i].caplen <= data[k][i].plen

PacketInv == SlotInv /\ CallInv /\ \A k \in Slots : Ours(k) => Kept(k)

(* What the invariants so far say, and the control connection is up. *)
UpInv == BaseInv /\ FdInv /\ ControlInv /\ PacketInv /\ ctl = "up"

(* The types that BaseInv gives. *)
LEMMA SlotTypes ==
    ASSUME BaseInv
    PROVE  /\ d \in Locals /\ c \in ClientRecord /\ PlaceInv /\ SessionInv /\ QueuesOK
           /\ s \in [Slots -> Structs] /\ t \in [Slots -> Threads]
           /\ data \in [Slots -> Seq(Packet)] /\ cdata \in [Slots -> {"none", "up", "closed"}]
           /\ NoSession \notin Slots
           /\ d.session \in Slots \cup {NoSession} /\ d.new \in Slots \cup {NoSession}
           /\ c.sess \in Slots \cup {NoSession}
  <1>1. NoSession \notin Slots
    BY RpcapdAssumption DEF NoSession
  <1>2. c.sess \in Slots \cup {NoSession}
    BY DEF BaseInv, ClientTypes, ClientRecord
  <1> QED
    BY <1>1, <1>2, Zenon DEF BaseInv, ClientTypes, IInv, TypeOK, Locals, Structs, Threads, QueuesOK

(* Nothing happens to a session's packets. *)
LEMMA KeptSame ==
    ASSUME NEW k, Kept(k), data'[k] = data[k], c'.TotCapt = c.TotCapt,
           s'[k].TotCapt = s[k].TotCapt, t'[k].pc = "send" <=> t[k].pc = "send",
           cdata'[k] # "closed"
    PROVE  Kept(k)'
  <1>1. InTransit(k)' = InTransit(k)
    BY Zenon DEF InTransit
  <1> QED
    BY <1>1, Zenon DEF Kept

(* The client reads nothing, before a capture or after one. *)
LEMMA NoReader ==
    ASSUME SlotInv, NoSession \notin Slots, UNCHANGED <<d, s, t>>, c'.pc \notin Reading,
           Before' \/ c'.pc = "starting" => ~Started,
           c'.pc \in {"opened", "starting"} => c'.TotCapt = 0,
           \A k \in Slots : cdata'[k] = "up" => k = c'.sess
    PROVE  PacketInv'
  <1>1. SlotInv'
    BY Zenon DEF SlotInv
  <1>2. CallInv'
    BY Zenon DEF CallInv, Started
  <1>3. \A k \in Slots : ~Ours(k)'
    <2>1. ~Started => d.session = NoSession /\ d.new = NoSession
      BY Zenon DEF Started, SlotInv
    <2> QED
      BY <2>1, Zenon DEF Ours
  <1> QED
    BY <1>1, <1>2, <1>3, Zenon DEF PacketInv

(* The client goes on reading. *)
LEMMA StillReads ==
    ASSUME PacketInv, UNCHANGED <<d, s, t, cdata>>, c.pc \in Reading, c'.pc \in Reading,
           c'.sess = c.sess, Kept(c.sess)'
    PROVE  PacketInv'
  <1>1. SlotInv'
    BY Zenon DEF PacketInv, SlotInv
  <1>2. c'.pc # "starting" /\ ~Before' /\ c.pc # "starting" /\ c'.pc # "opened"
    BY DEF Reading, Before
  <1>3. CallInv'
    BY <1>2 DEF PacketInv, CallInv
  <1>4. \A k \in Slots : Ours(k)' => k = c.sess
    BY <1>2, Zenon DEF Ours
  <1> QED
    BY <1>1, <1>3, <1>4, Zenon DEF PacketInv

(* Before the capture. *)
LEMMA PacketsOpening ==
    ASSUME UpInv,
           Connect \/ Authenticated \/ OpenActive \/ OpenRefused \/ OpenDone \/ Start
    PROVE  PacketInv'
  <1>1. d \in Locals /\ c \in ClientRecord /\ NoSession \notin Slots
    BY SlotTypes, Zenon DEF UpInv
  <1>2. UNCHANGED <<d, s, t, cdata>>
    BY Zenon DEF Connect, Authenticated, OpenActive, OpenRefused, OpenDone, Start
  <1>3. c.pc \in {"none", "auth", "idle", "opening", "opened"}
    BY DEF Connect, Authenticated, OpenActive, OpenRefused, OpenDone, Start
  <1>4. c'.pc \in {"auth", "idle", "opening", "opened", "starting"} /\ c'.sess = c.sess
    BY <1>1 DEF Connect, Authenticated, OpenActive, OpenRefused, OpenDone, Start, ClientRecord
  <1>5. c'.pc \in {"opened", "starting"} => c'.TotCapt = 0
    <2>1. CASE Connect \/ Authenticated \/ OpenActive \/ OpenRefused
      BY <1>1, <2>1 DEF Connect, Authenticated, OpenActive, OpenRefused, ClientRecord
    <2>2. CASE OpenDone
      BY <1>1, <2>2 DEF OpenDone, ClientRecord
    <2>3. CASE Start
      <3>1. c.pc = "opened" /\ c'.TotCapt = c.TotCapt
        BY <1>1, <2>3 DEF Start, ClientRecord
      <3> QED
        BY <3>1 DEF UpInv, PacketInv, CallInv
    <2> QED
      BY <2>1, <2>2, <2>3, Zenon
  <1>6. ~Started
    BY <1>3, Zenon DEF UpInv, PacketInv, CallInv, Before
  <1>7. c'.pc \notin Reading /\ c.pc # "starting"
    BY <1>3, <1>4 DEF Reading
  <1>8. \A k \in Slots : cdata'[k] = "up" => k = c'.sess
    BY <1>2, <1>4, <1>7, Zenon DEF UpInv, PacketInv, CallInv
  <1>9. SlotInv
    BY Zenon DEF UpInv, PacketInv
  <1> QED
    BY <1>1, <1>2, <1>5, <1>6, <1>7, <1>8, <1>9, NoReader, Zenon

(* While it runs, and at its end. *)
LEMMA PacketsEnding ==
    ASSUME UpInv, ctl' = "up", StartRefused \/ ReadEof \/ CloseActive \/ CloseAnswered
    PROVE  PacketInv'
  <1>1. d \in Locals /\ c \in ClientRecord /\ NoSession \notin Slots /\ QueuesOK /\ SlotInv
    BY SlotTypes, Zenon DEF UpInv, PacketInv
  <1>2. CASE StartRefused
    <2>1. c'.pc = "failed" /\ UNCHANGED <<d, s, t>>
      BY <1>1, <1>2 DEF StartRefused, ClientRecord
    <2>2. \A k \in Slots : cdata'[k] # "up"
      BY <1>2 DEF StartRefused
    <2>3. c'.pc \notin Reading /\ ~Before' /\ c'.pc \notin {"opened", "starting"}
      BY <2>1 DEF Reading, Before
    <2> QED
      BY <1>1, <2>1, <2>2, <2>3, NoReader
  <1>3. CASE ReadEof \/ CloseActive
    <2>1. /\ UNCHANGED <<d, s, t, cdata, toC>> /\ c'.sess = c.sess
          /\ c.pc \in {"opened", "running", "failed"}
          /\ c'.pc = "failed" \/ (c'.pc = "ending" /\ d.active)
      BY <1>1, <1>3 DEF ReadEof, CloseActive, Closable, ClientRecord, vars
    <2>2. ~Before' /\ c'.pc \notin {"opened", "starting"} /\ c'.pc \notin Reading
      <3>1. c.pc \notin Waiting
        BY <2>1 DEF Waiting
      <3>2. Farewells(toC)
        BY <1>1, <3>1, IdleIsSettled, Zenon DEF UpInv, Settled
      <3>3. d.active => toC = <<>>
        <4>1. d.active => ~(1 \in 1..Len(toC))
          BY <3>2, Zenon DEF Farewells, UpInv, ControlInv, LeavingInv
        <4>2. toC \in Seq(Answer)
          BY <1>1, Zenon DEF QueuesOK
        <4> HIDE DEF Answer
        <4> QED
          BY <4>1, <4>2
      <3> QED
        BY <2>1, <3>3 DEF Before, Reading
    <2>3. c.pc # "starting"
      BY <2>1
    <2>4. \A k \in Slots : cdata'[k] = "up" => k = c'.sess
      BY <2>1, <2>3, Zenon DEF UpInv, PacketInv, CallInv
    <2> QED
      BY <1>1, <2>1, <2>2, <2>4, NoReader, Zenon
  <1>4. CASE CloseAnswered
    <2>1. c.pc = "ending" /\ UNCHANGED <<d, s, t>> /\ (Gets \/ HungUp)
      BY <1>4, Zenon DEF CloseAnswered
    <2>2. /\ c' = [Fresh EXCEPT !.pc = "idle", !.rmt_sockctrl = c.rmt_sockctrl]
          /\ cdata' = IF c.sess = NoSession THEN cdata ELSE [cdata EXCEPT ![c.sess] = "closed"]
      BY <1>4 DEF CloseAnswered, CtlClosed
    <2>3. c'.pc = "idle" /\ c'.sess = NoSession
      BY <2>2 DEF Fresh
    <2>4. ~Started
      <3>1. Gets
        <4>1. Succeeds("ENDCAP") \/ Fails("ENDCAP")
          BY <2>1, Zenon DEF Succeeds, Fails
        <4> QED
          BY <2>1, <4>1, NotLeft DEF UpInv, Succeeds
      <3>2. Before
        BY <2>1, <3>1, Zenon DEF Before, Gets
      <3> QED
        BY <3>2, Zenon DEF UpInv, PacketInv, CallInv
    <2>5. \A k \in Slots : cdata'[k] # "up"
      <3>1. c.pc # "starting"
        BY <2>1
      <3>2. \A k \in Slots : cdata[k] = "up" => k = c.sess
        BY <3>1, Zenon DEF UpInv, PacketInv, CallInv
      <3>3. cdata \in [Slots -> {"none", "up", "closed"}]
        BY SlotTypes, Zenon DEF UpInv
      <3> QED
        BY <1>1, <2>2, <3>2, <3>3
    <2>6. c'.pc \notin Reading /\ c'.pc \notin {"opened", "starting"}
      BY <2>3 DEF Reading
    <2> QED
      BY <1>1, <2>1, <2>4, <2>5, <2>6, NoReader, Zenon
  <1> QED
    BY <1>2, <1>3, <1>4, Zenon

(* The data connection is found: it is that of the one session there is. *)
LEMMA PacketsStarted ==
    ASSUME UpInv, StartDone
    PROVE  PacketInv'
  <1>1. /\ d \in Locals /\ c \in ClientRecord /\ NoSession \notin Slots /\ SlotInv /\ CallInv
        /\ cdata \in [Slots -> {"none", "up", "closed"}]
    BY SlotTypes, ZenonT(30) DEF UpInv, PacketInv
  <1>2. PICK k \in Reachable :
           \/ /\ \E pc \in {"filtering", "running"} :
                    c' = [c EXCEPT !.pc = pc, !.rmt_sockdata = NewFd, !.listen = NoFd, !.sess = k]
              /\ cdata' = [cdata EXCEPT ![k] = "up"]
           \/ /\ c' = [c EXCEPT !.pc = "failed", !.rmt_sockdata = NewFd, !.listen = NoFd]
              /\ cdata' = [cdata EXCEPT ![k] = "closed"]
    BY DEF StartDone
  <1>3. c.pc = "starting" /\ UNCHANGED <<d, s, t, data>>
    BY Zenon DEF StartDone
  <1>4. k \in Reachable /\ k \in Slots
    BY Zenon DEF Reachable
  <1>5. c.sess = NoSession
    BY <1>3 DEF UpInv, FdInv, Capturing
  <1>6. \A j \in Slots : cdata[j] = "up" => j \in {d.session, d.new}
    BY <1>1, <1>5, Zenon DEF CallInv
  <1>7. k \in {d.session, d.new}
    <2>1. CASE d.active
      BY <1>4, <1>6, <2>1, Zenon DEF Reachable
    <2>2. CASE ~d.active
      <3>1. s[k].sock = "listen"
        BY <1>4, <2>2, Zenon DEF Reachable
      <3>2. s[k].live
        BY <1>1, <1>4, <3>1 DEF SlotInv
      <3> QED
        BY <1>1, <1>4, <3>2, Zenon DEF SlotInv
    <2> QED
      BY <2>1, <2>2, Zenon
  <1>8. \A j \in Slots : j \in {d.session, d.new} => j = k
    <2>1. d.new = NoSession \/ d.session = NoSession
      BY <1>1, Zenon DEF SlotInv
    <2> QED
      BY <1>1, <1>4, <1>7, <2>1
  <1>9. CASE /\ c' = [c EXCEPT !.pc = "failed", !.rmt_sockdata = NewFd, !.listen = NoFd]
             /\ cdata' = [cdata EXCEPT ![k] = "closed"]
    <2>1. c'.pc = "failed"
      BY <1>1, <1>9 DEF ClientRecord
    <2>2. \A j \in Slots : cdata'[j] # "up"
      BY <1>1, <1>4, <1>6, <1>8, <1>9
    <2>3. c'.pc \notin Reading /\ ~Before' /\ c'.pc \notin {"opened", "starting"}
      BY <2>1 DEF Reading, Before
    <2> QED
      BY <1>1, <1>3, <2>2, <2>3, NoReader
  <1>10. ASSUME NEW pc \in {"filtering", "running"}, cdata' = [cdata EXCEPT ![k] = "up"],
                c' = [c EXCEPT !.pc = pc, !.rmt_sockdata = NewFd, !.listen = NoFd, !.sess = k]
         PROVE  PacketInv'
    <2>1. c'.pc = pc /\ c'.sess = k /\ c'.TotCapt = c.TotCapt
      BY <1>1, <1>10 DEF ClientRecord
    <2>2. /\ cdata'[k] = "up" /\ cdata'[k] # "closed"
          /\ \A j \in Slots : cdata'[j] = "up" => j = k
      BY <1>1, <1>4, <1>6, <1>8, <1>10
    <2>3. ~Before' /\ c'.pc \notin {"opened", "starting"}
      BY <2>1 DEF Before
    <2>4. SlotInv'
      BY <1>1, <1>3, Zenon DEF SlotInv
    <2>5. CallInv'
      BY <1>3, <1>7, <2>1, <2>2, <2>3, Zenon DEF CallInv
    <2>6. Kept(k)
      BY <1>3, <1>4, <1>7, Zenon DEF UpInv, PacketInv, Ours
    <2>7. Kept(k)'
      BY <1>3, <2>1, <2>2, <2>6, KeptSame, Zenon
    <2>8. \A j \in Slots : Ours(j)' => j = k
      BY <2>1, <2>3, Zenon DEF Ours
    <2> QED
      BY <2>4, <2>5, <2>7, <2>8, Zenon DEF PacketInv
  <1> QED
    BY <1>2, <1>9, <1>10, Zenon

(* One message is taken from the head of the data connection. *)
LEMMA PacketRead ==
    ASSUME UpInv, c.pc = "running", c.sess \in Slots, Kept(c.sess), Read
    PROVE  /\ UNCHANGED <<d, s, t, cdata>> /\ c'.sess = c.sess /\ c'.pc = "running"
           /\ Kept(c.sess)'
  <1>1. /\ c \in ClientRecord /\ data \in [Slots -> Seq(Packet)] /\ s \in [Slots -> Structs]
    BY SlotTypes, Zenon DEF UpInv
  <1>2. PICK k \in Slots : k = c.sess
    BY Zenon
  <1>3. PICK q : q = data[k]
    BY Zenon
  <1>4. q \in Seq(Packet) /\ q # <<>> /\ data'[k] = Tail(q) /\ UNCHANGED <<d, s, t, cdata>>
    BY <1>1, <1>2, <1>3 DEF Read
  <1>5. c.TotCapt \in Nat
    BY <1>1 DEF ClientRecord
  <1> HIDE DEF Packet
  <1>6. /\ Len(q) \in Nat /\ Len(q) > 0 /\ Head(q) = q[1] /\ Len(Tail(q)) = Len(q) - 1
        /\ \A i \in 1..Len(Tail(q)) : i + 1 \in 1..Len(q) /\ Tail(q)[i] = q[i + 1]
    BY <1>4
  <1>7. /\ \A i \in 1..Len(q) : q[i].npkt = c.TotCapt + i /\ q[i].caplen <= q[i].plen
        /\ s[k].TotCapt = Uninit => q = <<>>
        /\ s[k].TotCapt # Uninit => s[k].TotCapt = c.TotCapt + InTransit(k)
        /\ cdata[k] # "closed"
    BY <1>2, <1>3, Zenon DEF Kept
  <1>8. Head(q).caplen <= Head(q).plen
    BY <1>6, <1>7
  <1>9. q[1] \in Packet
    BY <1>4, <1>6
  <1>10. ~(Head(q).caplen > Head(q).plen)
    <2>1. q[1].caplen \in CapLens /\ q[1].plen \in 0..(U16 - 1) /\ CapLens \subseteq Nat
      BY <1>9, RpcapdAssumption, Zenon DEF Packet
    <2>2. U16 \in Nat
      BY SMT DEF U16
    <2>3. 0..(U16 - 1) \subseteq Nat
      BY <2>2, SMT
    <2>4. q[1].caplen \in Nat /\ q[1].plen \in Nat
      BY <2>1, <2>3, Zenon
    <2> QED
      BY <1>6, <1>8, <2>4
  <1>11. c' = [c EXCEPT !.TotCapt = @ + 1]
    BY <1>2, <1>3, <1>10, Zenon DEF Read
  <1>12. c'.sess = c.sess /\ c'.pc = c.pc /\ c'.TotCapt = c.TotCapt + 1
    BY <1>1, <1>11 DEF ClientRecord
  <1>13. \A i \in 1..Len(Tail(q)) :
            Tail(q)[i].npkt = c'.TotCapt + i /\ Tail(q)[i].caplen <= Tail(q)[i].plen
    <2> SUFFICES ASSUME NEW i \in 1..Len(Tail(q))
                 PROVE  Tail(q)[i].npkt = c'.TotCapt + i /\ Tail(q)[i].caplen <= Tail(q)[i].plen
      BY Zenon
    <2>1. /\ Tail(q)[i] = q[i + 1] /\ q[i + 1].npkt = c.TotCapt + (i + 1)
          /\ q[i + 1].caplen <= q[i + 1].plen
      BY <1>6, <1>7
    <2>2. c.TotCapt + (i + 1) = c'.TotCapt + i
      BY <1>5, <1>12
    <2> QED
      BY <2>1, <2>2, Zenon
  <1>14. c.TotCapt + InTransit(k) = c'.TotCapt + InTransit(k)'
    <2>1. PICK n : n = IF t[k].pc = "send" THEN 1 ELSE 0
      BY Zenon
    <2>2. n \in Nat
      BY <2>1
    <2>3. InTransit(k) = Len(q) + n /\ InTransit(k)' = Len(Tail(q)) + n
      BY <1>3, <1>4, <2>1, Zenon DEF InTransit
    <2> QED
      BY <1>5, <1>6, <1>12, <2>2, <2>3
  <1>15. Kept(k)'
    BY <1>4, <1>7, <1>13, <1>14, Zenon DEF Kept
  <1> QED
    BY <1>2, <1>4, <1>12, <1>15, Zenon

(* The filter, the reads and the requests of a running capture. *)
LEMMA PacketsRunning ==
    ASSUME UpInv, FilterDone \/ Read \/ Ask \/ Told
    PROVE  PacketInv'
  <1>1. /\ d \in Locals /\ c \in ClientRecord /\ NoSession \notin Slots /\ SlotInv /\ CallInv
        /\ cdata \in [Slots -> {"none", "up", "closed"}] /\ c.sess \in Slots \cup {NoSession}
    BY SlotTypes, Zenon DEF UpInv, PacketInv
  <1>2. c.pc \in Reading
    BY DEF FilterDone, Read, Ask, Told, Reading
  <1>3. c.sess \in Slots
    BY <1>1, <1>2, Zenon DEF UpInv, FdInv, Reading
  <1>4. Kept(c.sess) /\ cdata[c.sess] = "up" /\ cdata[c.sess] # "closed"
    <2>1. cdata[c.sess] = "up"
      BY <1>1, <1>2, Zenon DEF CallInv
    <2> QED
      BY <1>2, <1>3, <2>1 DEF UpInv, PacketInv, Ours
  <1>5. \A k \in Slots : cdata[k] = "up" => k = c.sess
    <2>1. c.pc # "starting"
      BY <1>2 DEF Reading
    <2> QED
      BY <1>1, <2>1, Zenon DEF CallInv
  <1>6. CASE Read
    BY <1>2, <1>3, <1>4, <1>6, PacketRead, StillReads DEF UpInv, Read, Reading
  <1>7. ASSUME UNCHANGED <<d, s, t, data, cdata>>, c'.pc \in Reading, c'.sess = c.sess,
               c'.TotCapt = c.TotCapt
        PROVE  PacketInv'
    <2>1. Kept(c.sess)'
      <3>1. PICK k : k = c.sess
        BY Zenon
      <3>2. Kept(k)'
        BY <1>4, <1>7, <3>1, KeptSame, Zenon
      <3> QED
        BY <1>7, <3>1, <3>2, Zenon
    <2> QED
      BY <1>2, <1>7, <2>1, StillReads, Zenon DEF UpInv
  <1>8. CASE Ask \/ Told
    BY <1>1, <1>7, <1>8 DEF Ask, Told, ClientRecord, Reading
  <1>9. CASE FilterDone
    <2>1. \/ c' = [c EXCEPT !.pc = "running"] /\ cdata' = cdata
          \/ c' = [c EXCEPT !.pc = "failed", !.sess = NoSession] /\ DataClosed(c.sess)
      BY <1>9, Zenon DEF FilterDone
    <2>2. UNCHANGED <<d, s, t, data>>
      BY <1>9, Zenon DEF FilterDone
    <2>3. CASE c' = [c EXCEPT !.pc = "running"] /\ cdata' = cdata
      BY <1>1, <1>7, <2>2, <2>3 DEF ClientRecord, Reading
    <2>4. CASE c' = [c EXCEPT !.pc = "failed", !.sess = NoSession] /\ DataClosed(c.sess)
      <3>1. c'.pc = "failed"
        BY <1>1, <2>4 DEF ClientRecord
      <3>2. \A j \in Slots : cdata'[j] # "up"
        BY <1>1, <1>3, <1>4, <1>5, <2>4 DEF DataClosed
      <3>3. c'.pc \notin Reading /\ ~Before' /\ c'.pc \notin {"opened", "starting"}
        BY <3>1 DEF Reading, Before
      <3> QED
        BY <1>1, <2>2, <3>2, <3>3, NoReader
    <2> QED
      BY <2>1, <2>3, <2>4, Zenon
  <1> QED
    BY <1>6, <1>8, <1>9, Zenon

(* The client keeps PacketInv. *)
LEMMA PacketsClientStep ==
    ASSUME UpInv, ctl' = "up", Client
    PROVE  PacketInv'
  <1>1. ~Rejected /\ ~RemoteClose /\ ~ClosePassive
    BY DEF Rejected, RemoteClose, ClosePassive, CtlClosed
  <1> QED
    BY <1>1, PacketsOpening, PacketsEnding, PacketsStarted, PacketsRunning, Zenon DEF Client

(* The daemon starts and ends no session, and no thread moves. *)
LEMMA SameSessions ==
    ASSUME PacketInv, UNCHANGED <<c, s, t, data, cdata>>,
           d'.session = d.session, d'.new = d.new,
           d.pc \notin {"accept", "thread"}, d'.pc \notin {"accept", "thread"},
           toD' # <<>> => toD # <<>>, c.pc = "ending" /\ toC' # <<>> => ~Started
    PROVE  PacketInv'
  <1>1. SlotInv'
    BY Zenon DEF PacketInv, SlotInv
  <1>2. Started' <=> Started
    BY Zenon DEF Started
  <1>3. CallInv'
    <2>1. Before' => ~Started
      BY Zenon DEF PacketInv, CallInv, Before
    <2> QED
      BY <1>2, <2>1, Zenon DEF PacketInv, CallInv
  <1>4. \A k \in Slots : Ours(k)' => Kept(k)'
    <2> SUFFICES ASSUME NEW k \in Slots, Ours(k)' PROVE Kept(k)'
      BY Zenon
    <2>1. Kept(k)
      BY Zenon DEF PacketInv, Ours
    <2>2. cdata'[k] # "closed"
      BY <2>1, Zenon DEF Kept
    <2> QED
      BY <2>1, <2>2, KeptSame, Zenon
  <1> QED
    BY <1>1, <1>3, <1>4, Zenon DEF PacketInv

(* The daemon keeps PacketInv: authentication and the session's end. *)
LEMMA PacketsAuth ==
    ASSUME UpInv, c' = c, Peek \/ AuthMsg \/ Timeout \/ Eof \/ Gone
    PROVE  PacketInv'
  <1>1. d \in Locals /\ PlaceInv /\ QueuesOK /\ PacketInv
    BY SlotTypes, Zenon DEF UpInv
  <1>2. UNCHANGED <<s, t, data, cdata>>
    BY Zenon DEF Peek, AuthMsg, Timeout, Eof, Gone, Capture
  <1>3. \/ d.pc = "peek" /\ d' = [d EXCEPT !.pc = "auth"] /\ UNCHANGED <<toD, toC>>
        \/ AuthMsg
        \/ Timeout
        \/ d.pc = "close" /\ d' = [d EXCEPT !.pc = "gone"] /\ UNCHANGED <<toD, toC>>
    BY SMTT(30) DEF Peek, Eof, Gone, AtEnd, UpInv, Wire
  <1>4. d'.session = d.session /\ d'.new = d.new
    <2>1. AuthMsg => d'.session = d.session /\ d'.new = d.new
      BY <1>1 DEF AuthMsg, AuthSwitch, Answered, GiveUp, Locals
    <2>2. Timeout => \E pc, why : d' = [d EXCEPT !.pc = pc, !.why = why]
      BY Zenon DEF Timeout, GiveUp
    <2> QED
      BY <1>1, <1>3, <2>1, <2>2 DEF Locals
  <1>5. d.pc \notin {"accept", "thread"} /\ d'.pc \notin {"accept", "thread"}
    <2>1. d.pc \in {"peek", "auth", "serve", "close"}
      BY <1>3 DEF AuthMsg, Timeout
    <2>2. AuthMsg => d'.pc \in {"serve", "auth", "close"}
      BY <1>1 DEF AuthMsg, AuthSwitch, Answered, GiveUp, AfterSend, Locals
    <2>3. Timeout => d'.pc = "close"
      BY <1>1 DEF Timeout, GiveUp, Locals
    <2> QED
      BY <1>1, <1>3, <2>1, <2>2, <2>3 DEF Locals
  <1>6. toD' # <<>> => toD # <<>>
    BY <1>3, Zenon DEF AuthMsg, Timeout, Receives
  <1>7. c.pc = "ending" /\ toC' # <<>> => ~Started
    <2>1. CASE toC' = toC
      BY <2>1, Zenon DEF UpInv, PacketInv, CallInv, Before
    <2>2. CASE Timeout
      BY <1>1, <2>2 DEF Timeout, PlaceInv
    <2>3. CASE AuthMsg
      <3>1. Mine(Head(toD).type) /\ ~d.authenticated
        BY <2>3, OneRequest DEF AuthMsg, UpInv, BaseInv, IInv, SessionInv
      <3>2. c.pc \in {"none", "auth"}
        BY <3>1, Zenon DEF UpInv, ControlInv, AuthInv
      <3> QED
        BY <3>2, SMTT(30)
    <2> QED
      BY <1>3, <2>1, <2>2, <2>3, Zenon
  <1> QED
    BY <1>1, <1>2, <1>4, <1>5, <1>6, <1>7, SameSessions, Zenon

(* daemon_msg_startcap_req makes the session that the client waits for. *)
LEMMA PacketsSession ==
    ASSUME UpInv, c' = c, d.pc = "serve", c.pc = "starting", toD # <<>>, toD' = <<>>,
           NEW m, StartCap(m)
    PROVE  PacketInv'
  <1>1. /\ d \in Locals /\ NoSession \notin Slots /\ SlotInv /\ CallInv /\ PacketInv
        /\ s \in [Slots -> Structs] /\ t \in [Slots -> Threads] /\ SessionInv
        /\ data \in [Slots -> Seq(Packet)] /\ cdata \in [Slots -> {"none", "up", "closed"}]
        /\ c \in ClientRecord
    BY SlotTypes, Zenon DEF UpInv, PacketInv
  <1>2. ~Started
    BY <1>1, Zenon DEF CallInv, Before
  <1>3. d.session = NoSession /\ d.new = NoSession
    <2>1. d.new = NoSession
      BY <1>1 DEF SlotInv
    <2> QED
      BY <1>2, <2>1, Zenon DEF Started
  <1>4. c.pc # "ending" /\ c.pc \notin Reading
    BY DEF Reading
  <1>5. CASE StartFails(m, s) /\ UNCHANGED <<t, data, cdata>>
    <2>1. /\ s' = s
          /\ d' = [d EXCEPT !.pc = "serve", !.why = "end",
                            !.session = IF d.got_source THEN NoSession ELSE @,
                            !.new = NoSession, !.late = @ \/ d.new # NoSession]
      BY <1>5, Zenon DEF StartFails, AfterSend, UpInv
    <2>2. d'.session = d.session /\ d'.new = d.new /\ d'.pc = "serve"
      BY <1>1, <1>3, <2>1 DEF Locals
    <2>3. d.pc \notin {"accept", "thread"} /\ d'.pc \notin {"accept", "thread"}
      BY <2>2
    <2> QED
      BY <1>1, <1>4, <1>5, <2>1, <2>2, <2>3, SameSessions, Zenon
  <1>6. ASSUME NEW k \in FreeSlots,
               s' = [s EXCEPT ![k] = Opened(IF d.active THEN "conn" ELSE "listen")],
               cdata' = [cdata EXCEPT ![k] = IF d.active THEN "up" ELSE "none"],
               data' = [data EXCEPT ![k] = <<>>], t' = t,
               d' = [d EXCEPT !.pc = IF d.active THEN "thread" ELSE "accept",
                              !.req = m.id, !.new = k]
        PROVE  PacketInv'
    <2>1. k \in Slots
      BY Zenon DEF FreeSlots
    <2>2. /\ d'.pc \in {"accept", "thread"} /\ d'.new = k /\ d'.session = NoSession
      BY <1>1, <1>3, <1>6 DEF Locals
    <2>3. /\ s'[k].live /\ s'[k].TotCapt = Uninit
          /\ \A j \in Slots : j # k => s'[j] = s[j]
      BY <1>1, <1>6, <2>1 DEF Opened, NoStruct
    <2>4. /\ cdata'[k] # "closed" /\ data'[k] = <<>>
          /\ \A j \in Slots : j # k => cdata'[j] = cdata[j]
      BY <1>1, <1>6, <2>1
    <2>5. \A j \in Slots : ~s[j].live
      BY <1>1, <1>3, Zenon DEF SlotInv
    <2>6. SlotInv'
      <3>1. \A j \in Slots :
              /\ s'[j].live => j \in {d'.session, d'.new}
              /\ ~s'[j].live => s'[j].sock = "none"
              /\ t'[j].pc \in {"none", "init"} => s'[j].TotCapt = Uninit
        <4> SUFFICES ASSUME NEW j \in Slots
                     PROVE  /\ s'[j].live => j \in {d'.session, d'.new}
                            /\ ~s'[j].live => s'[j].sock = "none"
                            /\ t'[j].pc \in {"none", "init"} => s'[j].TotCapt = Uninit
          BY Zenon
        <4>1. CASE j = k
          BY <2>2, <2>3, <4>1
        <4>2. CASE j # k
          BY <1>1, <1>6, <2>3, <2>5, <4>2 DEF SlotInv
        <4> QED
          BY <4>1, <4>2, Zenon
      <3> QED
        BY <2>2, <3>1, Zenon DEF SlotInv
    <2>7. \A j \in Slots : cdata[j] # "up"
      <3>1. c.sess = NoSession
        BY DEF UpInv, FdInv, Capturing
      <3> QED
        BY <1>1, <1>3, <3>1, Zenon DEF CallInv
    <2>8. CallInv'
      <3>1. ~Before'
        BY DEF Before
      <3>2. \A j \in Slots : cdata'[j] = "up" => j \in {d'.session, d'.new}
        BY <2>2, <2>4, <2>7
      <3> QED
        BY <1>1, <1>4, <3>1, <3>2, Zenon DEF CallInv
    <2>9. c.TotCapt = 0
      BY <1>1 DEF CallInv
    <2>10. Kept(k)'
      <3>1. \A i \in 1..Len(data'[k]) : FALSE
        BY <2>4
      <3> QED
        BY <2>3, <2>4, <2>9, <3>1, Zenon DEF Kept
    <2>11. \A j \in Slots : Ours(j)' => j = k
      BY <1>1, <1>4, <2>2 DEF Ours
    <2> QED
      BY <2>6, <2>8, <2>10, <2>11, Zenon DEF PacketInv
  <1>7. FreeSlots # {} => (CHOOSE k \in FreeSlots : TRUE) \in FreeSlots
    BY Zenon
  <1> QED
    BY <1>5, <1>6, <1>7, Zenon DEF StartCap

(* The daemon keeps PacketInv: one request of the service loop. *)
LEMMA PacketsService ==
    ASSUME UpInv, c' = c, Service
    PROVE  PacketInv'
  <1>1. d \in Locals /\ PacketInv
    BY SlotTypes, Zenon DEF UpInv
  <1>2. Receives /\ d.pc = "serve" /\ ServiceSwitch(Head(toD))
    BY Zenon DEF Service
  <1>3. PICK m : m = Head(toD)
    BY Zenon
  <1>4. m \in Request /\ Mine(m.type) /\ toD' = <<>> /\ toC = <<>> /\ toD # <<>>
    BY <1>2, <1>3, OneRequest, Zenon DEF UpInv, Receives
  <1>5. m.type \in {"AUTH", "OPEN", "STARTCAP", "UPDATEFILTER", "STATS", "ENDCAP"}
    BY <1>4 DEF Mine
  <1>6. CASE m.type = "STARTCAP"
    <2>1. StartCap(m) /\ c.pc = "starting"
      BY <1>2, <1>3, <1>4, <1>6, ZenonT(30) DEF ServiceSwitch, Mine
    <2> QED
      BY <1>2, <1>4, <2>1, PacketsSession, Zenon
  <1>7. CASE m.type # "STARTCAP"
    <2>1. UNCHANGED Capture /\
            \/ d' = d
            \/ \E pc \in {"serve", "garbled", "close"} : d' = [d EXCEPT !.pc = pc, !.why = "end"]
            \/ d' = [d EXCEPT !.pc = "serve", !.why = "end", !.got_source = TRUE]
            \/ \E x, y : d' = [d EXCEPT !.pc = "close", !.why = "endcap", !.req = x, !.svrcapt = y]
      <3>1. \A pc : AfterSend(pc) = pc
        BY Zenon DEF AfterSend, UpInv
      <3>2. CASE m.type = "AUTH"
        BY <1>2, <1>3, <3>1, <3>2, ZenonT(30) DEF ServiceSwitch, Answered
      <3>3. CASE m.type = "OPEN"
        BY <1>2, <1>3, <3>1, <3>3, ZenonT(30) DEF ServiceSwitch, Open
      <3>4. CASE m.type = "UPDATEFILTER"
        BY <1>2, <1>3, <3>1, <3>4, ZenonT(30) DEF ServiceSwitch, UpdateFilter, Answered, Refused
      <3>5. CASE m.type = "STATS"
        BY <1>2, <1>3, <3>1, <3>5 DEF ServiceSwitch, Stats, Answered, Refused
      <3>6. CASE m.type = "ENDCAP"
        <4>1. EndCap(m)
          BY <1>2, <1>3, <3>6 DEF ServiceSwitch
        <4> QED
          BY <4>1, Zenon DEF EndCap, Refused
      <3> QED
        BY <1>5, <1>7, <3>2, <3>3, <3>4, <3>5, <3>6
    <2>2. d'.session = d.session /\ d'.new = d.new /\ d'.pc \notin {"accept", "thread"}
      BY <1>1, <1>2, <2>1 DEF Locals
    <2>3. c.pc = "ending" /\ toC' # <<>> => ~Started
      <3> SUFFICES ASSUME c.pc = "ending", toC' # <<>> PROVE ~Started
        BY Zenon
      <3>1. m.type = "ENDCAP"
        BY <1>4 DEF Mine
      <3>2. EndCap(m)
        BY <1>2, <1>3, <3>1 DEF ServiceSwitch
      <3>3. d.session = NoSession
        BY <1>4, <3>2, Zenon DEF EndCap
      <3> QED
        BY <1>2, <3>3 DEF Started
    <2>4. d.pc \notin {"accept", "thread"}
      BY <1>2
    <2> QED
      BY <1>1, <1>4, <2>1, <2>2, <2>3, <2>4, SameSessions, Zenon DEF Capture
  <1> QED
    BY <1>6, <1>7

(* accept() and pthread_create(). *)
LEMMA PacketsThread ==
    ASSUME UpInv, c' = c, ~d'.late, Accept \/ MakeThread
    PROVE  PacketInv'
  <1>1. /\ d \in Locals /\ NoSession \notin Slots /\ SlotInv /\ CallInv
        /\ s \in [Slots -> Structs] /\ t \in [Slots -> Threads] /\ SessionInv
    BY SlotTypes, Zenon DEF UpInv, PacketInv
  <1>2. d.pc \in {"accept", "thread"} /\ d.new \in Slots
    <2>1. d.pc \in {"accept", "thread"}
      BY Zenon DEF Accept, MakeThread
    <2> QED
      BY <1>1, <2>1, Zenon DEF SessionInv
  <1>3. ASSUME NEW m, NEW ss PROVE ~StartFails(m, ss)
    BY <1>1, <1>2 DEF StartFails, Locals
  <1>4. d.session = NoSession
    <2>1. d.new # NoSession
      BY <1>1, <1>2
    <2> QED
      BY <1>1, <2>1, Zenon DEF SlotInv
  <1>5. s[d.new].live /\ t[d.new].pc = "none"
    BY <1>1, <1>2, Zenon DEF SessionInv
  <1>6. PICK k \in Slots : k = d.new
    BY <1>2, Zenon
  <1>7. /\ UNCHANGED <<toD, toC, data, cdata>>
        /\ \/ /\ d' = [d EXCEPT !.pc = "thread"] /\ t' = t
              /\ s' = [s EXCEPT ![k].sock = "conn"]
           \/ /\ d' = [d EXCEPT !.pc = "serve", !.session = d.new, !.new = NoSession]
              /\ t' = [t EXCEPT ![k].pc = "init"] /\ s' = [s EXCEPT ![k].have_thread = TRUE]
    BY <1>3, <1>6, Zenon DEF Accept, MakeThread
  <1>8. \/ d'.pc = "thread" /\ d'.new = k /\ d'.session = NoSession
        \/ d'.pc = "serve" /\ d'.new = NoSession /\ d'.session = k
    BY <1>1, <1>4, <1>6, <1>7 DEF Locals
  <1>9. \A j : j \in {d'.session, d'.new} <=> j \in {d.session, d.new}
    BY <1>4, <1>6, <1>8
  <1>10. /\ \A j \in Slots : s'[j].live = s[j].live /\ s'[j].TotCapt = s[j].TotCapt
         /\ \A j \in Slots : j # k => s'[j] = s[j] /\ t'[j] = t[j]
    BY <1>1, <1>7 DEF Structs
  <1>11. t[k].pc = "none" /\ t'[k].pc \in {"none", "init"} /\ s[k].live
    BY <1>1, <1>5, <1>6, <1>7 DEF Threads
  <1>12. SlotInv'
    <2>1. ASSUME NEW j \in Slots
          PROVE  /\ s'[j].live => j \in {d'.session, d'.new}
                 /\ ~s'[j].live => s'[j].sock = "none"
                 /\ t'[j].pc \in {"none", "init"} => s'[j].TotCapt = Uninit
      <3>1. s'[j].live => j \in {d'.session, d'.new}
        BY <1>1, <1>9, <1>10, Zenon DEF SlotInv
      <3>2. ~s'[j].live => s'[j].sock = "none"
        <4>1. CASE j = k
          BY <1>10, <1>11, <4>1, Zenon
        <4>2. CASE j # k
          BY <1>1, <1>10, <4>2, Zenon DEF SlotInv
        <4> QED
          BY <4>1, <4>2, Zenon
      <3>3. t'[j].pc \in {"none", "init"} => s'[j].TotCapt = Uninit
        <4>1. CASE j = k
          BY <1>1, <1>10, <1>11, <4>1 DEF SlotInv
        <4>2. CASE j # k
          BY <1>1, <1>10, <4>2, Zenon DEF SlotInv
        <4> QED
          BY <4>1, <4>2, Zenon
      <3> QED
        BY <3>1, <3>2, <3>3, Zenon
    <2>2. d'.pc \notin {"accept", "thread"} => d'.new = NoSession
      BY <1>8
    <2>3. d'.new = NoSession \/ d'.session = NoSession
      BY <1>8, Zenon
    <2> QED
      BY <2>1, <2>2, <2>3, Zenon DEF SlotInv
  <1>13. Started
    BY <1>2, Zenon DEF Started
  <1>14. CallInv'
    <2>1. ~Before
      BY <1>1, <1>13, Zenon DEF CallInv
    <2>2. ~Before'
      BY <1>7, <2>1, Zenon DEF Before
    <2> QED
      BY <1>1, <1>7, <1>9, <2>2, Zenon DEF CallInv
  <1>15. \A j \in Slots : Ours(j)' => Kept(j)'
    <2> SUFFICES ASSUME NEW j \in Slots, Ours(j)' PROVE Kept(j)'
      BY Zenon
    <2>1. Kept(j)
      BY <1>9, Zenon DEF UpInv, PacketInv, Ours
    <2>2. t'[j].pc = "send" <=> t[j].pc = "send"
      <3>1. CASE j = k
        BY <1>11, <3>1
      <3>2. CASE j # k
        BY <1>10, <3>2, Zenon
      <3> QED
        BY <3>1, <3>2, Zenon
    <2>3. cdata'[j] # "closed"
      BY <1>7, <2>1, Zenon DEF Kept
    <2> QED
      BY <1>7, <1>10, <2>1, <2>2, <2>3, KeptSame, Zenon
  <1> QED
    BY <1>12, <1>14, <1>15, Zenon DEF PacketInv

(* session_close for RPCAP_MSG_ENDCAP_REQ: the client reads no more. *)
LEMMA PacketsClose ==
    ASSUME UpInv, c' = c, Interrupt \/ Join
    PROVE  PacketInv'
  <1>1. /\ d \in Locals /\ NoSession \notin Slots /\ SlotInv /\ CallInv
        /\ s \in [Slots -> Structs] /\ t \in [Slots -> Threads] /\ SessionInv
        /\ d.session \in Slots \cup {NoSession}
    BY SlotTypes, Zenon DEF UpInv, PacketInv
  <1>2. d.pc \in {"close", "join"} /\ d.session # NoSession
    BY <1>1 DEF Interrupt, Join, SessionInv
  <1>3. PICK k \in Slots : k = d.session
    BY <1>1, <1>2, Zenon
  <1>4. d.why = "endcap"
    <2>1. ~Leaving
      BY <1>2, Zenon DEF UpInv, ControlInv, LeavingInv
    <2> QED
      BY <1>1, <1>2, <2>1 DEF Leaving, Locals
  <1>5. c.pc = "ending"
    BY <1>4, Zenon DEF UpInv, ControlInv, EndingInv
  <1>6. d.new = NoSession
    BY <1>1, <1>2 DEF SlotInv
  <1>7. c.pc # "starting" /\ c.pc \notin Reading /\ c.pc # "opened"
    BY <1>5 DEF Reading
  <1>8. \A j \in Slots : ~Ours(j)'
    BY <1>7, Zenon DEF Ours
  <1>9. cdata' = cdata
    BY Zenon DEF Interrupt, Join
  <1>10. (Before' => ~Started') => CallInv'
    BY <1>1, <1>7, <1>9, Zenon DEF CallInv
  <1>11. CASE Interrupt
    <2>1. /\ d' = [d EXCEPT !.pc = "join"] /\ s' = [s EXCEPT ![k].brk = TRUE]
          /\ t' = [t EXCEPT ![k].pc = IF @ = "wait" THEN "next" ELSE @] /\ UNCHANGED <<toD, toC>>
      BY <1>3, <1>11, Zenon DEF Interrupt, Wire
    <2>2. d'.pc = "join" /\ d'.session = d.session /\ d'.new = d.new
      BY <1>1, <2>1 DEF Locals
    <2>3. \A j \in Slots : /\ s'[j].live = s[j].live /\ s'[j].sock = s[j].sock
                           /\ s'[j].TotCapt = s[j].TotCapt
                           /\ t'[j].pc \in {"none", "init"} => t[j].pc \in {"none", "init"}
      <3>1. \A j \in Slots : /\ s'[j].live = s[j].live /\ s'[j].sock = s[j].sock
                             /\ s'[j].TotCapt = s[j].TotCapt
        BY <1>1, <2>1 DEF Structs
      <3>2. \A j \in Slots : t'[j].pc \in {"none", "init"} => t[j].pc \in {"none", "init"}
        BY <1>1, <2>1 DEF Threads
      <3> QED
        BY <3>1, <3>2, Zenon
    <2>4. SlotInv'
      BY <1>1, <1>6, <2>2, <2>3, Zenon DEF SlotInv
    <2>5. Before' => Before
      BY <2>1, Zenon DEF Before
    <2>6. Started
      BY <1>2, Zenon DEF Started
    <2>7. ~Before
      BY <1>1, <2>6, Zenon DEF CallInv
    <2> QED
      BY <1>8, <1>10, <2>4, <2>5, <2>7, Zenon DEF PacketInv
  <1>12. CASE Join
    <2>1. /\ d' = [d EXCEPT !.pc = "serve", !.why = "end", !.session = NoSession]
          /\ s' = [s EXCEPT ![k] = NoStruct] /\ t' = [t EXCEPT ![k] = NoThread]
      BY <1>3, <1>4, <1>12, Zenon DEF Join, Released, AfterSend, UpInv
    <2>2. d'.pc = "serve" /\ d'.session = NoSession /\ d'.new = NoSession
      BY <1>1, <1>6, <2>1 DEF Locals
    <2>3. /\ s'[k] = NoStruct /\ t'[k] = NoThread
          /\ \A j \in Slots : j # k => s'[j] = s[j] /\ t'[j] = t[j]
      BY <1>1, <2>1, Zenon
    <2>4. ~NoStruct.live /\ NoStruct.sock = "none" /\ NoStruct.TotCapt = Uninit
      BY DEF NoStruct
    <2>5. \A j \in Slots : s[j].live => j = k
      BY <1>1, <1>3, <1>6, Zenon DEF SlotInv
    <2>6. \A j \in Slots : /\ ~s'[j].live /\ s'[j].sock = "none"
                           /\ t'[j].pc \in {"none", "init"} => s'[j].TotCapt = Uninit
      <3> SUFFICES ASSUME NEW j \in Slots
                   PROVE  /\ ~s'[j].live /\ s'[j].sock = "none"
                          /\ t'[j].pc \in {"none", "init"} => s'[j].TotCapt = Uninit
        BY Zenon
      <3>1. CASE j = k
        BY <2>3, <2>4, <3>1, Zenon
      <3>2. CASE j # k
        BY <1>1, <2>3, <2>5, <3>2, ZenonT(30) DEF SlotInv
      <3> QED
        BY <3>1, <3>2, Zenon
    <2>7. SlotInv'
      BY <2>2, <2>6, Zenon DEF SlotInv
    <2>8. ~Started'
      BY <2>2 DEF Started
    <2> QED
      BY <1>8, <1>10, <2>7, <2>8, Zenon DEF PacketInv
  <1> QED
    BY <1>11, <1>12, Zenon

(* The data thread of session k moves. *)
LEMMA ThreadMoved ==
    ASSUME UpInv, UNCHANGED <<c, d, toD, toC, cdata>>, NEW k \in Slots,
           \A j \in Slots : j # k => s'[j] = s[j] /\ t'[j] = t[j] /\ data'[j] = data[j],
           s'[k].live = s[k].live, s'[k].sock = s[k].sock, t'[k].pc \notin {"none", "init"},
           Ours(k) => Kept(k)'
    PROVE  PacketInv'
  <1>1. SlotInv'
    <2>1. \A j \in Slots :
            /\ s'[j].live => j \in {d'.session, d'.new}
            /\ ~s'[j].live => s'[j].sock = "none"
            /\ t'[j].pc \in {"none", "init"} => s'[j].TotCapt = Uninit
      <3> SUFFICES ASSUME NEW j \in Slots
                   PROVE  /\ s'[j].live => j \in {d'.session, d'.new}
                          /\ ~s'[j].live => s'[j].sock = "none"
                          /\ t'[j].pc \in {"none", "init"} => s'[j].TotCapt = Uninit
        BY Zenon
      <3>1. CASE j = k
        BY <3>1, Zenon DEF UpInv, PacketInv, SlotInv
      <3>2. CASE j # k
        BY <3>2, Zenon DEF UpInv, PacketInv, SlotInv
      <3> QED
        BY <3>1, <3>2, Zenon
    <2> QED
      BY <2>1, Zenon DEF UpInv, PacketInv, SlotInv
  <1>2. CallInv'
    BY Zenon DEF UpInv, PacketInv, CallInv, Before, Started
  <1>3. \A j \in Slots : Ours(j)' => Kept(j)'
    <2> SUFFICES ASSUME NEW j \in Slots, Ours(j)' PROVE Kept(j)'
      BY Zenon
    <2>1. Ours(j)
      BY Zenon DEF Ours
    <2>2. CASE j = k
      BY <2>1, <2>2, Zenon
    <2>3. CASE j # k
      <3>1. Kept(j) /\ cdata'[j] # "closed"
        BY <2>1, Zenon DEF UpInv, PacketInv, Kept
      <3> QED
        BY <2>3, <3>1, KeptSame, Zenon
    <2> QED
      BY <2>2, <2>3, Zenon
  <1> QED
    BY <1>1, <1>2, <1>3, Zenon DEF PacketInv

(* A packet that is sent goes to the end of the connection, with the       *)
(* number that follows.                                                    *)
LEMMA PacketSent ==
    ASSUME BaseInv, \A l \in CapLens : PktHdr + l < U16, NEW k \in Slots, Kept(k), c' = c,
           UNCHANGED <<s, cdata>>, t[k].pc = "send", t'[k].pc = "next",
           data'[k] = Append(data[k], PacketMsg(k))
    PROVE  Kept(k)'
  <1>1. /\ c \in ClientRecord /\ data \in [Slots -> Seq(Packet)] /\ s \in [Slots -> Structs]
        /\ SessionInv
    BY SlotTypes, Zenon
  <1>2. PICK q : q = data[k]
    BY Zenon
  <1>3. PICK p : p = PacketMsg(k)
    BY Zenon
  <1>4. p.npkt = s[k].TotCapt /\ p.caplen = t[k].caplen /\ p.plen = (PktHdr + t[k].caplen) % U16
    BY <1>3, SMTT(30) DEF PacketMsg
  <1>5. t[k].caplen \in CapLens /\ s[k].TotCapt # Uninit
    BY <1>1 DEF SessionInv
  <1>6. p.caplen <= p.plen
    <2>1. U16 \in Nat \ {0} /\ PktHdr = 20
      BY SMT DEF U16, PktHdr
    <2>2. t[k].caplen \in Nat /\ PktHdr + t[k].caplen < U16
      BY <1>5, RpcapdAssumption, Zenon
    <2>3. PICK n : n = t[k].caplen
      BY Zenon
    <2>4. n \in Nat /\ 20 + n < 65536
      BY <2>1, <2>2, <2>3, SMTT(30) DEF U16
    <2>5. (20 + n) % U16 = 20 + n
      BY <2>4, SMT DEF U16
    <2> QED
      BY <1>4, <2>1, <2>3, <2>4, <2>5, SMTT(30)
  <1>7. q \in Seq(Packet) /\ c.TotCapt \in Nat
    BY <1>1, <1>2 DEF ClientRecord
  <1> HIDE DEF Packet
  <1>8. /\ Len(q) \in Nat /\ Len(Append(q, p)) = Len(q) + 1 /\ Append(q, p)[Len(q) + 1] = p
        /\ \A i \in 1..Len(q) : Append(q, p)[i] = q[i]
    BY <1>7
  <1>9. s[k].TotCapt = c.TotCapt + (Len(q) + 1)
    <2>1. s[k].TotCapt = c.TotCapt + InTransit(k)
      BY <1>5, Zenon DEF Kept
    <2> QED
      BY <1>2, <2>1 DEF InTransit
  <1>10. InTransit(k)' = Len(q) + 1
    BY <1>2, <1>3, <1>8 DEF InTransit
  <1>11. ASSUME NEW i \in 1..Len(Append(q, p))
         PROVE  /\ Append(q, p)[i].npkt = c.TotCapt + i
                /\ Append(q, p)[i].caplen <= Append(q, p)[i].plen
    <2>1. CASE i = Len(q) + 1
      BY <1>4, <1>6, <1>8, <1>9, <2>1, Zenon
    <2>2. CASE i \in 1..Len(q)
      BY <1>2, <1>8, <2>2, Zenon DEF Kept
    <2> QED
      BY <1>8, <1>11, <2>1, <2>2
  <1> QED
    BY <1>2, <1>3, <1>5, <1>9, <1>10, <1>11, Zenon DEF Kept

(* The data thread keeps PacketInv. *)
LEMMA PacketsData ==
    ASSUME UpInv, c' = c, "read" \notin Faults, \A l \in CapLens : PktHdr + l < U16,
           NEW k \in Slots, DataThread(k)
    PROVE  PacketInv'
  <1>1. /\ s \in [Slots -> Structs] /\ t \in [Slots -> Threads] /\ SessionInv /\ SlotInv
        /\ data \in [Slots -> Seq(Packet)] /\ c \in ClientRecord
    BY SlotTypes, Zenon DEF UpInv, PacketInv
  <1>2. UNCHANGED <<toD, toC, d, cdata>>
    BY Zenon DEF DataThread, ThreadRuns, ThreadInit, ThreadCheck, ThreadWait, ThreadWake,
                 ThreadSend, ThreadPacket, ThreadError, MayFail, Wire
  <1>3. /\ \A j \in Slots : j # k => s'[j] = s[j] /\ t'[j] = t[j] /\ data'[j] = data[j]
        /\ s'[k].live = s[k].live /\ s'[k].sock = s[k].sock
    <2>1. /\ data' = data \/ \E q : data' = [data EXCEPT ![k] = q]
          /\ \/ \E pc : t' = [t EXCEPT ![k].pc = pc]
             \/ \E u : t' = [t EXCEPT ![k] = u]
          /\ \/ s' = s \/ \E n : s' = [s EXCEPT ![k].TotCapt = n]
             \/ s' = [s EXCEPT ![k].brk = FALSE]
      BY Zenon DEF DataThread, ThreadRuns, ThreadInit, ThreadCheck, ThreadWait, ThreadWake,
                   ThreadSend, ThreadPacket, ThreadError, MayFail
    <2>2. \A j \in Slots : j # k => s'[j] = s[j]
      BY <1>1, <2>1, Zenon
    <2>3. \A j \in Slots : j # k => t'[j] = t[j]
      BY <1>1, <2>1, Zenon
    <2>4. \A j \in Slots : j # k => data'[j] = data[j]
      BY <1>1, <2>1, Zenon
    <2>5. s'[k].live = s[k].live /\ s'[k].sock = s[k].sock
      BY <1>1, <2>1 DEF Structs
    <2> QED
      BY <2>2, <2>3, <2>4, <2>5, Zenon
  <1>4. Kept(k) => cdata'[k] # "closed"
    BY <1>2, Zenon DEF Kept
  <1>5. CASE ThreadCheck(k) \/ ThreadWait(k) \/ ThreadWake(k)
    <2>1. /\ t[k].pc # "send" /\ t'[k].pc \notin {"none", "init", "send"} /\ data' = data
          /\ s'[k].TotCapt = s[k].TotCapt
      BY <1>1, <1>5 DEF ThreadCheck, ThreadWait, ThreadWake, Threads, Structs
    <2>2. Kept(k) => Kept(k)'
      BY <1>4, <2>1, KeptSame
    <2>3. Ours(k) => Kept(k)
      BY Zenon DEF UpInv, PacketInv
    <2>4. t'[k].pc \notin {"none", "init"}
      BY <2>1
    <2> QED
      BY <1>2, <1>3, <2>2, <2>3, <2>4, ThreadMoved, Zenon
  <1>6. CASE ThreadInit(k)
    <2>1. /\ t[k].pc = "init" /\ t'[k].pc \in {"next", "exit"} /\ data' = data
          /\ s'[k].TotCapt = 0
      BY <1>1, <1>6 DEF ThreadInit, Threads, Structs
    <2>2. s[k].TotCapt = Uninit
      BY <1>1, <2>1 DEF SlotInv
    <2>3. ASSUME Kept(k) PROVE Kept(k)'
      <3>1. data'[k] = <<>> /\ c'.TotCapt = 0
        BY <2>1, <2>2, <2>3, Zenon DEF Kept
      <3>2. \A i \in 1..Len(data'[k]) : FALSE
        BY <3>1
      <3>3. InTransit(k)' = 0
        BY <2>1, <3>1, SMTT(30) DEF InTransit
      <3>4. s'[k].TotCapt # Uninit /\ s'[k].TotCapt = c'.TotCapt + InTransit(k)'
        BY <2>1, <3>1, <3>3 DEF Uninit
      <3> QED
        BY <1>4, <2>3, <3>2, <3>4, Zenon DEF Kept
    <2>4. t'[k].pc \notin {"none", "init"}
      BY <2>1
    <2>5. Ours(k) => Kept(k)'
      BY <2>3, Zenon DEF UpInv, PacketInv
    <2> QED
      BY <1>2, <1>3, <2>4, <2>5, ThreadMoved, Zenon
  <1>7. ASSUME NEW caplen \in CapLens, ThreadPacket(k, caplen) PROVE PacketInv'
    <2>1. /\ t[k].pc = "wait" /\ t'[k].pc = "send" /\ data' = data
          /\ s'[k].TotCapt = s[k].TotCapt + 1
      BY <1>1, <1>7, SMTT(30) DEF ThreadPacket, Threads, Structs
    <2>2. s[k].TotCapt # Uninit
      BY <1>1, <2>1, SMTT(30) DEF SessionInv
    <2>3. s[k].TotCapt \in Nat
      <3>1. s[k].TotCapt \in 0..MaxPkts /\ MaxPkts \in Nat
        BY <1>1, <2>2, RpcapdAssumption, SMTT(30) DEF Structs
      <3> QED
        BY <3>1
    <2>4. s'[k].TotCapt # Uninit
      BY <2>1, <2>3 DEF Uninit
    <2>5. ASSUME Kept(k) PROVE Kept(k)'
      <3>1. s[k].TotCapt = c.TotCapt + InTransit(k)
        BY <2>2, <2>5, Zenon DEF Kept
      <3>2. PICK n : n = Len(data[k])
        BY Zenon
      <3>3. n \in Nat /\ c.TotCapt \in Nat
        <4>1. data[k] \in Seq(Packet)
          BY <1>1, Zenon
        <4> HIDE DEF Packet
        <4> QED
          BY <1>1, <3>2, <4>1 DEF ClientRecord
      <3>4. InTransit(k) = n /\ InTransit(k)' = n + 1
        BY <2>1, <3>2, <3>3, SMTT(30) DEF InTransit
      <3>5. s'[k].TotCapt = c'.TotCapt + InTransit(k)'
        BY <2>1, <3>1, <3>3, <3>4
      <3> QED
        BY <1>4, <2>1, <2>4, <2>5, <3>5, Zenon DEF Kept
    <2>6. t'[k].pc \notin {"none", "init"}
      BY <2>1
    <2>7. Ours(k) => Kept(k)'
      BY <2>5, Zenon DEF UpInv, PacketInv
    <2> QED
      BY <1>2, <1>3, <2>6, <2>7, ThreadMoved, Zenon
  <1>8. CASE ThreadSend(k)
    <2>1. /\ t[k].pc = "send" /\ s' = s
          /\ \/ t'[k].pc = "next" /\ data'[k] = Append(data[k], PacketMsg(k))
             \/ t'[k].pc = "exit" /\ cdata[k] = "closed"
      BY <1>1, <1>8 DEF ThreadSend, Threads
    <2>2. ASSUME Kept(k) PROVE Kept(k)'
      <3>1. t'[k].pc = "next" /\ data'[k] = Append(data[k], PacketMsg(k))
        BY <2>1, <2>2, Zenon DEF Kept
      <3> QED
        BY <1>2, <2>1, <2>2, <3>1, PacketSent, Zenon DEF UpInv
    <2>3. t'[k].pc \notin {"none", "init"}
      BY <2>1
    <2>4. Ours(k) => Kept(k)'
      BY <2>2, Zenon DEF UpInv, PacketInv
    <2> QED
      BY <1>2, <1>3, <2>3, <2>4, ThreadMoved, Zenon
  <1>9. ~ThreadError(k)
    BY Zenon DEF ThreadError, MayFail
  <1> QED
    BY <1>5, <1>6, <1>7, <1>8, <1>9, Zenon DEF DataThread, ThreadRuns

SessionIInv == BaseInv /\ FdInv /\ (Up => ControlInv) /\ (Up => PacketInv)

(* Every step keeps PacketInv while the connection is open and no start    *)
(* has failed late.                                                        *)
LEMMA PacketsStep ==
    ASSUME "read" \notin Faults, \A l \in CapLens : PktHdr + l < U16
    PROVE  SessionIInv /\ [SessionNext]_allvars => (Up => PacketInv)'
  <1> SUFFICES ASSUME SessionIInv, [SessionNext]_allvars, Up' PROVE PacketInv'
    BY Zenon
  <1>1. CASE Client
    <2>1. ctl' \in {ctl, "closed"} /\ d' = d
      <3>1. ctl' \in {ctl, "closed"}
        BY <1>1 DEF Client, Connect, Authenticated, Rejected, OpenActive, OpenRefused, OpenDone,
               RemoteClose, Start, StartRefused, StartDone, FilterDone, Read, ReadEof, vars, Ask,
               Told, ClosePassive, CloseActive, CloseAnswered, CtlClosed, Aborts, Wire
      <3> QED
        BY <1>1, <3>1, BaseClientStep, ZenonT(30) DEF SessionIInv
    <2>2. Up /\ ctl' = "up"
      BY <2>1 DEF Up
    <2>3. UpInv
      BY <2>2, Zenon DEF SessionIInv, UpInv, Up
    <2> QED
      BY <1>1, <2>2, <2>3, PacketsClientStep, Zenon
  <1>2. CASE OpenFile \/ UNCHANGED allvars
    <2>1. UNCHANGED vars /\ c' = c
      BY <1>2, Zenon DEF OpenFile, allvars, client
    <2>2. UNCHANGED <<c, d, toD, toC, sent, ctl, s, t, data, cdata>>
      BY <2>1, Zenon DEF vars
    <2>3. PacketInv
      BY <2>2, Zenon DEF Up, SessionIInv
    <2>4. SlotInv' /\ CallInv'
      BY <2>2, <2>3, Zenon DEF PacketInv, SlotInv, CallInv, Before, Started
    <2>5. \A k \in Slots : Ours(k)' => Kept(k)'
      BY <2>2, <2>3, Zenon DEF PacketInv, Ours, Kept, InTransit
    <2> QED
      BY <2>4, <2>5, Zenon DEF PacketInv
  <1>3. CASE Daemon /\ UNCHANGED client
    <2>1. ctl' = ctl /\ SameMode /\ c' = c
      BY <1>3, DaemonKeeps, Zenon DEF SessionIInv, BaseInv, client
    <2>2. UpInv /\ ~d'.late
      BY <2>1, Zenon DEF Up, SameMode, SessionIInv, UpInv
    <2> QED
      BY <1>3, <2>1, <2>2, PacketsAuth, PacketsService, PacketsThread, PacketsClose, PacketsData,
         Zenon DEF Daemon, DaemonMain
  <1> QED
    BY <1>1, <1>2, <1>3, Zenon DEF SessionNext

(* PacketInv holds when the session begins. *)
LEMMA PacketsStart == SessionInit => PacketInv
  <1> SUFFICES ASSUME SessionInit PROVE PacketInv
    BY Zenon
  <1>1. c.pc = "none" /\ c.sess = NoSession /\ d.pc = "peek" /\ d.session = NoSession
          /\ d.new = NoSession
    BY DEF SessionInit, DaemonInit, Fresh, NewService
  <1>2. \A k \in Slots : s[k] = NoStruct /\ cdata[k] = "none"
    BY DEF SessionInit, DaemonInit
  <1>3. ~NoStruct.live /\ NoStruct.sock = "none" /\ NoStruct.TotCapt = Uninit
    BY DEF NoStruct
  <1>4. c.pc \notin Reading /\ c.pc \notin {"opened", "starting"} /\ ~Started
    BY <1>1 DEF Reading, Started
  <1>5. SlotInv
    BY <1>1, <1>2, <1>3, Zenon DEF SlotInv
  <1>6. CallInv
    BY <1>2, <1>4 DEF CallInv
  <1> QED
    BY <1>4, <1>5, <1>6 DEF PacketInv, Ours

(* For any number of descriptors, packets, requests and sessions, when the *)
(* capture itself does not fail and the length of a packet's message fits  *)
(* its 16 bits: every packet that the daemon counted (daemon_thrdatamain)  *)
(* was delivered (pcap_read_nocb_remote), is on the data connection or is  *)
(* about to be sent, in order and well formed.                             *)
THEOREM PacketsArrive ==
    ASSUME "read" \notin Faults, \A l \in CapLens : PktHdr + l < U16
    PROVE  SessionSpec => []PacketsConserved
  <1>1. SessionInit => FdInv
    <2> SUFFICES ASSUME SessionInit PROVE FdInv
      OBVIOUS
    <2>1. files = {} /\ cfds = {} /\ c.rmt_sockctrl = NoFd /\ c.rmt_sockdata = NoFd
            /\ c.listen = NoFd /\ c.sess = NoSession /\ c.pc = "none"
      BY DEF SessionInit, Fresh
    <2> QED
      BY <2>1 DEF FdInv
  <1>2. SessionIInv => PacketsConserved
    <2> SUFFICES ASSUME SessionIInv, c.pc \in {"running", "asking"}, d.session = c.sess,
                        s[c.sess].TotCapt # Uninit, ~d.late
                 PROVE  /\ s[c.sess].TotCapt = c.TotCapt + Len(data[c.sess])
                                                 + (IF t[c.sess].pc = "send" THEN 1 ELSE 0)
                        /\ data[c.sess] # <<>> => Head(data[c.sess]).npkt = c.TotCapt + 1
                        /\ \A i \in DOMAIN data[c.sess] :
                              data[c.sess][i].caplen <= data[c.sess][i].plen
      BY Zenon DEF PacketsConserved
    <2>1. /\ data \in [Slots -> Seq(Packet)] /\ c \in ClientRecord /\ c.sess \in Slots \cup {NoSession}
          /\ PlaceInv
      BY SlotTypes, Zenon DEF SessionIInv
    <2>2. ctl = "up"
      <3>1. ctl # "closed" /\ ctl \in {"up", "closed"}
        BY <2>1, SMTT(30) DEF PlaceInv, SessionIInv, BaseInv, IInv, TypeOK
      <3> QED
        BY <3>1
    <2>3. c.sess \in Slots
      BY <2>1 DEF SessionIInv, FdInv
    <2>4. PICK k \in Slots : k = c.sess
      BY <2>3, Zenon
    <2>5. Kept(k)
      BY <2>2, <2>4 DEF SessionIInv, Up, PacketInv, Ours, Reading
    <2>6. PICK q : q = data[k]
      BY Zenon
    <2>7. PICK n : n = IF t[k].pc = "send" THEN 1 ELSE 0
      BY Zenon
    <2>8. q \in Seq(Packet) /\ c.TotCapt \in Nat /\ n \in Nat
      BY <2>1, <2>6, <2>7 DEF ClientRecord
    <2>9. /\ s[k].TotCapt = c.TotCapt + (Len(q) + n)
          /\ \A i \in 1..Len(q) : q[i].npkt = c.TotCapt + i /\ q[i].caplen <= q[i].plen
      BY <2>4, <2>5, <2>6, <2>7, Zenon DEF Kept, InTransit
    <2> HIDE DEF Packet
    <2>10. /\ Len(q) \in Nat /\ DOMAIN q = 1..Len(q)
           /\ q # <<>> => Head(q) = q[1] /\ 1 \in 1..Len(q)
      BY <2>8
    <2>11. s[k].TotCapt = c.TotCapt + Len(q) + n
      BY <2>8, <2>9, <2>10
    <2>12. q # <<>> => Head(q).npkt = c.TotCapt + 1
      BY <2>9, <2>10
    <2>13. \A i \in DOMAIN q : q[i].caplen <= q[i].plen
      BY <2>9, <2>10, Zenon
    <2> QED
      BY <2>4, <2>6, <2>7, <2>11, <2>12, <2>13, Zenon
  <1>3. SessionIInv /\ [SessionNext]_allvars => FdInv'
    BY FdStep, Zenon DEF SessionIInv
  <1>4. SessionIInv /\ [SessionNext]_allvars => (Up => ControlInv)'
    BY ControlStep, Zenon DEF SessionIInv
  <1>5. SessionInit => (Up => ControlInv) /\ (Up => PacketInv)
    BY ControlStart, PacketsStart, Zenon
  <1> QED
    BY <1>1, <1>2, <1>3, <1>4, <1>5, BaseHolds, BaseStep, PacketsStep, PTL
       DEF SessionSpec, SessionIInv
=============================================================================
