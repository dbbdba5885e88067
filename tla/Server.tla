------------------------------- MODULE Server -------------------------------
(***************************************************************************)
(* The main program of the capture daemon, rpcapd/rpcapd.c: it starts a    *)
(* process (on Windows a thread) for every client it is to connect to,     *)
(* listens, starts one for every client that connects, and is stopped or   *)
(* told to reread its configuration by signals.                            *)
(*                                                                         *)
(* A behaviour follows one process through a fork(): the parent, for which *)
(* a child is something that ends at some time, or the child, which runs   *)
(* the service loop of module Rpcapd and leaves the parent's state alone.  *)
(***************************************************************************)
EXTENDS Rpcapd

CONSTANTS
    Systems,     \* "unix", "windows"
    Addresses,   \* what sock_initaddress finds to listen on
    MaxActive,   \* bound on the clients of the active list
    MaxConns,    \* bound on the connections made to the server
    MaxSignals   \* bound on signals sent

ASSUME ServerAssumption ==
    /\ Systems \subseteq {"unix", "windows"} /\ "sockctrl" \notin Addresses
    /\ {MaxActive, MaxConns, MaxSignals} \subseteq Nat

VARIABLE srv     \* the parent, and the process that is followed

\* Process identifiers: the active list's clients come first.
Pids == 1..(MaxActive + MaxConns)
Free == CHOOSE p \in Pids : p \notin srv.children \cup srv.zombies

\* A process that begins.
Process(system, follow, passivemode, active) ==
    [system |-> system, follow |-> follow, passivemode |-> passivemode, active |-> active,
     pc |-> "start", i |-> 0, listen |-> {}, fds |-> {}, queue |-> {}, ready |-> {},
     children |-> {}, zombies |-> {}, sigchld |-> FALSE, shutdown |-> FALSE,
     reread |-> FALSE, event |-> FALSE, hostlist |-> TRUE, activelist |-> TRUE,
     signals |-> 0, conns |-> 0]

Following(who) == srv.follow = who
At(pc) == Following("parent") /\ srv.pc = pc
Alive == srv.pc \notin {"dead", "failed"}
Unix == srv.system = "unix"

-----------------------------------------------------------------------------
(* fork() and _beginthreadex().  Room in Pids stands for the limit on       *)
(* processes: when it is used up the call fails, and it may at any time.    *)
HasRoom == srv.children \cup srv.zombies # Pids
WithChild(r) == [r EXCEPT !.children = @ \cup {Free}]

\* The child serves its one connection, and looks at nothing of what the parent did.
Becomes(child, active) ==
    d.active = active /\ srv' = Process("unix", child, TRUE, 0)

\* main_startup: the processes of the active list.  A fork() that fails is passed
\* over; a thread that cannot be made is tried again.
StartActive ==
    /\ At("start") /\ srv.i < srv.active
    /\ \/ HasRoom /\ srv' = WithChild([srv EXCEPT !.i = @ + 1])
       \/ srv' = [srv EXCEPT !.i = IF Unix THEN @ + 1 ELSE @]
       \/ Becomes("main_active", TRUE)
    /\ UNCHANGED vars

\* ... and the sockets.  Without an address main_startup returns, and without a
\* socket it exits: neither kills the children.  Without passive mode it goes
\* straight to its end.
Listen ==
    /\ At("start") /\ srv.i = srv.active
    /\ \/ ~srv.passivemode /\ srv' = [srv EXCEPT !.pc = "closing"]
       \/ srv.passivemode /\ srv' = [srv EXCEPT !.pc = "failed"]
       \/ /\ srv.passivemode
          /\ \E socks \in SUBSET Addresses \ {{}} :
                srv' = [srv EXCEPT !.listen = socks, !.fds = socks, !.pc = "select"]
    /\ UNCHANGED vars

-----------------------------------------------------------------------------
(* Signals, and the events of Windows. *)

Signals == srv.signals < MaxSignals /\ Alive /\ Following("parent")

\* A handler that returns ends a select() it interrupts with EINTR; it does nothing
\* to one that comes later.  Windows has an event that stays set.
Interrupted(r) ==
    IF Unix THEN [r EXCEPT !.pc = IF @ = "select" THEN "eintr" ELSE @]
            ELSE [r EXCEPT !.event = TRUE]

\* main_terminate, send_shutdown_notification
Terminate ==
    /\ Signals
    /\ srv' = Interrupted([srv EXCEPT !.shutdown = TRUE, !.signals = @ + 1])
    /\ UNCHANGED vars

\* main_reread_config, send_reread_configuration_notification
RereadConfig ==
    /\ Signals
    /\ srv' = Interrupted([srv EXCEPT !.reread = TRUE, !.signals = @ + 1])
    /\ UNCHANGED vars

\* A mutant: one child for each signal.
ReapOne(r) == [r EXCEPT !.zombies = @ \ {CHOOSE z \in @ : TRUE}, !.sigchld = FALSE]

\* main_reap_children: signals that are pending are merged, so all are waited for.
Reap(r) == [r EXCEPT !.zombies = {}, !.sigchld = FALSE]

ReapChildren ==
    /\ Following("parent") /\ srv.sigchld /\ Alive
    /\ srv' = Interrupted(Reap(srv))
    /\ UNCHANGED vars

\* A service loop returns, and its process exits, or its thread.
ChildEnds ==
    /\ Following("parent")
    /\ \E c \in srv.children :
          srv' = IF Unix /\ Alive
                 THEN [srv EXCEPT !.children = @ \ {c}, !.zombies = @ \cup {c}, !.sigchld = TRUE]
                 ELSE [srv EXCEPT !.children = @ \ {c}]
    /\ UNCHANGED vars

-----------------------------------------------------------------------------
(* accept_connections and accept_connection *)

ClientConnects ==
    /\ Following("parent") /\ srv.conns < MaxConns
    /\ \E l \in srv.listen \cap srv.fds :
          srv' = [srv EXCEPT !.queue = @ \cup {l}, !.conns = @ + 1]
    /\ UNCHANGED vars

\* A client gives up before it is accepted.
Withdraw ==
    /\ Following("parent")
    /\ \E l \in srv.queue : srv' = [srv EXCEPT !.queue = @ \ {l}]
    /\ UNCHANGED vars

\* fileconf_read.  A name begins with a letter, and the test for one refuses the
\* line: a file that can be opened empties the lists and sets nothing.
fileconf_read(r) ==
    LET clear == [r EXCEPT !.reread = FALSE] IN
    {clear, [clear EXCEPT !.hostlist = FALSE, !.activelist = FALSE]}

\* A mutant: the configuration is looked at first, and the loop goes on.
RereadFirst(r, next) ==
    IF r.reread THEN \E c \in fileconf_read(r) : srv' = [c EXCEPT !.pc = next]
    ELSE srv' = [r EXCEPT !.pc = IF r.shutdown THEN "leave" ELSE next]

\* What is looked at after EINTR, or once the event was set.
StateChange(r, next) ==
    IF r.shutdown THEN srv' = [r EXCEPT !.pc = "leave"]
    ELSE \E c \in IF r.reread THEN fileconf_read(r) ELSE {r} : srv' = [c EXCEPT !.pc = next]

Eintr == At("eintr") /\ StateChange(srv, "select") /\ UNCHANGED vars

\* select() and WSAWaitForMultipleEvents().  The event comes first, is reset by the
\* wait, and the sockets are looked at after it.
Select ==
    /\ At("select") /\ ~srv.event /\ srv.queue # {}
    /\ srv' = [srv EXCEPT !.ready = srv.queue, !.pc = "accept"]
    /\ UNCHANGED vars

WaitEvent ==
    /\ At("select") /\ srv.event
    /\ StateChange([srv EXCEPT !.event = FALSE, !.ready = srv.queue], "accept")
    /\ UNCHANGED vars

\* Any other failure of the wait: exit(2), without a word to the children.
WaitFails ==
    /\ At("select") /\ MayFail("select")
    /\ srv' = [srv EXCEPT !.fds = {}, !.queue = {}, !.pc = "failed"]
    /\ UNCHANGED vars

\* The sockets that are ready, one after the other.
NextReady ==
    /\ At("accept") /\ srv.ready = {}
    /\ srv' = [srv EXCEPT !.pc = "select"]
    /\ UNCHANGED vars

\* accept() waits for a connection that was withdrawn, whatever signals come (EINTR
\* is ignored); Windows' listening sockets do not block.
Taken(l) == [srv EXCEPT !.ready = @ \ {l}]

AcceptConnection ==
    /\ At("accept")
    /\ \E l \in srv.ready :
          \/ l \in srv.queue /\ srv' = [Taken(l) EXCEPT !.queue = @ \ {l},
                                                       !.fds = @ \cup {"sockctrl"},
                                                       !.pc = "fork"]
          \/ (MayFail("accept") \/ ~Unix) /\ srv' = Taken(l)
    /\ UNCHANGED vars

\* A UNIX parent closes the connection when its child has it, and when there is no
\* child to take it; a Windows thread shares it and closes it at its end.
GivenAway(r) ==
    [r EXCEPT !.fds = @ \ {"sockctrl"}, !.pc = "accept"]

StartService ==
    /\ At("fork")
    /\ \/ HasRoom /\ srv' = GivenAway(WithChild(srv))
       \/ srv' = GivenAway(srv)
       \/ Becomes("passive", FALSE)
    /\ UNCHANGED vars

\* The end of accept_connections, and of main_startup: kill(0, SIGKILL), which kills
\* the process itself, or exit() and all threads with it.
Leave ==
    /\ At("leave")
    /\ srv' = [srv EXCEPT !.queue = {}, !.fds = {}, !.pc = "closing"]
    /\ UNCHANGED vars

Kill ==
    /\ At("closing")
    /\ srv' = [srv EXCEPT !.children = {}, !.zombies = {}, !.pc = "dead"]
    /\ UNCHANGED vars

-----------------------------------------------------------------------------
(* The child. *)

\* main_active connects until it is told to close: sock_open fails and is tried
\* again (a step that changes nothing), and a connection that ended is replaced.
\* What a session that a second STARTCAP left behind still does is not followed.
Reconnect ==
    /\ Following("main_active") /\ d.pc = "gone" /\ ~d.told
    /\ toD' = <<>> /\ toC' = <<>> /\ ctl' = "up" /\ sent' = 0
    /\ d' = NewService(TRUE)
    /\ s' = [k \in Slots |-> NoStruct] /\ t' = [k \in Slots |-> NoThread]
    /\ data' = [k \in Slots |-> <<>>] /\ cdata' = [k \in Slots |-> "none"]
    /\ srv' = srv

Serve == srv.follow # "parent" /\ Next /\ UNCHANGED srv

ParentSteps ==
    \/ StartActive \/ Listen \/ Eintr \/ Select \/ WaitEvent \/ NextReady
    \/ AcceptConnection \/ StartService \/ Leave \/ Kill

ServerNext ==
    \/ ParentSteps \/ ReapChildren \/ WaitFails
    \/ Terminate \/ RereadConfig \/ ChildEnds \/ ClientConnects \/ Withdraw
    \/ Serve \/ Reconnect

\* main() up to main_startup: the options, and inetd, for which the process is the
\* service.
ServerInit ==
    /\ DaemonInit
    /\ \E system \in Systems, passivemode, inetd \in BOOLEAN, active \in 0..MaxActive :
          /\ inetd => system = "unix" /\ ~d.active /\ passivemode /\ active = 0
          /\ srv = Process(system, IF inetd THEN "passive" ELSE "parent",
                           passivemode, active)

ServerFairness ==
    /\ WF_<<vars, srv>>(ParentSteps)
    /\ WF_<<vars, srv>>(srv.follow # "parent" /\ DaemonMain /\ UNCHANGED srv)
    /\ \A k \in Slots : WF_<<vars, srv>>(srv.follow # "parent" /\ ThreadRuns(k) /\ UNCHANGED srv)

ServerSpec == ServerInit /\ [][ServerNext]_<<vars, srv>> /\ ServerFairness

-----------------------------------------------------------------------------
\* Between connections the server holds its listening sockets and nothing else; a
\* child that has ended is waited for or its signal is still to come, however many
\* ended at once; and a server that is stopped has stopped its children.
ServerInv ==
    /\ srv.pc \in {"select", "eintr", "accept"} => srv.fds = srv.listen
    /\ srv.zombies # {} => srv.sigchld
    /\ srv.pc = "dead" => srv.children = {}

\* A server that is told to stop while it waits for connections stops; on Windows,
\* also when it is told while it does something else.
StopsWhenTold ==
    (srv.shutdown /\ (srv.pc = "eintr" \/ srv.event))
        ~> (~Alive \/ ~Following("parent"))

=============================================================================
