----------------------------- MODULE DltEvents -----------------------------
(***************************************************************************)
(* The event loop of the daemon (dlt_daemon_event_handler.c), its list of  *)
(* connections (dlt_daemon_connection.c) and the callbacks of the          *)
(* connections, as far as they open and close descriptors.                 *)
(*                                                                         *)
(* One call of poll fills the table pfd; the loop then walks over that     *)
(* table while its callbacks remove entries from it, append entries to it, *)
(* close descriptors and open others, for which the kernel hands out the   *)
(* numbers just freed.  Meanwhile the other ends send, close and reset.    *)
(* What a callback does to the messages is the business of DltDaemon and   *)
(* DltRegistry; here it is which connections it leaves behind.             *)
(***************************************************************************)
EXTENDS Integers, Sequences, FiniteSets, SequencesExt, FiniteSetsExt

CONSTANTS
    MaxFd,      \* bound: the descriptors are DLT_FD_MINIMUM..MaxFd
    MaxPeers,   \* bound: connections clients and applications ever open
    Nodes,      \* number of passive nodes the gateway knows, see DltGateway
    Scenarios   \* the sets of the options below a run looks at

(***************************************************************************)
(* Options: "sockets", applications connect through a socket and not a     *)
(* FIFO; "serial", a serial line is configured; "files", a descriptor is   *)
(* taken by a log file; "resets", a connection may be reset as well as     *)
(* closed; "quiet", no peer connects; the rest belongs to DltGateway.      *)
(***************************************************************************)

DLT_FD_MINIMUM == 3
Fd == DLT_FD_MINIMUM..MaxFd

(* What a descriptor refers to: nothing, an end of the daemon's own, a     *)
(* peer (its position in peers), or the socket to a passive node.          *)
Free == 0
Fifo == -1
AppSocket == -2
ClientSocket == -3
ControlSocket == -4
SerialLine == -5
OneSecondTimer == -6
GatewayTimer == -7
LogFile == -8
NodeSocket(k) == MaxPeers + k

(* The connection type of what a listening socket accepts. *)
Accepts == [s \in {AppSocket, ClientSocket, ControlSocket} |->
                CASE s = AppSocket -> "APP_MSG"
                  [] s = ClientSocket -> "CLIENT_MSG_TCP"
                  [] s = ControlSocket -> "CONTROL_MSG"]

ConnectionType ==
    {"CLIENT_CONNECT", "CLIENT_MSG_TCP", "CLIENT_MSG_SERIAL", "APP_CONNECT", "APP_MSG",
     "ONE_S_TIMER", "CONTROL_CONNECT", "CONTROL_MSG", "GATEWAY", "GATEWAY_TIMER"}

IsClient(type) == type \in {"CLIENT_MSG_TCP", "CLIENT_MSG_SERIAL"}

VARIABLES
    handler,    \* [connections, pfd, client_connections, fds], see below
    peers,      \* sequence of [type, state, data]: the other ends
    nodes,      \* [1..Nodes -> [up, state, data]]: the passive nodes
    backlog,    \* peers that wait to be accepted, in order
    input,      \* the daemon's own ends that can be read
    index,      \* the entry of pfd the loop is at; 0: about to call poll
    running,    \* "yes", or why the loop has ended
    scenario

evVars == <<handler, peers, nodes, backlog, input, index, running, scenario>>

(***************************************************************************)
(* handler.connections is the linked list, a sequence of [fd, type];       *)
(* handler.pfd the first nfds entries of the poll table, [fd, revents, of] *)
(* where of is what fd referred to when poll was called; handler.fds is    *)
(* the descriptor table of the process, kept by the kernel.                *)
(***************************************************************************)
Lowest(h) == Min({f \in Fd : h.fds[f] = Free})
HasFree(h) == \E f \in Fd : h.fds[f] = Free

find_connection(h, fd) == SelectInSeq(h.connections, LAMBDA c : c.fd = fd)

(* mutant: the new entry is not cleared, the rest of an old one shows *)
enable_fd_NotCleared(h, fd) ==
    [h EXCEPT !.pfd = Append(@, [fd |-> fd, revents |-> {"IN"}, of |-> Free])]

enable_fd(h, fd) ==
    [h EXCEPT !.pfd = Append(@, [fd |-> fd, revents |-> {}, of |-> Free])]

(* mutant: the entry of the poll table is left for the loop to clean up *)
disable_fd_Later(h, fd) == h

(* The table is compressed: the results of poll move with their entries.   *)
(* Of two entries with that number the second would stay (see TablesMatch).*)
disable_fd(h, fd) == [h EXCEPT !.pfd = RemoveFirstMatch(@, LAMBDA e : e.fd = fd)]

register_connection(h, fd, type) ==
    enable_fd([h EXCEPT !.connections = Append(@, [fd |-> fd, type |-> type]),
                        !.client_connections = @ + IF IsClient(type) THEN 1 ELSE 0],
              fd)

connection_create(h, fd, type) ==
    IF fd < 0 \/ find_connection(h, fd) # 0 THEN h
    ELSE register_connection(h, fd, type)

Uncount(h, type) ==
    [h EXCEPT !.client_connections =
        Max({0, @ - IF IsClient(type) THEN 1 ELSE 0})]

(* Deactivating the client socket sets its receiver's fd to -1, so that    *)
(* destroying the connection closes nothing.                               *)
CloseReceiver(h, c) ==
    IF c.type = "CLIENT_CONNECT" THEN h ELSE [h EXCEPT !.fds[c.fd] = Free]

unregister_connection(h, fd) ==
    LET i == find_connection(h, fd)
        c == h.connections[i]
    IN  IF i = 0 THEN h
        ELSE [CloseReceiver(disable_fd(Uncount(h, c.type), fd), c)
                EXCEPT !.connections = RemoveAt(@, i)]

(***************************************************************************)
(* Sending to all clients closes those it fails for, in dlt_daemon_close_  *)
(* socket, which sends again.  Which of the broken clients are found out   *)
(* depends on how much each send gets through: any of them may be.         *)
(***************************************************************************)
Broken(h) ==
    {fd \in Fd : /\ \E c \in Range(h.connections) :
                        c.fd = fd /\ c.type = "CLIENT_MSG_TCP"
                 /\ h.fds[fd] \in DOMAIN peers
                 /\ peers[h.fds[fd]].state # "open"}

Closed(h, S) == FoldSet(LAMBDA fd, g : unregister_connection(g, fd), h, S)

AfterSending(h) == {Closed(h, S) : S \in SUBSET Broken(h)}

close_socket(h, fd) == AfterSending(unregister_connection(h, fd))

(***************************************************************************)
(* Start: the ends the daemon opens, in the order of                       *)
(* dlt_daemon_local_connection_init and main.                              *)
(***************************************************************************)
Open(h, end, type) ==
    LET fd == Lowest(h)
    IN  connection_create([h EXCEPT !.fds[fd] = end], fd, type)

dlt_daemon_prepare_event_handling(sc) ==
    [connections |-> <<>>, pfd |-> <<>>, client_connections |-> 0,
     fds |-> [f \in Fd |-> IF "files" \in sc /\ f = MaxFd THEN LogFile ELSE Free]]

dlt_daemon_init_fifo(h) == Open(h, Fifo, "APP_MSG")
dlt_daemon_init_app_socket(h) == Open(h, AppSocket, "APP_CONNECT")
dlt_daemon_socket_open(h) == Open(h, ClientSocket, "CLIENT_CONNECT")
dlt_daemon_initialize_control_socket(h) == Open(h, ControlSocket, "CONTROL_CONNECT")

dlt_daemon_init_serial(h, sc) ==
    IF "serial" \in sc THEN Open(h, SerialLine, "CLIENT_MSG_SERIAL") ELSE h

create_timer_fd(h, timer, type) == Open(h, timer, type)

dlt_daemon_local_connection_init(sc) ==
    LET empty == dlt_daemon_prepare_event_handling(sc)
        app == IF "sockets" \in sc THEN dlt_daemon_init_app_socket(empty)
               ELSE dlt_daemon_init_fifo(empty)
    IN  dlt_daemon_init_serial(
            dlt_daemon_initialize_control_socket(dlt_daemon_socket_open(app)), sc)

StartedHandler(sc) ==
    create_timer_fd(dlt_daemon_local_connection_init(sc), OneSecondTimer, "ONE_S_TIMER")

(***************************************************************************)
(* The other ends.                                                         *)
(***************************************************************************)
Dead == [type |-> "none", state |-> "closed", data |-> {}]

(* A peer the daemon has closed its end of takes no further part. *)
Settled(h, ps, waiting) ==
    [p \in DOMAIN ps |->
        IF p \in Range(waiting) \/ \E f \in Fd : h.fds[f] = p THEN ps[p] ELSE Dead]

ListensFor(type) ==
    \E f \in Fd : handler.fds[f] \in DOMAIN Accepts /\ Accepts[handler.fds[f]] = type

(* Bound: where the gateway is looked at, one peer and no other input. *)
PeersAllowed ==
    CASE "quiet" \in scenario -> 0
      [] "gateway" \in scenario -> Min({1, MaxPeers})
      [] OTHER -> MaxPeers

PeerConnects(type) ==
    /\ Len(peers) < PeersAllowed
    /\ ListensFor(type)
    /\ peers' = Append(peers, [type |-> type, state |-> "open", data |-> {}])
    /\ backlog' = Append(backlog, Len(peers) + 1)
    /\ UNCHANGED <<handler, nodes, input, index, running, scenario>>

PeerSends(p) ==
    /\ peers[p].state = "open" /\ peers[p].data = {}
    /\ peers' = [peers EXCEPT ![p].data = {"request"}]
    /\ UNCHANGED <<handler, nodes, backlog, input, index, running, scenario>>

PeerLeaves(p, how) ==
    /\ peers[p].state = "open"
    /\ how = "reset" => "resets" \in scenario
    /\ peers' = [peers EXCEPT ![p].state = how]
    /\ UNCHANGED <<handler, nodes, backlog, input, index, running, scenario>>

(* A timer expires, an application writes into the FIFO, bytes arrive on   *)
(* the serial line.                                                        *)
InputArrives(end) ==
    /\ end \in Range(handler.fds) \ input
    /\ end \in {Fifo, SerialLine, OneSecondTimer, GatewayTimer}
    /\ "gateway" \in scenario => end = GatewayTimer
    /\ input' = input \cup {end}
    /\ UNCHANGED <<handler, peers, nodes, backlog, index, running, scenario>>

(***************************************************************************)
(* poll.                                                                   *)
(***************************************************************************)
PeerEvents(p) ==
    (IF p.data # {} \/ p.state # "open" THEN {"IN"} ELSE {})
        \cup (IF p.state = "reset" THEN {"ERR"} ELSE {})

(* Where the first peer that waits at socket s is in backlog, or 0. *)
WaitingFor(s) == SelectInSeq(backlog, LAMBDA p : peers[p].type = Accepts[s])

EndEvents(end) ==
    IF end = Free THEN {"NVAL"}
    ELSE IF end \in DOMAIN Accepts
    THEN IF WaitingFor(end) # 0 THEN {"IN"} ELSE {}
    ELSE IF end < 0 THEN IF end \in input THEN {"IN"} ELSE {}
    ELSE PeerEvents(IF end <= MaxPeers THEN peers[end] ELSE nodes[end - MaxPeers])

Polled(h) ==
    [h EXCEPT !.pfd = <<>> \o [i \in DOMAIN @ |->
        [fd |-> @[i].fd, revents |-> EndEvents(h.fds[@[i].fd]), of |-> h.fds[@[i].fd]]]]

Poll ==
    /\ running = "yes" /\ index = 0
    /\ \E e \in Range(handler.pfd) : EndEvents(handler.fds[e.fd]) # {}
    /\ handler' = Polled(handler)
    /\ index' = 1
    /\ UNCHANGED <<peers, nodes, backlog, input, running, scenario>>

(***************************************************************************)
(* The loop over the table.  Advance: i++ and the comparison with nfds,    *)
(* which a callback may have changed.                                      *)
(***************************************************************************)
Entry == handler.pfd[index]
Con == handler.connections[find_connection(handler, Entry.fd)]

(* mutant: after one entry poll is called again *)
Advance_FirstOnly(h) == index' = 0

Advance(h) == index' = IF index < Len(h.pfd) THEN index + 1 ELSE 0

AtEvent == running = "yes" /\ index # 0 /\ Entry.revents # {}

(* An entry without a connection is taken out of the table. *)
NoEvent ==
    /\ running = "yes" /\ index # 0
    /\ Entry.revents = {} \/ find_connection(handler, Entry.fd) = 0
    /\ handler' = IF Entry.revents = {} THEN handler ELSE disable_fd(handler, Entry.fd)
    /\ Advance(handler')
    /\ UNCHANGED <<peers, nodes, backlog, input, running, scenario>>

Rejected == Entry.revents \cap {"ERR", "NVAL"} # {}

(* The error events: dlt_daemon_close_socket for a TCP client, for others  *)
(* only the connection is unregistered.                                    *)
HandleRejected ==
    /\ AtEvent /\ Rejected
    /\ find_connection(handler, Entry.fd) # 0
    /\ \E h \in IF Con.type = "CLIENT_MSG_TCP" THEN close_socket(handler, Con.fd)
                ELSE {unregister_connection(handler, Con.fd)} :
          /\ handler' = h
          /\ peers' = Settled(h, peers, backlog)
          /\ Advance(h)
    /\ UNCHANGED <<nodes, backlog, input, running, scenario>>

Callback(type) ==
    /\ AtEvent /\ ~Rejected
    /\ find_connection(handler, Entry.fd) # 0
    /\ Con.type = type

(* The callback leaves handler h, the peers ps and these waiting. *)
Returns(h, ps, waiting) ==
    /\ handler' = h
    /\ backlog' = waiting
    /\ peers' = Settled(h, ps, waiting)
    /\ Advance(h)
    /\ UNCHANGED <<nodes, running, scenario>>

(* A callback returned -1: dlt_daemon_handle_event does, and main's loop   *)
(* ends; dlt_event_handler_cleanup_connections closes what is connected.   *)
Cleanup(h) ==
    [h EXCEPT !.fds = [f \in Fd |-> IF find_connection(h, f) = 0 THEN @[f] ELSE Free],
              !.connections = <<>>, !.pfd = <<>>]

LoopEnds(why) ==
    /\ running' = why
    /\ handler' = Cleanup(handler)
    /\ index' = 0
    /\ peers' = <<>> /\ backlog' = <<>> /\ input' = {}
    /\ UNCHANGED <<nodes, scenario>>

(* accept() of the first peer that waits at the socket. *)
Accepted(h, p) ==
    connection_create([h EXCEPT !.fds[Lowest(h)] = p], Lowest(h), peers[p].type)

Accept(socket, type) ==
    /\ Callback(type)
    /\ WaitingFor(socket) # 0
    /\ LET p == backlog[WaitingFor(socket)]
           rest == RemoveAt(backlog, WaitingFor(socket))
       IN  IF ~HasFree(handler) THEN LoopEnds("accept failed")
           ELSE IF peers[p].state = "reset" /\ type = "CLIENT_CONNECT"
           THEN Returns(handler, peers, rest) /\ UNCHANGED input     \* ECONNABORTED
           ELSE \E h \in IF type = "CLIENT_CONNECT"
                         THEN AfterSending(Accepted(handler, p))
                         ELSE {Accepted(handler, p)} :
                    Returns(h, peers, rest) /\ UNCHANGED input

dlt_daemon_process_client_connect == Accept(ClientSocket, "CLIENT_CONNECT")
dlt_daemon_process_control_connect == Accept(ControlSocket, "CONTROL_CONNECT")
dlt_daemon_process_app_connect == Accept(AppSocket, "APP_CONNECT")

(* The peer of the current entry, when it has sent something. *)
Sender == handler.fds[Con.fd]
HasData == Sender \in DOMAIN peers /\ peers[Sender].data # {}
AtEnd == Sender \in DOMAIN peers /\ peers[Sender].data = {} /\ peers[Sender].state # "open"

Consumed == [peers EXCEPT ![Sender].data = {}]

(* A request is answered on the socket it came from, without closing it. *)
dlt_daemon_process_client_messages ==
    /\ Callback("CLIENT_MSG_TCP")
    /\ \/ HasData /\ Returns(handler, Consumed, backlog)
       \/ AtEnd /\ \E h \in close_socket(handler, Con.fd) : Returns(h, peers, backlog)
    /\ UNCHANGED input

dlt_daemon_process_control_messages ==
    /\ Callback("CONTROL_MSG")
    /\ \/ HasData /\ Returns(handler, Consumed, backlog)
       \/ AtEnd /\ \E h \in close_socket(handler, Con.fd) : Returns(h, peers, backlog)
    /\ UNCHANGED input

(* Messages of applications are forwarded to all clients. *)
dlt_daemon_process_user_messages ==
    /\ Callback("APP_MSG")
    /\ \/ /\ Sender = Fifo /\ Fifo \in input
          /\ \E h \in AfterSending(handler) : Returns(h, peers, backlog)
          /\ input' = input \ {Fifo}
       \/ /\ HasData
          /\ \E h \in AfterSending(handler) : Returns(h, Consumed, backlog)
          /\ UNCHANGED input
       \/ /\ AtEnd
          /\ \E h \in close_socket(handler, Con.fd) : Returns(h, peers, backlog)
          /\ UNCHANGED input

(* The serial line: a read that gives nothing ends the loop. *)
dlt_daemon_process_client_messages_serial ==
    /\ Callback("CLIENT_MSG_SERIAL")
    /\ SerialLine \in input
    /\ \/ input' = input \ {SerialLine} /\ Returns(handler, peers, backlog)
       \/ LoopEnds("serial failed")

dlt_daemon_process_one_s_timer ==
    /\ Callback("ONE_S_TIMER")
    /\ OneSecondTimer \in input
    /\ input' = input \ {OneSecondTimer}
    /\ \E h \in AfterSending(handler) : Returns(h, peers, backlog)

(* SIGTERM: g_exit is looked at between two rounds. *)
dlt_daemon_signal_handler ==
    /\ running = "yes" /\ index = 0
    /\ LoopEnds("signal")

Dispatch ==
    \/ NoEvent
    \/ HandleRejected
    \/ dlt_daemon_process_client_connect
    \/ dlt_daemon_process_control_connect
    \/ dlt_daemon_process_app_connect
    \/ dlt_daemon_process_client_messages
    \/ dlt_daemon_process_control_messages
    \/ dlt_daemon_process_user_messages
    \/ dlt_daemon_process_client_messages_serial
    \/ dlt_daemon_process_one_s_timer

Environment ==
    \/ \E type \in {"CLIENT_MSG_TCP", "CONTROL_MSG", "APP_MSG"} : PeerConnects(type)
    \/ \E p \in DOMAIN peers :
          PeerSends(p) \/ \E how \in {"closed", "reset"} : PeerLeaves(p, how)
    \/ \E end \in {Fifo, SerialLine, OneSecondTimer, GatewayTimer} : InputArrives(end)
    \/ dlt_daemon_signal_handler

(***************************************************************************)
(* Properties.                                                             *)
(***************************************************************************)

(* A callback is called for the very thing that was ready when poll was    *)
(* called, and is ready still: a number that was closed and handed out     *)
(* again in the same round does not inherit the event of its predecessor.  *)
(* (The callbacks read and accept without O_NONBLOCK: a false event would  *)
(* stop the daemon.)                                                       *)
EventsAreFresh ==
    AtEvent /\ find_connection(handler, Entry.fd) # 0 =>
        /\ handler.fds[Con.fd] = Entry.of
        /\ Entry.revents \subseteq EndEvents(Entry.of)

(* The poll table and the list of connections hold the same descriptors,   *)
(* each once, whatever was removed and appended in the middle of a round.  *)
TablesMatch ==
    LET of(s) == [i \in DOMAIN s |-> s[i].fd]
    IN  /\ of(handler.pfd) = of(handler.connections)
        /\ IsInjective(of(handler.pfd))

(* client_connections, by which the daemon decides whether to buffer, is   *)
(* the number of client connections there are.                             *)
CountsClients ==
    running = "yes" => handler.client_connections =
        Cardinality({i \in DOMAIN handler.connections : IsClient(handler.connections[i].type)})

(* No descriptor is left open without a connection: not when a client is   *)
(* found gone while a message is sent to it, and not when the daemon ends. *)
NothingLeaks ==
    \A f \in Fd : handler.fds[f] \notin {Free, LogFile} => find_connection(handler, f) # 0

(* Whatever the removals in front of it do to the loop, a peer that has    *)
(* sent something is served, unless the daemon ends.                       *)
Served(p) ==
    p \in DOMAIN peers => peers[p].data = {} \/ peers[p].type = "none"
NobodyStarves == \A p \in 1..MaxPeers : []<>(Served(p) \/ running # "yes")
=============================================================================
