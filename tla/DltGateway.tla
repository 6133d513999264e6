---------------------------- MODULE DltGateway -----------------------------
(***************************************************************************)
(* The gateway (dlt_gateway.c) on top of the event loop: the daemon as a   *)
(* client of passive nodes.  A connection to a node is kept twice: as an   *)
(* entry of gateway->connections with a status and the number of its       *)
(* socket, and as a connection of the event loop, which closes the socket. *)
(* The number stays in the entry after the socket was closed, and also     *)
(* after an attempt to connect that failed.                                *)
(***************************************************************************)
EXTENDS DltEvents

CONSTANTS
    Timeout,    \* the Timeout option: failed attempts before giving up, or 0
    Messages    \* sequence of [type, interval]: the control messages configured

ASSUME GatewayAssumption ==
    /\ MaxFd \in Nat /\ MaxPeers \in Nat /\ Nodes \in Nat /\ Timeout \in Nat
    /\ Scenarios \subseteq
        SUBSET {"sockets", "serial", "files", "resets", "quiet", "gateway", "messages", "demand", "strange"}
    /\ Messages \in Seq([type : {"ON_STARTUP", "PERIODIC", "BOTH"}, interval : Int])
    \* the descriptors suffice for what is opened before the first call of poll
    /\ \A s \in Scenarios :
        DLT_FD_MINIMUM + 4 + Cardinality(s \cap {"serial", "files"})
          + (IF "gateway" \in s THEN 1 + Nodes ELSE 0) <= MaxFd + 1

(***************************************************************************)
(* Options: "gateway", GatewayMode is on; "messages", control messages are *)
(* configured; "demand", the nodes are to be connected on demand and       *)
(* clients ask for it; "strange", a node may send messages with an ECU id  *)
(* that is not the one configured.                                         *)
(***************************************************************************)

DLT_GATEWAY_RECONNECT_MAX == 1
ReconnectMax == DLT_GATEWAY_RECONNECT_MAX

VARIABLES
    gateway,    \* the entries: [status, trigger, sock, timeout_cnt,
                \*               reconnect_cnt, sendtime_cnt]
    due,        \* [1..Nodes -> [DOMAIN CtrlMsgs -> ticks since it was sent]]
    stray       \* what the gateway did to a descriptor that was not its own

gwVars == <<gateway, due, stray>>
vars == <<evVars, gwVars>>

Node == 1..Nodes

Never == -1

(* The part of the state the functions of the gateway work on. *)
World == [h |-> handler, gw |-> gateway, nodes |-> nodes, due |-> due, stray |-> stray]

Becomes(w) ==
    /\ handler' = w.h /\ gateway' = w.gw /\ nodes' = w.nodes
    /\ due' = w.due /\ stray' = w.stray

(***************************************************************************)
(* dlt_client_connect over TCP: socket() takes the lowest number; when     *)
(* connect() fails that number is closed, and stays in client.sock.        *)
(***************************************************************************)
dlt_client_connect(w, k) ==
    IF ~HasFree(w.h) THEN [w EXCEPT !.gw[k].sock = -1]
    ELSE IF w.nodes[k].up
    THEN [w EXCEPT !.gw[k].sock = Lowest(w.h),
                   !.h.fds[Lowest(w.h)] = NodeSocket(k),
                   !.nodes[k].state = "open",
                   !.nodes[k].data = {}]
    ELSE [w EXCEPT !.gw[k].sock = Lowest(w.h)]

Connected(w, k) == HasFree(w.h) /\ w.nodes[k].up

(* dlt_gateway_get_connection_receiver finds the receiver of a connected   *)
(* entry with that number; without one no connection is created.           *)
CreateGatewayConnection(w, k) ==
    IF \E j \in Node : w.gw[j].status = "CONNECTED" /\ w.gw[j].sock = w.gw[k].sock
    THEN [w EXCEPT !.h = connection_create(@, w.gw[k].sock, "GATEWAY")]
    ELSE w

(***************************************************************************)
(* Control messages.  Sendtime: the product of the periods.  SendsNow is   *)
(* the test in dlt_gateway_send_control_message.                           *)
(***************************************************************************)
CtrlMsgs == IF "messages" \in scenario THEN Messages ELSE <<>>

IsPeriodic(m) == m.type \in {"PERIODIC", "BOTH"}

Sendtime ==
    FoldLeft(LAMBDA t, m : t * IF IsPeriodic(m) /\ m.interval > 0 THEN m.interval ELSE 1,
             1, CtrlMsgs)

(* mutant: the counter is tested without the - 1 *)
SendsNow_OffByOne(m, cnt) ==
    cnt > 0 => m.interval > 0 /\ (IsPeriodic(m) => cnt % (m.interval + 1) = 0)

SendsNow(m, cnt) ==
    cnt > 0 => m.interval > 0 /\ (IsPeriodic(m) => (cnt - 1) % m.interval = 0)

(* Sending i to entry k, through the number the entry has. *)
SendMessage(w, k, i) ==
    IF ~SendsNow(CtrlMsgs[i], w.gw[k].sendtime_cnt) THEN w
    ELSE [w EXCEPT !.due[k][i] = 0,
                   !.stray = @ \cup
                      IF w.gw[k].sock \in Fd
                         /\ w.h.fds[w.gw[k].sock] \notin {Free, NodeSocket(k)}
                      THEN {"sent"} ELSE {}]

SendMessages(w, k, types) ==
    FoldLeft(LAMBDA v, i : IF CtrlMsgs[i].type \in types THEN SendMessage(v, k, i) ELSE v,
             w, [i \in DOMAIN CtrlMsgs |-> i])

dlt_gateway_add_to_event_loop(w, k) ==
    LET con == [w.gw[k] EXCEPT !.status = "CONNECTED", !.reconnect_cnt = 0,
                               !.timeout_cnt = 0, !.sendtime_cnt = 0]
        v == SendMessages(CreateGatewayConnection([w EXCEPT !.gw[k] = con,
                                                            !.due[k] = [i \in DOMAIN CtrlMsgs |-> Never]], k),
                          k, {"ON_STARTUP", "BOTH"})
    IN  [v EXCEPT !.gw[k].sendtime_cnt = Sendtime]

(* mutant: a limit of 0 is taken for a limit *)
ConnectFailed_GivesUp(w, k) == [w EXCEPT !.gw[k].trigger = "DISABLED"]

(* An attempt failed: the counter is only looked at when there is a limit. *)
ConnectFailed(w, k) ==
    LET n == w.gw[k].timeout_cnt + 1
    IN  IF Timeout = 0 THEN w
        ELSE [w EXCEPT !.gw[k].timeout_cnt = n,
                       !.gw[k].trigger = IF n > Timeout THEN "DISABLED" ELSE @]

NextSendtime(cnt) == IF cnt <= 1 THEN Sendtime ELSE cnt - 1

(* What a tick does for a connected entry. *)
PeriodicMessages(w, k) ==
    LET aged == [w EXCEPT !.due[k] = [i \in DOMAIN @ |-> IF @[i] = Never THEN Never
                                                         ELSE Min({@[i] + 1, Sendtime + 1})]]
        v == SendMessages(CreateGatewayConnection(aged, k), k, {"PERIODIC", "BOTH"})
    IN  [v EXCEPT !.gw[k].sendtime_cnt = NextSendtime(@)]

EstablishOne(w, k) ==
    IF w.gw[k].status # "CONNECTED"
    THEN IF w.gw[k].trigger \in {"ON_DEMAND", "DISABLED"} THEN w
         ELSE IF Connected(w, k)
         THEN dlt_gateway_add_to_event_loop(dlt_client_connect(w, k), k)
         ELSE ConnectFailed(dlt_client_connect(w, k), k)
    ELSE IF w.gw[k].trigger = "DISABLED" THEN w
    ELSE PeriodicMessages(w, k)

dlt_gateway_establish_connections(w) ==
    FoldLeft(EstablishOne, w, [k \in Node |-> k])

(***************************************************************************)
(* Start: dlt_gateway_init connects before the gateway's timer is created. *)
(***************************************************************************)
InitialEntry(sc) ==
    [status |-> "INITIALIZED", sock |-> -1, timeout_cnt |-> 0, reconnect_cnt |-> 0,
     sendtime_cnt |-> 0, trigger |-> IF "demand" \in sc THEN "ON_DEMAND" ELSE "ON_STARTUP"]

dlt_gateway_init(sc, ns) ==
    dlt_gateway_establish_connections(
        [h |-> StartedHandler(sc), nodes |-> ns, stray |-> {},
         gw |-> [k \in Node |-> InitialEntry(sc)],
         due |-> [k \in Node |-> [i \in DOMAIN CtrlMsgs |-> Never]]])

Init ==
    /\ scenario \in Scenarios
    /\ peers = <<>> /\ backlog = <<>> /\ input = {}
    /\ index = 0 /\ running = "yes"
    /\ \E up \in [Node -> IF "gateway" \in scenario THEN BOOLEAN ELSE {FALSE}] :
          LET ns == [k \in Node |-> [up |-> up[k], state |-> "closed", data |-> {}]]
              w == dlt_gateway_init(scenario, ns)
          IN  IF "gateway" \in scenario
              THEN /\ handler = create_timer_fd(w.h, GatewayTimer, "GATEWAY_TIMER")
                   /\ gateway = w.gw /\ nodes = w.nodes /\ due = w.due /\ stray = w.stray
              ELSE /\ handler = StartedHandler(scenario)
                   /\ gateway = [k \in Node |-> InitialEntry(scenario)] /\ nodes = ns
                   /\ due = w.due /\ stray = {}

(***************************************************************************)
(* The passive nodes.                                                      *)
(***************************************************************************)
NodeStarts(k) ==
    /\ "gateway" \in scenario /\ ~nodes[k].up
    /\ nodes' = [nodes EXCEPT ![k].up = TRUE]
    /\ UNCHANGED <<handler, peers, backlog, input, index, running, scenario, gwVars>>

NodeStops(k, how) ==
    /\ nodes[k].up
    /\ how = "reset" => "resets" \in scenario
    /\ nodes' = [nodes EXCEPT ![k].up = FALSE,
                              ![k].state = IF @ = "open" THEN how ELSE @]
    /\ UNCHANGED <<handler, peers, backlog, input, index, running, scenario, gwVars>>

NodeSends(k, ecu) ==
    /\ nodes[k].state = "open" /\ nodes[k].data = {}
    /\ NodeSocket(k) \in Range(handler.fds)
    /\ ecu = k \/ "strange" \in scenario
    /\ nodes' = [nodes EXCEPT ![k].data = {ecu}]
    /\ UNCHANGED <<handler, peers, backlog, input, index, running, scenario, gwVars>>

(***************************************************************************)
(* The callback of a passive node's connection.  EntryOf: the first entry  *)
(* with the number of the receiver.                                        *)
(***************************************************************************)
EntryOf(fd) == SelectInSeq([k \in Node |-> gateway[k].sock], LAMBDA s : s = fd)

GatewayReturns(w) ==
    /\ Becomes(w)
    /\ peers' = Settled(w.h, peers, backlog)
    /\ Advance(w.h)
    /\ UNCHANGED <<backlog, running, scenario>>

Unregister(w, fd) == [w EXCEPT !.h = unregister_connection(@, fd)]

(* Nothing to read.  The first time only the counter moves; the socket is  *)
(* still there and readable, so the next round comes here again.           *)
ConnectionLost(w, c) ==
    IF w.gw[c].reconnect_cnt < ReconnectMax
    THEN [w EXCEPT !.gw[c].reconnect_cnt = @ + 1, !.gw[c].timeout_cnt = 0]
    ELSE Unregister([w EXCEPT !.gw[c].status = "DISCONNECTED"], Con.fd)

(* A message with another ECU id than the entry's. *)
WrongEcu(w, c) ==
    Unregister([w EXCEPT !.gw[c].status = "DISCONNECTED", !.gw[c].trigger = "DISABLED"],
               Con.fd)

dlt_gateway_process_passive_node_messages ==
    /\ Callback("GATEWAY")
    /\ LET k == handler.fds[Con.fd] - MaxPeers      \* the node at the other end
           c == EntryOf(Con.fd)
       IN  /\ k \in Node
           /\ \/ /\ nodes[k].data = {} /\ nodes[k].state # "open"
                 /\ GatewayReturns(ConnectionLost(World, c))
              \/ /\ nodes[k].data # {}
                 /\ LET w == [World EXCEPT !.nodes[k].data = {}]
                    IN  IF nodes[k].data = {c}
                        THEN \E h \in AfterSending(handler) :
                                GatewayReturns([w EXCEPT !.h = h])
                        ELSE GatewayReturns(WrongEcu(w, c))
    /\ UNCHANGED input

dlt_gateway_process_gateway_timer ==
    /\ Callback("GATEWAY_TIMER")
    /\ GatewayTimer \in input
    /\ input' = input \ {GatewayTimer}
    /\ GatewayReturns(dlt_gateway_establish_connections(World))

(***************************************************************************)
(* Requests of clients that concern a node.                                *)
(***************************************************************************)

(* dlt_gateway_forward_control_message *)
ForwardTo(w, k) ==
    IF w.gw[k].status # "CONNECTED" THEN w
    ELSE [w EXCEPT !.stray = @ \cup
            IF w.gw[k].sock \in Fd /\ w.h.fds[w.gw[k].sock] \notin {Free, NodeSocket(k)}
            THEN {"sent"} ELSE {}]

ConnectOnDemand(w, k) ==
    IF w.gw[k].status = "CONNECTED" THEN w
    ELSE IF Connected(w, k)
    THEN dlt_gateway_add_to_event_loop(dlt_client_connect(w, k), k)
    ELSE dlt_client_connect(w, k)

(* The connection with the entry's number goes, whosever it is. *)
DisconnectOnDemand(w, k) ==
    LET fd == w.gw[k].sock
    IN  Unregister([w EXCEPT !.gw[k].status = "DISCONNECTED",
                             !.gw[k].trigger = "ON_DEMAND",
                             !.stray = @ \cup
                                IF fd \in Fd /\ find_connection(w.h, fd) # 0
                                   /\ w.h.fds[fd] # NodeSocket(k)
                                THEN {"closed"} ELSE {}], fd)

dlt_gateway_process_on_demand_request(w, k, connect) ==
    IF connect THEN ConnectOnDemand(w, k) ELSE DisconnectOnDemand(w, k)

(* A request of a client or a control client that reaches the gateway. *)
GatewayRequest(w) ==
    /\ "gateway" \in scenario
    /\ Callback("CLIENT_MSG_TCP") \/ Callback("CONTROL_MSG")
    /\ HasData
    /\ Becomes(w)
    /\ peers' = Settled(w.h, Consumed, backlog)
    /\ Advance(w.h)
    /\ UNCHANGED <<backlog, input, running, scenario>>

ForwardRequest == \E k \in Node : GatewayRequest(ForwardTo(World, k))

OnDemandRequest ==
    /\ "demand" \in scenario
    /\ \E k \in Node, connect \in BOOLEAN :
          GatewayRequest(dlt_gateway_process_on_demand_request(World, k, connect))

(***************************************************************************)
(* The specification.                                                      *)
(***************************************************************************)
DaemonStep ==
    \/ Poll /\ UNCHANGED gwVars
    \/ Dispatch /\ UNCHANGED gwVars
    \/ dlt_gateway_process_passive_node_messages
    \/ dlt_gateway_process_gateway_timer
    \/ ForwardRequest
    \/ OnDemandRequest

Stopped == running # "yes" /\ UNCHANGED vars

Next ==
    \/ DaemonStep
    \/ Environment /\ running = "yes" /\ UNCHANGED gwVars
    \/ running = "yes" /\ \E k \in Node :
          \/ NodeStarts(k)
          \/ \E how \in {"closed", "reset"} : NodeStops(k, how)
          \/ \E ecu \in Node \cup {0} : NodeSends(k, ecu)
    \/ Stopped

(* The loop goes on while there is something to do: every step of the      *)
(* daemon but the last moves index, and no other step does.  The timer     *)
(* expires again and again.                                                *)
LoopMoves ==
    /\ running = "yes"
    /\ index # 0 \/ \E e \in Range(handler.pfd) : EndEvents(handler.fds[e.fd]) # {}
    /\ index' \in 0..MaxFd /\ index' # index

TimerExpires ==
    /\ running = "yes" /\ GatewayTimer \in Range(handler.fds)
    /\ input' = input \cup {GatewayTimer}

Spec ==
    /\ Init /\ [][Next]_vars
    /\ WF_index(LoopMoves) /\ WF_input(TimerExpires)

(***************************************************************************)
(* Properties.                                                             *)
(***************************************************************************)
TypeOK ==
    /\ handler \in [connections : Seq([fd : Fd, type : ConnectionType]),
                    pfd : Seq([fd : Fd, revents : SUBSET {"IN", "ERR", "NVAL"},
                               of : -8..MaxPeers + Nodes]),
                    client_connections : 0..MaxPeers + 1,
                    fds : [Fd -> -8..MaxPeers + Nodes]]
    /\ peers \in Seq([type : {"CLIENT_MSG_TCP", "CONTROL_MSG", "APP_MSG", "none"},
                      state : {"open", "closed", "reset"}, data : SUBSET {"request"}])
    /\ nodes \in [Node -> [up : BOOLEAN, state : {"open", "closed", "reset"},
                           data : SUBSET (Node \cup {0})]]
    /\ backlog \in Seq(DOMAIN peers)
    /\ input \subseteq {Fifo, SerialLine, OneSecondTimer, GatewayTimer}
    /\ index \in 0..Len(handler.pfd)
    /\ running \in {"yes", "signal", "accept failed", "serial failed"}
    /\ gateway \in [Node -> [status : {"INITIALIZED", "CONNECTED", "DISCONNECTED"},
                             trigger : {"ON_STARTUP", "ON_DEMAND", "DISABLED"},
                             sock : {-1} \cup Fd, timeout_cnt : 0..Timeout + 1,
                             reconnect_cnt : 0..ReconnectMax, sendtime_cnt : 0..Sendtime]]
    /\ due \in [Node -> [DOMAIN CtrlMsgs -> Never..Sendtime + 1]]
    /\ stray \subseteq {"sent", "closed"}

(* With one node that closes its connections in order: an entry is         *)
(* connected exactly when the event loop polls a descriptor for it, and    *)
(* that descriptor is the node's.                                          *)
Polls(k) ==
    /\ gateway[k].sock \in Fd
    /\ handler.fds[gateway[k].sock] = NodeSocket(k)
    /\ find_connection(handler, gateway[k].sock) # 0
ConnectedIsPolled ==
    Nodes = 1 /\ "resets" \notin scenario /\ running = "yes" =>
        \A k \in Node : gateway[k].status = "CONNECTED" <=> Polls(k)

(* The number an entry keeps after its socket was closed is not used while *)
(* it belongs to somebody else: no control message and no forwarded        *)
(* request goes to a client.  (Requests to disconnect a node that is not   *)
(* connected break it: they close whatever has the number now.)            *)
NothingStray == Nodes = 1 /\ {"resets", "demand"} \cap scenario = {} => stray = {}

(* "otherwise remove this connection and do not connect again": an entry   *)
(* is disabled for messages of its own node only.                          *)
DisabledForOwnFault ==
    "strange" \notin scenario /\ Timeout = 0 =>
        \A k \in Node : gateway[k].trigger # "DISABLED"

Tick == GatewayTimer \in input /\ GatewayTimer \notin input' /\ running' = "yes"
OnTime(k, i) ==
    IF due[k][i] = Never THEN due'[k][i] \in {Never, 0}
    ELSE due'[k][i] = (due[k][i] + 1) % CtrlMsgs[i].interval

(* A connected node gets each periodic message exactly every interval      *)
(* ticks of the timer, with whatever other intervals there are.            *)
PeriodicOnTime ==
    [][Tick => \A k \in Node, i \in DOMAIN CtrlMsgs :
           gateway[k].status = "CONNECTED" /\ IsPeriodic(CtrlMsgs[i]) => OnTime(k, i)]_vars

(* A node that is up for good gets connected, however often the connection *)
(* was lost before: the first read that finds nothing only counts, the     *)
(* second gives the descriptor up, the timer connects again.               *)
Reconnects ==
    \A k \in Node :
        <>[](nodes[k].up) => <>[](running # "yes" \/ Polls(k)
                                  \/ scenario \cap {"resets", "demand", "strange"} # {}
                                  \/ "gateway" \notin scenario)

(* The tables of the daemon are sound: the poll list, the connection list,  *)
(* the count of clients and the descriptors agree, nothing is leaked, and a *)
(* connected gateway node is polled.                                        *)
ConnectionsSound ==
    /\ TypeOK /\ TablesMatch /\ CountsClients /\ NothingLeaks
    /\ ConnectedIsPolled /\ NothingStray
=============================================================================
