--------------------------- MODULE DltGatewayProofs ---------------------------
(***************************************************************************)
(* The tables of the daemon's event loop and the gateway's connections,    *)
(* for any number of descriptors and peers, and one node or none that      *)
(* closes its connections in order: no callback is called for an event of  *)
(* somebody who had its descriptor before, the poll table and the list of  *)
(* connections agree, nothing is left open, and the gateway takes a node   *)
(* for connected exactly while its socket is polled.                       *)
(*                                                                         *)
(* The argument: Table says that the poll table and the list of            *)
(* connections run in parallel and that a descriptor is open exactly when  *)
(* it has one connection, of the type that fits its end.  FreshFrom says   *)
(* that the entries the loop has still to look at tell what is so.         *)
(* Removing a connection moves the entries behind it one to the front,     *)
(* with the events they have (Later), so that an entry may be passed over  *)
(* but never gets the events of another; a connection that comes is put    *)
(* behind all others, without events.  Attached ties the number in an      *)
(* entry of the gateway to the node's socket; without it the gateway's     *)
(* timer would register, and a lost connection close, the descriptor of    *)
(* somebody else.                                                          *)
(***************************************************************************)
EXTENDS DltGateway, SequenceLemmas

-----------------------------------------------------------------------------
(***************************************************************************)
(* The tables of the event loop.                                           *)
(***************************************************************************)
Event == {"IN", "ERR", "NVAL"}
Connection == [fd : Fd, type : ConnectionType]
PollEntry == [fd : Fd, revents : SUBSET Event, of : Int]
Handler == [connections : Seq(Connection), pfd : Seq(PollEntry), client_connections : Int,
            fds : [Fd -> Int]]
Peer == [type : {"CLIENT_MSG_TCP", "CONTROL_MSG", "APP_MSG", "none"},
         state : {"open", "closed", "reset"}, data : SUBSET {"request"}]

(* What a connection can be to, and its type then. *)
Ends(ps) == (GatewayTimer .. Fifo) \cup (1 .. Len(ps)) \cup (MaxPeers + 1 .. MaxPeers + Nodes)

Fits(type, end, ps) ==
  /\ end = Fifo => type = "APP_MSG"
  /\ end = AppSocket => type = "APP_CONNECT"
  /\ end = ClientSocket => type = "CLIENT_CONNECT"
  /\ end = ControlSocket => type = "CONTROL_CONNECT"
  /\ end = SerialLine => type = "CLIENT_MSG_SERIAL"
  /\ end = OneSecondTimer => type = "ONE_S_TIMER"
  /\ end = GatewayTimer => type = "GATEWAY_TIMER"
  /\ end \in 1 .. Len(ps) => type = ps[end].type
  /\ end > MaxPeers => type = "GATEWAY"

IsOpen(h, f) == h.fds[f] \notin {Free, LogFile}
IsConnected(h, f) == \E i \in DOMAIN h.connections : h.connections[i].fd = f

(* The poll table and the list of connections run in parallel; a           *)
(* descriptor is open exactly when it has one connection, of the type that *)
(* fits its end; no end has two descriptors.                               *)
Parallel(h) ==
  /\ DOMAIN h.pfd = DOMAIN h.connections
  /\ \A i \in DOMAIN h.connections : h.pfd[i].fd = h.connections[i].fd
Distinct(h) ==
  \A i, j \in DOMAIN h.connections : h.connections[i].fd = h.connections[j].fd => i = j
Fitting(h, ps) ==
  \A i \in DOMAIN h.connections :
    LET end == h.fds[h.connections[i].fd]
    IN  end \in Ends(ps) /\ Fits(h.connections[i].type, end, ps)
Covered(h) == \A f \in Fd : IsOpen(h, f) => IsConnected(h, f)
Single(h) == \A f, g \in Fd : h.fds[f] = h.fds[g] /\ IsOpen(h, f) => f = g

Table(h, ps) ==
  h \in Handler /\ Parallel(h) /\ Distinct(h) /\ Fitting(h, ps) /\ Covered(h) /\ Single(h)

(* The other ends: each peer waits or has a descriptor, never both.        *)
PeersSound(ps) == ps \in Seq(Peer) /\ Len(ps) <= MaxPeers
Waiting(h, ps, bl) ==
  /\ bl \in Seq(1 .. Len(ps))
  /\ \A i, j \in 1 .. Len(bl) : bl[i] = bl[j] => i = j
  /\ \A i \in 1 .. Len(bl), f \in Fd : h.fds[f] # bl[i]

(* EndEvents, of any state. *)
PeerReady(p) ==
  (IF p.data # {} \/ p.state # "open" THEN {"IN"} ELSE {})
     \cup (IF p.state = "reset" THEN {"ERR"} ELSE {})
Ready(end, ps, ns, bl, in) ==
  IF end = Free THEN {"NVAL"}
  ELSE IF end \in {AppSocket, ClientSocket, ControlSocket}
  THEN IF \E i \in 1 .. Len(bl) : ps[bl[i]].type = Accepts[end] THEN {"IN"} ELSE {}
  ELSE IF end < 0 THEN IF end \in in THEN {"IN"} ELSE {}
  ELSE PeerReady(IF end <= MaxPeers THEN ps[end] ELSE ns[end - MaxPeers])

(* The entries the loop has still to look at tell what is so.              *)
FreshFrom(h, i, ps, ns, bl, in) ==
  \A j \in DOMAIN h.pfd : j >= i /\ h.pfd[j].revents # {} =>
      /\ h.fds[h.pfd[j].fd] = h.pfd[j].of
      /\ h.pfd[j].revents \subseteq Ready(h.pfd[j].of, ps, ns, bl, in)

(***************************************************************************)
(* The gateway.                                                            *)
(***************************************************************************)
PassiveNode == [up : BOOLEAN, state : {"open", "closed", "reset"}, data : SUBSET (Node \cup {0})]
GatewayEntry ==
  [status : {"INITIALIZED", "CONNECTED", "DISCONNECTED"},
   trigger : {"ON_STARTUP", "ON_DEMAND", "DISABLED"},
   sock : {-1} \cup Fd, timeout_cnt : Int, reconnect_cnt : Int, sendtime_cnt : Int]
Ages == [Node -> [DOMAIN CtrlMsgs -> Int]]

(* An entry is connected exactly when its number is a socket to its node;  *)
(* its number is never the client socket's.                                *)
Attached(h, gw) ==
  \A k \in Node :
     /\ \A f \in Fd : h.fds[f] = NodeSocket(k) => gw[k].status = "CONNECTED" /\ gw[k].sock = f
     /\ gw[k].status = "CONNECTED" => gw[k].sock \in Fd /\ h.fds[gw[k].sock] = NodeSocket(k)
     /\ gw[k].sock \in Fd => h.fds[gw[k].sock] # ClientSocket

GatewaySound(h, gw, ns, du) ==
  /\ gw \in [Node -> GatewayEntry] /\ ns \in [Node -> PassiveNode] /\ du \in Ages
  /\ Attached(h, gw)

(* Nothing of the gateway is there when it is off; nodes are reset only    *)
(* where connections are.                                                  *)
OffMeansOff ==
  /\ \A f \in Fd : handler.fds[f] = GatewayTimer \/ handler.fds[f] > MaxPeers
        => "gateway" \in scenario
  /\ \A k \in Node : nodes[k].state = "reset" => "resets" \in scenario

(* What holds throughout; what holds while the loop runs. *)
Inv ==
  /\ scenario \in Scenarios /\ index \in 0 .. Len(handler.pfd)
  /\ input \subseteq GatewayTimer .. Fifo
  /\ PeersSound(peers) /\ Waiting(handler, peers, backlog)
  /\ Table(handler, peers)
  /\ index # 0 => FreshFrom(handler, index, peers, nodes, backlog, input)
  /\ OffMeansOff
  /\ gateway \in [Node -> GatewayEntry] /\ nodes \in [Node -> PassiveNode] /\ due \in Ages
  /\ running = "yes" => Attached(handler, gateway)

-----------------------------------------------------------------------------
(***************************************************************************)
(* What the functions on the tables do.                                    *)
(***************************************************************************)

(* The bounds, as the proofs use them.                                     *)
LEMMA Bounds ==
  /\ MaxFd \in Nat /\ MaxPeers \in Nat /\ Nodes \in Nat
  /\ Fd \subseteq Nat /\ \A f \in Fd : f >= 3 /\ f <= MaxFd
  /\ \A k \in Node : NodeSocket(k) \in Int /\ NodeSocket(k) > MaxPeers
BY GatewayAssumption DEF Fd, DLT_FD_MINIMUM, Node, NodeSocket

(* One element of a sequence goes.                                         *)
LEMMA RemoveAtIs ==
  ASSUME NEW S, NEW q \in Seq(S), NEW k \in 1 .. Len(q)
  PROVE  LET r == RemoveAt(q, k)
         IN  /\ r \in Seq(S) /\ Len(r) = Len(q) - 1
             /\ \A j \in 1 .. k - 1 : r[j] = q[j]
             /\ \A j \in k .. Len(q) - 1 : r[j] = q[j + 1]
<1> DEFINE a == SubSeq(q, 1, k - 1)
           b == SubSeq(q, k + 1, Len(q))
<1>1. RemoveAt(q, k) = a \o b
  BY DEF RemoveAt
<1>2. /\ a \in Seq(S) /\ Len(a) = k - 1 /\ \A j \in 1 .. k - 1 : a[j] = q[j]
      /\ b \in Seq(S) /\ Len(b) = Len(q) - k /\ \A j \in 1 .. Len(q) - k : b[j] = q[k + j]
  OBVIOUS
<1> HIDE DEF a, b
<1>3. /\ a \o b \in Seq(S) /\ Len(a \o b) = Len(q) - 1
      /\ \A j \in 1 .. k - 1 : (a \o b)[j] = q[j]
      /\ \A j \in k .. Len(q) - 1 : (a \o b)[j] = b[j - (k - 1)]
  <2>1. /\ a \o b \in Seq(S) /\ Len(a \o b) = Len(a) + Len(b)
        /\ \A j \in 1 .. Len(a) : (a \o b)[j] = a[j]
        /\ \A j \in Len(a) + 1 .. Len(a) + Len(b) : (a \o b)[j] = b[j - Len(a)]
    BY <1>2, ConcatSeq
  <2>2. Len(a) + 1 = k /\ Len(a) + Len(b) = Len(q) - 1
    BY <1>2
  <2> QED
    BY <1>2, <2>1, <2>2
<1>4. \A j \in k .. Len(q) - 1 : j - (k - 1) \in 1 .. Len(q) - k /\ k + (j - (k - 1)) = j + 1
  OBVIOUS
<1>5. \A j \in k .. Len(q) - 1 : (a \o b)[j] = q[j + 1]
  BY <1>2, <1>3, <1>4
<1> QED
  BY <1>1, <1>3, <1>5

(* Sequences with the same domain are of the same length.                  *)
LEMMA SameLength ==
  ASSUME NEW S, NEW T, NEW q \in Seq(S), NEW r \in Seq(T)
  PROVE  DOMAIN q = DOMAIN r <=> Len(q) = Len(r)
<1>1. \A m, n \in Nat : 1 .. m = 1 .. n => m = n
  <2> SUFFICES ASSUME NEW m \in Nat, NEW n \in Nat, 1 .. m = 1 .. n, m # n PROVE FALSE
    OBVIOUS
  <2>1. CASE m > n
    <3>1. m \in 1 .. m /\ m \notin 1 .. n
      BY <2>1
    <3> QED
      BY <3>1
  <2>2. CASE n > m
    <3>1. n \in 1 .. n /\ n \notin 1 .. m
      BY <2>2
    <3> QED
      BY <3>1
  <2> QED
    BY <2>1, <2>2
<1>2. PICK a \in Nat, b \in Nat : a = Len(q) /\ b = Len(r) /\ DOMAIN q = 1 .. a /\ DOMAIN r = 1 .. b
  OBVIOUS
<1>3. 1 .. a = 1 .. b <=> a = b
  BY <1>1
<1> QED
  BY <1>2, <1>3

(* Where element j was before the element at k went. *)
From(k, j) == IF j < k THEN j ELSE j + 1

(* The same, told from where an element was.                               *)
Removed(q, k, r) ==
  /\ \A j \in DOMAIN r : /\ From(k, j) \in DOMAIN q /\ From(k, j) # k /\ From(k, j) >= j
                         /\ r[j] = q[From(k, j)]
  /\ \A a, b \in DOMAIN r : From(k, a) = From(k, b) => a = b
  /\ \A o \in DOMAIN q : o # k => \E j \in DOMAIN r : r[j] = q[o]

(* Where the elements were that are left when one goes.                    *)
LEMMA RemoveAtFrom ==
  ASSUME NEW S, NEW q \in Seq(S), NEW k \in DOMAIN q, NEW r, r = RemoveAt(q, k)
  PROVE  r \in Seq(S) /\ Len(r) = Len(q) - 1 /\ Removed(q, k, r)
<1>0. k \in 1 .. Len(q)
  OBVIOUS
<1>1. /\ r \in Seq(S) /\ Len(r) = Len(q) - 1
      /\ \A j \in 1 .. k - 1 : r[j] = q[j]
      /\ \A j \in k .. Len(q) - 1 : r[j] = q[j + 1]
  BY <1>0, RemoveAtIs
<1>2. Len(q) \in Nat /\ k \in Nat /\ DOMAIN q = 1 .. Len(q) /\ DOMAIN r = 1 .. Len(q) - 1
  BY <1>0, <1>1
<1>3. ASSUME NEW j \in 1 .. Len(q) - 1
      PROVE  /\ From(k, j) \in 1 .. Len(q) /\ From(k, j) # k /\ From(k, j) >= j
             /\ r[j] = q[From(k, j)]
  <2>1. CASE j < k
    <3>1. j \in 1 .. k - 1 /\ j \in 1 .. Len(q)
      BY <1>2, <2>1
    <3> QED
      BY <1>1, <1>2, <2>1, <3>1 DEF From
  <2>2. CASE ~(j < k)
    <3>1. j \in k .. Len(q) - 1 /\ j + 1 \in 1 .. Len(q)
      BY <1>2, <2>2
    <3> QED
      BY <1>1, <1>2, <2>2, <3>1 DEF From
  <2> QED
    BY <2>1, <2>2
<1>4. ASSUME NEW o \in 1 .. Len(q), o # k
      PROVE  \E j \in 1 .. Len(q) - 1 : r[j] = q[o]
  <2>1. CASE o < k
    <3>1. o \in 1 .. k - 1 /\ o \in 1 .. Len(q) - 1
      BY <1>0, <1>2, <2>1
    <3> QED
      BY <1>1, <2>1, <3>1
  <2>2. CASE ~(o < k)
    <3>1. o - 1 \in k .. Len(q) - 1 /\ o - 1 \in 1 .. Len(q) - 1 /\ (o - 1) + 1 = o
      BY <1>0, <1>2, <1>4, <2>2
    <3> QED
      BY <1>1, <3>1
  <2> QED
    BY <2>1, <2>2
<1>5. \A a, b \in 1 .. Len(q) - 1 : From(k, a) = From(k, b) => a = b
  BY <1>2 DEF From
<1> QED
  BY <1>1, <1>2, <1>3, <1>4, <1>5 DEF Removed

(* Which connection is found.                                              *)
LEMMA FindIs ==
  ASSUME NEW h \in Handler, NEW fd
  PROVE  LET i == find_connection(h, fd)
         IN  \/ i = 0 /\ ~IsConnected(h, fd)
             \/ i \in DOMAIN h.connections /\ i # 0 /\ h.connections[i].fd = fd
<1> DEFINE T == {j \in 1 .. Len(h.connections) : h.connections[j].fd = fd}
<1>1. find_connection(h, fd) = IF T # {} THEN Min(T) ELSE 0
  BY DEF find_connection, SelectInSeq
<1>2. T \in SUBSET Nat /\ 0 \notin T /\ DOMAIN h.connections = 1 .. Len(h.connections)
  BY DEF Handler
<1>3. CASE T = {}
  BY <1>1, <1>2, <1>3 DEF IsConnected
<1>4. CASE T # {}
  <2>1. Min(T) \in T
    <3> HIDE DEF T
    <3> QED
      BY <1>2, <1>4, MinIsLeast
  <2> QED
    BY <1>1, <1>2, <1>4, <2>1
<1> QED
  BY <1>3, <1>4

(* The entry of the poll table that goes is the one of the connection.     *)
LEMMA DisableIs ==
  ASSUME NEW h \in Handler, Parallel(h), NEW fd, IsConnected(h, fd)
  PROVE  disable_fd(h, fd) = [h EXCEPT !.pfd = RemoveAt(h.pfd, find_connection(h, fd))]
<1> DEFINE T == {j \in 1 .. Len(h.connections) : h.connections[j].fd = fd}
           U == {j \in 1 .. Len(h.pfd) : h.pfd[j].fd = fd}
<1>0. DOMAIN h.connections = 1 .. Len(h.connections) /\ DOMAIN h.pfd = 1 .. Len(h.pfd)
  BY DEF Handler
<1>1. T = U
  BY <1>0 DEF Parallel
<1>2. find_connection(h, fd) = IF T # {} THEN Min(T) ELSE 0
  BY DEF find_connection, SelectInSeq
<1>3. SelectInSeq(h.pfd, LAMBDA e : e.fd = fd) = IF U # {} THEN Min(U) ELSE 0
  BY DEF SelectInSeq
<1>4. \E i \in 1 .. Len(h.pfd) : h.pfd[i].fd = fd
  BY <1>0 DEF Parallel, IsConnected
<1>5. RemoveFirstMatch(h.pfd, LAMBDA e : e.fd = fd)
        = RemoveAt(h.pfd, SelectInSeq(h.pfd, LAMBDA e : e.fd = fd))
  BY <1>4 DEF RemoveFirstMatch
<1> QED
  BY <1>1, <1>2, <1>3, <1>5 DEF disable_fd

(* The count of clients, if one of that type goes. *)
Minus(count, type) == Max({0, count - IF IsClient(type) THEN 1 ELSE 0})

(* It never falls below zero, and is one less where there is one.          *)
LEMMA MinusIs ==
  ASSUME NEW count \in Int, NEW type
  PROVE  /\ Minus(count, type) \in Nat
         /\ count >= 0 /\ ~IsClient(type) => Minus(count, type) = count
         /\ count >= 1 /\ IsClient(type) => Minus(count, type) = count - 1
         /\ count >= 0 => Minus(count, type) <= count
<1> DEFINE d == count - IF IsClient(type) THEN 1 ELSE 0
<1>1. d \in Int
  OBVIOUS
<1>2. \E x \in {0, d} : \A y \in {0, d} : x >= y
  BY <1>1
<1>3. Max({0, d}) \in {0, d} /\ Max({0, d}) >= 0 /\ Max({0, d}) >= d
  BY <1>2 DEF Max
<1> QED
  BY <1>1, <1>3 DEF Minus

(* A connection goes: its entries in both lists, and its descriptor.       *)
LEMMA UnregisterIs ==
  ASSUME NEW h \in Handler, Parallel(h), NEW fd \in Fd, IsConnected(h, fd),
         NEW i, i = find_connection(h, fd), h.connections[i].type # "CLIENT_CONNECT"
  PROVE  unregister_connection(h, fd) =
           [connections |-> RemoveAt(h.connections, i), pfd |-> RemoveAt(h.pfd, i),
            client_connections |-> Minus(h.client_connections, h.connections[i].type),
            fds |-> [h.fds EXCEPT ![fd] = Free]]
<1> DEFINE c == h.connections[i]
           u == Uncount(h, c.type)
<1>1. i \in DOMAIN h.connections /\ c.fd = fd /\ i # 0
  BY FindIs DEF IsConnected
<1>2. u = [h EXCEPT !.client_connections = Minus(h.client_connections, c.type)]
  BY DEF Uncount, Minus, Handler
<1>3. u \in Handler /\ u.connections = h.connections /\ u.pfd = h.pfd /\ u.fds = h.fds
  <2>1. Minus(h.client_connections, c.type) \in Int
    BY MinusIs DEF Handler
  <2> QED
    BY <1>2, <2>1 DEF Handler
<1>4. find_connection(u, fd) = i
  BY <1>3 DEF find_connection
<1> DEFINE d == disable_fd(u, fd)
<1>5. d = [u EXCEPT !.pfd = RemoveAt(h.pfd, i)]
  <2>1. Parallel(u) /\ IsConnected(u, fd)
    BY <1>3 DEF Parallel, IsConnected
  <2> QED
    BY <1>3, <1>4, <2>1, DisableIs
<1>6. CloseReceiver(d, c) = [d EXCEPT !.fds[fd] = Free]
  BY <1>1 DEF CloseReceiver
<1>7. unregister_connection(h, fd) = [CloseReceiver(d, c) EXCEPT !.connections = RemoveAt(@, i)]
  BY <1>1 DEF unregister_connection
<1>8. d = [connections |-> h.connections, pfd |-> RemoveAt(h.pfd, i),
           client_connections |-> Minus(h.client_connections, c.type), fds |-> h.fds]
  <2>1. h = [connections |-> h.connections, pfd |-> h.pfd,
             client_connections |-> h.client_connections, fds |-> h.fds]
    BY DEF Handler
  <2> HIDE DEF d, u
  <2>2. u = [connections |-> h.connections, pfd |-> h.pfd,
             client_connections |-> Minus(h.client_connections, c.type), fds |-> h.fds]
    BY <1>2, <2>1
  <2>3. [u EXCEPT !.pfd = RemoveAt(h.pfd, i)] =
            [connections |-> h.connections, pfd |-> RemoveAt(h.pfd, i),
             client_connections |-> Minus(h.client_connections, c.type), fds |-> h.fds]
    BY <2>2
  <2> QED
    BY <1>5, <2>3
<1> HIDE DEF d, u
<1>9. [d EXCEPT !.fds[fd] = Free] =
        [connections |-> h.connections, pfd |-> RemoveAt(h.pfd, i),
         client_connections |-> Minus(h.client_connections, c.type),
         fds |-> [h.fds EXCEPT ![fd] = Free]]
  BY <1>8
<1> DEFINE e == CloseReceiver(d, c)
<1>10. unregister_connection(h, fd) = [e EXCEPT !.connections = RemoveAt(e.connections, i)]
  BY <1>7
<1>11. e = [connections |-> h.connections, pfd |-> RemoveAt(h.pfd, i),
            client_connections |-> Minus(h.client_connections, c.type),
            fds |-> [h.fds EXCEPT ![fd] = Free]]
  BY <1>6, <1>9
<1> HIDE DEF e
<1>12. [e EXCEPT !.connections = RemoveAt(e.connections, i)] =
         [connections |-> RemoveAt(h.connections, i), pfd |-> RemoveAt(h.pfd, i),
          client_connections |-> Minus(h.client_connections, c.type),
          fds |-> [h.fds EXCEPT ![fd] = Free]]
  BY <1>11
<1> QED
  BY <1>10, <1>12

-----------------------------------------------------------------------------
(***************************************************************************)
(* Connections go.                                                         *)
(***************************************************************************)

(* What is left in the poll table with events was there, further behind,   *)
(* with the same descriptor.                                               *)
Later(h, g) ==
  \A i \in DOMAIN g.pfd : g.pfd[i].revents # {} =>
     \E j \in DOMAIN h.pfd :
        j >= i /\ g.pfd[i] = h.pfd[j] /\ g.fds[g.pfd[i].fd] = h.fds[g.pfd[i].fd]

(* Descriptors were closed only, and not the client socket. *)
Fewer(h, g) ==
  \A f \in Fd : g.fds[f] = h.fds[f] \/ (g.fds[f] = Free /\ h.fds[f] # ClientSocket)

Shrinks(h, g, ps) == Table(g, ps) /\ Later(h, g) /\ Fewer(h, g)

(* What two removals leave was there before the first.                     *)
LEMMA LaterTransitive ==
  ASSUME NEW h \in Handler, NEW g \in Handler, NEW k \in Handler, Later(h, g), Later(g, k)
  PROVE  Later(h, k)
<1> SUFFICES ASSUME NEW i \in DOMAIN k.pfd, k.pfd[i].revents # {}
             PROVE  \E j \in DOMAIN h.pfd :
                       j >= i /\ k.pfd[i] = h.pfd[j] /\ k.fds[k.pfd[i].fd] = h.fds[k.pfd[i].fd]
  BY DEF Later
<1>1. PICK l \in DOMAIN g.pfd :
         l >= i /\ k.pfd[i] = g.pfd[l] /\ k.fds[k.pfd[i].fd] = g.fds[k.pfd[i].fd]
  BY DEF Later
<1>2. PICK j \in DOMAIN h.pfd :
         j >= l /\ g.pfd[l] = h.pfd[j] /\ g.fds[g.pfd[l].fd] = h.fds[g.pfd[l].fd]
  BY <1>1 DEF Later
<1>3. j >= i
  <2>1. i \in Nat /\ l \in Nat /\ j \in Nat
    BY DEF Handler
  <2> QED
    BY <1>1, <1>2, <2>1
<1> QED
  BY <1>1, <1>2, <1>3

(* Nothing goes.                                                           *)
LEMMA ShrinksReflexive ==
  ASSUME NEW h, NEW ps, Table(h, ps)
  PROVE  Shrinks(h, h, ps)
<1>1. h \in Handler
  BY DEF Table
<1>2. \A i \in DOMAIN h.pfd : i >= i
  BY <1>1 DEF Handler
<1> QED
  BY <1>2 DEF Shrinks, Later, Fewer

(* Connections go one after the other.                                     *)
LEMMA ShrinksTransitive ==
  ASSUME NEW h, NEW g, NEW k, NEW ps, Table(h, ps), Shrinks(h, g, ps), Shrinks(g, k, ps)
  PROVE  Shrinks(h, k, ps)
<1>1. h \in Handler /\ g \in Handler /\ k \in Handler
  BY DEF Shrinks, Table
<1>2. Later(h, k)
  BY <1>1, LaterTransitive DEF Shrinks
<1>3. Fewer(h, k)
  BY DEF Fewer, Shrinks
<1> QED
  BY <1>2, <1>3 DEF Shrinks

(* An open descriptor refers to one of the ends.                           *)
LEMMA OpenIsEnd ==
  ASSUME NEW h, NEW ps, Table(h, ps), NEW f \in Fd, IsOpen(h, f)
  PROVE  h.fds[f] \in Ends(ps)
<1>1. PICK i \in DOMAIN h.connections : h.connections[i].fd = f
  BY DEF Table, Covered, IsConnected
<1> QED
  BY <1>1 DEF Table, Fitting

(* And a connection to an open one.                                        *)
LEMMA ConnectedIsOpen ==
  ASSUME NEW h, NEW ps, Table(h, ps), PeersSound(ps), NEW f \in Fd, IsConnected(h, f)
  PROVE  IsOpen(h, f) /\ h.fds[f] \in Ends(ps)
<1>1. PICK i \in DOMAIN h.connections : h.connections[i].fd = f
  BY DEF IsConnected
<1>2. h.fds[f] \in Ends(ps)
  BY <1>1 DEF Table, Fitting
<1>3. Len(ps) \in Nat /\ MaxPeers \in Nat
  BY Bounds DEF PeersSound
<1>4. 0 \notin Ends(ps) /\ -8 \notin Ends(ps)
  BY <1>3 DEF Ends, GatewayTimer, Fifo
<1> QED
  BY <1>2, <1>4 DEF IsOpen, Free, LogFile

(* A connection goes, whatever its type is but the client socket's.        *)
LEMMA UnregisterTable ==
  ASSUME NEW h, NEW ps, Table(h, ps), PeersSound(ps), NEW fd \in Fd, h.fds[fd] # ClientSocket,
         NEW g, g = unregister_connection(h, fd)
  PROVE  /\ Shrinks(h, g, ps)
         /\ \A f \in Fd : f # fd => g.fds[f] = h.fds[f]
         /\ ~IsOpen(g, fd)
<1>0. h \in Handler /\ Parallel(h) /\ Distinct(h) /\ Fitting(h, ps) /\ Covered(h) /\ Single(h)
  BY DEF Table
<1>1. CASE ~IsConnected(h, fd)
  <2>1. find_connection(h, fd) = 0
    BY <1>0, <1>1, FindIs DEF IsConnected
  <2>2. g = h
    BY <2>1 DEF unregister_connection
  <2> QED
    BY <1>0, <1>1, <2>2, ShrinksReflexive DEF Covered
<1>2. CASE IsConnected(h, fd)
  <2> DEFINE i == find_connection(h, fd)
  <2>1. i \in DOMAIN h.connections /\ h.connections[i].fd = fd
    BY <1>0, <1>2, FindIs DEF IsConnected
  <2>2. h.connections[i].type # "CLIENT_CONNECT"
    <3>1. /\ h.fds[fd] \in Ends(ps) /\ Fits(h.connections[i].type, h.fds[fd], ps)
      BY <1>0, <2>1 DEF Fitting
    <3>2. CASE h.fds[fd] \in 1 .. Len(ps)
      <4>1. ps[h.fds[fd]] \in Peer
        BY <3>2 DEF PeersSound
      <4> QED
        BY <3>1, <3>2, <4>1 DEF Fits, Peer
    <3>3. CASE h.fds[fd] \in MaxPeers + 1 .. MaxPeers + Nodes
      <4>1. h.fds[fd] > MaxPeers
        BY <3>3, Bounds
      <4> QED
        BY <3>1, <4>1 DEF Fits
    <3>4. CASE h.fds[fd] \in GatewayTimer .. Fifo
      <4>1. h.fds[fd] \in {-7, -6, -5, -4, -2, -1}
        BY <3>4 DEF GatewayTimer, Fifo, ClientSocket
      <4> QED
        BY <3>1, <4>1 DEF Fits, GatewayTimer, OneSecondTimer, SerialLine, ControlSocket, AppSocket, Fifo
    <3> QED
      BY <3>1, <3>2, <3>3, <3>4 DEF Ends
  <2>3. g = [connections |-> RemoveAt(h.connections, i), pfd |-> RemoveAt(h.pfd, i),
             client_connections |-> Minus(h.client_connections, h.connections[i].type),
             fds |-> [h.fds EXCEPT ![fd] = Free]]
    BY <1>0, <1>2, <2>2, UnregisterIs
  <2> HIDE DEF i
  <2>4. /\ g.connections = RemoveAt(h.connections, i) /\ g.pfd = RemoveAt(h.pfd, i)
        /\ g.fds = [h.fds EXCEPT ![fd] = Free]
        /\ g.client_connections = Minus(h.client_connections, h.connections[i].type)
    BY <2>3
  <2>5. DOMAIN h.pfd = DOMAIN h.connections /\ h.pfd \in Seq(PollEntry)
        /\ h.connections \in Seq(Connection)
    BY <1>0 DEF Parallel, Handler
  <2>6. /\ g.connections \in Seq(Connection) /\ Len(g.connections) = Len(h.connections) - 1
        /\ Removed(h.connections, i, g.connections)
    BY <2>1, <2>4, <2>5, RemoveAtFrom
  <2>6a. \A j \in DOMAIN g.connections :
           /\ From(i, j) \in DOMAIN h.connections /\ From(i, j) # i
           /\ g.connections[j] = h.connections[From(i, j)]
    BY <2>6 DEF Removed
  <2>7. /\ g.pfd \in Seq(PollEntry) /\ Len(g.pfd) = Len(h.pfd) - 1
        /\ Removed(h.pfd, i, g.pfd)
    BY <2>1, <2>4, <2>5, RemoveAtFrom
  <2>7a. DOMAIN g.pfd = DOMAIN g.connections
    <3>1. Len(h.connections) = Len(h.pfd)
      BY <2>5, SameLength
    <3>2. Len(g.connections) = Len(g.pfd)
      BY <2>6, <2>7, <3>1
    <3> QED
      BY <2>6, <2>7, <3>2, SameLength
  <2>7b. \A j \in DOMAIN g.connections : From(i, j) >= j /\ g.pfd[j] = h.pfd[From(i, j)]
    BY <2>7, <2>7a DEF Removed
  <2>8. g.fds \in [Fd -> Int] /\ g.fds[fd] = Free /\ \A f \in Fd : f # fd => g.fds[f] = h.fds[f]
    <3>1. h.fds \in [Fd -> Int]
      BY <1>0 DEF Handler
    <3>2. Free \in Int
      BY DEF Free
    <3> QED
      BY <2>4, <3>1, <3>2
  <2>9. g \in Handler
    <3>1. Minus(h.client_connections, h.connections[i].type) \in Int
      BY <1>0, MinusIs DEF Handler
    <3>2. /\ g.connections \in Seq(Connection) /\ g.pfd \in Seq(PollEntry)
          /\ g.client_connections \in Int /\ g.fds \in [Fd -> Int]
      BY <2>4, <2>6, <2>7, <2>8, <3>1
    <3>3. g = [connections |-> g.connections, pfd |-> g.pfd,
               client_connections |-> g.client_connections, fds |-> g.fds]
      BY <2>3
    <3> QED
      BY <3>2, <3>3 DEF Handler
  <2>10. Parallel(g)
    BY <1>0, <2>6a, <2>7a, <2>7b DEF Parallel
  <2>11. \A j \in DOMAIN g.connections : h.connections[From(i, j)].fd # fd
    BY <1>0, <2>1, <2>6a DEF Distinct
  <2>12. \A j \in DOMAIN g.connections : h.connections[From(i, j)].fd \in Fd
    <3>1. \A o \in DOMAIN h.connections : h.connections[o] \in Connection
      BY <2>5
    <3> QED
      BY <2>6a, <3>1 DEF Connection
  <2>13. Distinct(g)
    <3> SUFFICES ASSUME NEW a \in DOMAIN g.connections, NEW b \in DOMAIN g.connections,
                        g.connections[a].fd = g.connections[b].fd
                 PROVE  a = b
      BY <2>6 DEF Distinct
    <3>1. From(i, a) = From(i, b)
      BY <1>0, <2>6a DEF Distinct
    <3> QED
      BY <2>6, <3>1 DEF Removed
  <2>14. Fitting(g, ps)
    BY <1>0, <2>6a, <2>8, <2>11, <2>12 DEF Fitting
  <2>15. Covered(g)
    <3> SUFFICES ASSUME NEW f \in Fd, IsOpen(g, f)
                 PROVE  IsConnected(g, f)
      BY DEF Covered
    <3>1. f # fd /\ IsOpen(h, f)
      BY <2>8 DEF IsOpen
    <3>2. PICK o \in DOMAIN h.connections : h.connections[o].fd = f
      BY <1>0, <3>1 DEF Covered, IsConnected
    <3>3. o # i
      BY <2>1, <3>1, <3>2
    <3> QED
      BY <2>6, <3>2, <3>3 DEF IsConnected, Removed
  <2>16. Single(g)
    BY <1>0, <2>8 DEF Single, IsOpen
  <2>17. Later(h, g)
    <3> SUFFICES ASSUME NEW j \in DOMAIN g.connections
                 PROVE  \E o \in DOMAIN h.pfd :
                          o >= j /\ g.pfd[j] = h.pfd[o] /\ g.fds[g.pfd[j].fd] = h.fds[g.pfd[j].fd]
      BY <2>7a DEF Later
    <3>1. From(i, j) \in DOMAIN h.pfd /\ From(i, j) >= j /\ g.pfd[j] = h.pfd[From(i, j)]
      BY <2>5, <2>6a, <2>7b
    <3>2. g.pfd[j].fd \in Fd /\ g.pfd[j].fd # fd
      BY <1>0, <2>5, <2>11, <2>12, <3>1 DEF Parallel
    <3> QED
      BY <2>8, <3>1, <3>2
  <2>18. Fewer(h, g)
    BY <2>8 DEF Fewer
  <2> QED
    BY <2>8, <2>9, <2>10, <2>13, <2>14, <2>15, <2>16, <2>17, <2>18 DEF Shrinks, Table, IsOpen
<1> QED
  BY <1>1, <1>2

-----------------------------------------------------------------------------
(***************************************************************************)
(* Connections come.                                                       *)
(***************************************************************************)

(* The number the kernel hands out.                                        *)
LEMMA LowestIs ==
  ASSUME NEW h, HasFree(h)
  PROVE  Lowest(h) \in Fd /\ h.fds[Lowest(h)] = Free
<1> DEFINE T == {f \in Fd : h.fds[f] = Free}
<1>1. T \in SUBSET Nat /\ T # {}
  BY Bounds DEF HasFree
<1>2. Min(T) \in T
  BY <1>1, MinIsLeast
<1> QED
  BY <1>2 DEF Lowest

(* An element comes to the end of a sequence.                              *)
LEMMA AppendIs ==
  ASSUME NEW S, NEW q \in Seq(S), NEW e \in S, NEW r, r = Append(q, e)
  PROVE  /\ r \in Seq(S) /\ Len(r) = Len(q) + 1 /\ Len(r) \in DOMAIN r /\ r[Len(r)] = e
         /\ \A i \in DOMAIN r : i = Len(r) \/ (i \in DOMAIN q /\ i # Len(r))
         /\ \A i \in DOMAIN q : i \in DOMAIN r /\ i # Len(r) /\ r[i] = q[i]
<1>1. r \in Seq(S) /\ Len(r) = Len(q) + 1 /\ Len(q) \in Nat
  OBVIOUS
<1>2. DOMAIN r = 1 .. Len(q) + 1 /\ DOMAIN q = 1 .. Len(q)
  BY <1>1
<1>3. r[Len(q) + 1] = e /\ \A i \in 1 .. Len(q) : r[i] = q[i]
  OBVIOUS
<1> QED
  BY <1>1, <1>2, <1>3

(* The record a new connection leaves behind. *)
Created(h, fd, end, type) ==
  [connections |-> Append(h.connections, [fd |-> fd, type |-> type]),
   pfd |-> Append(h.pfd, [fd |-> fd, revents |-> {}, of |-> Free]),
   client_connections |-> h.client_connections + IF IsClient(type) THEN 1 ELSE 0,
   fds |-> [h.fds EXCEPT ![fd] = end]]

(* A descriptor that was free becomes one of an end, and gets a connection. *)
LEMMA CreateIs ==
  ASSUME NEW h, NEW ps, Table(h, ps), PeersSound(ps), NEW fd \in Fd, h.fds[fd] = Free,
         NEW end, NEW type
  PROVE  connection_create([h EXCEPT !.fds[fd] = end], fd, type) = Created(h, fd, end, type)
<1>1. ~IsConnected(h, fd)
  BY ConnectedIsOpen DEF IsOpen
<1>2. h \in Handler
  BY DEF Table
<1>3. h = [connections |-> h.connections, pfd |-> h.pfd,
           client_connections |-> h.client_connections, fds |-> h.fds]
  BY <1>2 DEF Handler
<1> DEFINE u == [h EXCEPT !.fds[fd] = end]
<1>4. u = [connections |-> h.connections, pfd |-> h.pfd,
           client_connections |-> h.client_connections, fds |-> [h.fds EXCEPT ![fd] = end]]
  BY <1>3
<1>5. find_connection(u, fd) = 0
  <2>1. find_connection(h, fd) = 0
    BY <1>1, <1>2, FindIs DEF IsConnected
  <2> QED
    BY <1>4, <2>1 DEF find_connection
<1>6. ~(fd < 0)
  BY Bounds
<1> HIDE DEF u
<1>7. connection_create(u, fd, type) = register_connection(u, fd, type)
  BY <1>5, <1>6 DEF connection_create
<1> DEFINE c == [fd |-> fd, type |-> type]
           e == [fd |-> fd, revents |-> {}, of |-> Free]
           n == h.client_connections + IF IsClient(type) THEN 1 ELSE 0
           cs == Append(h.connections, c)
           es == Append(h.pfd, e)
           ds == [h.fds EXCEPT ![fd] = end]
           r == [u EXCEPT !.connections = cs, !.client_connections = n]
<1>8. register_connection(u, fd, type) = [r EXCEPT !.pfd = es]
  BY <1>4 DEF register_connection, enable_fd
<1> HIDE DEF n, cs, es, ds
<1>9. [r EXCEPT !.pfd = es] =
         [connections |-> cs, pfd |-> es, client_connections |-> n, fds |-> ds]
  <2>1. u = [connections |-> h.connections, pfd |-> h.pfd,
             client_connections |-> h.client_connections, fds |-> ds]
    BY <1>4 DEF ds
  <2> DEFINE t == [u EXCEPT !.connections = cs]
  <2>1a. r = [t EXCEPT !.client_connections = n]
    OBVIOUS
  <2>1b. t = [connections |-> cs, pfd |-> h.pfd,
              client_connections |-> h.client_connections, fds |-> ds]
    BY <2>1
  <2> HIDE DEF t
  <2>2. r = [connections |-> cs, pfd |-> h.pfd, client_connections |-> n, fds |-> ds]
    BY <2>1a, <2>1b
  <2> HIDE DEF r
  <2> QED
    BY <2>2
<1> QED
  BY <1>7, <1>8, <1>9 DEF Created, n, cs, es, ds, u

(* The tables with the new connection.                                     *)
LEMMA CreateTable ==
  ASSUME NEW h, NEW ps, Table(h, ps), PeersSound(ps), NEW fd \in Fd, h.fds[fd] = Free,
         NEW end \in Ends(ps), \A f \in Fd : h.fds[f] # end,
         NEW type \in ConnectionType, Fits(type, end, ps),
         NEW g, g = Created(h, fd, end, type)
  PROVE  /\ Table(g, ps) /\ Later(h, g) /\ g.fds[fd] = end
         /\ \A f \in Fd : f # fd => g.fds[f] = h.fds[f]
<1>0. h \in Handler /\ Parallel(h) /\ Distinct(h) /\ Fitting(h, ps) /\ Covered(h) /\ Single(h)
  BY DEF Table
<1>1. ~IsConnected(h, fd)
  BY ConnectedIsOpen DEF IsOpen
<1> DEFINE c == [fd |-> fd, type |-> type]
           e == [fd |-> fd, revents |-> {}, of |-> Free]
<1>2. /\ g.connections = Append(h.connections, c) /\ g.pfd = Append(h.pfd, e)
      /\ g.client_connections = h.client_connections + IF IsClient(type) THEN 1 ELSE 0
      /\ g.fds = [h.fds EXCEPT ![fd] = end]
  BY DEF Created
<1>3. /\ c \in Connection /\ e \in PollEntry /\ c.fd = fd /\ c.type = type
      /\ e.fd = fd /\ e.revents = {}
  BY DEF Connection, PollEntry, Free
<1>4. /\ DOMAIN h.pfd = DOMAIN h.connections
      /\ h.pfd \in Seq(PollEntry) /\ h.connections \in Seq(Connection)
      /\ Len(h.pfd) = Len(h.connections)
  <2>1. DOMAIN h.pfd = DOMAIN h.connections
        /\ h.pfd \in Seq(PollEntry) /\ h.connections \in Seq(Connection)
    BY <1>0 DEF Parallel, Handler
  <2> QED
    BY <2>1, SameLength
<1> HIDE DEF c, e
<1> DEFINE n == Len(g.connections)
<1>5. /\ g.connections \in Seq(Connection) /\ Len(g.connections) = Len(h.connections) + 1
      /\ n \in DOMAIN g.connections /\ g.connections[n] = c
      /\ \A i \in DOMAIN g.connections : i = n \/ (i \in DOMAIN h.connections /\ i # n)
      /\ \A i \in DOMAIN h.connections :
            i \in DOMAIN g.connections /\ i # n /\ g.connections[i] = h.connections[i]
  BY <1>2, <1>3, <1>4, AppendIs
<1>6. /\ g.pfd \in Seq(PollEntry) /\ Len(g.pfd) = Len(h.pfd) + 1
      /\ Len(g.pfd) \in DOMAIN g.pfd /\ g.pfd[Len(g.pfd)] = e
      /\ \A i \in DOMAIN h.pfd : g.pfd[i] = h.pfd[i]
  BY <1>2, <1>3, <1>4, AppendIs
<1>7. DOMAIN g.pfd = DOMAIN g.connections /\ Len(g.pfd) = n
  BY <1>4, <1>5, <1>6, SameLength
<1> HIDE DEF n
<1>8. /\ g.fds \in [Fd -> Int] /\ g.fds[fd] = end /\ \A f \in Fd : f # fd => g.fds[f] = h.fds[f]
      /\ end \in Int /\ end \notin {Free, LogFile}
  <2>1. MaxPeers \in Nat /\ Nodes \in Nat /\ Len(ps) \in Nat
    BY Bounds DEF PeersSound
  <2>2. end \in Int /\ end \notin {Free, LogFile}
    BY <2>1 DEF Ends, GatewayTimer, Fifo, Free, LogFile
  <2>3. h.fds \in [Fd -> Int]
    BY <1>0 DEF Handler
  <2> QED
    BY <1>2, <2>2, <2>3
<1>9. g \in Handler
  <2>1. g.client_connections \in Int
    BY <1>0, <1>2 DEF Handler
  <2>2. g = [connections |-> g.connections, pfd |-> g.pfd,
             client_connections |-> g.client_connections, fds |-> g.fds]
    BY DEF Created
  <2> QED
    BY <1>5, <1>6, <1>8, <2>1, <2>2 DEF Handler
<1>10. \A i \in DOMAIN h.connections : h.connections[i].fd # fd /\ h.connections[i].fd \in Fd
  <2>1. \A i \in DOMAIN h.connections : h.connections[i] \in Connection
    BY <1>4
  <2> QED
    BY <1>1, <2>1 DEF IsConnected, Connection
<1>11. Parallel(g)
  BY <1>0, <1>3, <1>4, <1>5, <1>6, <1>7 DEF Parallel
<1>12. Distinct(g)
  BY <1>0, <1>3, <1>5, <1>10 DEF Distinct
<1>13. Fitting(g, ps)
  <2> SUFFICES ASSUME NEW i \in DOMAIN g.connections
               PROVE  LET o == g.fds[g.connections[i].fd]
                      IN  o \in Ends(ps) /\ Fits(g.connections[i].type, o, ps)
    BY DEF Fitting
  <2>1. CASE i = n
    BY <1>3, <1>5, <1>8, <2>1
  <2>2. CASE i \in DOMAIN h.connections
    BY <1>0, <1>5, <1>8, <1>10, <2>2 DEF Fitting
  <2> QED
    BY <1>5, <2>1, <2>2
<1>14. Covered(g)
  <2> SUFFICES ASSUME NEW f \in Fd, IsOpen(g, f)
               PROVE  IsConnected(g, f)
    BY DEF Covered
  <2>1. CASE f = fd
    BY <1>3, <1>5, <2>1 DEF IsConnected
  <2>2. CASE f # fd
    BY <1>0, <1>5, <1>8, <2>2 DEF Covered, IsOpen, IsConnected
  <2> QED
    BY <2>1, <2>2
<1>15. Single(g)
  BY <1>0, <1>8 DEF Single, IsOpen
<1>16. Later(h, g)
  <2> SUFFICES ASSUME NEW i \in DOMAIN g.pfd, g.pfd[i].revents # {}
               PROVE  \E j \in DOMAIN h.pfd :
                        j >= i /\ g.pfd[i] = h.pfd[j] /\ g.fds[g.pfd[i].fd] = h.fds[g.pfd[i].fd]
    BY DEF Later
  <2>1. i \in DOMAIN h.pfd
    BY <1>3, <1>4, <1>5, <1>6, <1>7
  <2>2. g.pfd[i] = h.pfd[i] /\ i >= i
    BY <1>4, <1>6, <2>1
  <2>3. g.pfd[i].fd \in Fd /\ g.pfd[i].fd # fd
    BY <1>0, <1>4, <1>10, <2>1, <2>2 DEF Parallel
  <2> QED
    BY <1>8, <2>1, <2>2, <2>3
<1> QED
  BY <1>8, <1>9, <1>11, <1>12, <1>13, <1>14, <1>15, <1>16 DEF Table

-----------------------------------------------------------------------------
(***************************************************************************)
(* Several go.                                                             *)
(***************************************************************************)

(* Closing a set of connections, none of them the client socket.           *)
LEMMA ClosedShrinks ==
  ASSUME NEW h, NEW ps, Table(h, ps), PeersSound(ps),
         NEW S \in SUBSET Fd, \A fd \in S : h.fds[fd] # ClientSocket
  PROVE  /\ Shrinks(h, Closed(h, S), ps)
         /\ \A f \in Fd \ S : Closed(h, S).fds[f] = h.fds[f]
<1> DEFINE H == {g \in Handler : Shrinks(h, g, ps) /\ \A f \in Fd \ S : g.fds[f] = h.fds[f]}
           C == [s \in SUBSET S |-> CHOOSE x \in s : TRUE]
           F == [p \in S \X H |-> unregister_connection(p[2], p[1])]
           Folds(it) == it = [s \in SUBSET S |-> IF s = {} THEN h ELSE
                                unregister_connection(it[s \ {CHOOSE x \in s : TRUE}],
                                                      CHOOSE x \in s : TRUE)]
           iter == CHOOSE it : Folds(it)
<1>1. Closed(h, S) = iter[S]
  BY DEF Closed, FoldSet, MapThenFoldSet
<1>2. h \in H
  BY ShrinksReflexive DEF Table
<1>3. ASSUME NEW fd \in S, NEW g \in H
      PROVE  unregister_connection(g, fd) \in H
  <2> DEFINE k == unregister_connection(g, fd)
  <2>1. Shrinks(h, g, ps) /\ \A f \in Fd \ S : g.fds[f] = h.fds[f]
    OBVIOUS
  <2>2. Table(g, ps)
    BY <2>1 DEF Shrinks
  <2>3. g.fds[fd] # ClientSocket
    <3>1. g.fds[fd] = h.fds[fd] \/ g.fds[fd] = Free
      BY <2>1 DEF Shrinks, Fewer
    <3> QED
      BY <3>1 DEF Free, ClientSocket
  <2>4. Shrinks(g, k, ps) /\ \A f \in Fd : f # fd => k.fds[f] = g.fds[f]
    <3>1. fd \in Fd
      OBVIOUS
    <3> HIDE DEF H
    <3> QED
      BY <2>2, <2>3, <3>1, UnregisterTable
  <2> HIDE DEF k
  <2>5. Shrinks(h, k, ps)
    BY <2>1, <2>4, ShrinksTransitive
  <2>6. k \in Handler
    BY <2>5 DEF Shrinks, Table
  <2>7. \A f \in Fd \ S : k.fds[f] = h.fds[f]
    BY <2>1, <2>4
  <2> QED
    BY <2>5, <2>6, <2>7 DEF k
<1>4. IsFiniteSet(S)
  <2>1. IsFiniteSet(Fd)
    BY Bounds, FS_Interval DEF Fd, DLT_FD_MINIMUM
  <2> QED
    BY <2>1, FS_Subset
<1>5. \A s \in SUBSET S : s # {} => C[s] \in s /\ C[s] = CHOOSE x \in s : TRUE
  OBVIOUS
<1>6. \A fd \in S, g \in H : F[<<fd, g>>] = unregister_connection(g, fd)
  BY <1>3
<1> HIDE DEF H, C, F
<1>7. PICK some \in [SUBSET S -> H] :
         Folding(S, h, C, F, some)
  <2>1. Keeps(S, H, F)
    BY <1>3, <1>6 DEF Keeps
  <2>2. Chooses(S, C)
    BY <1>5 DEF Chooses
  <2> QED
    BY <1>2, <1>4, <2>1, <2>2, IterExists
<1>8. Folds(some)
  <2>1. \A s \in SUBSET S : s # {} => C[s] \in S /\ s \ {C[s]} \in SUBSET S
    BY <1>5
  <2>2. \A s \in SUBSET S : s # {} =>
           some[s] = unregister_connection(some[s \ {C[s]}], C[s])
    BY <1>6, <1>7, <2>1 DEF Folding
  <2>3. \A s \in SUBSET S : some[s] = IF s = {} THEN h ELSE
           unregister_connection(some[s \ {CHOOSE x \in s : TRUE}], CHOOSE x \in s : TRUE)
    BY <1>5, <1>7, <2>2 DEF Folding
  <2> QED
    BY <2>3
<1>9. Folds(iter)
  <2> HIDE DEF Folds
  <2> QED
    BY <1>8
<1>10. iter[S] \in H
  <2>1. iter[{}] = h /\ \A s \in SUBSET S : s # {} =>
           iter[s] = unregister_connection(iter[s \ {C[s]}], C[s])
    <3> HIDE DEF iter
    <3>1. \A s \in SUBSET S : iter[s] = IF s = {} THEN h ELSE
             unregister_connection(iter[s \ {CHOOSE x \in s : TRUE}], CHOOSE x \in s : TRUE)
      BY <1>9
    <3> QED
      BY <1>5, <3>1
  <2> HIDE DEF iter, Folds
  <2>2. \A s \in SUBSET S : s # {} /\ iter[s \ {C[s]}] \in H => iter[s] \in H
    <3>1. \A s \in SUBSET S : s # {} => C[s] \in S
      BY <1>5
    <3> QED
      BY <1>3, <2>1, <3>1
  <2>3. Chooses(S, C) /\ iter[{}] \in H
    BY <1>2, <1>5, <2>1 DEF Chooses
  <2> QED
    BY <1>4, <2>2, <2>3, IterStays
<1> HIDE DEF iter
<1> QED
  BY <1>1, <1>10 DEF H

(* The clients that are found gone when something is sent to all of them.  *)
LEMMA AfterSendingShrinks ==
  ASSUME NEW h, Table(h, peers), PeersSound(peers), NEW g \in AfterSending(h)
  PROVE  /\ Shrinks(h, g, peers)
         /\ \A f \in Fd : h.fds[f] \notin 1 .. Len(peers) => g.fds[f] = h.fds[f]
<1>1. PICK S \in SUBSET Broken(h) : g = Closed(h, S)
  BY DEF AfterSending
<1>2. S \in SUBSET Fd /\ \A f \in S : h.fds[f] \in DOMAIN peers
  BY DEF Broken
<1>3. DOMAIN peers = 1 .. Len(peers) /\ -3 \notin 1 .. Len(peers)
  BY DEF PeersSound
<1>4. \A f \in S : h.fds[f] # ClientSocket
  BY <1>2, <1>3 DEF ClientSocket
<1> QED
  BY <1>1, <1>2, <1>3, <1>4, ClosedShrinks

(* One is closed, and then those that are found gone.                      *)
LEMMA CloseSocketShrinks ==
  ASSUME NEW h, Table(h, peers), PeersSound(peers),
         NEW fd \in Fd, h.fds[fd] # ClientSocket, NEW g \in close_socket(h, fd)
  PROVE  /\ Shrinks(h, g, peers) /\ ~IsOpen(g, fd)
         /\ \A f \in Fd : f # fd /\ h.fds[f] \notin 1 .. Len(peers) => g.fds[f] = h.fds[f]
<1> DEFINE k == unregister_connection(h, fd)
<1>1. /\ Shrinks(h, k, peers) /\ ~IsOpen(k, fd)
      /\ \A f \in Fd : f # fd => k.fds[f] = h.fds[f]
  BY UnregisterTable
<1>2. g \in AfterSending(k)
  BY DEF close_socket
<1> HIDE DEF k
<1>3. /\ Shrinks(k, g, peers)
      /\ \A f \in Fd : k.fds[f] \notin 1 .. Len(peers) => g.fds[f] = k.fds[f]
  BY <1>1, <1>2, AfterSendingShrinks DEF Shrinks
<1>4. Shrinks(h, g, peers)
  BY <1>1, <1>3, ShrinksTransitive
<1>5. ~IsOpen(g, fd)
  BY <1>1, <1>3 DEF Shrinks, Fewer, IsOpen
<1> QED
  BY <1>1, <1>3, <1>4, <1>5

-----------------------------------------------------------------------------
(***************************************************************************)
(* One turn of the loop.                                                   *)
(***************************************************************************)

(* The peers differ in what they have sent, if at all.                     *)
SameTypes(ps, qs) ==
  PeersSound(qs) /\ Len(qs) = Len(ps) /\ \A p \in 1 .. Len(ps) : qs[p].type = ps[p].type

(* The tables do not depend on more than the types of the peers that have  *)
(* a descriptor.                                                           *)
LEMMA TableOfTypes ==
  ASSUME NEW h, NEW ps, NEW qs, Table(h, ps), PeersSound(ps), PeersSound(qs), Len(ps) <= Len(qs),
         \A f \in Fd : h.fds[f] \in 1 .. Len(ps) => qs[h.fds[f]].type = ps[h.fds[f]].type
  PROVE  Table(h, qs)
<1>1. h \in Handler /\ Fitting(h, ps)
  BY DEF Table
<1>2. \A i \in DOMAIN h.connections : h.connections[i].fd \in Fd
  <2>1. \A i \in DOMAIN h.connections : h.connections[i] \in Connection
    BY <1>1 DEF Handler
  <2> QED
    BY <2>1 DEF Connection
<1>3. /\ Len(ps) \in Nat /\ Len(qs) \in Nat /\ Len(qs) <= MaxPeers
      /\ MaxPeers \in Nat /\ Nodes \in Nat
  BY Bounds DEF PeersSound
<1>3a. \A end \in Ends(ps) : end \in Ends(qs) /\ (end \in 1 .. Len(qs) => end \in 1 .. Len(ps))
  BY <1>3 DEF Ends, GatewayTimer, Fifo
<1>4. ASSUME NEW i \in DOMAIN h.connections
      PROVE  LET end == h.fds[h.connections[i].fd]
             IN  end \in Ends(qs) /\ Fits(h.connections[i].type, end, qs)
  <2> DEFINE end == h.fds[h.connections[i].fd]
  <2>1. end \in Ends(ps) /\ Fits(h.connections[i].type, end, ps)
    BY <1>1 DEF Fitting
  <2>2. end \in 1 .. Len(ps) => qs[end].type = ps[end].type
    BY <1>2
  <2> HIDE DEF end
  <2>2a. end \in Ends(qs) /\ (end \in 1 .. Len(qs) => end \in 1 .. Len(ps))
    BY <1>3a, <2>1
  <2>3. Fits(h.connections[i].type, end, qs)
    BY <2>1, <2>2, <2>2a DEF Fits
  <2> QED
    BY <2>2a, <2>3 DEF end
<1> QED
  BY <1>4 DEF Table, Fitting

(* What a turn may do to the peers. *)
PeersRemain(ps, h, bl, qs) ==
  /\ PeersSound(qs) /\ Len(qs) = Len(ps)
  /\ \A p \in 1 .. Len(ps) : p \in Range(bl) \/ (\E f \in Fd : h.fds[f] = p) => qs[p] = ps[p]

(* The peers the daemon has let go are dead, the others as they were.      *)
LEMMA SettledIs ==
  ASSUME NEW h, NEW ps, PeersSound(ps), NEW bl
  PROVE  PeersRemain(ps, h, bl, Settled(h, ps, bl))
<1> DEFINE qs == Settled(h, ps, bl)
<1>1. ps \in Seq(Peer) /\ DOMAIN ps = 1 .. Len(ps) /\ Len(ps) \in Nat /\ Len(ps) <= MaxPeers
  BY DEF PeersSound
<1>2. qs = [p \in 1 .. Len(ps) |->
              IF p \in Range(bl) \/ \E f \in Fd : h.fds[f] = p THEN ps[p] ELSE Dead]
  BY <1>1 DEF Settled
<1>3. Dead \in Peer
  BY DEF Dead, Peer
<1>4. qs \in [1 .. Len(ps) -> Peer]
  BY <1>1, <1>2, <1>3
<1>5. qs \in Seq(Peer) /\ Len(qs) = Len(ps)
  BY <1>1, <1>4
<1>6. \A p \in 1 .. Len(ps) : p \in Range(bl) \/ (\E f \in Fd : h.fds[f] = p) => qs[p] = ps[p]
  BY <1>2
<1> HIDE DEF qs
<1>7. PeersRemain(ps, h, bl, qs)
  BY <1>1, <1>5, <1>6 DEF PeersSound, PeersRemain
<1> QED
  BY <1>7 DEF qs

(* Which end is looked at in this turn. *)
Current == handler.fds[Entry.fd]

(* What was ready and has not been looked at is ready still.               *)
LEMMA FreshRemains ==
  ASSUME Inv, index # 0, NEW h, NEW ps, NEW ns, NEW bl, NEW in,
         Table(h, peers), Later(handler, h),
         \A end \in Ends(peers) :
            end # Current /\ (\E f \in Fd : handler.fds[f] = end /\ h.fds[f] = end) =>
               Ready(end, peers, nodes, backlog, input) \subseteq Ready(end, ps, ns, bl, in)
  PROVE  FreshFrom(h, index + 1, ps, ns, bl, in)
<1>1. /\ handler \in Handler /\ Parallel(handler) /\ Distinct(handler) /\ Single(handler)
      /\ Table(handler, peers) /\ PeersSound(peers)
      /\ FreshFrom(handler, index, peers, nodes, backlog, input)
  BY DEF Inv, Table
<1>2. h \in Handler
  BY DEF Table
<1> SUFFICES ASSUME NEW j \in DOMAIN h.pfd, j >= index + 1, h.pfd[j].revents # {}
             PROVE  /\ h.fds[h.pfd[j].fd] = h.pfd[j].of
                    /\ h.pfd[j].revents \subseteq Ready(h.pfd[j].of, ps, ns, bl, in)
  BY DEF FreshFrom
<1>3. PICK o \in DOMAIN handler.pfd :
         o >= j /\ h.pfd[j] = handler.pfd[o] /\ h.fds[h.pfd[j].fd] = handler.fds[h.pfd[j].fd]
  BY DEF Later
<1> DEFINE e == handler.pfd[o]
<1>4. o \in Nat /\ j \in Nat /\ index \in Nat /\ index \in DOMAIN handler.pfd
  BY <1>1, <1>2 DEF Inv, Handler
<1>5. o >= index /\ o # index
  BY <1>3, <1>4
<1>6. handler.fds[e.fd] = e.of /\ e.revents \subseteq Ready(e.of, peers, nodes, backlog, input)
  BY <1>1, <1>3, <1>5 DEF FreshFrom
<1>7. handler.pfd[o] \in PollEntry /\ handler.pfd[index] \in PollEntry
  BY <1>1, <1>4 DEF Handler
<1>8. e.fd \in Fd /\ Entry.fd \in Fd
  BY <1>7 DEF PollEntry, Entry
<1>9. IsConnected(handler, e.fd) /\ e.fd # Entry.fd
  BY <1>1, <1>4, <1>5 DEF Parallel, Distinct, IsConnected, Entry
<1>10. IsOpen(handler, e.fd) /\ handler.fds[e.fd] \in Ends(peers)
  BY <1>1, <1>8, <1>9, ConnectedIsOpen
<1>11. e.of # Current
  BY <1>1, <1>6, <1>8, <1>9, <1>10 DEF Single, Current
<1>12. Ready(e.of, peers, nodes, backlog, input) \subseteq Ready(e.of, ps, ns, bl, in)
  BY <1>3, <1>6, <1>8, <1>10, <1>11
<1> QED
  BY <1>3, <1>6, <1>12

(* An end that is not served in this turn stays as ready as it was.        *)
LEMMA ReadyRemains ==
  ASSUME NEW end \in Ends(peers), NEW ps, NEW ns, NEW bl, NEW in,
         PeersSound(peers), end \in 1 .. Len(peers) => PeerReady(peers[end]) \subseteq PeerReady(ps[end]),
         end \in input => end \in in,
         end \in DOMAIN Accepts /\ (\E i \in 1 .. Len(backlog) : peers[backlog[i]].type = Accepts[end])
            => \E i \in 1 .. Len(bl) : ps[bl[i]].type = Accepts[end],
         end > MaxPeers => PeerReady(nodes[end - MaxPeers]) \subseteq PeerReady(ns[end - MaxPeers])
  PROVE  Ready(end, peers, nodes, backlog, input) \subseteq Ready(end, ps, ns, bl, in)
<1>1. MaxPeers \in Nat /\ Nodes \in Nat /\ Len(peers) \in Nat /\ Len(peers) <= MaxPeers
  BY Bounds DEF PeersSound
<1>2. DOMAIN Accepts = {AppSocket, ClientSocket, ControlSocket}
  BY DEF Accepts
<1>3. CASE end \in DOMAIN Accepts
  BY <1>2, <1>3 DEF Ready, Free, AppSocket, ClientSocket, ControlSocket
<1>4. CASE end \notin DOMAIN Accepts /\ end \in GatewayTimer .. Fifo
  <2>1. end < 0 /\ end # Free
    BY <1>4 DEF GatewayTimer, Fifo, Free
  <2> QED
    BY <1>2, <1>4, <2>1 DEF Ready
<1>5. CASE end \in 1 .. Len(peers)
  <2>1. ~(end < 0) /\ end # Free /\ end <= MaxPeers /\ end \notin DOMAIN Accepts
    BY <1>1, <1>2, <1>5 DEF Free, AppSocket, ClientSocket, ControlSocket
  <2> QED
    BY <1>2, <1>5, <2>1 DEF Ready
<1>6. CASE end \in MaxPeers + 1 .. MaxPeers + Nodes
  <2>1. ~(end < 0) /\ end # Free /\ ~(end <= MaxPeers) /\ end > MaxPeers /\ end \notin DOMAIN Accepts
    BY <1>1, <1>2, <1>6 DEF Free, AppSocket, ClientSocket, ControlSocket
  <2> QED
    BY <1>2, <2>1 DEF Ready
<1> QED
  BY <1>3, <1>4, <1>5, <1>6 DEF Ends

(* What a turn may do to those that wait, and to the nodes. *)
WaitingRemain(bl) ==
  \A s \in DOMAIN Accepts : s # Current
     /\ (\E i \in 1 .. Len(backlog) : peers[backlog[i]].type = Accepts[s])
     => \E i \in 1 .. Len(bl) : peers[bl[i]].type = Accepts[s]
NodesRemain(ns) ==
  \A k \in Node : NodeSocket(k) # Current /\ (\E f \in Fd : handler.fds[f] = NodeSocket(k))
     => PeerReady(nodes[k]) \subseteq PeerReady(ns[k])

(* A turn that leaves sound tables behind, and the other ends alone.       *)
LEMMA TurnInv ==
  ASSUME Inv, index # 0, scenario' = scenario, running' = running,
         Table(handler', peers), Later(handler, handler'), Advance(handler'),
         NEW ps, SameTypes(peers, ps), \A p \in 1 .. Len(peers) : p # Current => ps[p] = peers[p],
         PeersRemain(ps, handler', backlog', peers'),
         Waiting(handler', peers, backlog'), WaitingRemain(backlog'),
         input' \subseteq input, input \ {Current} \subseteq input', NodesRemain(nodes'),
         gateway' \in [Node -> GatewayEntry], nodes' \in [Node -> PassiveNode], due' \in Ages,
         running = "yes" => Attached(handler', gateway'), OffMeansOff'
  PROVE  Inv'
<1>1. /\ PeersSound(peers) /\ Table(handler, peers) /\ scenario \in Scenarios
      /\ index \in 0 .. Len(handler.pfd) /\ input \subseteq GatewayTimer .. Fifo
  BY DEF Inv
<1>2. /\ PeersSound(ps) /\ Len(ps) = Len(peers)
      /\ \A p \in 1 .. Len(peers) : ps[p].type = peers[p].type
  BY DEF SameTypes
<1>3. /\ PeersSound(peers') /\ Len(peers') = Len(peers)
      /\ \A p \in 1 .. Len(peers) :
            p \in Range(backlog') \/ (\E f \in Fd : handler'.fds[f] = p) => peers'[p] = ps[p]
  BY <1>2 DEF PeersRemain
<1>4. Table(handler', peers')
  <2>1. Len(peers) <= Len(peers')
    BY <1>1, <1>3 DEF PeersSound
  <2> QED
    BY <1>1, <1>2, <1>3, <2>1, TableOfTypes
<1>5. Waiting(handler', peers', backlog')
  BY <1>3 DEF Waiting
<1>6. index' \in 0 .. Len(handler'.pfd) /\ (index' # 0 => index' = index + 1)
  <2>1. Len(handler'.pfd) \in Nat
    BY DEF Table, Handler
  <2>2. index \in Nat
    BY <1>1
  <2> QED
    BY <2>1, <2>2 DEF Advance
<1>7. index' # 0 => FreshFrom(handler', index', peers', nodes', backlog', input')
  <2>1. ASSUME NEW end \in Ends(peers), end # Current,
               NEW f \in Fd, handler.fds[f] = end, handler'.fds[f] = end
        PROVE  Ready(end, peers, nodes, backlog, input)
                  \subseteq Ready(end, peers', nodes', backlog', input')
    <3>1. end \in 1 .. Len(peers) => PeerReady(peers[end]) \subseteq PeerReady(peers'[end])
      BY <1>3, <2>1
    <3>2. end \in input => end \in input'
      BY <2>1
    <3>3. end \in DOMAIN Accepts
             /\ (\E i \in 1 .. Len(backlog) : peers[backlog[i]].type = Accepts[end])
          => \E i \in 1 .. Len(backlog') : peers'[backlog'[i]].type = Accepts[end]
      <4> SUFFICES ASSUME end \in DOMAIN Accepts,
                          \E i \in 1 .. Len(backlog) : peers[backlog[i]].type = Accepts[end]
                   PROVE  \E i \in 1 .. Len(backlog') : peers'[backlog'[i]].type = Accepts[end]
        OBVIOUS
      <4>1. PICK i \in 1 .. Len(backlog') : peers[backlog'[i]].type = Accepts[end]
        BY <2>1 DEF WaitingRemain
      <4>2. backlog' \in Seq(1 .. Len(peers))
        BY DEF Waiting
      <4>3. backlog'[i] \in 1 .. Len(peers) /\ backlog'[i] \in Range(backlog')
        BY <4>1, <4>2 DEF Range
      <4>4. peers'[backlog'[i]].type = peers[backlog'[i]].type
        BY <1>2, <1>3, <4>3
      <4> QED
        BY <4>1, <4>4
    <3>4. end > MaxPeers =>
            PeerReady(nodes[end - MaxPeers]) \subseteq PeerReady(nodes'[end - MaxPeers])
      <4> SUFFICES ASSUME end > MaxPeers
                   PROVE  PeerReady(nodes[end - MaxPeers]) \subseteq PeerReady(nodes'[end - MaxPeers])
        OBVIOUS
      <4>1. MaxPeers \in Nat /\ Nodes \in Nat /\ Len(peers) \in Nat /\ Len(peers) <= MaxPeers
        BY <1>1, Bounds DEF PeersSound
      <4>2. end \in MaxPeers + 1 .. MaxPeers + Nodes
        BY <4>1 DEF Ends, GatewayTimer, Fifo
      <4>3. end - MaxPeers \in Node /\ NodeSocket(end - MaxPeers) = end
        BY <4>1, <4>2 DEF Node, NodeSocket
      <4> QED
        BY <2>1, <4>3 DEF NodesRemain
    <3> QED
      BY <1>1, <3>1, <3>2, <3>3, <3>4, ReadyRemains
  <2>2. FreshFrom(handler', index + 1, peers', nodes', backlog', input')
    BY <2>1, FreshRemains
  <2> QED
    BY <1>6, <2>2
<1>8. Ages' = Ages /\ (\A k : NodeSocket(k)' = NodeSocket(k))
  BY DEF Ages, CtrlMsgs
<1> QED
  BY <1>1, <1>3, <1>4, <1>5, <1>6, <1>7, <1>8 DEF Inv

-----------------------------------------------------------------------------
(***************************************************************************)
(* The callbacks of the event loop.                                        *)
(***************************************************************************)

(* What the theorems assume of the scenarios: one passive node at most,    *)
(* which closes its connections in order.                                  *)
Orderly == Nodes <= 1 /\ \A s \in Scenarios : "gateway" \in s => "resets" \notin s

(* The entry the loop is at, and its connection.                           *)
LEMMA AtEntry ==
  ASSUME Inv, index # 0
  PROVE  /\ Entry \in PollEntry /\ Entry.fd \in Fd /\ IsConnected(handler, Entry.fd)
         /\ find_connection(handler, Entry.fd) # 0 /\ Con.fd = Entry.fd
         /\ Current \in Ends(peers) /\ Fits(Con.type, Current, peers)
         /\ Entry.revents # {} =>
               Entry.revents \subseteq Ready(Current, peers, nodes, backlog, input)
<1>1. /\ handler \in Handler /\ Parallel(handler) /\ Fitting(handler, peers)
      /\ FreshFrom(handler, index, peers, nodes, backlog, input)
  BY DEF Inv, Table
<1>2. index \in DOMAIN handler.pfd /\ index >= index
  <2>1. index \in 0 .. Len(handler.pfd)
    BY DEF Inv
  <2>2. DOMAIN handler.pfd = 1 .. Len(handler.pfd) /\ Len(handler.pfd) \in Nat
    BY <1>1 DEF Handler
  <2> QED
    BY <2>1, <2>2
<1>3. Entry \in PollEntry /\ Entry.fd \in Fd
  <2>1. handler.pfd \in Seq(PollEntry)
    BY <1>1 DEF Handler
  <2>2. handler.pfd[index] \in PollEntry
    BY <1>2, <2>1
  <2> QED
    BY <2>2 DEF PollEntry, Entry
<1>4. IsConnected(handler, Entry.fd)
  BY <1>1, <1>2 DEF Parallel, IsConnected, Entry
<1>5. /\ find_connection(handler, Entry.fd) \in DOMAIN handler.connections
      /\ find_connection(handler, Entry.fd) # 0 /\ Con.fd = Entry.fd
  BY <1>1, <1>4, FindIs DEF IsConnected, Con
<1>6. Current \in Ends(peers) /\ Fits(Con.type, Current, peers)
  BY <1>1, <1>5 DEF Fitting, Con, Current
<1>7. Entry.revents # {} => Entry.revents \subseteq Ready(Current, peers, nodes, backlog, input)
  BY <1>1, <1>2 DEF FreshFrom, Entry, Current
<1> QED
  BY <1>3, <1>4, <1>5, <1>6, <1>7

(* What the connection is to, by its type.                                 *)
LEMMA EndOfType ==
  ASSUME Inv, index # 0
  PROVE  /\ Con.type = "CLIENT_CONNECT" => Current = ClientSocket
         /\ Con.type = "CONTROL_CONNECT" => Current = ControlSocket
         /\ Con.type = "APP_CONNECT" => Current = AppSocket
         /\ Con.type = "CLIENT_MSG_SERIAL" => Current = SerialLine
         /\ Con.type = "ONE_S_TIMER" => Current = OneSecondTimer
         /\ Con.type = "GATEWAY_TIMER" => Current = GatewayTimer
         /\ Con.type = "GATEWAY" => Current \in MaxPeers + 1 .. MaxPeers + Nodes
         /\ Con.type \in {"CLIENT_MSG_TCP", "CONTROL_MSG"} => Current \in 1 .. Len(peers)
         /\ Con.type = "APP_MSG" => Current = Fifo \/ Current \in 1 .. Len(peers)
<1>1. Current \in Ends(peers) /\ Fits(Con.type, Current, peers)
  BY AtEntry
<1>2. CASE Current \in 1 .. Len(peers)
  <2>1. peers[Current] \in Peer
    BY <1>2 DEF Inv, PeersSound
  <2>2. Con.type \in {"CLIENT_MSG_TCP", "CONTROL_MSG", "APP_MSG", "none"}
    BY <1>1, <1>2, <2>1 DEF Fits, Peer
  <2> QED
    BY <1>2, <2>2
<1>3. CASE Current \in MaxPeers + 1 .. MaxPeers + Nodes
  <2>1. Con.type = "GATEWAY"
    BY <1>1, <1>3, Bounds DEF Fits
  <2> QED
    BY <1>3, <2>1
<1>4. CASE Current \in GatewayTimer .. Fifo
  <2>1. Current \in {GatewayTimer, OneSecondTimer, SerialLine, ControlSocket, ClientSocket, AppSocket, Fifo}
    BY <1>4 DEF GatewayTimer, OneSecondTimer, SerialLine, ControlSocket, ClientSocket, AppSocket, Fifo
  <2> QED
    BY <1>1, <2>1 DEF Fits
<1> QED
  BY <1>1, <1>2, <1>3, <1>4 DEF Ends

(* Only peers are rejected.                                                *)
LEMMA RejectedIsPeer ==
  ASSUME Inv, Orderly, index # 0, Rejected
  PROVE  Current \in 1 .. Len(peers)
<1>1. /\ Current \in Ends(peers) /\ Entry.fd \in Fd
      /\ Entry.revents \subseteq Ready(Current, peers, nodes, backlog, input)
  BY AtEntry DEF Rejected
<1>2. "ERR" \in Ready(Current, peers, nodes, backlog, input)
         \/ "NVAL" \in Ready(Current, peers, nodes, backlog, input)
  BY <1>1 DEF Rejected
<1>3. MaxPeers \in Nat /\ Nodes \in Nat
  BY Bounds
<1>4. CASE Current \in GatewayTimer .. Fifo
  <2>1. Current # Free /\ Current < 0
    BY <1>4 DEF GatewayTimer, Fifo, Free
  <2> QED
    BY <1>2, <2>1 DEF Ready
<1>5. CASE Current \in MaxPeers + 1 .. MaxPeers + Nodes
  <2>1. Current - MaxPeers \in Node /\ Current > MaxPeers /\ ~(Current < 0) /\ ~(Current <= MaxPeers)
        /\ Current # Free /\ Current \notin {AppSocket, ClientSocket, ControlSocket}
    BY <1>3, <1>5 DEF Node, Free, AppSocket, ClientSocket, ControlSocket
  <2>2. Ready(Current, peers, nodes, backlog, input) = PeerReady(nodes[Current - MaxPeers])
    BY <2>1 DEF Ready
  <2>3. nodes[Current - MaxPeers].state = "reset"
    BY <1>2, <2>2 DEF PeerReady
  <2>4. "resets" \in scenario
    BY <2>1, <2>3 DEF Inv, OffMeansOff
  <2>5. "gateway" \in scenario
    BY <1>1, <2>1 DEF Inv, OffMeansOff, Current
  <2> QED
    BY <2>4, <2>5 DEF Inv, Orderly
<1> QED
  BY <1>1, <1>4, <1>5 DEF Ends

(* Closing connections makes nobody that waits a peer with a descriptor.   *)
LEMMA WaitingShrinks ==
  ASSUME NEW h, NEW ps, NEW bl, PeersSound(ps), Waiting(h, ps, bl), NEW g, Fewer(h, g)
  PROVE  Waiting(g, ps, bl)
<1>1. \A i \in 1 .. Len(bl) : bl[i] # Free
  BY DEF Waiting, Free
<1> QED
  BY <1>1 DEF Waiting, Fewer

(* The nodes' sockets stay, and no other becomes one.                      *)
KeepsNodes(h, g) ==
  \A f \in Fd : \/ g.fds[f] = h.fds[f]
                \/ h.fds[f] <= MaxPeers /\ g.fds[f] \in 0 .. MaxPeers

(* Then the entries are attached as before.                                *)
LEMMA AttachedKept ==
  ASSUME NEW h, NEW g, NEW gw, Attached(h, gw), KeepsNodes(h, g)
  PROVE  Attached(g, gw)
<1>1. \A k \in Node : NodeSocket(k) > MaxPeers /\ NodeSocket(k) \in Int
  BY Bounds
<1>2. \A f \in Fd, k \in Node : g.fds[f] = NodeSocket(k) <=> h.fds[f] = NodeSocket(k)
  BY <1>1, Bounds DEF KeepsNodes
<1>3. \A f \in Fd : g.fds[f] = ClientSocket => h.fds[f] = ClientSocket
  BY Bounds DEF KeepsNodes, ClientSocket
<1> QED
  BY <1>2, <1>3 DEF Attached

(* A callback that leaves the gateway alone.                               *)
LEMMA PlainTurn ==
  ASSUME Inv, index # 0, UNCHANGED gwVars,
         NEW h, NEW ps, NEW bl, Returns(h, ps, bl),
         Table(h, peers), Later(handler, h), KeepsNodes(handler, h),
         SameTypes(peers, ps), \A p \in 1 .. Len(peers) : p # Current => ps[p] = peers[p],
         Waiting(h, peers, bl), WaitingRemain(bl),
         input' \subseteq input, input \ {Current} \subseteq input'
  PROVE  Inv'
<1>1. /\ handler' = h /\ backlog' = bl /\ peers' = Settled(h, ps, bl) /\ Advance(h)
      /\ nodes' = nodes /\ running' = running /\ scenario' = scenario
      /\ gateway' = gateway /\ due' = due
  BY DEF Returns, gwVars
<1>2. NodesRemain(nodes')
  BY <1>1 DEF NodesRemain
<1>3. running = "yes" => Attached(handler', gateway')
  <2>1. running = "yes" => Attached(handler, gateway)
    BY DEF Inv
  <2> QED
    BY <1>1, <2>1, AttachedKept
<1>4. OffMeansOff'
  <2>1. \A f \in Fd : handler'.fds[f] = GatewayTimer \/ handler'.fds[f] > MaxPeers
                         => handler'.fds[f] = handler.fds[f]
    BY <1>1, Bounds DEF KeepsNodes, GatewayTimer
  <2> QED
    BY <1>1, <2>1 DEF Inv, OffMeansOff
<1>4a. PeersRemain(ps, handler', backlog', peers')
  <2>1. PeersSound(ps) /\ peers' = Settled(h, ps, bl)
    BY <1>1 DEF SameTypes
  <2>2. PeersRemain(ps, h, bl, peers')
    BY <2>1, SettledIs
  <2> QED
    BY <1>1, <2>2
<1>5. /\ gateway' \in [Node -> GatewayEntry] /\ nodes' \in [Node -> PassiveNode]
      /\ due' \in Ages
  BY <1>1 DEF Inv
<1> QED
  BY <1>1, <1>2, <1>3, <1>4, <1>4a, <1>5, TurnInv

(* The same when it closes connections of peers only.                      *)
LEMMA ClosingTurn ==
  ASSUME Inv, index # 0, UNCHANGED gwVars,
         NEW h, NEW ps, Returns(h, ps, backlog),
         Shrinks(handler, h, peers),
         \A f \in Fd : handler.fds[f] \notin 1 .. Len(peers) => h.fds[f] = handler.fds[f],
         SameTypes(peers, ps), \A p \in 1 .. Len(peers) : p # Current => ps[p] = peers[p],
         input' \subseteq input, input \ {Current} \subseteq input'
  PROVE  Inv'
<1>1. Table(h, peers) /\ Later(handler, h) /\ Fewer(handler, h)
  BY DEF Shrinks
<1>2. KeepsNodes(handler, h)
  <2>1. MaxPeers \in Nat /\ Len(peers) \in Nat /\ Len(peers) <= MaxPeers
    BY Bounds DEF Inv, PeersSound
  <2>2. \A f \in Fd : handler.fds[f] \in 1 .. Len(peers) => handler.fds[f] <= MaxPeers
    BY <2>1
  <2>3. Free \in 0 .. MaxPeers
    BY <2>1 DEF Free
  <2> QED
    BY <1>1, <2>2, <2>3 DEF KeepsNodes, Fewer
<1>3. Waiting(h, peers, backlog)
  BY <1>1, WaitingShrinks DEF Inv
<1>4. WaitingRemain(backlog)
  BY DEF WaitingRemain
<1> QED
  BY <1>1, <1>2, <1>3, <1>4, PlainTurn

(* The loop goes on to the next entry without an event.                    *)
LEMMA NoEventInv ==
  ASSUME Inv, NoEvent, UNCHANGED gwVars
  PROVE  Inv'
<1>1. index # 0 /\ find_connection(handler, Entry.fd) # 0
  BY AtEntry DEF NoEvent
<1>2. /\ handler' = handler /\ Advance(handler') /\ peers' = peers /\ nodes' = nodes
      /\ backlog' = backlog /\ input' = input /\ running' = running /\ scenario' = scenario
      /\ gateway' = gateway /\ due' = due
  BY <1>1 DEF NoEvent, gwVars
<1>3. /\ PeersSound(peers) /\ Table(handler, peers) /\ Waiting(handler, peers, backlog)
      /\ gateway \in [Node -> GatewayEntry] /\ nodes \in [Node -> PassiveNode] /\ due \in Ages
      /\ (running = "yes" => Attached(handler, gateway)) /\ OffMeansOff
  BY DEF Inv
<1>4. Later(handler, handler)
  BY <1>3, ShrinksReflexive DEF Shrinks
<1>5. SameTypes(peers, peers) /\ PeersRemain(peers, handler, backlog, peers)
      /\ WaitingRemain(backlog) /\ NodesRemain(nodes)
  BY <1>3 DEF SameTypes, PeersRemain, WaitingRemain, NodesRemain
<1>6. OffMeansOff'
  BY <1>2, <1>3 DEF OffMeansOff
<1> QED
  BY <1>1, <1>2, <1>3, <1>4, <1>5, <1>6, TurnInv

(* A connection reports an error.                                          *)
LEMMA HandleRejectedInv ==
  ASSUME Inv, Orderly, HandleRejected, UNCHANGED gwVars
  PROVE  Inv'
<1>1. index # 0 /\ Rejected
  BY DEF HandleRejected, AtEvent
<1>2. Current \in 1 .. Len(peers) /\ Con.fd = Entry.fd /\ Entry.fd \in Fd
  BY <1>1, RejectedIsPeer, AtEntry
<1>3. PeersSound(peers) /\ Table(handler, peers)
  BY DEF Inv
<1>4. handler.fds[Con.fd] \in 1 .. Len(peers) /\ handler.fds[Con.fd] # ClientSocket
  <2>1. -3 \notin 1 .. Len(peers)
    BY <1>3 DEF PeersSound
  <2> QED
    BY <1>2, <2>1 DEF Current, ClientSocket
<1>5. PICK h \in IF Con.type = "CLIENT_MSG_TCP" THEN close_socket(handler, Con.fd)
                 ELSE {unregister_connection(handler, Con.fd)} :
         handler' = h /\ peers' = Settled(h, peers, backlog) /\ Advance(h)
  BY DEF HandleRejected
<1>6. /\ Shrinks(handler, h, peers)
      /\ \A f \in Fd : handler.fds[f] \notin 1 .. Len(peers) => h.fds[f] = handler.fds[f]
  <2>1. CASE h \in close_socket(handler, Con.fd)
    BY <1>2, <1>3, <1>4, <2>1, CloseSocketShrinks
  <2>2. CASE h = unregister_connection(handler, Con.fd)
    BY <1>2, <1>3, <1>4, <2>2, UnregisterTable
  <2> QED
    BY <1>5, <2>1, <2>2
<1>7. Returns(h, peers, backlog) /\ input' = input
  BY <1>5 DEF HandleRejected, Returns
<1>8. SameTypes(peers, peers)
  BY <1>3 DEF SameTypes
<1> QED
  BY <1>1, <1>6, <1>7, <1>8, ClosingTurn

(* What a peer has sent is taken.                                          *)
LEMMA ConsumedIs ==
  ASSUME Inv, index # 0, Sender \in DOMAIN peers
  PROVE  /\ SameTypes(peers, Consumed)
         /\ \A p \in 1 .. Len(peers) : p # Current => Consumed[p] = peers[p]
<1>1. Sender = Current
  BY AtEntry DEF Sender, Current
<1>2. peers \in Seq(Peer) /\ Len(peers) <= MaxPeers /\ Sender \in 1 .. Len(peers)
  BY DEF Inv, PeersSound
<1> DEFINE e == [peers[Sender] EXCEPT !.data = {}]
<1>3. peers[Sender] \in Peer
  BY <1>2
<1>4. e \in Peer /\ e.type = peers[Sender].type
  BY <1>3 DEF Peer
<1> HIDE DEF e
<1>5. Consumed = [peers EXCEPT ![Sender] = e]
  BY DEF Consumed, e
<1>6. /\ Consumed \in Seq(Peer) /\ Len(Consumed) = Len(peers) /\ Consumed[Sender] = e
      /\ \A p \in 1 .. Len(peers) : p # Sender => Consumed[p] = peers[p]
  BY <1>2, <1>4, <1>5, SeqExcept
<1> QED
  BY <1>1, <1>2, <1>4, <1>6 DEF SameTypes, PeersSound

(* A callback that closes connections of peers, or none.                   *)
LEMMA CallbackFacts ==
  ASSUME Inv, index # 0
  PROVE  /\ PeersSound(peers) /\ Table(handler, peers) /\ SameTypes(peers, peers)
         /\ Shrinks(handler, handler, peers)
         /\ \A h \in AfterSending(handler) :
               /\ Shrinks(handler, h, peers)
               /\ \A f \in Fd : handler.fds[f] \notin 1 .. Len(peers) => h.fds[f] = handler.fds[f]
         /\ Sender \in DOMAIN peers => \A h \in close_socket(handler, Con.fd) :
               /\ Shrinks(handler, h, peers)
               /\ \A f \in Fd : handler.fds[f] \notin 1 .. Len(peers) => h.fds[f] = handler.fds[f]
<1>1. PeersSound(peers) /\ Table(handler, peers)
  BY DEF Inv
<1>2. SameTypes(peers, peers) /\ Shrinks(handler, handler, peers)
  BY <1>1, ShrinksReflexive DEF SameTypes
<1>3. ASSUME NEW h \in AfterSending(handler)
      PROVE  /\ Shrinks(handler, h, peers)
             /\ \A f \in Fd : handler.fds[f] \notin 1 .. Len(peers) => h.fds[f] = handler.fds[f]
  BY <1>1, AfterSendingShrinks
<1>4. ASSUME Sender \in DOMAIN peers, NEW h \in close_socket(handler, Con.fd)
      PROVE  /\ Shrinks(handler, h, peers)
             /\ \A f \in Fd : handler.fds[f] \notin 1 .. Len(peers) => h.fds[f] = handler.fds[f]
  <2>1. Con.fd \in Fd /\ handler.fds[Con.fd] \in 1 .. Len(peers)
    BY <1>1, <1>4, AtEntry DEF Sender, PeersSound
  <2>2. handler.fds[Con.fd] # ClientSocket
    <3>1. -3 \notin 1 .. Len(peers)
      BY <1>1 DEF PeersSound
    <3> QED
      BY <2>1, <3>1 DEF ClientSocket
  <2> QED
    BY <1>1, <1>4, <2>1, <2>2, CloseSocketShrinks
<1> QED
  BY <1>1, <1>2, <1>3, <1>4

(* A client or a control client has sent something, or is gone.            *)
LEMMA RequestInv ==
  ASSUME Inv, UNCHANGED gwVars,
         dlt_daemon_process_client_messages \/ dlt_daemon_process_control_messages
  PROVE  Inv'
<1>1. index # 0 /\ input' = input
  BY DEF dlt_daemon_process_client_messages, dlt_daemon_process_control_messages, Callback, AtEvent
<1>2. CASE HasData /\ Returns(handler, Consumed, backlog)
  <2>1. Sender \in DOMAIN peers
    BY <1>2 DEF HasData
  <2> QED
    BY <1>1, <1>2, <2>1, ConsumedIs, CallbackFacts, ClosingTurn
<1>3. CASE AtEnd /\ \E h \in close_socket(handler, Con.fd) : Returns(h, peers, backlog)
  <2>1. Sender \in DOMAIN peers
    BY <1>3 DEF AtEnd
  <2>2. PICK h \in close_socket(handler, Con.fd) : Returns(h, peers, backlog)
    BY <1>3
  <2> QED
    BY <1>1, <2>1, <2>2, CallbackFacts, ClosingTurn
<1> QED
  BY <1>2, <1>3 DEF dlt_daemon_process_client_messages, dlt_daemon_process_control_messages

(* Applications have written, or one is gone.                              *)
LEMMA UserMessagesInv ==
  ASSUME Inv, UNCHANGED gwVars, dlt_daemon_process_user_messages
  PROVE  Inv'
<1>1. index # 0 /\ Callback("APP_MSG")
  BY DEF dlt_daemon_process_user_messages, Callback, AtEvent
<1>2. CASE /\ Sender = Fifo /\ \E h \in AfterSending(handler) : Returns(h, peers, backlog)
           /\ input' = input \ {Fifo}
  <2>1. PICK h \in AfterSending(handler) : Returns(h, peers, backlog)
    BY <1>2
  <2>2. Current = Fifo
    BY <1>1, <1>2, AtEntry DEF Sender, Current
  <2> QED
    BY <1>1, <1>2, <2>1, <2>2, CallbackFacts, ClosingTurn
<1>3. CASE HasData /\ input' = input /\ \E h \in AfterSending(handler) : Returns(h, Consumed, backlog)
  <2>1. PICK h \in AfterSending(handler) : Returns(h, Consumed, backlog)
    BY <1>3
  <2>2. Sender \in DOMAIN peers
    BY <1>3 DEF HasData
  <2> QED
    BY <1>1, <1>3, <2>1, <2>2, ConsumedIs, CallbackFacts, ClosingTurn
<1>4. CASE AtEnd /\ input' = input
           /\ \E h \in close_socket(handler, Con.fd) : Returns(h, peers, backlog)
  <2>1. PICK h \in close_socket(handler, Con.fd) : Returns(h, peers, backlog)
    BY <1>4
  <2>2. Sender \in DOMAIN peers
    BY <1>4 DEF AtEnd
  <2> QED
    BY <1>1, <1>4, <2>1, <2>2, CallbackFacts, ClosingTurn
<1> QED
  BY <1>2, <1>3, <1>4 DEF dlt_daemon_process_user_messages

(* The timer of the daemon.                                                *)
LEMMA OneSecondInv ==
  ASSUME Inv, UNCHANGED gwVars, dlt_daemon_process_one_s_timer
  PROVE  Inv'
<1>1. /\ index # 0 /\ Con.type = "ONE_S_TIMER" /\ input' = input \ {OneSecondTimer}
      /\ \E h \in AfterSending(handler) : Returns(h, peers, backlog)
  BY DEF dlt_daemon_process_one_s_timer, Callback, AtEvent
<1>2. Current = OneSecondTimer
  BY <1>1, EndOfType
<1>3. PICK h \in AfterSending(handler) : Returns(h, peers, backlog)
  BY <1>1
<1> QED
  BY <1>1, <1>2, <1>3, CallbackFacts, ClosingTurn

(* The loop ends: everything that has a connection is closed.              *)
LEMMA LoopEndsInv ==
  ASSUME Inv, NEW why, why # "yes", LoopEnds(why), UNCHANGED gwVars
  PROVE  Inv'
<1>1. /\ running' = why /\ handler' = Cleanup(handler) /\ index' = 0
      /\ peers' = <<>> /\ backlog' = <<>> /\ input' = {} /\ nodes' = nodes
      /\ scenario' = scenario /\ gateway' = gateway /\ due' = due
  BY DEF LoopEnds, gwVars
<1>2. handler \in Handler /\ Covered(handler) /\ Table(handler, peers)
  BY DEF Inv, Table
<1> DEFINE ds == [f \in Fd |-> IF find_connection(handler, f) = 0 THEN handler.fds[f] ELSE Free]
<1>3. \A f \in Fd : ds[f] \in {Free, LogFile}
  <2> SUFFICES ASSUME NEW f \in Fd, find_connection(handler, f) = 0
               PROVE  handler.fds[f] \in {Free, LogFile}
    OBVIOUS
  <2>1. ~IsConnected(handler, f)
    BY <1>2, FindIs
  <2> QED
    BY <1>2, <2>1 DEF Covered, IsOpen
<1>4. handler' = [connections |-> <<>>, pfd |-> <<>>,
                  client_connections |-> handler.client_connections, fds |-> ds]
  <2>1. handler = [connections |-> handler.connections, pfd |-> handler.pfd,
                   client_connections |-> handler.client_connections, fds |-> handler.fds]
    BY <1>2 DEF Handler
  <2>2. handler' = [handler EXCEPT !.fds = ds, !.connections = <<>>, !.pfd = <<>>]
    BY <1>1 DEF Cleanup
  <2> HIDE DEF ds
  <2> QED
    BY <2>1, <2>2
<1>5. ds \in [Fd -> Int]
  BY <1>2 DEF Handler, Free
<1> HIDE DEF ds
<1>6. /\ handler'.connections = <<>> /\ handler'.pfd = <<>> /\ handler'.fds = ds
      /\ handler' \in Handler
  BY <1>2, <1>4, <1>5 DEF Handler
<1>7. Table(handler', peers')
  <2>1. DOMAIN handler'.connections = {} /\ DOMAIN handler'.pfd = {}
    BY <1>6
  <2>2. \A f \in Fd : ~IsOpen(handler', f)
    BY <1>3, <1>6 DEF IsOpen
  <2> QED
    BY <1>6, <2>1, <2>2 DEF Table, Parallel, Distinct, Fitting, Covered, Single
<1>8. PeersSound(peers') /\ Waiting(handler', peers', backlog')
  <2>1. <<>> \in Seq(Peer) /\ Len(<<>>) = 0 /\ \A S : <<>> \in Seq(S)
    OBVIOUS
  <2>2. MaxPeers \in Nat
    BY Bounds
  <2> QED
    BY <1>1, <2>1, <2>2 DEF PeersSound, Waiting
<1>9. OffMeansOff'
  <2>1. \A f \in Fd : handler'.fds[f] # GatewayTimer /\ ~(handler'.fds[f] > MaxPeers)
    BY <1>3, <1>6, Bounds DEF Free, LogFile, GatewayTimer
  <2> QED
    BY <1>1, <2>1 DEF Inv, OffMeansOff
<1>10. index' \in 0 .. Len(handler'.pfd) /\ input' \subseteq GatewayTimer .. Fifo
  BY <1>1, <1>6
<1>11. Ages' = Ages
  BY <1>1 DEF Ages, CtrlMsgs
<1> QED
  BY <1>1, <1>7, <1>8, <1>9, <1>10, <1>11 DEF Inv

(* Bytes on the serial line, or an error there.                            *)
LEMMA SerialInv ==
  ASSUME Inv, UNCHANGED gwVars, dlt_daemon_process_client_messages_serial
  PROVE  Inv'
<1>1. index # 0 /\ Con.type = "CLIENT_MSG_SERIAL"
  BY DEF dlt_daemon_process_client_messages_serial, Callback, AtEvent
<1>2. Current = SerialLine
  BY <1>1, EndOfType
<1>3. CASE input' = input \ {SerialLine} /\ Returns(handler, peers, backlog)
  BY <1>1, <1>2, <1>3, CallbackFacts, ClosingTurn
<1>4. CASE LoopEnds("serial failed")
  BY <1>4, LoopEndsInv
<1> QED
  BY <1>3, <1>4 DEF dlt_daemon_process_client_messages_serial

(* The first that waits at a socket.                                       *)
LEMMA WaitingForIs ==
  ASSUME NEW s, backlog \in Seq(Range(backlog)), NEW w, w = WaitingFor(s)
  PROVE  \/ w = 0 /\ ~\E i \in DOMAIN backlog : peers[backlog[i]].type = Accepts[s]
         \/ w # 0 /\ w \in DOMAIN backlog /\ peers[backlog[w]].type = Accepts[s]
<1> DEFINE T == {i \in 1 .. Len(backlog) : peers[backlog[i]].type = Accepts[s]}
<1>1. w = IF T # {} THEN Min(T) ELSE 0
  BY DEF WaitingFor, SelectInSeq
<1>2. T \in SUBSET Nat /\ 0 \notin T /\ DOMAIN backlog = 1 .. Len(backlog)
  OBVIOUS
<1>3. CASE T = {}
  BY <1>1, <1>2, <1>3
<1>4. CASE T # {}
  <2>1. Min(T) \in T
    <3> HIDE DEF T
    <3> QED
      BY <1>2, <1>4, MinIsLeast
  <2> QED
    BY <1>1, <1>2, <1>4, <2>1
<1> QED
  BY <1>3, <1>4

(* What is taken from the backlog is not there any more, the others are.   *)
LEMMA TakenFromBacklog ==
  ASSUME Inv, NEW s \in DOMAIN Accepts, Current = s, NEW w, w = WaitingFor(s), w # 0,
         NEW p, p = backlog[w], NEW rest, rest = RemoveAt(backlog, w)
  PROVE  /\ p \in 1 .. Len(peers) /\ peers[p].type \in ConnectionType /\ \A f \in Fd : handler.fds[f] # p
         /\ \A i \in DOMAIN rest : rest[i] # p
         /\ Waiting(handler, peers, rest) /\ WaitingRemain(rest)
<1>1. /\ backlog \in Seq(1 .. Len(peers))
      /\ \A i, j \in 1 .. Len(backlog) : backlog[i] = backlog[j] => i = j
      /\ \A i \in 1 .. Len(backlog), f \in Fd : handler.fds[f] # backlog[i]
  BY DEF Inv, Waiting
<1>2. backlog \in Seq(Range(backlog)) /\ DOMAIN backlog = 1 .. Len(backlog)
  BY <1>1, RangeOfSequence
<1>3. w \in DOMAIN backlog /\ peers[p].type = Accepts[s]
  BY <1>2, WaitingForIs
<1>4. p \in 1 .. Len(peers) /\ \A f \in Fd : handler.fds[f] # p
  BY <1>1, <1>2, <1>3
<1>5. rest \in Seq(1 .. Len(peers)) /\ Removed(backlog, w, rest)
  BY <1>1, <1>3, RemoveAtFrom
<1>6. DOMAIN rest = 1 .. Len(rest)
  BY <1>5
<1>7. /\ \A i \in DOMAIN rest : From(w, i) \in DOMAIN backlog /\ From(w, i) # w
                                /\ rest[i] = backlog[From(w, i)]
      /\ \A i, j \in DOMAIN rest : From(w, i) = From(w, j) => i = j
      /\ \A o \in DOMAIN backlog : o # w => \E j \in DOMAIN rest : rest[j] = backlog[o]
  BY <1>5 DEF Removed
<1>8. \A i \in DOMAIN rest : rest[i] # p
  BY <1>1, <1>2, <1>3, <1>7
<1>9. Waiting(handler, peers, rest)
  <2>1. \A i, j \in DOMAIN rest : rest[i] = rest[j] => i = j
    BY <1>1, <1>2, <1>7
  <2>2. \A i \in DOMAIN rest, f \in Fd : handler.fds[f] # rest[i]
    BY <1>1, <1>2, <1>7
  <2> QED
    BY <1>5, <1>6, <2>1, <2>2 DEF Waiting
<1>10. WaitingRemain(rest)
  <2> SUFFICES ASSUME NEW t \in DOMAIN Accepts, t # s,
                      NEW i \in 1 .. Len(backlog), peers[backlog[i]].type = Accepts[t]
               PROVE  \E j \in 1 .. Len(rest) : peers[rest[j]].type = Accepts[t]
    BY DEF WaitingRemain
  <2>1. Accepts[t] # Accepts[s]
    BY DEF Accepts, AppSocket, ClientSocket, ControlSocket
  <2>2. i # w
    BY <1>3, <2>1
  <2>3. PICK j \in DOMAIN rest : rest[j] = backlog[i]
    BY <1>2, <1>7, <2>2
  <2> QED
    BY <1>6, <2>3
<1>11. Accepts[s] \in ConnectionType
  BY DEF Accepts, ConnectionType, AppSocket, ClientSocket, ControlSocket
<1> QED
  BY <1>3, <1>4, <1>8, <1>9, <1>10, <1>11

(* A peer is accepted: it gets a descriptor and a connection.              *)
LEMMA AcceptedIs ==
  ASSUME Inv, HasFree(handler), NEW p \in 1 .. Len(peers), \A f \in Fd : handler.fds[f] # p,
         peers[p].type \in ConnectionType, NEW h, h = Accepted(handler, p)
  PROVE  /\ Table(h, peers) /\ Later(handler, h) /\ KeepsNodes(handler, h)
         /\ \A f \in Fd : h.fds[f] = handler.fds[f] \/ h.fds[f] = p
<1> DEFINE fd == Lowest(handler)
<1>1. fd \in Fd /\ handler.fds[fd] = Free
  BY LowestIs
<1>2. Table(handler, peers) /\ PeersSound(peers)
  BY DEF Inv
<1>3. MaxPeers \in Nat /\ Len(peers) \in Nat /\ Len(peers) <= MaxPeers /\ peers[p] \in Peer
  BY <1>2, Bounds DEF PeersSound
<1>4. p \in Ends(peers) /\ Fits(peers[p].type, p, peers)
  <2>1. p \in Nat /\ p > 0 /\ p <= MaxPeers
    BY <1>3
  <2>3. Fits(peers[p].type, p, peers)
    BY <1>3, <2>1 DEF Fits, Fifo, AppSocket, ClientSocket, ControlSocket, SerialLine,
                      OneSecondTimer, GatewayTimer
  <2> QED
    BY <2>3 DEF Ends
<1>5. h = Created(handler, fd, p, peers[p].type)
  BY <1>1, <1>2, CreateIs DEF Accepted
<1> HIDE DEF fd
<1>5a. PICK t \in ConnectionType : t = peers[p].type
  BY <1>4
<1>6. /\ Table(h, peers) /\ Later(handler, h) /\ h.fds[fd] = p
      /\ \A f \in Fd : f # fd => h.fds[f] = handler.fds[f]
  BY <1>1, <1>2, <1>4, <1>5, <1>5a, CreateTable
<1>7. KeepsNodes(handler, h)
  <2>1. Free <= MaxPeers /\ p \in 0 .. MaxPeers
    BY <1>3 DEF Free
  <2> QED
    BY <1>1, <1>6, <2>1 DEF KeepsNodes
<1> QED
  BY <1>6, <1>7

(* A listening socket has somebody waiting.                                *)
LEMMA AcceptInv ==
  ASSUME Inv, UNCHANGED gwVars, NEW s \in DOMAIN Accepts, NEW type, Accept(s, type),
         Con.type = type => Current = s
  PROVE  Inv'
<1>1. index # 0 /\ Con.type = type /\ WaitingFor(s) # 0
  BY DEF Accept, Callback, AtEvent
<1> DEFINE w == WaitingFor(s)
           p == backlog[w]
           rest == RemoveAt(backlog, w)
<1>2. /\ p \in 1 .. Len(peers) /\ peers[p].type \in ConnectionType /\ \A f \in Fd : handler.fds[f] # p
      /\ \A i \in DOMAIN rest : rest[i] # p
      /\ Waiting(handler, peers, rest) /\ WaitingRemain(rest)
  BY <1>1, TakenFromBacklog
<1>3. \/ LoopEnds("accept failed")
      \/ Returns(handler, peers, rest) /\ UNCHANGED input
      \/ /\ HasFree(handler)
         /\ \E h \in IF type = "CLIENT_CONNECT" THEN AfterSending(Accepted(handler, p))
                     ELSE {Accepted(handler, p)} : Returns(h, peers, rest) /\ UNCHANGED input
  BY DEF Accept
<1> HIDE DEF p, rest
<1>4. /\ PeersSound(peers) /\ SameTypes(peers, peers) /\ Table(handler, peers)
      /\ Shrinks(handler, handler, peers)
  BY <1>1, CallbackFacts
<1>5. CASE LoopEnds("accept failed")
  BY <1>5, LoopEndsInv
<1>6. CASE Returns(handler, peers, rest) /\ UNCHANGED input
  <2>1. Later(handler, handler) /\ KeepsNodes(handler, handler)
    BY <1>4 DEF Shrinks, KeepsNodes
  <2> QED
    BY <1>1, <1>2, <1>4, <1>6, <2>1, PlainTurn
<1>7. CASE /\ HasFree(handler)
           /\ \E h \in IF type = "CLIENT_CONNECT" THEN AfterSending(Accepted(handler, p))
                       ELSE {Accepted(handler, p)} : Returns(h, peers, rest) /\ UNCHANGED input
  <2> DEFINE a == Accepted(handler, p)
  <2>1. /\ Table(a, peers) /\ Later(handler, a) /\ KeepsNodes(handler, a)
        /\ \A f \in Fd : a.fds[f] = handler.fds[f] \/ a.fds[f] = p
    BY <1>2, <1>7, AcceptedIs
  <2>2. PICK h : /\ h = a \/ h \in AfterSending(a)
                 /\ Returns(h, peers, rest) /\ UNCHANGED input
    BY <1>7
  <2> HIDE DEF a
  <2>3. Waiting(a, peers, rest)
    <3>1. DOMAIN rest = 1 .. Len(rest)
      BY <1>2 DEF Waiting
    <3> QED
      BY <1>2, <2>1, <3>1 DEF Waiting
  <2>4. CASE h = a
    BY <1>1, <1>2, <1>4, <2>1, <2>2, <2>3, <2>4, PlainTurn
  <2>5. CASE h \in AfterSending(a)
    <3>1. /\ Shrinks(a, h, peers)
          /\ \A f \in Fd : a.fds[f] \notin 1 .. Len(peers) => h.fds[f] = a.fds[f]
      BY <1>4, <2>1, <2>5, AfterSendingShrinks
    <3>2. Table(h, peers) /\ Later(handler, h) /\ Waiting(h, peers, rest)
      <4>1. Table(h, peers) /\ Later(a, h) /\ Fewer(a, h)
        BY <3>1 DEF Shrinks
      <4>2. Later(handler, h)
        BY <1>4, <2>1, <4>1, LaterTransitive DEF Table
      <4> QED
        BY <1>4, <2>3, <4>1, <4>2, WaitingShrinks
    <3>3. KeepsNodes(handler, h)
      <4>1. MaxPeers \in Nat /\ Len(peers) \in Nat /\ Len(peers) <= MaxPeers
        BY <1>4, Bounds DEF PeersSound
      <4>2. \A f \in Fd : h.fds[f] = a.fds[f] \/ (a.fds[f] <= MaxPeers /\ h.fds[f] \in 0 .. MaxPeers)
        <5>1. Free \in 0 .. MaxPeers
          BY <4>1 DEF Free
        <5> QED
          BY <3>1, <4>1, <5>1 DEF Shrinks, Fewer
      <4>3. \A f \in Fd : a.fds[f] \in 0 .. MaxPeers \/ a.fds[f] = handler.fds[f]
        BY <1>2, <2>1, <4>1
      <4>4. \A f \in Fd : handler.fds[f] \in Int /\ a.fds[f] \in Int
        BY <1>4, <2>1 DEF Table, Handler
      <4> QED
        BY <2>1, <4>1, <4>2, <4>3, <4>4 DEF KeepsNodes
    <3> QED
      BY <1>1, <1>2, <1>4, <2>2, <3>2, <3>3, PlainTurn
  <2> QED
    BY <2>2, <2>4, <2>5
<1> QED
  BY <1>3, <1>5, <1>6, <1>7

(* The three listening sockets.                                            *)
LEMMA ListeningInv ==
  ASSUME Inv, UNCHANGED gwVars,
         \/ dlt_daemon_process_client_connect
         \/ dlt_daemon_process_control_connect
         \/ dlt_daemon_process_app_connect
  PROVE  Inv'
<1>1. index # 0
  BY DEF dlt_daemon_process_client_connect, dlt_daemon_process_control_connect,
         dlt_daemon_process_app_connect, Accept, Callback, AtEvent
<1>2. /\ Con.type = "CLIENT_CONNECT" => Current = ClientSocket
      /\ Con.type = "CONTROL_CONNECT" => Current = ControlSocket
      /\ Con.type = "APP_CONNECT" => Current = AppSocket
  BY <1>1, EndOfType
<1>3. {AppSocket, ClientSocket, ControlSocket} = DOMAIN Accepts
  BY DEF Accepts
<1>4. CASE dlt_daemon_process_client_connect
  BY <1>2, <1>3, <1>4, AcceptInv DEF dlt_daemon_process_client_connect
<1>5. CASE dlt_daemon_process_control_connect
  BY <1>2, <1>3, <1>5, AcceptInv DEF dlt_daemon_process_control_connect
<1>6. CASE dlt_daemon_process_app_connect
  BY <1>2, <1>3, <1>6, AcceptInv DEF dlt_daemon_process_app_connect
<1> QED
  BY <1>4, <1>5, <1>6

-----------------------------------------------------------------------------
(***************************************************************************)
(* poll, and the other ends.                                               *)
(***************************************************************************)

(* What poll reports.                                                      *)
LEMMA EndEventsIs ==
  ASSUME Inv, NEW end \in Ends(peers)
  PROVE  EndEvents(end) = Ready(end, peers, nodes, backlog, input)
<1>1. /\ backlog \in Seq(1 .. Len(peers)) /\ PeersSound(peers)
      /\ DOMAIN Accepts = {AppSocket, ClientSocket, ControlSocket}
  BY DEF Inv, Waiting, Accepts
<1>2. backlog \in Seq(Range(backlog)) /\ DOMAIN backlog = 1 .. Len(backlog)
  BY <1>1, RangeOfSequence
<1>3. WaitingFor(end) # 0 <=> \E i \in 1 .. Len(backlog) : peers[backlog[i]].type = Accepts[end]
  BY <1>2, WaitingForIs
<1> QED
  BY <1>1, <1>3 DEF EndEvents, Ready, PeerEvents, PeerReady

(* The events of each end are some of the three.                           *)
LEMMA ReadyIsEvents ==
  ASSUME NEW end, NEW ps, NEW ns, NEW bl, NEW in
  PROVE  Ready(end, ps, ns, bl, in) \subseteq Event
BY DEF Ready, PeerReady, Event

(* poll fills in the table.                                                *)
LEMMA PollInv ==
  ASSUME Inv, Poll, UNCHANGED gwVars
  PROVE  Inv'
<1>1. /\ handler' = Polled(handler) /\ index' = 1 /\ peers' = peers /\ nodes' = nodes
      /\ backlog' = backlog /\ input' = input /\ running' = running /\ scenario' = scenario
      /\ gateway' = gateway /\ due' = due
      /\ \E e \in Range(handler.pfd) : EndEvents(handler.fds[e.fd]) # {}
  BY DEF Poll, gwVars
<1>2. /\ handler \in Handler /\ Parallel(handler) /\ Table(handler, peers) /\ PeersSound(peers)
  BY DEF Inv, Table
<1>3. handler.pfd \in Seq(PollEntry) /\ DOMAIN handler.pfd = 1 .. Len(handler.pfd)
      /\ Len(handler.pfd) \in Nat /\ handler.fds \in [Fd -> Int]
  BY <1>2 DEF Handler
<1> DEFINE n == Len(handler.pfd)
           end(i) == handler.fds[handler.pfd[i].fd]
           t == [i \in 1 .. n |-> [fd |-> handler.pfd[i].fd, revents |-> EndEvents(end(i)),
                                   of |-> end(i)]]
<1>4. \A i \in 1 .. n : /\ handler.pfd[i].fd \in Fd /\ end(i) \in Int /\ end(i) \in Ends(peers)
  <2> SUFFICES ASSUME NEW i \in 1 .. n
               PROVE  handler.pfd[i].fd \in Fd /\ end(i) \in Int /\ end(i) \in Ends(peers)
    OBVIOUS
  <2>1. handler.pfd[i] \in PollEntry
    BY <1>3
  <2>2. handler.pfd[i].fd \in Fd
    BY <2>1 DEF PollEntry
  <2>3. IsConnected(handler, handler.pfd[i].fd)
    BY <1>2, <1>3 DEF Parallel, IsConnected
  <2> QED
    BY <1>2, <1>3, <2>2, <2>3, ConnectedIsOpen
<1>5. \A i \in 1 .. n : EndEvents(end(i)) = Ready(end(i), peers, nodes, backlog, input)
                        /\ EndEvents(end(i)) \subseteq Event
  BY <1>4, EndEventsIs, ReadyIsEvents
<1>6. handler'.pfd = t /\ handler'.connections = handler.connections /\ handler'.fds = handler.fds
      /\ handler'.client_connections = handler.client_connections
      /\ handler' = [connections |-> handler.connections, pfd |-> t,
                     client_connections |-> handler.client_connections, fds |-> handler.fds]
  <2>1. handler' = [handler EXCEPT !.pfd = <<>> \o t]
    BY <1>1, <1>3 DEF Polled
  <2>2. <<>> \o t = t
    <3>1. t \in [1 .. n -> Range(t)]
      BY DEF Range
    <3> HIDE DEF t
    <3>2. t \in Seq(Range(t))
      BY <1>3, <3>1
    <3> QED
      BY <3>2
  <2>3. handler = [connections |-> handler.connections, pfd |-> handler.pfd,
                   client_connections |-> handler.client_connections, fds |-> handler.fds]
    BY <1>2 DEF Handler
  <2> HIDE DEF t
  <2> QED
    BY <2>1, <2>2, <2>3
<1>7. t \in [1 .. n -> PollEntry] /\ DOMAIN t = 1 .. n
  BY <1>4, <1>5 DEF PollEntry
<1>8. \A i \in 1 .. n : t[i].fd = handler.pfd[i].fd /\ t[i].of = end(i) /\ t[i].revents = EndEvents(end(i))
  OBVIOUS
<1> HIDE DEF t
<1>9. t \in Seq(PollEntry) /\ Len(t) = n
  BY <1>3, <1>7
<1>10. handler' \in Handler
  BY <1>2, <1>6, <1>9 DEF Handler
<1>11. Table(handler', peers)
  <2>1. Parallel(handler')
    BY <1>2, <1>3, <1>6, <1>7, <1>8 DEF Parallel
  <2> QED
    BY <1>2, <1>6, <1>10, <2>1 DEF Table, Distinct, Fitting, Covered, Single, IsOpen, IsConnected
<1>12. FreshFrom(handler', 1, peers, nodes, backlog, input)
  BY <1>5, <1>6, <1>7, <1>8 DEF FreshFrom
<1>13. 1 \in 0 .. Len(handler'.pfd)
  <2>1. n # 0
    BY <1>1, <1>3 DEF Range
  <2> QED
    BY <1>3, <1>6, <1>9, <2>1
<1>14. Waiting(handler', peers, backlog) /\ (running = "yes" => Attached(handler', gateway))
  BY <1>6 DEF Inv, Waiting, Attached
<1>15. OffMeansOff'
  BY <1>1, <1>6 DEF Inv, OffMeansOff
<1>16. Ages' = Ages
  BY <1>1 DEF Ages, CtrlMsgs
<1> QED
  BY <1>1, <1>11, <1>12, <1>13, <1>14, <1>15, <1>16 DEF Inv

(* A step of the other ends: the loop stands still, and what was ready     *)
(* stays ready.                                                            *)
LEMMA OutsideInv ==
  ASSUME Inv, UNCHANGED <<handler, index, running, scenario, gwVars>>,
         PeersSound(peers'), Len(peers) <= Len(peers'),
         \A p \in 1 .. Len(peers) : /\ peers'[p].type = peers[p].type
                                    /\ PeerReady(peers[p]) \subseteq PeerReady(peers'[p]),
         Waiting(handler, peers', backlog'),
         \A i \in 1 .. Len(backlog) : i \in 1 .. Len(backlog') /\ backlog'[i] = backlog[i],
         input \subseteq input', input' \subseteq GatewayTimer .. Fifo,
         nodes' \in [Node -> PassiveNode],
         \A k \in Node : PeerReady(nodes[k]) \subseteq PeerReady(nodes'[k]), OffMeansOff'
  PROVE  Inv'
<1>1. /\ handler' = handler /\ index' = index /\ running' = running /\ scenario' = scenario
      /\ gateway' = gateway /\ due' = due
  BY DEF gwVars
<1>2. PeersSound(peers) /\ Table(handler, peers) /\ backlog \in Seq(1 .. Len(peers))
      /\ handler \in Handler
  BY DEF Inv, Waiting, Table
<1>3. Table(handler, peers')
  BY <1>2, TableOfTypes
<1>4. ASSUME NEW end \in Ends(peers)
      PROVE  Ready(end, peers, nodes, backlog, input)
                \subseteq Ready(end, peers', nodes', backlog', input')
  <2>1. end \in 1 .. Len(peers) => PeerReady(peers[end]) \subseteq PeerReady(peers'[end])
    OBVIOUS
  <2>2. end \in input => end \in input'
    OBVIOUS
  <2>3. end \in DOMAIN Accepts
           /\ (\E i \in 1 .. Len(backlog) : peers[backlog[i]].type = Accepts[end])
        => \E i \in 1 .. Len(backlog') : peers'[backlog'[i]].type = Accepts[end]
    <3> SUFFICES ASSUME NEW i \in 1 .. Len(backlog), peers[backlog[i]].type = Accepts[end]
                 PROVE  i \in 1 .. Len(backlog') /\ peers'[backlog'[i]].type = Accepts[end]
      OBVIOUS
    <3>1. backlog[i] \in 1 .. Len(peers)
      BY <1>2
    <3> QED
      BY <3>1
  <2>4. end > MaxPeers =>
          PeerReady(nodes[end - MaxPeers]) \subseteq PeerReady(nodes'[end - MaxPeers])
    <3> SUFFICES ASSUME end > MaxPeers
                 PROVE  PeerReady(nodes[end - MaxPeers]) \subseteq PeerReady(nodes'[end - MaxPeers])
      OBVIOUS
    <3>1. MaxPeers \in Nat /\ Nodes \in Nat /\ Len(peers) \in Nat /\ Len(peers) <= MaxPeers
      BY <1>2, Bounds DEF PeersSound
    <3>2. end \in MaxPeers + 1 .. MaxPeers + Nodes
      BY <3>1 DEF Ends, GatewayTimer, Fifo
    <3>3. end - MaxPeers \in Node
      BY <3>1, <3>2 DEF Node
    <3> QED
      BY <3>3
  <2> QED
    BY <1>2, <2>1, <2>2, <2>3, <2>4, ReadyRemains
<1>5. index # 0 => FreshFrom(handler, index, peers', nodes', backlog', input')
  <2> SUFFICES ASSUME index # 0, NEW j \in DOMAIN handler.pfd, j >= index, handler.pfd[j].revents # {}
               PROVE  /\ handler.fds[handler.pfd[j].fd] = handler.pfd[j].of
                      /\ handler.pfd[j].revents
                            \subseteq Ready(handler.pfd[j].of, peers', nodes', backlog', input')
    BY DEF FreshFrom
  <2> DEFINE e == handler.pfd[j]
  <2>1. handler.fds[e.fd] = e.of /\ e.revents \subseteq Ready(e.of, peers, nodes, backlog, input)
    BY DEF Inv, FreshFrom
  <2>2. IsConnected(handler, e.fd)
    BY <1>2 DEF Table, Parallel, IsConnected
  <2>3. e.fd \in Fd
    <3>1. e \in PollEntry
      BY <1>2 DEF Handler
    <3> QED
      BY <3>1 DEF PollEntry
  <2>4. e.of \in Ends(peers)
    BY <1>2, <2>1, <2>2, <2>3, ConnectedIsOpen
  <2> QED
    BY <1>4, <2>1, <2>4
<1>6. Ages' = Ages
  BY <1>1 DEF Ages, CtrlMsgs
<1>7. /\ scenario \in Scenarios /\ index \in 0 .. Len(handler.pfd)
      /\ gateway \in [Node -> GatewayEntry] /\ due \in Ages
      /\ (running = "yes" => Attached(handler, gateway))
  BY DEF Inv
<1> QED
  BY <1>1, <1>3, <1>5, <1>6, <1>7 DEF Inv

(* A client, a control client or an application connects.                  *)
LEMMA PeerConnectsInv ==
  ASSUME Inv, NEW type \in {"CLIENT_MSG_TCP", "CONTROL_MSG", "APP_MSG"}, PeerConnects(type),
         UNCHANGED gwVars
  PROVE  Inv'
<1> DEFINE n == Len(peers)
           e == [type |-> type, state |-> "open", data |-> {}]
<1>1. /\ PeersSound(peers) /\ peers \in Seq(Peer) /\ n \in Nat /\ MaxPeers \in Nat /\ Nodes \in Nat
      /\ Waiting(handler, peers, backlog) /\ Table(handler, peers) /\ OffMeansOff
      /\ input \subseteq GatewayTimer .. Fifo /\ nodes \in [Node -> PassiveNode]
  BY Bounds DEF Inv, PeersSound
<1>2. /\ n < PeersAllowed /\ peers' = Append(peers, e) /\ backlog' = Append(backlog, n + 1)
      /\ UNCHANGED <<handler, nodes, input, index, running, scenario>>
  BY DEF PeerConnects
<1>3. n + 1 <= MaxPeers
  <2>1. {1, MaxPeers} \in SUBSET Nat /\ {1, MaxPeers} # {}
    BY <1>1
  <2>2. Min({1, MaxPeers}) <= MaxPeers /\ Min({1, MaxPeers}) \in Nat
    BY <2>1, MinIsLeast
  <2>3. PeersAllowed \in {0, Min({1, MaxPeers}), MaxPeers}
    BY DEF PeersAllowed
  <2> HIDE DEF n
  <2> QED
    BY <1>1, <1>2, <2>2, <2>3
<1>4. e \in Peer
  BY DEF Peer
<1> HIDE DEF e
<1>5. /\ peers' \in Seq(Peer) /\ Len(peers') = n + 1
      /\ \A p \in 1 .. n : peers'[p] = peers[p]
  BY <1>1, <1>2, <1>4
<1>6. PeersSound(peers')
  BY <1>3, <1>5 DEF PeersSound
<1>7. \A f \in Fd : handler.fds[f] # n + 1
  <2> SUFFICES ASSUME NEW f \in Fd, handler.fds[f] = n + 1 PROVE FALSE
    OBVIOUS
  <2>1. IsOpen(handler, f)
    BY <1>1 DEF IsOpen, Free, LogFile
  <2>2. n + 1 \in Ends(peers)
    BY <1>1, <2>1, OpenIsEnd
  <2> QED
    BY <1>1, <1>3, <2>2 DEF Ends, GatewayTimer, Fifo
<1>8. /\ backlog \in Seq(1 .. n) /\ backlog \in Seq(1 .. n + 1) /\ n + 1 \in 1 .. n + 1
      /\ \A i, j \in 1 .. Len(backlog) : backlog[i] = backlog[j] => i = j
      /\ \A i \in 1 .. Len(backlog), f \in Fd : handler.fds[f] # backlog[i]
  BY <1>1 DEF Waiting
<1>9. /\ backlog' \in Seq(1 .. n + 1) /\ Len(backlog') = Len(backlog) + 1 /\ Len(backlog) \in Nat
      /\ \A i \in 1 .. Len(backlog) : backlog'[i] = backlog[i] /\ backlog[i] \in 1 .. n
      /\ backlog'[Len(backlog) + 1] = n + 1
  BY <1>2, <1>8
<1>10. Waiting(handler, peers', backlog')
  <2> HIDE DEF n
  <2>0. /\ \A i \in 1 .. Len(backlog') : i \in 1 .. Len(backlog) \/ i = Len(backlog) + 1
        /\ \A i \in 1 .. Len(backlog) : backlog'[i] # n + 1
    <3> DEFINE b == backlog'
               l == Len(backlog)
    <3>1. /\ Len(b) = l + 1 /\ l \in Nat /\ n \in Nat
          /\ \A i \in 1 .. l : b[i] = backlog[i] /\ backlog[i] \in 1 .. n
      BY <1>1, <1>9
    <3> HIDE DEF b, l
    <3>2. \A i \in 1 .. Len(b) : i \in 1 .. l \/ i = l + 1
      BY <3>1
    <3>3. \A x \in 1 .. n : x # n + 1
      BY <3>1
    <3>4. \A i \in 1 .. l : b[i] # n + 1
      BY <3>1, <3>3
    <3> QED
      BY <3>2, <3>4 DEF b, l
  <2>1. \A i, j \in 1 .. Len(backlog') : backlog'[i] = backlog'[j] => i = j
    BY <1>8, <1>9, <2>0
  <2>2. \A i \in 1 .. Len(backlog'), f \in Fd : handler.fds[f] # backlog'[i]
    BY <1>7, <1>8, <1>9
  <2> QED
    BY <1>5, <1>9, <2>1, <2>2 DEF Waiting
<1>11. OffMeansOff'
  BY <1>1, <1>2 DEF OffMeansOff
<1>12. /\ Len(peers) <= Len(peers')
       /\ \A p \in 1 .. Len(peers) : /\ peers'[p].type = peers[p].type
                                     /\ PeerReady(peers[p]) \subseteq PeerReady(peers'[p])
       /\ \A i \in 1 .. Len(backlog) : i \in 1 .. Len(backlog') /\ backlog'[i] = backlog[i]
  <2>1. Len(peers) <= Len(peers')
    BY <1>1, <1>5
  <2>2. \A p \in 1 .. Len(peers) : peers'[p] = peers[p]
    BY <1>5
  <2>3. \A i \in 1 .. Len(backlog) : i \in 1 .. Len(backlog')
    <3> DEFINE b == Len(backlog')
               l == Len(backlog)
    <3>1. b = l + 1 /\ l \in Nat
      BY <1>9
    <3> HIDE DEF b, l
    <3>2. \A i \in 1 .. l : i \in 1 .. b
      BY <3>1
    <3> QED
      BY <3>2 DEF b, l
  <2> QED
    BY <1>9, <2>1, <2>2, <2>3
<1> QED
  BY <1>1, <1>2, <1>6, <1>10, <1>11, <1>12, OutsideInv

(* It sends something, or leaves.                                          *)
LEMMA PeerChangesInv ==
  ASSUME Inv, NEW p \in DOMAIN peers, UNCHANGED gwVars,
         PeerSends(p) \/ \E how \in {"closed", "reset"} : PeerLeaves(p, how)
  PROVE  Inv'
<1>1. /\ PeersSound(peers) /\ peers \in Seq(Peer) /\ p \in 1 .. Len(peers) /\ peers[p] \in Peer
      /\ Waiting(handler, peers, backlog) /\ OffMeansOff
      /\ input \subseteq GatewayTimer .. Fifo /\ nodes \in [Node -> PassiveNode]
  BY DEF Inv, PeersSound
<1>2. UNCHANGED <<handler, nodes, backlog, input, index, running, scenario>>
  BY DEF PeerSends, PeerLeaves
<1>3. PICK e \in Peer : /\ peers' = [peers EXCEPT ![p] = e] /\ e.type = peers[p].type
                        /\ PeerReady(peers[p]) \subseteq PeerReady(e)
  <2>1. CASE PeerSends(p)
    <3>1. /\ peers' = [peers EXCEPT ![p] = [peers[p] EXCEPT !.data = {"request"}]]
          /\ peers[p].state = "open" /\ peers[p].data = {}
      BY <2>1 DEF PeerSends
    <3>2. PeerReady(peers[p]) = {}
      BY <3>1 DEF PeerReady
    <3> QED
      BY <1>1, <3>1, <3>2 DEF Peer
  <2>2. ASSUME NEW how \in {"closed", "reset"}, PeerLeaves(p, how)
        PROVE  \E e \in Peer : /\ peers' = [peers EXCEPT ![p] = e] /\ e.type = peers[p].type
                               /\ PeerReady(peers[p]) \subseteq PeerReady(e)
    <3> DEFINE e == [peers[p] EXCEPT !.state = how]
    <3>1. peers' = [peers EXCEPT ![p] = e] /\ peers[p].state = "open"
      BY <2>2 DEF PeerLeaves
    <3>2. e \in Peer /\ e.type = peers[p].type /\ e.state # "open"
      BY <1>1 DEF Peer
    <3>3. PeerReady(peers[p]) \subseteq {"IN"} /\ "IN" \in PeerReady(e)
      <4> HIDE DEF e
      <4> QED
        BY <3>1, <3>2 DEF PeerReady
    <3> QED
      BY <3>1, <3>2, <3>3
  <2> QED
    BY <2>1, <2>2
<1>4. /\ peers' \in Seq(Peer) /\ Len(peers') = Len(peers) /\ peers'[p] = e
      /\ \A q \in 1 .. Len(peers) : q # p => peers'[q] = peers[q]
  BY <1>1, <1>3, SeqExcept
<1>5. PeersSound(peers') /\ Waiting(handler, peers', backlog) /\ OffMeansOff'
  BY <1>1, <1>2, <1>4 DEF PeersSound, Waiting, OffMeansOff
<1>6. /\ Len(peers) <= Len(peers') /\ backlog' = backlog
      /\ \A q \in 1 .. Len(peers) : /\ peers'[q].type = peers[q].type
                                    /\ PeerReady(peers[q]) \subseteq PeerReady(peers'[q])
  BY <1>1, <1>2, <1>3, <1>4 DEF PeersSound
<1> QED
  BY <1>1, <1>2, <1>5, <1>6, OutsideInv

(* A timer expires, or something arrives that is not a peer's.             *)
LEMMA InputArrivesInv ==
  ASSUME Inv, NEW end \in {Fifo, SerialLine, OneSecondTimer, GatewayTimer}, InputArrives(end),
         UNCHANGED gwVars
  PROVE  Inv'
<1>1. /\ PeersSound(peers) /\ Waiting(handler, peers, backlog) /\ OffMeansOff
      /\ input \subseteq GatewayTimer .. Fifo /\ nodes \in [Node -> PassiveNode]
  BY DEF Inv
<1>2. /\ UNCHANGED <<handler, peers, nodes, backlog, index, running, scenario>>
      /\ input' = input \cup {end}
  BY DEF InputArrives
<1>3. end \in GatewayTimer .. Fifo
  BY DEF GatewayTimer, OneSecondTimer, SerialLine, Fifo
<1>4. OffMeansOff' /\ Len(peers) <= Len(peers)
  BY <1>1, <1>2 DEF OffMeansOff, PeersSound
<1> QED
  BY <1>1, <1>2, <1>3, <1>4, OutsideInv

(* A passive node starts, stops or sends.                                  *)
LEMMA NodeInv ==
  ASSUME Inv, NEW k \in Node,
         \/ NodeStarts(k)
         \/ \E how \in {"closed", "reset"} : NodeStops(k, how)
         \/ \E ecu \in Node \cup {0} : NodeSends(k, ecu)
  PROVE  Inv'
<1>1. /\ PeersSound(peers) /\ Waiting(handler, peers, backlog) /\ OffMeansOff
      /\ input \subseteq GatewayTimer .. Fifo /\ nodes \in [Node -> PassiveNode]
      /\ nodes[k] \in PassiveNode /\ Len(peers) <= Len(peers)
  BY DEF Inv, PeersSound
<1>2. UNCHANGED <<handler, peers, backlog, input, index, running, scenario, gwVars>>
  BY DEF NodeStarts, NodeStops, NodeSends
<1>3. PICK n \in PassiveNode :
         /\ nodes' = [nodes EXCEPT ![k] = n] /\ PeerReady(nodes[k]) \subseteq PeerReady(n)
         /\ n.state = "reset" => nodes[k].state = "reset" \/ "resets" \in scenario
  <2>1. CASE NodeStarts(k)
    <3> DEFINE n == [nodes[k] EXCEPT !.up = TRUE]
    <3>1. nodes' = [nodes EXCEPT ![k] = n]
      BY <2>1 DEF NodeStarts
    <3>2. n \in PassiveNode /\ n.state = nodes[k].state /\ n.data = nodes[k].data
      BY <1>1 DEF PassiveNode
    <3> HIDE DEF n
    <3>3. PeerReady(n) = PeerReady(nodes[k])
      BY <3>2 DEF PeerReady
    <3> QED
      BY <3>1, <3>2, <3>3
  <2>2. ASSUME NEW how \in {"closed", "reset"}, NodeStops(k, how)
        PROVE  \E n \in PassiveNode :
                 /\ nodes' = [nodes EXCEPT ![k] = n] /\ PeerReady(nodes[k]) \subseteq PeerReady(n)
                 /\ n.state = "reset" => nodes[k].state = "reset" \/ "resets" \in scenario
    <3> DEFINE m == [nodes[k] EXCEPT !.up = FALSE]
               a == [nodes EXCEPT ![k] = m]
               n == [m EXCEPT !.state = IF @ = "open" THEN how ELSE @]
    <3>1. /\ nodes' = [a EXCEPT ![k].state = IF @ = "open" THEN how ELSE @]
          /\ how = "reset" => "resets" \in scenario
      BY <2>2 DEF NodeStops
    <3>2. m \in PassiveNode /\ m.state = nodes[k].state /\ m.data = nodes[k].data
      BY <1>1 DEF PassiveNode
    <3> HIDE DEF m
    <3>3. nodes' = [nodes EXCEPT ![k] = n]
      <4>1. a[k] = m /\ DOMAIN a = Node
        BY <1>1
      <4>2. nodes' = [a EXCEPT ![k] = [a[k] EXCEPT !.state = IF @ = "open" THEN how ELSE @]]
        BY <3>1
      <4>3. nodes' = [a EXCEPT ![k] = n]
        <5> HIDE DEF a
        <5> QED
          BY <4>1, <4>2
      <4> HIDE DEF n
      <4> QED
        BY <1>1, <4>3
    <3>4. /\ n \in PassiveNode /\ n.data = nodes[k].data
          /\ n.state = IF nodes[k].state = "open" THEN how ELSE nodes[k].state
      BY <3>2 DEF PassiveNode
    <3> HIDE DEF n
    <3>5. PeerReady(nodes[k]) \subseteq PeerReady(n)
      BY <3>4 DEF PeerReady
    <3> QED
      BY <3>1, <3>3, <3>4, <3>5
  <2>3. ASSUME NEW ecu \in Node \cup {0}, NodeSends(k, ecu)
        PROVE  \E n \in PassiveNode :
                 /\ nodes' = [nodes EXCEPT ![k] = n] /\ PeerReady(nodes[k]) \subseteq PeerReady(n)
                 /\ n.state = "reset" => nodes[k].state = "reset" \/ "resets" \in scenario
    <3> DEFINE n == [nodes[k] EXCEPT !.data = {ecu}]
    <3>1. nodes' = [nodes EXCEPT ![k] = n] /\ nodes[k].state = "open" /\ nodes[k].data = {}
      BY <2>3 DEF NodeSends
    <3>2. n \in PassiveNode /\ n.state = nodes[k].state
      BY <1>1 DEF PassiveNode
    <3> HIDE DEF n
    <3>3. PeerReady(nodes[k]) = {}
      BY <3>1 DEF PeerReady
    <3> QED
      BY <3>1, <3>2, <3>3
  <2> QED
    BY <2>1, <2>2, <2>3
<1>4. /\ nodes' \in [Node -> PassiveNode] /\ nodes'[k] = n
      /\ \A j \in Node : j # k => nodes'[j] = nodes[j]
  BY <1>1, <1>3
<1>5. \A j \in Node : PeerReady(nodes[j]) \subseteq PeerReady(nodes'[j])
  BY <1>3, <1>4
<1>6. OffMeansOff'
  BY <1>1, <1>2, <1>3, <1>4 DEF OffMeansOff
<1> QED
  BY <1>1, <1>2, <1>4, <1>5, <1>6, OutsideInv

(* Everything but the gateway's own steps.                                 *)
LEMMA EnvironmentInv ==
  ASSUME Inv, Environment, UNCHANGED gwVars
  PROVE  Inv'
<1>1. CASE \E type \in {"CLIENT_MSG_TCP", "CONTROL_MSG", "APP_MSG"} : PeerConnects(type)
  BY <1>1, PeerConnectsInv
<1>2. CASE \E p \in DOMAIN peers :
             PeerSends(p) \/ \E how \in {"closed", "reset"} : PeerLeaves(p, how)
  BY <1>2, PeerChangesInv
<1>3. CASE \E end \in {Fifo, SerialLine, OneSecondTimer, GatewayTimer} : InputArrives(end)
  BY <1>3, InputArrivesInv
<1>4. CASE dlt_daemon_signal_handler
  <2>1. LoopEnds("signal")
    BY <1>4 DEF dlt_daemon_signal_handler
  <2>2. "signal" # "yes"
    OBVIOUS
  <2> QED
    BY <2>1, <2>2, LoopEndsInv
<1> QED
  BY <1>1, <1>2, <1>3, <1>4 DEF Environment

(* A turn of the loop that is not the gateway's.                           *)
LEMMA DispatchInv ==
  ASSUME Inv, Orderly, Dispatch, UNCHANGED gwVars
  PROVE  Inv'
<1>1. CASE NoEvent
  BY <1>1, NoEventInv
<1>2. CASE HandleRejected
  BY <1>2, HandleRejectedInv
<1>3. CASE \/ dlt_daemon_process_client_connect \/ dlt_daemon_process_control_connect
           \/ dlt_daemon_process_app_connect
  BY <1>3, ListeningInv
<1>4. CASE dlt_daemon_process_client_messages \/ dlt_daemon_process_control_messages
  BY <1>4, RequestInv
<1>5. CASE dlt_daemon_process_user_messages
  BY <1>5, UserMessagesInv
<1>6. CASE dlt_daemon_process_client_messages_serial
  BY <1>6, SerialInv
<1>7. CASE dlt_daemon_process_one_s_timer
  BY <1>7, OneSecondInv
<1> QED
  BY <1>1, <1>2, <1>3, <1>4, <1>5, <1>6, <1>7 DEF Dispatch

-----------------------------------------------------------------------------
(***************************************************************************)
(* The functions of the gateway.                                           *)
(***************************************************************************)
IsWorld(w) == w = [h |-> w.h, gw |-> w.gw, nodes |-> w.nodes, due |-> w.due, stray |-> w.stray]

(* The control messages configured.                                        *)
LEMMA CtrlMsgsIs ==
  /\ DOMAIN CtrlMsgs = 1 .. Len(CtrlMsgs) /\ Len(CtrlMsgs) \in Nat
  /\ \A i \in DOMAIN CtrlMsgs : CtrlMsgs[i].interval \in Int
  /\ IsFiniteSet(DOMAIN CtrlMsgs)
  /\ \A s \in SUBSET DOMAIN CtrlMsgs : s # {} => Max(s) \in s
<1> DEFINE R == [type : {"ON_STARTUP", "PERIODIC", "BOTH"}, interval : Int]
<1>0. \A m \in R : m.interval \in Int
  OBVIOUS
<1>1. CtrlMsgs \in Seq(R)
  BY GatewayAssumption DEF CtrlMsgs
<1> HIDE DEF R
<1>2. DOMAIN CtrlMsgs = 1 .. Len(CtrlMsgs) /\ Len(CtrlMsgs) \in Nat
  BY <1>1
<1>3. \A i \in DOMAIN CtrlMsgs : CtrlMsgs[i].interval \in Int
  BY <1>0, <1>1
<1>4. IsFiniteSet(DOMAIN CtrlMsgs)
  BY <1>2, FS_Interval
<1>5. \A s \in SUBSET DOMAIN CtrlMsgs : s # {} => Max(s) \in s
  BY <1>2, MaxIsIn
<1> QED
  BY <1>2, <1>3, <1>4, <1>5

(* Sending control messages leaves the tables alone.                       *)
LEMMA SendMessagesIs ==
  ASSUME NEW w, IsWorld(w), w.due \in Ages, NEW k \in Node, NEW types,
         NEW v, v = SendMessages(w, k, types)
  PROVE  IsWorld(v) /\ v.h = w.h /\ v.gw = w.gw /\ v.nodes = w.nodes /\ v.due \in Ages
<1> DEFINE St == {"sent"} \cup w.stray
           H == [h : {w.h}, gw : {w.gw}, nodes : {w.nodes}, due : Ages, stray : SUBSET St]
           S == DOMAIN CtrlMsgs
           q == [i \in S |-> i]
           op(u, i) == IF CtrlMsgs[i].type \in types THEN SendMessage(u, k, i) ELSE u
           C == [s \in SUBSET S |-> Max(s)]
           F == [p \in S \X H |-> op(p[2], p[1])]
           Folds(it) == it = [s \in SUBSET DOMAIN q |-> IF s = {} THEN w ELSE
                                op(it[s \ {Max(s)}], q[Max(s)])]
           iter == CHOOSE it : Folds(it)
<1>1. v = iter[DOMAIN q]
  BY DEF SendMessages, FoldLeft, MapThenFoldSet
<1>2. DOMAIN q = S /\ \A i \in S : q[i] = i
  OBVIOUS
<1>3. w \in H
  BY DEF IsWorld
<1>4. ASSUME NEW i \in S, NEW u \in H PROVE op(u, i) \in H
  <2> DEFINE d == [u.due EXCEPT ![k] = [u.due[k] EXCEPT ![i] = 0]]
             a == [u EXCEPT !.due = d]
             t == u.stray \cup IF u.gw[k].sock \in Fd
                                  /\ u.h.fds[u.gw[k].sock] \notin {Free, NodeSocket(k)}
                               THEN {"sent"} ELSE {}
  <2>1. u.due \in Ages /\ u.stray \subseteq St
    OBVIOUS
  <2>2. d \in Ages
    BY <2>1 DEF Ages
  <2>3. t \in SUBSET St
    BY <2>1
  <2>4. SendMessage(u, k, i) = u \/ SendMessage(u, k, i) = [a EXCEPT !.stray = t]
    BY DEF SendMessage
  <2> HIDE DEF d, t, St
  <2>5. a \in H /\ [a EXCEPT !.stray = t] \in H
    BY <2>2, <2>3
  <2> QED
    BY <2>4, <2>5
<1>5. \A s \in SUBSET S : s # {} => /\ C[s] \in s /\ C[s] \in S /\ s \ {C[s]} \in SUBSET S
                                    /\ Max(s) = C[s] /\ q[C[s]] = C[s]
  <2> HIDE DEF q
  <2> QED
    BY <1>2, CtrlMsgsIs
<1>6. \A i \in S, u \in H : F[<<i, u>>] = op(u, i)
  BY <1>4
<1> HIDE DEF H, C, F, op, q
<1>7. PICK some \in [SUBSET S -> H] : Folding(S, w, C, F, some)
  <2>1. Keeps(S, H, F) /\ Chooses(S, C)
    BY <1>4, <1>5, <1>6 DEF Keeps, Chooses
  <2> QED
    BY <1>3, <2>1, CtrlMsgsIs, IterExists
<1>8. Folds(some)
  <2>1. \A s \in SUBSET S : s # {} => some[s] = op(some[s \ {C[s]}], C[s])
    BY <1>5, <1>6, <1>7 DEF Folding
  <2>2. some[{}] = w
    BY <1>7 DEF Folding
  <2>3. ASSUME NEW s \in SUBSET S
        PROVE  some[s] = IF s = {} THEN w ELSE op(some[s \ {Max(s)}], q[Max(s)])
    <3>1. CASE s = {}
      BY <2>2, <3>1
    <3>2. CASE s # {}
      <4>1. Max(s) = C[s] /\ q[C[s]] = C[s] /\ some[s] = op(some[s \ {C[s]}], C[s])
        BY <1>5, <2>1, <3>2
      <4> QED
        BY <3>2, <4>1
    <3> QED
      BY <3>1, <3>2
  <2> QED
    BY <1>2, <2>3
<1>9. Folds(iter)
  <2> HIDE DEF Folds
  <2> QED
    BY <1>8
<1>10. iter[S] \in H
  <2> HIDE DEF iter
  <2>0. \A s \in SUBSET S : iter[s] = IF s = {} THEN w ELSE op(iter[s \ {Max(s)}], q[Max(s)])
    BY <1>2, <1>9
  <2> HIDE DEF Folds
  <2>1. iter[{}] = w
    BY <2>0
  <2>2. ASSUME NEW s \in SUBSET S, s # {}, iter[s \ {C[s]}] \in H
        PROVE  iter[s] \in H
    <3>1. iter[s] = op(iter[s \ {Max(s)}], q[Max(s)])
      BY <2>0, <2>2
    <3>2. Max(s) = C[s] /\ q[C[s]] = C[s] /\ C[s] \in S
      BY <1>5, <2>2
    <3>3. iter[s] = op(iter[s \ {C[s]}], C[s])
      BY <3>1, <3>2
    <3> QED
      BY <1>4, <2>2, <3>2, <3>3
  <2>3. Chooses(S, C)
    BY <1>5 DEF Chooses
  <2> QED
    BY <1>3, <2>1, <2>2, <2>3, CtrlMsgsIs, IterStays
<1> HIDE DEF iter
<1>11. v \in H
  BY <1>1, <1>2, <1>10
<1> QED
  BY <1>11 DEF H, IsWorld

(* The product of the periods is a number.                                 *)
LEMMA SendtimeIsInt ==
  Sendtime \in Int
<1> DEFINE S == DOMAIN CtrlMsgs
           op(t, m) == t * IF IsPeriodic(m) /\ m.interval > 0 THEN m.interval ELSE 1
           C == [s \in SUBSET S |-> Max(s)]
           F == [p \in S \X Int |-> op(p[2], CtrlMsgs[p[1]])]
           Folds(it) == it = [s \in SUBSET S |-> IF s = {} THEN 1 ELSE
                                op(it[s \ {Max(s)}], CtrlMsgs[Max(s)])]
           iter == CHOOSE it : Folds(it)
<1>1. Sendtime = iter[S]
  BY DEF Sendtime, FoldLeft, MapThenFoldSet
<1>2. ASSUME NEW i \in S, NEW t \in Int PROVE op(t, CtrlMsgs[i]) \in Int
  <2> DEFINE m == CtrlMsgs[i].interval
             f == IF IsPeriodic(CtrlMsgs[i]) /\ m > 0 THEN m ELSE 1
  <2>1. m \in Int
    BY CtrlMsgsIs
  <2> HIDE DEF m
  <2>2. f \in Int
    BY <2>1
  <2> HIDE DEF f
  <2>3. t * f \in Int
    BY <2>2
  <2> QED
    BY <2>3 DEF f, m
<1>3. \A s \in SUBSET S : s # {} => /\ C[s] \in s /\ C[s] \in S /\ s \ {C[s]} \in SUBSET S
                                    /\ Max(s) = C[s]
  BY CtrlMsgsIs
<1>4. \A i \in S, t \in Int : F[<<i, t>>] = op(t, CtrlMsgs[i])
  <2> HIDE DEF op
  <2> QED
    OBVIOUS
<1> HIDE DEF C, F, op
<1>5. PICK some \in [SUBSET S -> Int] : Folding(S, 1, C, F, some)
  <2>1. Keeps(S, Int, F) /\ Chooses(S, C) /\ 1 \in Int
    BY <1>2, <1>3, <1>4 DEF Keeps, Chooses
  <2> QED
    BY <2>1, CtrlMsgsIs, IterExists
<1>6. Folds(some)
  <2>1. \A s \in SUBSET S : s # {} => some[s] = op(some[s \ {C[s]}], CtrlMsgs[C[s]])
    BY <1>3, <1>4, <1>5 DEF Folding
  <2>2. some[{}] = 1
    BY <1>5 DEF Folding
  <2>3. ASSUME NEW s \in SUBSET S
        PROVE  some[s] = IF s = {} THEN 1 ELSE op(some[s \ {Max(s)}], CtrlMsgs[Max(s)])
    <3>1. CASE s = {}
      BY <2>2, <3>1
    <3>2. CASE s # {}
      <4>1. Max(s) = C[s] /\ some[s] = op(some[s \ {C[s]}], CtrlMsgs[C[s]])
        BY <1>3, <2>1, <3>2
      <4> QED
        BY <3>2, <4>1
    <3> QED
      BY <3>1, <3>2
  <2> QED
    BY <2>3
<1>7. Folds(iter)
  <2> HIDE DEF Folds
  <2> QED
    BY <1>6
<1>8. iter[S] \in Int
  <2> HIDE DEF iter
  <2>0. \A s \in SUBSET S : iter[s] = IF s = {} THEN 1 ELSE op(iter[s \ {Max(s)}], CtrlMsgs[Max(s)])
    BY <1>7
  <2> HIDE DEF Folds
  <2>1. iter[{}] \in Int
    BY <2>0
  <2>2. ASSUME NEW s \in SUBSET S, s # {}, iter[s \ {C[s]}] \in Int
        PROVE  iter[s] \in Int
    <3>1. iter[s] = op(iter[s \ {Max(s)}], CtrlMsgs[Max(s)])
      BY <2>0, <2>2
    <3>2. Max(s) = C[s] /\ C[s] \in S
      BY <1>3, <2>2
    <3>3. iter[s] = op(iter[s \ {C[s]}], CtrlMsgs[C[s]])
      BY <3>1, <3>2
    <3> QED
      BY <1>2, <2>2, <3>2, <3>3
  <2>3. Chooses(S, C)
    BY <1>3 DEF Chooses
  <2> QED
    BY <2>1, <2>2, <2>3, CtrlMsgsIs, IterStays
<1> HIDE DEF iter
<1> QED
  BY <1>1, <1>8

(* A state of the gateway that is sound, with these peers. *)
SoundWorld(w, ps) ==
  /\ IsWorld(w) /\ Table(w.h, ps)
  /\ w.gw \in [Node -> GatewayEntry] /\ w.nodes \in [Node -> PassiveNode] /\ w.due \in Ages
  /\ Attached(w.h, w.gw)

(* One part of the state changes, the others stay.                         *)
LEMMA WorldExcept ==
  ASSUME NEW w, IsWorld(w), NEW x
  PROVE  /\ [w EXCEPT !.h = x] = [h |-> x, gw |-> w.gw, nodes |-> w.nodes, due |-> w.due,
                                  stray |-> w.stray]
         /\ [w EXCEPT !.gw = x] = [h |-> w.h, gw |-> x, nodes |-> w.nodes, due |-> w.due,
                                   stray |-> w.stray]
         /\ [w EXCEPT !.nodes = x] = [h |-> w.h, gw |-> w.gw, nodes |-> x, due |-> w.due,
                                      stray |-> w.stray]
         /\ [w EXCEPT !.due = x] = [h |-> w.h, gw |-> w.gw, nodes |-> w.nodes, due |-> x,
                                    stray |-> w.stray]
         /\ [w EXCEPT !.stray = x] = [h |-> w.h, gw |-> w.gw, nodes |-> w.nodes, due |-> w.due,
                                      stray |-> x]
<1> DEFINE a == w.h
           b == w.gw
           c == w.nodes
           d == w.due
           e == w.stray
<1>1. w = [h |-> a, gw |-> b, nodes |-> c, due |-> d, stray |-> e]
  BY DEF IsWorld
<1> HIDE DEF a, b, c, d, e
<1>2. [w EXCEPT !.h = x] = [h |-> x, gw |-> b, nodes |-> c, due |-> d, stray |-> e]
  BY <1>1
<1>3. [w EXCEPT !.gw = x] = [h |-> a, gw |-> x, nodes |-> c, due |-> d, stray |-> e]
  BY <1>1
<1>4. [w EXCEPT !.nodes = x] = [h |-> a, gw |-> b, nodes |-> x, due |-> d, stray |-> e]
  BY <1>1
<1>5. [w EXCEPT !.due = x] = [h |-> a, gw |-> b, nodes |-> c, due |-> x, stray |-> e]
  BY <1>1
<1>6. [w EXCEPT !.stray = x] = [h |-> a, gw |-> b, nodes |-> c, due |-> d, stray |-> x]
  BY <1>1
<1> QED
  BY <1>2, <1>3, <1>4, <1>5, <1>6 DEF a, b, c, d, e

(* A node's socket gets a connection, and the messages of the start.       *)
LEMMA AddIs ==
  ASSUME NEW ps, PeersSound(ps), NEW h, Table(h, ps), NEW k \in Node,
         NEW a, IsWorld(a), a.gw \in [Node -> GatewayEntry], a.due \in Ages,
         NEW fd \in Fd, fd = a.gw[k].sock, h.fds[fd] = Free,
         a.h = [h EXCEPT !.fds[fd] = NodeSocket(k)],
         NEW v, v = dlt_gateway_add_to_event_loop(a, k)
  PROVE  /\ IsWorld(v) /\ v.h = Created(h, fd, NodeSocket(k), "GATEWAY") /\ v.nodes = a.nodes
         /\ v.due \in Ages /\ v.gw \in [Node -> GatewayEntry]
         /\ v.gw[k].status = "CONNECTED" /\ v.gw[k].sock = fd
         /\ \A j \in Node : j # k => v.gw[j] = a.gw[j]
<1> DEFINE e1 == [a.gw[k] EXCEPT !.status = "CONNECTED"]
           e2 == [e1 EXCEPT !.reconnect_cnt = 0]
           e3 == [e2 EXCEPT !.timeout_cnt = 0]
           con == [e3 EXCEPT !.sendtime_cnt = 0]
           never == [i \in DOMAIN CtrlMsgs |-> Never]
           b == [a EXCEPT !.gw[k] = con, !.due[k] = never]
           c == CreateGatewayConnection(b, k)
           m == SendMessages(c, k, {"ON_STARTUP", "BOTH"})
<1>1. v = [m EXCEPT !.gw[k].sendtime_cnt = Sendtime]
  BY DEF dlt_gateway_add_to_event_loop
<1>2. con \in GatewayEntry /\ con.status = "CONNECTED" /\ con.sock = fd
  <2>1. e1 \in GatewayEntry /\ e1.status = "CONNECTED" /\ e1.sock = fd
    <3>1. a.gw[k] \in GatewayEntry
      OBVIOUS
    <3> QED
      BY <3>1 DEF GatewayEntry
  <2> HIDE DEF e1
  <2>2. e2 \in GatewayEntry /\ e2.status = "CONNECTED" /\ e2.sock = fd
    BY <2>1 DEF GatewayEntry
  <2> HIDE DEF e2
  <2>3. e3 \in GatewayEntry /\ e3.status = "CONNECTED" /\ e3.sock = fd
    BY <2>2 DEF GatewayEntry
  <2> HIDE DEF e3
  <2> QED
    BY <2>3 DEF GatewayEntry
<1>3. never \in [DOMAIN CtrlMsgs -> Int]
  BY DEF Never
<1> HIDE DEF con, never
<1> DEFINE g == [a.gw EXCEPT ![k] = con]
           d == [a.due EXCEPT ![k] = never]
<1>4. b = [h |-> a.h, gw |-> g, nodes |-> a.nodes, due |-> d, stray |-> a.stray]
  <2> DEFINE u == [a EXCEPT !.gw = g]
  <2>1. u = [h |-> a.h, gw |-> g, nodes |-> a.nodes, due |-> a.due, stray |-> a.stray]
    BY WorldExcept
  <2>2. b = [u EXCEPT !.due = d]
    OBVIOUS
  <2> HIDE DEF u, b, g, d
  <2>3. IsWorld(u)
    BY <2>1 DEF IsWorld
  <2> QED
    BY <2>1, <2>2, <2>3, WorldExcept
<1>5. d \in Ages /\ g \in [Node -> GatewayEntry] /\ g[k] = con /\ \A j \in Node : j # k => g[j] = a.gw[j]
  BY <1>2, <1>3 DEF Ages
<1> HIDE DEF g, d, b
<1>6. c = [h |-> Created(h, fd, NodeSocket(k), "GATEWAY"), gw |-> g, nodes |-> a.nodes, due |-> d,
           stray |-> a.stray]
  <2>1. c = [b EXCEPT !.h = connection_create(b.h, fd, "GATEWAY")]
    BY <1>2, <1>4, <1>5 DEF CreateGatewayConnection
  <2>2. connection_create(b.h, fd, "GATEWAY") = Created(h, fd, NodeSocket(k), "GATEWAY")
    BY <1>4, CreateIs
  <2> HIDE DEF c
  <2> QED
    BY <1>4, <2>1, <2>2
<1> HIDE DEF c
<1>7. IsWorld(m) /\ m.h = c.h /\ m.gw = c.gw /\ m.nodes = c.nodes /\ m.due \in Ages
  <2>1. IsWorld(c) /\ c.due \in Ages
    BY <1>5, <1>6 DEF IsWorld
  <2> QED
    BY <2>1, SendMessagesIs
<1> HIDE DEF m
<1> DEFINE e == [m.gw[k] EXCEPT !.sendtime_cnt = Sendtime]
           r == [m.gw EXCEPT ![k] = e]
<1>8. m.gw = g /\ m.gw[k] = con
  BY <1>5, <1>6, <1>7
<1>9. e \in GatewayEntry /\ e.status = "CONNECTED" /\ e.sock = fd
  BY <1>2, <1>8, SendtimeIsInt DEF GatewayEntry
<1>10. v = [m EXCEPT !.gw = r]
  BY <1>1
<1> HIDE DEF e
<1>11. r \in [Node -> GatewayEntry] /\ r[k] = e /\ \A j \in Node : j # k => r[j] = g[j]
  BY <1>5, <1>8, <1>9
<1> HIDE DEF r
<1>12. v = [h |-> m.h, gw |-> r, nodes |-> m.nodes, due |-> m.due, stray |-> m.stray]
  BY <1>7, <1>10, WorldExcept
<1>13. v.h = m.h /\ v.gw = r /\ v.nodes = m.nodes /\ v.due = m.due /\ v.stray = m.stray
  BY <1>12
<1>14. IsWorld(v)
  BY <1>12, <1>13 DEF IsWorld
<1> QED
  BY <1>5, <1>6, <1>7, <1>9, <1>11, <1>13, <1>14

(* What a function of the gateway may do to the tables, its entries and    *)
(* the nodes. *)
Moves(w, v, ps) ==
  /\ SoundWorld(v, ps) /\ Later(w.h, v.h)
  /\ \A f \in Fd : v.h.fds[f] = w.h.fds[f] \/ v.h.fds[f] = Free \/ v.h.fds[f] > MaxPeers
  /\ \A j \in Node : \/ v.nodes[j] = w.nodes[j]
                     \/ v.nodes[j].state = "open" /\ \A f \in Fd : w.h.fds[f] # NodeSocket(j)

(* Descriptors were opened only, the lowest one that is free at the most. *)
OneTaken(h, g) == \A f \in Fd : g.fds[f] = h.fds[f] \/ (f = Lowest(h) /\ HasFree(h))

(* Nothing happens to the tables, and to one entry nothing of importance.  *)
LEMMA EntryMoves ==
  ASSUME NEW ps, NEW w, SoundWorld(w, ps), NEW k \in Node, NEW e \in GatewayEntry,
         \/ /\ e.status = "CONNECTED" /\ w.gw[k].status = "CONNECTED" /\ e.sock = w.gw[k].sock
         \/ /\ e.status # "CONNECTED" /\ w.gw[k].status # "CONNECTED"
            /\ e.sock \in Fd => w.h.fds[e.sock] # ClientSocket,
         NEW v, IsWorld(v), v.h = w.h, v.gw = [w.gw EXCEPT ![k] = e], v.nodes = w.nodes,
         v.due \in Ages
  PROVE  Moves(w, v, ps) /\ OneTaken(w.h, v.h)
<1>1. /\ v.gw \in [Node -> GatewayEntry] /\ v.gw[k] = e
      /\ \A j \in Node : j # k => v.gw[j] = w.gw[j]
  BY DEF SoundWorld
<1>2. Attached(v.h, v.gw)
  BY <1>1 DEF SoundWorld, Attached
<1>3. Later(w.h, v.h)
  BY ShrinksReflexive DEF Shrinks, SoundWorld
<1> QED
  BY <1>1, <1>2, <1>3 DEF Moves, SoundWorld, OneTaken

(* Nothing happens.                                                        *)
LEMMA MovesReflexive ==
  ASSUME NEW ps, NEW w, SoundWorld(w, ps)
  PROVE  Moves(w, w, ps) /\ OneTaken(w.h, w.h)
BY ShrinksReflexive DEF Moves, Shrinks, SoundWorld, OneTaken

(* A node that is up gets connected.                                       *)
LEMMA ConnectMoves ==
  ASSUME NEW ps, PeersSound(ps), NEW w, SoundWorld(w, ps), NEW k \in Node,
         w.gw[k].status # "CONNECTED", Connected(w, k),
         NEW v, v = dlt_gateway_add_to_event_loop(dlt_client_connect(w, k), k)
  PROVE  Moves(w, v, ps) /\ OneTaken(w.h, v.h)
<1> DEFINE fd == Lowest(w.h)
           a == dlt_client_connect(w, k)
<1>0. /\ IsWorld(w) /\ Table(w.h, ps) /\ w.h \in Handler
      /\ w.gw \in [Node -> GatewayEntry] /\ w.nodes \in [Node -> PassiveNode] /\ w.due \in Ages
      /\ Attached(w.h, w.gw)
  BY DEF SoundWorld, Table
<1>1. fd \in Fd /\ w.h.fds[fd] = Free /\ HasFree(w.h) /\ w.nodes[k].up
  BY LowestIs DEF Connected
<1> HIDE DEF fd
<1>2. a = [w EXCEPT !.gw[k].sock = fd, !.h.fds[fd] = NodeSocket(k),
                    !.nodes[k].state = "open", !.nodes[k].data = {}]
  BY <1>1 DEF dlt_client_connect, fd
<1> DEFINE e == [w.gw[k] EXCEPT !.sock = fd]
           g == [w.gw EXCEPT ![k] = e]
           ah == [w.h EXCEPT !.fds[fd] = NodeSocket(k)]
           n == [[w.nodes[k] EXCEPT !.state = "open"] EXCEPT !.data = {}]
           ns == [w.nodes EXCEPT ![k] = n]
<1>3. e \in GatewayEntry /\ n \in PassiveNode /\ n.state = "open"
  <2>1. w.gw[k] \in GatewayEntry /\ w.nodes[k] \in PassiveNode
    BY <1>0
  <2>2. e \in GatewayEntry
    BY <1>1, <2>1 DEF GatewayEntry
  <2> DEFINE o == [w.nodes[k] EXCEPT !.state = "open"]
  <2>3. o \in PassiveNode /\ o.state = "open"
    BY <2>1 DEF PassiveNode
  <2> HIDE DEF o
  <2>4. [o EXCEPT !.data = {}] \in PassiveNode /\ [o EXCEPT !.data = {}].state = "open"
    BY <2>3 DEF PassiveNode
  <2> QED
    BY <2>2, <2>4 DEF o
<1>4. e.sock = fd
  <2>1. w.gw[k] \in GatewayEntry
    BY <1>0
  <2> QED
    BY <2>1 DEF GatewayEntry
<1>5. IsWorld(a) /\ a.h = ah /\ a.gw = g /\ a.nodes = ns /\ a.due = w.due
  <2> DEFINE w1 == [w EXCEPT !.gw = g]
             w2 == [w1 EXCEPT !.h = ah]
             m1 == [w.nodes EXCEPT ![k] = [w.nodes[k] EXCEPT !.state = "open"]]
             w3 == [w2 EXCEPT !.nodes = m1]
             w4 == [w3 EXCEPT !.nodes = ns]
  <2> HIDE DEF ah, g, e, n
  <2>1. /\ w1 = [h |-> w.h, gw |-> g, nodes |-> w.nodes, due |-> w.due, stray |-> w.stray]
        /\ IsWorld(w1)
    BY <1>0, WorldExcept DEF IsWorld
  <2> HIDE DEF w1
  <2>2. /\ w2 = [h |-> ah, gw |-> g, nodes |-> w.nodes, due |-> w.due, stray |-> w.stray]
        /\ IsWorld(w2)
    <3>1. w2 = [h |-> ah, gw |-> w1.gw, nodes |-> w1.nodes, due |-> w1.due, stray |-> w1.stray]
      <4>1. IsWorld(w1)
        BY <2>1
      <4> QED
        BY <4>1, WorldExcept
    <3> QED
      BY <2>1, <3>1 DEF IsWorld
  <2> HIDE DEF w2, m1
  <2>3. /\ w3 = [h |-> ah, gw |-> g, nodes |-> m1, due |-> w.due, stray |-> w.stray]
        /\ IsWorld(w3)
    <3>1. w3 = [h |-> w2.h, gw |-> w2.gw, nodes |-> m1, due |-> w2.due, stray |-> w2.stray]
      <4>1. IsWorld(w2)
        BY <2>2
      <4> QED
        BY <4>1, WorldExcept
    <3> QED
      BY <2>2, <3>1 DEF IsWorld
  <2> HIDE DEF w3, ns
  <2>4. /\ w4 = [h |-> ah, gw |-> g, nodes |-> ns, due |-> w.due, stray |-> w.stray]
        /\ IsWorld(w4)
    <3>1. w4 = [h |-> w3.h, gw |-> w3.gw, nodes |-> ns, due |-> w3.due, stray |-> w3.stray]
      <4>1. IsWorld(w3)
        BY <2>3
      <4> QED
        BY <4>1, WorldExcept
    <3> QED
      BY <2>3, <3>1 DEF IsWorld
  <2>5. a = w4
    <3> DEFINE u1 == [w EXCEPT !.gw[k].sock = fd]
               u2 == [u1 EXCEPT !.h.fds[fd] = NodeSocket(k)]
               u3 == [u2 EXCEPT !.nodes[k].state = "open"]
               u4 == [u3 EXCEPT !.nodes[k].data = {}]
    <3>1. a = u4
      BY <1>2
    <3>2. u1 = w1
      BY DEF w1, g, e
    <3>3. u2 = [u1 EXCEPT !.h = [u1.h EXCEPT !.fds[fd] = NodeSocket(k)]]
      OBVIOUS
    <3>4. u2 = w2
      <4>1. w1.h = w.h
        BY <2>1
      <4> HIDE DEF u1, u2
      <4> QED
        BY <3>2, <3>3, <4>1 DEF w2, ah
    <3>5. u3 = [u2 EXCEPT !.nodes = [u2.nodes EXCEPT ![k] = [u2.nodes[k] EXCEPT !.state = "open"]]]
      OBVIOUS
    <3>6. u3 = w3
      <4>1. w2.nodes = w.nodes
        BY <2>2
      <4> HIDE DEF u2, u3
      <4> QED
        BY <3>4, <3>5, <4>1 DEF w3, m1
    <3>7. u4 = [u3 EXCEPT !.nodes = [u3.nodes EXCEPT ![k] = [u3.nodes[k] EXCEPT !.data = {}]]]
      OBVIOUS
    <3>8. w3.nodes = m1 /\ m1[k] = [w.nodes[k] EXCEPT !.state = "open"]
      BY <1>0, <2>3 DEF m1
    <3>9. [m1 EXCEPT ![k] = n] = ns
      BY <1>0 DEF m1, ns
    <3> HIDE DEF u3, u4
    <3>10. u4 = [w3 EXCEPT !.nodes = [m1 EXCEPT ![k] = n]]
      BY <3>6, <3>7, <3>8 DEF n
    <3> QED
      BY <3>1, <3>9, <3>10
  <2> HIDE DEF w4, a
  <2> QED
    BY <2>4, <2>5
<1> HIDE DEF a
<1>6. /\ g \in [Node -> GatewayEntry] /\ g[k] = e
      /\ \A j \in Node : j # k => g[j] = w.gw[j]
      /\ ns \in [Node -> PassiveNode] /\ ns[k] = n
      /\ \A j \in Node : j # k => ns[j] = w.nodes[j]
  BY <1>0, <1>3
<1> HIDE DEF e, g, n, ns, ah
<1>7. v = dlt_gateway_add_to_event_loop(a, k)
  BY DEF a
<1>8. /\ IsWorld(v) /\ v.h = Created(w.h, fd, NodeSocket(k), "GATEWAY") /\ v.nodes = ns
      /\ v.due \in Ages /\ v.gw \in [Node -> GatewayEntry]
      /\ v.gw[k].status = "CONNECTED" /\ v.gw[k].sock = fd
      /\ \A j \in Node : j # k => v.gw[j] = g[j]
  <2>1. a.gw \in [Node -> GatewayEntry] /\ a.due \in Ages /\ fd = a.gw[k].sock
        /\ a.h = [w.h EXCEPT !.fds[fd] = NodeSocket(k)]
    BY <1>0, <1>4, <1>5, <1>6 DEF ah
  <2>2. /\ IsWorld(v) /\ v.h = Created(w.h, fd, NodeSocket(k), "GATEWAY") /\ v.nodes = a.nodes
        /\ v.due \in Ages /\ v.gw \in [Node -> GatewayEntry]
        /\ v.gw[k].status = "CONNECTED" /\ v.gw[k].sock = fd
        /\ \A j \in Node : j # k => v.gw[j] = a.gw[j]
    BY <1>0, <1>1, <1>5, <1>7, <2>1, AddIs
  <2> QED
    BY <1>5, <2>2
<1>9. /\ MaxPeers \in Nat /\ Nodes \in Nat /\ Len(ps) \in Nat /\ Len(ps) <= MaxPeers
      /\ k \in 1 .. Nodes /\ NodeSocket(k) = MaxPeers + k
  BY Bounds DEF PeersSound, Node, NodeSocket
<1>10. /\ NodeSocket(k) \in Ends(ps) /\ Fits("GATEWAY", NodeSocket(k), ps)
       /\ "GATEWAY" \in ConnectionType
  <2>1. NodeSocket(k) \in MaxPeers + 1 .. MaxPeers + Nodes /\ NodeSocket(k) > 0
        /\ NodeSocket(k) \notin 1 .. Len(ps)
    BY <1>9
  <2> HIDE DEF NodeSocket
  <2>2. Fits("GATEWAY", NodeSocket(k), ps)
    BY <2>1 DEF Fits, Fifo, AppSocket, ClientSocket, ControlSocket, SerialLine, OneSecondTimer,
                GatewayTimer
  <2> QED
    BY <2>1, <2>2 DEF Ends, ConnectionType
<1>11. \A f \in Fd : w.h.fds[f] # NodeSocket(k)
  BY <1>0 DEF Attached
<1>12. /\ Table(v.h, ps) /\ Later(w.h, v.h) /\ v.h.fds[fd] = NodeSocket(k)
       /\ \A f \in Fd : f # fd => v.h.fds[f] = w.h.fds[f]
  BY <1>0, <1>1, <1>8, <1>10, <1>11, CreateTable
<1>13. Attached(v.h, v.gw)
  <2>1. \A j \in Node : NodeSocket(j) = NodeSocket(k) => j = k
    BY <1>9 DEF Node, NodeSocket
  <2>2. NodeSocket(k) # ClientSocket
    BY <1>9 DEF ClientSocket
  <2>3. \A j \in Node : NodeSocket(j) # Free
    BY Bounds DEF Free
  <2> SUFFICES ASSUME NEW j \in Node
               PROVE  /\ \A f \in Fd : v.h.fds[f] = NodeSocket(j) =>
                            v.gw[j].status = "CONNECTED" /\ v.gw[j].sock = f
                      /\ v.gw[j].status = "CONNECTED" =>
                            v.gw[j].sock \in Fd /\ v.h.fds[v.gw[j].sock] = NodeSocket(j)
                      /\ v.gw[j].sock \in Fd => v.h.fds[v.gw[j].sock] # ClientSocket
    BY DEF Attached
  <2>4. CASE j = k
    BY <1>1, <1>8, <1>11, <1>12, <2>2, <2>4
  <2>5. CASE j # k
    <3>1. v.gw[j] = w.gw[j]
      BY <1>6, <1>8, <2>5
    <3>2. /\ \A f \in Fd : w.h.fds[f] = NodeSocket(j) =>
               w.gw[j].status = "CONNECTED" /\ w.gw[j].sock = f
          /\ w.gw[j].status = "CONNECTED" =>
               w.gw[j].sock \in Fd /\ w.h.fds[w.gw[j].sock] = NodeSocket(j)
          /\ w.gw[j].sock \in Fd => w.h.fds[w.gw[j].sock] # ClientSocket
      BY <1>0 DEF Attached
    <3> QED
      BY <1>1, <1>12, <2>1, <2>2, <2>3, <2>5, <3>1, <3>2
  <2> QED
    BY <2>4, <2>5
<1>14. SoundWorld(v, ps)
  BY <1>6, <1>8, <1>12, <1>13 DEF SoundWorld
<1>15. \A f \in Fd : v.h.fds[f] = w.h.fds[f] \/ v.h.fds[f] > MaxPeers
  BY <1>12, Bounds
<1>16. \A j \in Node : \/ v.nodes[j] = w.nodes[j]
                       \/ v.nodes[j].state = "open" /\ \A f \in Fd : w.h.fds[f] # NodeSocket(j)
  BY <1>3, <1>6, <1>8, <1>11
<1>17. OneTaken(w.h, v.h)
  BY <1>1, <1>12 DEF OneTaken, fd
<1> QED
  BY <1>12, <1>14, <1>15, <1>16, <1>17 DEF Moves

(* A node that cannot be reached.                                          *)
LEMMA NotConnectedIs ==
  ASSUME NEW ps, NEW w, SoundWorld(w, ps), NEW k \in Node,
         w.gw[k].status # "CONNECTED", ~Connected(w, k),
         NEW v, v = dlt_client_connect(w, k)
  PROVE  \E e \in GatewayEntry :
            /\ v = [w EXCEPT !.gw = [w.gw EXCEPT ![k] = e]] /\ e.status # "CONNECTED"
            /\ e.sock \in Fd => w.h.fds[e.sock] # ClientSocket
<1>1. w.gw[k] \in GatewayEntry
  BY DEF SoundWorld
<1> DEFINE s == IF HasFree(w.h) THEN Lowest(w.h) ELSE -1
           e == [w.gw[k] EXCEPT !.sock = s]
<1>2. s \in {-1} \cup Fd /\ (s \in Fd => w.h.fds[s] # ClientSocket)
  <2>1. CASE HasFree(w.h)
    BY <2>1, LowestIs DEF Free, ClientSocket
  <2>2. CASE ~HasFree(w.h)
    BY <2>2, Bounds
  <2> QED
    BY <2>1, <2>2
<1>3. v = [w EXCEPT !.gw[k].sock = s]
  BY DEF dlt_client_connect, Connected
<1> HIDE DEF s
<1>4. e \in GatewayEntry /\ e.status = w.gw[k].status /\ e.sock = s
  BY <1>1, <1>2 DEF GatewayEntry
<1>5. v = [w EXCEPT !.gw = [w.gw EXCEPT ![k] = e]]
  BY <1>3
<1> HIDE DEF e
<1> QED
  BY <1>2, <1>4, <1>5

(* The count of failed attempts.                                           *)
LEMMA CountedIs ==
  ASSUME NEW w, NEW k \in Node, w.gw \in [Node -> GatewayEntry],
         NEW v, v = ConnectFailed(w, k), IsWorld(w)
  PROVE  \E e \in GatewayEntry :
            /\ v = [w EXCEPT !.gw = [w.gw EXCEPT ![k] = e]]
            /\ e.status = w.gw[k].status /\ e.sock = w.gw[k].sock
<1>1. w.gw[k] \in GatewayEntry
  OBVIOUS
<1>2. CASE Timeout = 0
  <2>1. v = w
    BY <1>2 DEF ConnectFailed
  <2>2. [w.gw EXCEPT ![k] = w.gw[k]] = w.gw
    OBVIOUS
  <2>3. [w EXCEPT !.gw = w.gw] = w
    BY WorldExcept DEF IsWorld
  <2> QED
    BY <1>1, <2>1, <2>2, <2>3
<1>3. CASE Timeout # 0
  <2> DEFINE n == w.gw[k].timeout_cnt + 1
             a == [w.gw[k] EXCEPT !.timeout_cnt = n]
             t == IF n > Timeout THEN "DISABLED" ELSE a.trigger
             e == [a EXCEPT !.trigger = t]
             g == [w.gw EXCEPT ![k] = a]
             u == [w EXCEPT !.gw = g]
  <2>1. v = [u EXCEPT !.gw[k].trigger = IF n > Timeout THEN "DISABLED" ELSE @]
    BY <1>3 DEF ConnectFailed
  <2>2. n \in Int
    BY <1>1 DEF GatewayEntry
  <2> HIDE DEF n
  <2>3. /\ a \in GatewayEntry /\ a.status = w.gw[k].status /\ a.sock = w.gw[k].sock
        /\ a.trigger \in {"ON_STARTUP", "ON_DEMAND", "DISABLED"}
    BY <1>1, <2>2 DEF GatewayEntry
  <2> HIDE DEF a
  <2>4. t \in {"ON_STARTUP", "ON_DEMAND", "DISABLED"}
    BY <2>3
  <2>5. e \in GatewayEntry /\ e.status = w.gw[k].status /\ e.sock = w.gw[k].sock
    <3> HIDE DEF t
    <3> QED
      BY <2>3, <2>4 DEF GatewayEntry
  <2>6. u.gw = g /\ g[k] = a
    BY WorldExcept
  <2>7. v = [u EXCEPT !.gw = [u.gw EXCEPT ![k] =
               [u.gw[k] EXCEPT !.trigger = IF n > Timeout THEN "DISABLED" ELSE @]]]
    BY <2>1
  <2> HIDE DEF u, g
  <2>8. v = [u EXCEPT !.gw = [g EXCEPT ![k] = e]]
    BY <2>6, <2>7
  <2>9. [g EXCEPT ![k] = e] = [w.gw EXCEPT ![k] = e]
    <3> HIDE DEF e
    <3> QED
      BY DEF g
  <2>10. [u EXCEPT !.gw = [w.gw EXCEPT ![k] = e]] = [w EXCEPT !.gw = [w.gw EXCEPT ![k] = e]]
    <3> HIDE DEF e
    <3> QED
      BY DEF u
  <2> HIDE DEF e
  <2> QED
    BY <2>5, <2>8, <2>9, <2>10
<1> QED
  BY <1>2, <1>3

(* An attempt to connect that fails.                                       *)
LEMMA FailedMoves ==
  ASSUME NEW ps, NEW w, SoundWorld(w, ps), NEW k \in Node,
         w.gw[k].status # "CONNECTED", ~Connected(w, k),
         NEW v, v = dlt_client_connect(w, k) \/ v = ConnectFailed(dlt_client_connect(w, k), k)
  PROVE  Moves(w, v, ps) /\ OneTaken(w.h, v.h)
<1>1. PICK e \in GatewayEntry :
         /\ dlt_client_connect(w, k) = [w EXCEPT !.gw = [w.gw EXCEPT ![k] = e]]
         /\ e.status # "CONNECTED"
         /\ e.sock \in Fd => w.h.fds[e.sock] # ClientSocket
  BY NotConnectedIs
<1> DEFINE g == [w.gw EXCEPT ![k] = e]
           u == [w EXCEPT !.gw = g]
<1>2. IsWorld(w) /\ w.gw \in [Node -> GatewayEntry] /\ w.due \in Ages
  BY DEF SoundWorld
<1>3. g \in [Node -> GatewayEntry] /\ g[k] = e
  BY <1>2
<1>4. u = [h |-> w.h, gw |-> g, nodes |-> w.nodes, due |-> w.due, stray |-> w.stray]
  <2> HIDE DEF g
  <2> QED
    BY <1>2, WorldExcept
<1> HIDE DEF u
<1>5. IsWorld(u) /\ u.h = w.h /\ u.gw = g /\ u.nodes = w.nodes /\ u.due = w.due
  BY <1>4 DEF IsWorld
<1>6. CASE v = u
  <2>1. v.gw = [w.gw EXCEPT ![k] = e]
    BY <1>5, <1>6
  <2> QED
    BY <1>1, <1>2, <1>5, <1>6, <2>1, EntryMoves
<1>7. CASE v = ConnectFailed(u, k)
  <2>1. PICK c \in GatewayEntry :
           /\ v = [u EXCEPT !.gw = [u.gw EXCEPT ![k] = c]]
           /\ c.status = u.gw[k].status /\ c.sock = u.gw[k].sock
    <3> HIDE DEF g
    <3> QED
      BY <1>3, <1>5, <1>7, CountedIs
  <2>2. c.status = e.status /\ c.sock = e.sock /\ [g EXCEPT ![k] = c] = [w.gw EXCEPT ![k] = c]
    BY <1>3, <1>5, <2>1
  <2>3. v = [h |-> w.h, gw |-> [w.gw EXCEPT ![k] = c], nodes |-> w.nodes, due |-> w.due,
             stray |-> u.stray]
    <3>1. v = [u EXCEPT !.gw = [w.gw EXCEPT ![k] = c]]
      BY <1>5, <2>1, <2>2
    <3> DEFINE x == [w.gw EXCEPT ![k] = c]
    <3>2. v = [u EXCEPT !.gw = x] /\ IsWorld(u)
      BY <1>5, <3>1
    <3> HIDE DEF x
    <3>3. v = [h |-> u.h, gw |-> x, nodes |-> u.nodes, due |-> u.due, stray |-> u.stray]
      BY <3>2, WorldExcept
    <3>4. v = [h |-> w.h, gw |-> x, nodes |-> w.nodes, due |-> w.due, stray |-> u.stray]
      BY <1>5, <3>3
    <3> QED
      BY <3>4 DEF x
  <2>4. /\ IsWorld(v) /\ v.h = w.h /\ v.gw = [w.gw EXCEPT ![k] = c] /\ v.nodes = w.nodes
        /\ v.due \in Ages
    BY <1>2, <2>3 DEF IsWorld
  <2> QED
    BY <1>1, <2>2, <2>4, EntryMoves
<1> QED
  BY <1>1, <1>6, <1>7 DEF u

(* The smaller of two numbers is one of them.                              *)
LEMMA MinOfTwo ==
  ASSUME NEW x \in Int, NEW y \in Int
  PROVE  Min({x, y}) \in {x, y}
<1>1. \E z \in {x, y} : \A u \in {x, y} : z <= u
  OBVIOUS
<1> QED
  BY <1>1 DEF Min

(* A tick of the timer for a node that is connected.                       *)
LEMMA PeriodicMoves ==
  ASSUME NEW ps, PeersSound(ps), NEW w, SoundWorld(w, ps), NEW k \in Node,
         w.gw[k].status = "CONNECTED", NEW v, v = PeriodicMessages(w, k)
  PROVE  Moves(w, v, ps) /\ OneTaken(w.h, v.h)
<1> DEFINE age(i) == IF w.due[k][i] = Never THEN Never
                     ELSE Min({w.due[k][i] + 1, Sendtime + 1})
           d == [w.due EXCEPT ![k] = [i \in DOMAIN w.due[k] |-> age(i)]]
           a == [w EXCEPT !.due = d]
           c == CreateGatewayConnection(a, k)
           m == SendMessages(c, k, {"PERIODIC", "BOTH"})
           e == [m.gw[k] EXCEPT !.sendtime_cnt = NextSendtime(@)]
<1>0. /\ IsWorld(w) /\ Table(w.h, ps) /\ w.h \in Handler /\ w.gw \in [Node -> GatewayEntry]
      /\ w.nodes \in [Node -> PassiveNode] /\ w.due \in Ages /\ Attached(w.h, w.gw)
  BY DEF SoundWorld, Table
<1>1. d \in Ages
  <2>1. w.due[k] \in [DOMAIN CtrlMsgs -> Int] /\ w.due \in [Node -> [DOMAIN CtrlMsgs -> Int]]
    BY <1>0 DEF Ages
  <2>2. \A i \in DOMAIN CtrlMsgs : age(i) \in Int
    <3> SUFFICES ASSUME NEW i \in DOMAIN CtrlMsgs PROVE age(i) \in Int
      OBVIOUS
    <3>1. w.due[k][i] + 1 \in Int /\ Sendtime + 1 \in Int
      BY <2>1, SendtimeIsInt
    <3>2. Min({w.due[k][i] + 1, Sendtime + 1}) \in Int
      BY <3>1, MinOfTwo
    <3> QED
      BY <3>2 DEF Never
  <2> HIDE DEF age
  <2> QED
    BY <2>1, <2>2 DEF Ages
<1>2. v = [m EXCEPT !.gw[k].sendtime_cnt = NextSendtime(@)]
  BY DEF PeriodicMessages
<1> HIDE DEF d
<1>3. a = [h |-> w.h, gw |-> w.gw, nodes |-> w.nodes, due |-> d, stray |-> w.stray]
  BY <1>0, WorldExcept
<1> HIDE DEF a
<1>4. IsWorld(a) /\ a.h = w.h /\ a.gw = w.gw /\ a.nodes = w.nodes /\ a.due = d
  BY <1>3 DEF IsWorld
<1>5. c = a
  <2> DEFINE fd == w.gw[k].sock
  <2>1. fd \in Fd /\ w.h.fds[fd] = NodeSocket(k)
    BY <1>0 DEF Attached
  <2>2. IsOpen(w.h, fd)
    BY <2>1, Bounds DEF IsOpen, Free, LogFile
  <2>3. IsConnected(w.h, fd)
    BY <1>0, <2>1, <2>2 DEF Table, Covered
  <2>4. find_connection(w.h, fd) # 0
    BY <1>0, <2>3, FindIs
  <2>5. connection_create(w.h, fd, "GATEWAY") = w.h
    BY <2>4 DEF connection_create
  <2>6. c = [a EXCEPT !.h = w.h]
    <3> HIDE DEF fd
    <3>1. fd = a.gw[k].sock
      BY <1>4 DEF fd
    <3>2. c = [a EXCEPT !.h = connection_create(a.h, fd, "GATEWAY")]
      BY <1>4, <3>1 DEF CreateGatewayConnection
    <3> QED
      BY <1>4, <2>5, <3>2
  <2> HIDE DEF c
  <2> QED
    BY <1>3, <1>4, <2>6, WorldExcept
<1> HIDE DEF c
<1>6. IsWorld(m) /\ m.h = w.h /\ m.gw = w.gw /\ m.nodes = w.nodes /\ m.due \in Ages
  BY <1>1, <1>4, <1>5, SendMessagesIs
<1> HIDE DEF m
<1>7. w.gw[k] \in GatewayEntry
  BY <1>0
<1>8. NextSendtime(w.gw[k].sendtime_cnt) \in Int
  BY <1>7, SendtimeIsInt DEF NextSendtime, GatewayEntry
<1>9. e \in GatewayEntry /\ e.status = "CONNECTED" /\ e.sock = w.gw[k].sock
  BY <1>6, <1>7, <1>8 DEF GatewayEntry
<1>10. v = [m EXCEPT !.gw = [m.gw EXCEPT ![k] = e]]
  BY <1>2
<1> HIDE DEF e
<1>11. v = [h |-> m.h, gw |-> [m.gw EXCEPT ![k] = e], nodes |-> m.nodes, due |-> m.due,
            stray |-> m.stray]
  BY <1>6, <1>10, WorldExcept
<1>12. /\ IsWorld(v) /\ v.h = w.h /\ v.gw = [w.gw EXCEPT ![k] = e] /\ v.nodes = w.nodes
       /\ v.due \in Ages
  BY <1>6, <1>11 DEF IsWorld
<1> QED
  BY <1>9, <1>12, EntryMoves

(* What the timer does for one entry, and for all.                         *)
LEMMA EstablishOneMoves ==
  ASSUME NEW ps, PeersSound(ps), NEW w, SoundWorld(w, ps), NEW k \in Node,
         NEW v, v = EstablishOne(w, k)
  PROVE  Moves(w, v, ps) /\ OneTaken(w.h, v.h)
<1>1. CASE v = w
  BY <1>1, MovesReflexive
<1>2. CASE w.gw[k].status # "CONNECTED" /\ v # w
  <2>1. CASE Connected(w, k)
    <3>1. v = dlt_gateway_add_to_event_loop(dlt_client_connect(w, k), k)
      BY <1>2, <2>1 DEF EstablishOne
    <3> QED
      BY <1>2, <2>1, <3>1, ConnectMoves
  <2>2. CASE ~Connected(w, k)
    <3>1. v = ConnectFailed(dlt_client_connect(w, k), k)
      BY <1>2, <2>2 DEF EstablishOne
    <3> QED
      BY <1>2, <2>2, <3>1, FailedMoves
  <2> QED
    BY <2>1, <2>2
<1>3. CASE w.gw[k].status = "CONNECTED" /\ v # w
  <2>1. v = PeriodicMessages(w, k)
    BY <1>3 DEF EstablishOne
  <2> QED
    BY <1>3, <2>1, PeriodicMoves
<1> QED
  BY <1>1, <1>2, <1>3

(* With one node the fold over the nodes is one attempt.                   *)
LEMMA EstablishIs ==
  ASSUME Nodes <= 1, NEW w
  PROVE  dlt_gateway_establish_connections(w) =
            IF Nodes = 0 THEN w ELSE EstablishOne(w, 1)
<1> DEFINE q == [k \in Node |-> k]
           Folds(it) == it = [s \in SUBSET DOMAIN q |-> IF s = {} THEN w ELSE
                                EstablishOne(it[s \ {Max(s)}], q[Max(s)])]
           iter == CHOOSE it : Folds(it)
           some == [s \in SUBSET Node |-> IF s = {} THEN w ELSE EstablishOne(w, 1)]
<1>1. dlt_gateway_establish_connections(w) = iter[DOMAIN q]
  BY DEF dlt_gateway_establish_connections, FoldLeft, MapThenFoldSet
<1>2. DOMAIN q = Node /\ \A k \in Node : q[k] = k
  OBVIOUS
<1>3. Node = IF Nodes = 0 THEN {} ELSE {1}
  <2>1. Nodes = 0 \/ Nodes = 1
    BY Bounds
  <2>2. 1 .. 0 = {} /\ 1 .. 1 = {1}
    OBVIOUS
  <2> QED
    BY <2>1, <2>2 DEF Node
<1>4. \A s \in SUBSET Node : s # {} => s = {1} /\ Max(s) = 1 /\ s \ {Max(s)} = {} /\ 1 \in Node
  <2> SUFFICES ASSUME NEW s \in SUBSET Node, s # {}
               PROVE  s = {1} /\ Max(s) = 1 /\ s \ {Max(s)} = {} /\ 1 \in Node
    OBVIOUS
  <2>1. s = {1} /\ 1 \in Node
    BY <1>3
  <2>2. Max({1}) = 1
    <3>1. {1} \in SUBSET (1 .. 1) /\ 1 \in Nat
      OBVIOUS
    <3> QED
      BY <3>1, MaxIsIn
  <2> QED
    BY <2>1, <2>2
<1> HIDE DEF q
<1>5. Folds(some)
  <2>1. ASSUME NEW s \in SUBSET Node
        PROVE  some[s] = IF s = {} THEN w ELSE EstablishOne(some[s \ {Max(s)}], q[Max(s)])
    <3>1. CASE s = {}
      BY <3>1
    <3>2. CASE s # {}
      <4>1. Max(s) = 1 /\ s \ {Max(s)} = {} /\ q[1] = 1
        BY <1>2, <1>4, <3>2
      <4>2. some[{}] = w /\ some[s] = EstablishOne(w, 1)
        BY <3>2
      <4> HIDE DEF some
      <4> QED
        BY <3>2, <4>1, <4>2
    <3> QED
      BY <3>1, <3>2
  <2> QED
    BY <1>2, <2>1
<1>6. Folds(iter)
  <2> HIDE DEF Folds
  <2> QED
    BY <1>5
<1> HIDE DEF iter, some
<1>7. \A s \in SUBSET Node : iter[s] = IF s = {} THEN w ELSE
                               EstablishOne(iter[s \ {Max(s)}], q[Max(s)])
  BY <1>2, <1>6
<1> HIDE DEF Folds
<1>8. iter[{}] = w
  BY <1>7
<1>9. CASE Nodes = 0
  BY <1>1, <1>2, <1>3, <1>8, <1>9
<1>10. CASE Nodes # 0
  <2>1. Node = {1} /\ Node # {} /\ Node \in SUBSET Node
    BY <1>3, <1>10
  <2>2. iter[Node] = EstablishOne(iter[Node \ {Max(Node)}], q[Max(Node)])
    BY <1>7, <2>1
  <2>3. Max(Node) = 1 /\ Node \ {Max(Node)} = {} /\ q[1] = 1
    BY <1>2, <1>4, <2>1
  <2>4. iter[Node] = EstablishOne(w, 1)
    BY <1>8, <2>2, <2>3
  <2> QED
    BY <1>1, <1>2, <1>10, <2>4
<1> QED
  BY <1>9, <1>10

(* The gateway looks after its node: at most one descriptor is opened.     *)
LEMMA EstablishMoves ==
  ASSUME Nodes <= 1, NEW ps, PeersSound(ps), NEW w, SoundWorld(w, ps),
         NEW v, v = dlt_gateway_establish_connections(w)
  PROVE  Moves(w, v, ps) /\ OneTaken(w.h, v.h) /\ (Nodes = 0 => v = w)
<1>1. CASE Nodes = 0
  <2>1. v = w
    BY <1>1, EstablishIs
  <2> QED
    BY <2>1, MovesReflexive
<1>2. CASE Nodes # 0
  <2>1. v = EstablishOne(w, 1) /\ 1 \in Node
    BY <1>2, EstablishIs, Bounds DEF Node
  <2> QED
    BY <1>2, <2>1, EstablishOneMoves
<1> QED
  BY <1>1, <1>2

-----------------------------------------------------------------------------
(***************************************************************************)
(* The callbacks of the gateway.                                           *)
(***************************************************************************)

(* The state the callbacks of the gateway start from.                      *)
LEMMA WorldIs ==
  ASSUME Inv, running = "yes"
  PROVE  /\ SoundWorld(World, peers) /\ World.h = handler /\ World.gw = gateway
         /\ World.nodes = nodes /\ World.due = due /\ World.stray = stray
<1>1. /\ World.h = handler /\ World.gw = gateway /\ World.nodes = nodes /\ World.due = due
      /\ World.stray = stray
  BY DEF World
<1>2. IsWorld(World)
  BY <1>1 DEF World, IsWorld
<1> QED
  BY <1>1, <1>2 DEF Inv, SoundWorld

(* A turn of the gateway, from a state that differs from the present one   *)
(* in what the node that is served has sent, if at all.                    *)
LEMMA GatewayTurn ==
  ASSUME Inv, index # 0, running = "yes", "gateway" \in scenario, NEW a, a.h = handler,
         \A j \in Node : \/ a.nodes[j] = nodes[j]
                         \/ NodeSocket(j) = Current /\ a.nodes[j].state = nodes[j].state,
         NEW w, Moves(a, w, peers), Becomes(w),
         NEW ps, SameTypes(peers, ps), \A p \in 1 .. Len(peers) : p # Current => ps[p] = peers[p],
         peers' = Settled(w.h, ps, backlog), Advance(w.h),
         UNCHANGED <<backlog, running, scenario>>,
         input' \subseteq input, input \ {Current} \subseteq input'
  PROVE  Inv'
<1>1. handler' = w.h /\ gateway' = w.gw /\ nodes' = w.nodes /\ due' = w.due
  BY DEF Becomes
<1>2. /\ Table(w.h, peers) /\ Later(handler, w.h) /\ Attached(w.h, w.gw)
      /\ w.gw \in [Node -> GatewayEntry] /\ w.nodes \in [Node -> PassiveNode] /\ w.due \in Ages
      /\ \A f \in Fd : w.h.fds[f] = handler.fds[f] \/ w.h.fds[f] = Free \/ w.h.fds[f] > MaxPeers
      /\ \A j \in Node : \/ w.nodes[j] = a.nodes[j]
                         \/ /\ w.nodes[j].state = "open"
                            /\ \A f \in Fd : handler.fds[f] # NodeSocket(j)
  BY DEF Moves, SoundWorld
<1>3. PeersSound(peers) /\ Waiting(handler, peers, backlog) /\ OffMeansOff
  BY DEF Inv
<1>4. Waiting(w.h, peers, backlog)
  <2>1. /\ backlog \in Seq(1 .. Len(peers))
        /\ \A i \in 1 .. Len(backlog), f \in Fd : handler.fds[f] # backlog[i]
        /\ \A i, j \in 1 .. Len(backlog) : backlog[i] = backlog[j] => i = j
    BY <1>3 DEF Waiting
  <2>2. Len(peers) \in Nat /\ Len(peers) <= MaxPeers /\ MaxPeers \in Nat
    BY <1>3, Bounds DEF PeersSound
  <2>3. \A i \in 1 .. Len(backlog) : backlog[i] \in 1 .. Len(peers)
    BY <2>1
  <2>4. \A i \in 1 .. Len(backlog) : backlog[i] # Free /\ ~(backlog[i] > MaxPeers)
    BY <2>2, <2>3 DEF Free
  <2>5. \A i \in 1 .. Len(backlog), f \in Fd : w.h.fds[f] # backlog[i]
    BY <1>2, <2>1, <2>4
  <2> QED
    BY <2>1, <2>5 DEF Waiting
<1>5. PeersRemain(ps, handler', backlog', peers')
  <2>1. PeersSound(ps)
    BY DEF SameTypes
  <2> QED
    BY <1>1, <2>1, SettledIs
<1>6. WaitingRemain(backlog')
  BY DEF WaitingRemain
<1>7. NodesRemain(nodes')
  <2> SUFFICES ASSUME NEW j \in Node, NodeSocket(j) # Current,
                      NEW f \in Fd, handler.fds[f] = NodeSocket(j)
               PROVE  nodes'[j] = nodes[j]
    BY DEF NodesRemain
  <2> QED
    BY <1>1, <1>2
<1>8. OffMeansOff'
  <2>1. \A j \in Node : nodes'[j].state = "reset" => nodes[j].state = "reset"
    BY <1>1, <1>2
  <2> QED
    BY <1>3, <2>1 DEF OffMeansOff
<1> QED
  BY <1>1, <1>2, <1>4, <1>5, <1>6, <1>7, <1>8, TurnInv

(* The timer of the gateway.                                               *)
LEMMA GatewayTimerInv ==
  ASSUME Inv, Orderly, dlt_gateway_process_gateway_timer
  PROVE  Inv'
<1> DEFINE w == dlt_gateway_establish_connections(World)
<1>1. /\ index # 0 /\ running = "yes" /\ Con.type = "GATEWAY_TIMER"
      /\ input' = input \ {GatewayTimer} /\ GatewayReturns(w)
  BY DEF dlt_gateway_process_gateway_timer, Callback, AtEvent
<1> HIDE DEF w
<1>2. Current = GatewayTimer /\ Entry.fd \in Fd
  BY <1>1, EndOfType, AtEntry
<1>3. "gateway" \in scenario
  BY <1>2 DEF Inv, OffMeansOff, Current
<1>4. PeersSound(peers) /\ SameTypes(peers, peers)
  BY DEF Inv, SameTypes
<1>5. Moves(World, w, peers)
  BY <1>1, <1>4, WorldIs, EstablishMoves DEF Orderly, w
<1>6. /\ Becomes(w) /\ peers' = Settled(w.h, peers, backlog) /\ Advance(w.h)
      /\ UNCHANGED <<backlog, running, scenario>>
  BY <1>1 DEF GatewayReturns
<1>7. World.h = handler /\ World.nodes = nodes
  BY <1>1, WorldIs
<1> QED
  BY <1>1, <1>2, <1>3, <1>4, <1>5, <1>6, <1>7, GatewayTurn

(* The connection to a node goes.                                          *)
LEMMA CloseMoves ==
  ASSUME Nodes <= 1, NEW ps, PeersSound(ps), NEW w, SoundWorld(w, ps), NEW k \in Node,
         NEW e \in GatewayEntry, e.status # "CONNECTED", e.sock = w.gw[k].sock,
         NEW v, IsWorld(v), v.h = unregister_connection(w.h, w.gw[k].sock),
         v.gw = [w.gw EXCEPT ![k] = e], v.nodes = w.nodes, v.due = w.due
  PROVE  Moves(w, v, ps)
<1> DEFINE fd == w.gw[k].sock
<1>1. /\ Table(w.h, ps) /\ w.h \in Handler /\ w.gw \in [Node -> GatewayEntry]
      /\ w.nodes \in [Node -> PassiveNode] /\ w.due \in Ages /\ Attached(w.h, w.gw)
  BY DEF SoundWorld, Table
<1>2. v.gw \in [Node -> GatewayEntry] /\ v.gw[k] = e
  BY <1>1
<1>3. fd \in {-1} \cup Fd
  <2>1. w.gw[k] \in GatewayEntry
    BY <1>1
  <2> QED
    BY <2>1 DEF GatewayEntry
<1>4. \A j \in Node : j = k
  <2>1. Nodes \in Nat /\ k \in 1 .. Nodes
    BY Bounds DEF Node
  <2> QED
    BY <2>1 DEF Node
<1>5. /\ Shrinks(w.h, v.h, ps)
      /\ \A f \in Fd : f # fd => v.h.fds[f] = w.h.fds[f]
      /\ fd \in Fd => ~IsOpen(v.h, fd)
  <2>1. CASE fd \in Fd
    <3>1. w.h.fds[fd] # ClientSocket
      BY <1>1, <2>1 DEF Attached
    <3> HIDE DEF fd
    <3> QED
      BY <1>1, <2>1, <3>1, UnregisterTable DEF fd
  <2>2. CASE fd \notin Fd
    <3>1. fd < 0 /\ \A f \in Fd : f # fd
      BY <1>3, <2>2
    <3>2. ~IsConnected(w.h, fd)
      <4>1. \A i \in DOMAIN w.h.connections : w.h.connections[i] \in Connection
        BY <1>1 DEF Handler
      <4> QED
        BY <3>1, <4>1 DEF IsConnected, Connection
    <3>3. find_connection(w.h, fd) = 0
      BY <1>1, <3>2, FindIs DEF IsConnected
    <3>4. v.h = w.h
      BY <3>3 DEF unregister_connection
    <3> QED
      BY <1>1, <2>2, <3>4, ShrinksReflexive
  <2> QED
    BY <2>1, <2>2
<1> HIDE DEF fd
<1>6. Attached(v.h, v.gw)
  <2>1. \A f \in Fd : v.h.fds[f] # NodeSocket(k)
    <3> SUFFICES ASSUME NEW f \in Fd, v.h.fds[f] = NodeSocket(k) PROVE FALSE
      OBVIOUS
    <3>1. IsOpen(v.h, f)
      BY Bounds DEF IsOpen, Free, LogFile
    <3>2. f # fd /\ w.h.fds[f] = NodeSocket(k)
      BY <1>5, <3>1
    <3> QED
      BY <1>1, <3>2 DEF Attached, fd
  <2>2. fd \in Fd => v.h.fds[fd] # ClientSocket
    BY <1>5 DEF IsOpen, Free, LogFile, ClientSocket
  <2> QED
    BY <1>2, <1>4, <2>1, <2>2 DEF Attached, fd
<1>7. /\ Table(v.h, ps) /\ Later(w.h, v.h)
      /\ \A f \in Fd : v.h.fds[f] = w.h.fds[f] \/ v.h.fds[f] = Free
  BY <1>5 DEF Shrinks, Fewer
<1> QED
  BY <1>1, <1>2, <1>6, <1>7 DEF Moves, SoundWorld

(* A request that reaches the gateway.                                     *)
LEMMA GatewayRequestInv ==
  ASSUME Inv, NEW w, running = "yes" => Moves(World, w, peers), GatewayRequest(w)
  PROVE  Inv'
<1>1. /\ index # 0 /\ running = "yes" /\ "gateway" \in scenario /\ HasData /\ Becomes(w)
      /\ peers' = Settled(w.h, Consumed, backlog) /\ Advance(w.h)
      /\ UNCHANGED <<backlog, input, running, scenario>>
  BY DEF GatewayRequest, Callback, AtEvent
<1>2. /\ SameTypes(peers, Consumed)
      /\ \A p \in 1 .. Len(peers) : p # Current => Consumed[p] = peers[p]
  BY <1>1, ConsumedIs DEF HasData
<1>3. World.h = handler /\ World.nodes = nodes /\ Moves(World, w, peers)
  BY <1>1, WorldIs
<1>4. input' \subseteq input /\ input \ {Current} \subseteq input'
  BY <1>1
<1> QED
  BY <1>1, <1>2, <1>3, <1>4, GatewayTurn

(* A request is forwarded to a node.                                       *)
LEMMA ForwardInv ==
  ASSUME Inv, ForwardRequest
  PROVE  Inv'
<1>1. PICK k \in Node : GatewayRequest(ForwardTo(World, k))
  BY DEF ForwardRequest
<1> DEFINE w == ForwardTo(World, k)
<1>2. ASSUME running = "yes" PROVE Moves(World, w, peers)
  <2>1. SoundWorld(World, peers) /\ IsWorld(World)
    BY <1>2, WorldIs DEF SoundWorld
  <2>2. PICK s : w = [World EXCEPT !.stray = s]
    <3>1. CASE World.gw[k].status # "CONNECTED"
      <4>1. w = World
        BY <3>1 DEF ForwardTo
      <4>2. World = [World EXCEPT !.stray = World.stray]
        BY <2>1, WorldExcept DEF IsWorld
      <4> QED
        BY <4>1, <4>2
    <3>2. CASE World.gw[k].status = "CONNECTED"
      BY <3>2 DEF ForwardTo
    <3> QED
      BY <3>1, <3>2
  <2> HIDE DEF w
  <2>3. w = [h |-> World.h, gw |-> World.gw, nodes |-> World.nodes, due |-> World.due, stray |-> s]
    BY <2>1, <2>2, WorldExcept
  <2>4. /\ IsWorld(w) /\ w.h = World.h /\ w.gw = World.gw /\ w.nodes = World.nodes
        /\ w.due = World.due
    BY <2>3 DEF IsWorld
  <2>5. Later(World.h, w.h)
    BY <2>1, <2>4, ShrinksReflexive DEF SoundWorld, Shrinks
  <2> QED
    BY <2>1, <2>4, <2>5 DEF Moves, SoundWorld
<1> HIDE DEF w
<1>3. GatewayRequest(w)
  BY <1>1 DEF w
<1> QED
  BY <1>2, <1>3, GatewayRequestInv

(* A node is to be connected, or disconnected.                             *)
LEMMA OnDemandInv ==
  ASSUME Inv, Orderly, OnDemandRequest
  PROVE  Inv'
<1>1. PICK k \in Node, connect \in BOOLEAN :
         GatewayRequest(dlt_gateway_process_on_demand_request(World, k, connect))
  BY DEF OnDemandRequest
<1> DEFINE w == dlt_gateway_process_on_demand_request(World, k, connect)
<1>2. ASSUME running = "yes" PROVE Moves(World, w, peers)
  <2>1. SoundWorld(World, peers) /\ IsWorld(World) /\ PeersSound(peers)
    BY <1>2, WorldIs DEF SoundWorld, Inv
  <2>2. CASE w = World
    BY <2>1, <2>2, MovesReflexive
  <2>3. CASE connect /\ w # World
    <3>1. w = ConnectOnDemand(World, k)
      BY <2>3 DEF dlt_gateway_process_on_demand_request
    <3>2. World.gw[k].status # "CONNECTED"
      BY <2>3, <3>1 DEF ConnectOnDemand
    <3>3. CASE Connected(World, k)
      <4>1. w = dlt_gateway_add_to_event_loop(dlt_client_connect(World, k), k)
        BY <3>1, <3>2, <3>3 DEF ConnectOnDemand
      <4> QED
        BY <2>1, <3>2, <3>3, <4>1, ConnectMoves
    <3>4. CASE ~Connected(World, k)
      <4>1. w = dlt_client_connect(World, k)
        BY <3>1, <3>2, <3>4 DEF ConnectOnDemand
      <4> QED
        BY <2>1, <3>2, <3>4, <4>1, FailedMoves
    <3> QED
      BY <3>3, <3>4
  <2>4. CASE ~connect
    <3> DEFINE fd == World.gw[k].sock
               e1 == [World.gw[k] EXCEPT !.status = "DISCONNECTED"]
               e == [e1 EXCEPT !.trigger = "ON_DEMAND"]
               g1 == [World.gw EXCEPT ![k] = e1]
               g == [World.gw EXCEPT ![k] = e]
               s == World.stray \cup
                      IF fd \in Fd /\ find_connection(World.h, fd) # 0
                         /\ World.h.fds[fd] # NodeSocket(k)
                      THEN {"closed"} ELSE {}
               h == unregister_connection(World.h, fd)
               w1 == [World EXCEPT !.gw = g1]
               w2 == [w1 EXCEPT !.gw = g]
               w3 == [w2 EXCEPT !.stray = s]
               w4 == [w3 EXCEPT !.h = h]
    <3>0. World.gw \in [Node -> GatewayEntry] /\ World.gw[k] \in GatewayEntry
      BY <2>1 DEF SoundWorld
    <3>1. /\ e1 \in GatewayEntry /\ e1.sock = fd
      BY <3>0 DEF GatewayEntry
    <3> HIDE DEF e1
    <3>2. e \in GatewayEntry /\ e.status # "CONNECTED" /\ e.sock = fd
      <4>1. e1.status = "DISCONNECTED"
        BY <3>0 DEF e1, GatewayEntry
      <4> QED
        BY <3>1, <4>1 DEF GatewayEntry
    <3>3. g1[k] = e1 /\ [g1 EXCEPT ![k] = e] = g
      <4> HIDE DEF e
      <4> QED
        BY <3>0
    <3>4. w1.gw = g1
      <4> HIDE DEF g1
      <4> QED
        BY <2>1, WorldExcept
    <3>5. w = w4
      <4> DEFINE u2 == [w1 EXCEPT !.gw[k].trigger = "ON_DEMAND"]
                 u3 == [u2 EXCEPT !.stray = @ \cup IF fd \in Fd /\ find_connection(World.h, fd) # 0
                                                     /\ World.h.fds[fd] # NodeSocket(k)
                                                   THEN {"closed"} ELSE {}]
      <4>1. w = [u3 EXCEPT !.h = unregister_connection(@, fd)]
        BY <2>4 DEF dlt_gateway_process_on_demand_request, DisconnectOnDemand, Unregister, e1
      <4>2. u2 = [w1 EXCEPT !.gw = [w1.gw EXCEPT ![k] = [w1.gw[k] EXCEPT !.trigger = "ON_DEMAND"]]]
        OBVIOUS
      <4>3. u2 = w2
        <5> HIDE DEF w1, g1, g, u2
        <5> QED
          BY <3>3, <3>4, <4>2
      <4>4. w2.stray = World.stray /\ w3.h = World.h
        <5> HIDE DEF g, g1, s
        <5> QED
          BY <2>1, WorldExcept
      <4>5. u3 = w3
        <5> HIDE DEF u2, w2, fd
        <5> QED
          BY <4>3, <4>4
      <4> HIDE DEF u3, w3, w, fd
      <4> QED
        BY <4>1, <4>4, <4>5
    <3> HIDE DEF e, g1, s, h, w
    <3>6. w4 = [h |-> h, gw |-> g, nodes |-> World.nodes, due |-> World.due, stray |-> s]
      <4> HIDE DEF g
      <4>1. /\ w1 = [h |-> World.h, gw |-> g1, nodes |-> World.nodes, due |-> World.due,
                     stray |-> World.stray]
            /\ IsWorld(w1)
        BY <2>1, WorldExcept DEF IsWorld
      <4> HIDE DEF w1
      <4>2. w2 = [h |-> w1.h, gw |-> g, nodes |-> w1.nodes, due |-> w1.due, stray |-> w1.stray]
        <5>1. IsWorld(w1)
          BY <4>1
        <5> QED
          BY <5>1, WorldExcept
      <4> HIDE DEF w2
      <4>3. IsWorld(w2)
        BY <4>2 DEF IsWorld
      <4>4. w3 = [h |-> w2.h, gw |-> w2.gw, nodes |-> w2.nodes, due |-> w2.due, stray |-> s]
        BY <4>3, WorldExcept
      <4> HIDE DEF w3
      <4>5. IsWorld(w3)
        BY <4>4 DEF IsWorld
      <4>6. w4 = [h |-> h, gw |-> w3.gw, nodes |-> w3.nodes, due |-> w3.due, stray |-> w3.stray]
        BY <4>5, WorldExcept
      <4> HIDE DEF w4
      <4> QED
        BY <4>1, <4>2, <4>4, <4>6
    <3> HIDE DEF w4, fd
    <3>7. /\ IsWorld(w4) /\ w4.h = unregister_connection(World.h, World.gw[k].sock)
          /\ w4.gw = [World.gw EXCEPT ![k] = e] /\ w4.nodes = World.nodes /\ w4.due = World.due
      BY <3>6 DEF IsWorld, h, fd
    <3>8. Moves(World, w4, peers)
      <4>1. e.sock = World.gw[k].sock
        BY <3>2 DEF fd
      <4> QED
        BY <2>1, <3>2, <3>7, <4>1, CloseMoves DEF Orderly
    <3> QED
      BY <3>5, <3>8
  <2> QED
    BY <2>2, <2>3, <2>4
<1> HIDE DEF w
<1>3. GatewayRequest(w)
  BY <1>1 DEF w
<1> QED
  BY <1>2, <1>3, GatewayRequestInv

(* With one node the entry found by the number is that node's.             *)
LEMMA EntryOfIs ==
  ASSUME Nodes <= 1, gateway \in [Node -> GatewayEntry], NEW k \in Node, NEW fd,
         gateway[k].sock = fd
  PROVE  EntryOf(fd) = k
<1> DEFINE q == [j \in Node |-> gateway[j].sock]
<1>1. Nodes = 1 /\ k = 1 /\ Node = 1 .. 1
  <2>1. Nodes \in Nat /\ k \in 1 .. Nodes
    BY Bounds DEF Node
  <2> QED
    BY <2>1 DEF Node
<1>2. q \in Seq(Range(q)) /\ Len(q) = 1 /\ q[1] = fd
  <2>1. q \in [1 .. 1 -> Range(q)]
    BY <1>1 DEF Range
  <2>2. q[1] = fd
    BY <1>1
  <2> HIDE DEF q
  <2>3. q = [i \in 1 .. 1 |-> q[i]] /\ 1 \in Nat
    BY <2>1
  <2>4. q \in Seq(Range(q)) /\ Len(q) = 1
    BY <2>3, FunctionAny
  <2> QED
    BY <2>2, <2>4
<1> HIDE DEF q
<1> DEFINE T == {i \in 1 .. Len(q) : q[i] = fd}
<1>3. EntryOf(fd) = IF T # {} THEN Min(T) ELSE 0
  BY DEF EntryOf, SelectInSeq, q
<1>4. T = {1}
  BY <1>2
<1>5. Min({1}) = 1
  <2>1. {1} \in SUBSET Nat /\ {1} # {}
    OBVIOUS
  <2> QED
    BY <2>1, MinIsLeast
<1> HIDE DEF T
<1> QED
  BY <1>1, <1>3, <1>4, <1>5

(* What a node has sent is taken.                                          *)
TakenFrom(a, k) ==
  /\ SoundWorld(a, peers) /\ a.h = handler /\ a.gw = gateway /\ a.due = due
  /\ \A j \in Node : a.nodes[j] = nodes[j] \/ (j = k /\ a.nodes[j].state = nodes[j].state)

WithoutData(k) == [World EXCEPT !.nodes[k].data = {}]

(* The rest of the state is sound, and the node as it was but for that.    *)
LEMMA NodeConsumed ==
  ASSUME Inv, running = "yes", NEW k \in Node, NEW a, a = WithoutData(k)
  PROVE  TakenFrom(a, k)
<1>1. /\ SoundWorld(World, peers) /\ IsWorld(World) /\ World.h = handler /\ World.gw = gateway
      /\ World.nodes = nodes /\ World.due = due
  BY WorldIs DEF SoundWorld
<1> DEFINE n == [nodes[k] EXCEPT !.data = {}]
           ns == [nodes EXCEPT ![k] = n]
<1>2. nodes \in [Node -> PassiveNode] /\ nodes[k] \in PassiveNode
  BY DEF Inv
<1>3. n \in PassiveNode /\ n.state = nodes[k].state
  BY <1>2 DEF PassiveNode
<1>4. a = [World EXCEPT !.nodes = ns]
  <2>1. a = [World EXCEPT !.nodes = [World.nodes EXCEPT ![k] = [World.nodes[k] EXCEPT !.data = {}]]]
    BY DEF WithoutData
  <2> QED
    BY <1>1, <2>1
<1> HIDE DEF n
<1>5. /\ ns \in [Node -> PassiveNode] /\ ns[k] = n
      /\ \A j \in Node : j # k => ns[j] = nodes[j]
  BY <1>2, <1>3
<1> HIDE DEF ns
<1>6. a = [h |-> World.h, gw |-> World.gw, nodes |-> ns, due |-> World.due, stray |-> World.stray]
  <2>1. IsWorld(World)
    BY <1>1
  <2>2. [World EXCEPT !.nodes = ns] =
          [h |-> World.h, gw |-> World.gw, nodes |-> ns, due |-> World.due, stray |-> World.stray]
    BY <2>1, WorldExcept
  <2> DEFINE l == [World EXCEPT !.nodes = ns]
  <2>3. a = l
    BY <1>4
  <2>4. l = [h |-> World.h, gw |-> World.gw, nodes |-> ns, due |-> World.due, stray |-> World.stray]
    BY <2>2
  <2> HIDE DEF l
  <2> QED
    BY <2>3, <2>4
<1>7. IsWorld(a) /\ a.h = World.h /\ a.gw = World.gw /\ a.nodes = ns /\ a.due = World.due
  BY <1>6 DEF IsWorld
<1>8. SoundWorld(a, peers)
  BY <1>1, <1>5, <1>7 DEF SoundWorld
<1> QED
  BY <1>1, <1>3, <1>5, <1>7, <1>8 DEF TakenFrom

(* A connection is given up: the entry is disconnected.                    *)
LEMMA GivenUpMoves ==
  ASSUME Nodes <= 1, NEW ps, PeersSound(ps), NEW w, SoundWorld(w, ps), NEW k \in Node,
         NEW e \in GatewayEntry, e.status # "CONNECTED", e.sock = w.gw[k].sock,
         NEW v, v = Unregister([w EXCEPT !.gw = [w.gw EXCEPT ![k] = e]], w.gw[k].sock)
  PROVE  Moves(w, v, ps)
<1> DEFINE fd == w.gw[k].sock
           g == [w.gw EXCEPT ![k] = e]
           u == [w EXCEPT !.gw = g]
           h == unregister_connection(w.h, fd)
<1>1. IsWorld(w)
  BY DEF SoundWorld
<1> HIDE DEF fd, g, h
<1>2. u = [h |-> w.h, gw |-> g, nodes |-> w.nodes, due |-> w.due, stray |-> w.stray]
  BY <1>1, WorldExcept
<1>3. v = [u EXCEPT !.h = unregister_connection(u.h, fd)]
  BY DEF Unregister, g, fd
<1> HIDE DEF u
<1>4. IsWorld(u) /\ u.h = w.h
  BY <1>2 DEF IsWorld
<1>5. v = [u EXCEPT !.h = h]
  BY <1>3, <1>4 DEF h
<1>6. v = [h |-> h, gw |-> u.gw, nodes |-> u.nodes, due |-> u.due, stray |-> u.stray]
  BY <1>4, <1>5, WorldExcept
<1>7. /\ IsWorld(v) /\ v.h = unregister_connection(w.h, w.gw[k].sock)
      /\ v.gw = [w.gw EXCEPT ![k] = e] /\ v.nodes = w.nodes /\ v.due = w.due
  BY <1>2, <1>6 DEF IsWorld, h, g, fd
<1> QED
  BY <1>7, CloseMoves

(* A passive node has sent something, or closed the connection.            *)
LEMMA PassiveNodeInv ==
  ASSUME Inv, Orderly, dlt_gateway_process_passive_node_messages
  PROVE  Inv'
<1> DEFINE k == handler.fds[Con.fd] - MaxPeers
           a == [World EXCEPT !.nodes[k].data = {}]
<1>1. /\ index # 0 /\ running = "yes" /\ Con.type = "GATEWAY" /\ k \in Node /\ input' = input
  BY DEF dlt_gateway_process_passive_node_messages, Callback, AtEvent
<1>2. /\ Current \in MaxPeers + 1 .. MaxPeers + Nodes /\ Entry.fd \in Fd /\ Con.fd = Entry.fd
  BY <1>1, EndOfType, AtEntry
<1>3. "gateway" \in scenario
  <2>1. handler.fds[Entry.fd] > MaxPeers
    BY <1>2, Bounds DEF Current
  <2> QED
    BY <1>2, <2>1 DEF Inv, OffMeansOff
<1>4. NodeSocket(k) = Current /\ handler.fds[Con.fd] = NodeSocket(k)
  BY <1>2, Bounds DEF NodeSocket, Current
<1> HIDE DEF k
<1>5. /\ gateway \in [Node -> GatewayEntry] /\ gateway[k].sock = Con.fd /\ gateway[k] \in GatewayEntry
      /\ gateway[k].status = "CONNECTED" /\ handler \in Handler
      /\ PeersSound(peers) /\ SameTypes(peers, peers) /\ Table(handler, peers)
  BY <1>1, <1>2, <1>4 DEF Inv, Attached, SameTypes, Table
<1>6. EntryOf(Con.fd) = k
  BY <1>1, <1>5, EntryOfIs DEF Orderly
<1>7. /\ SoundWorld(World, peers) /\ World.h = handler /\ World.gw = gateway /\ World.nodes = nodes
      /\ World.due = due /\ IsWorld(World)
  BY <1>1, WorldIs DEF SoundWorld
<1>8. /\ SoundWorld(a, peers) /\ a.h = handler /\ a.gw = gateway /\ IsWorld(a)
      /\ \A j \in Node : a.nodes[j] = nodes[j] \/ (j = k /\ a.nodes[j].state = nodes[j].state)
  <2>0. a = WithoutData(k)
    BY DEF WithoutData
  <2> HIDE DEF a
  <2>1. /\ SoundWorld(a, peers) /\ a.h = handler /\ a.gw = gateway
        /\ \A j \in Node : a.nodes[j] = nodes[j] \/ (j = k /\ a.nodes[j].state = nodes[j].state)
    <3>1. TakenFrom(a, k)
      BY <1>1, <2>0, NodeConsumed
    <3> QED
      BY <3>1 DEF TakenFrom
  <2> QED
    BY <2>1 DEF SoundWorld
<1> HIDE DEF a
<1>9. \/ GatewayReturns(ConnectionLost(World, k))
      \/ \E h \in AfterSending(handler) : GatewayReturns([a EXCEPT !.h = h])
      \/ GatewayReturns(WrongEcu(a, k))
  BY <1>6 DEF dlt_gateway_process_passive_node_messages, k, a
<1>10. ASSUME NEW w, GatewayReturns(w), Moves(World, w, peers) \/ Moves(a, w, peers)
       PROVE  Inv'
  <2>1. /\ Becomes(w) /\ peers' = Settled(w.h, peers, backlog) /\ Advance(w.h)
        /\ UNCHANGED <<backlog, running, scenario>>
    BY <1>10 DEF GatewayReturns
  <2>2. input' \subseteq input /\ input \ {Current} \subseteq input'
    BY <1>1
  <2>3. CASE Moves(World, w, peers)
    BY <1>1, <1>3, <1>5, <1>7, <2>1, <2>2, <2>3, GatewayTurn
  <2>4. CASE Moves(a, w, peers)
    BY <1>1, <1>3, <1>4, <1>5, <1>8, <2>1, <2>2, <2>4, GatewayTurn
  <2> QED
    BY <1>10, <2>3, <2>4
<1>11. CASE GatewayReturns(ConnectionLost(World, k))
  <2> DEFINE w == ConnectionLost(World, k)
  <2>1. CASE gateway[k].reconnect_cnt < ReconnectMax
    <3> DEFINE e1 == [gateway[k] EXCEPT !.reconnect_cnt = @ + 1]
               e == [e1 EXCEPT !.timeout_cnt = 0]
               g1 == [gateway EXCEPT ![k] = e1]
               w1 == [World EXCEPT !.gw = g1]
    <3>1. /\ e1 \in GatewayEntry /\ e1.status = "CONNECTED" /\ e1.sock = gateway[k].sock
      BY <1>5 DEF GatewayEntry
    <3>2. w = [w1 EXCEPT !.gw[k].timeout_cnt = 0]
      BY <1>7, <2>1 DEF ConnectionLost
    <3> HIDE DEF e1
    <3>3. /\ e \in GatewayEntry /\ e.status = "CONNECTED" /\ e.sock = gateway[k].sock
      BY <3>1 DEF GatewayEntry
    <3>4. g1[k] = e1 /\ [g1 EXCEPT ![k] = e] = [gateway EXCEPT ![k] = e]
      <4> HIDE DEF e
      <4> QED
        BY <1>1, <1>5
    <3> HIDE DEF g1
    <3>5. w1 = [h |-> World.h, gw |-> g1, nodes |-> World.nodes, due |-> World.due,
                stray |-> World.stray]
      BY <1>7, WorldExcept
    <3> HIDE DEF w1
    <3>6. IsWorld(w1) /\ w1.gw = g1
      BY <3>5 DEF IsWorld
    <3>7. w = [w1 EXCEPT !.gw = [gateway EXCEPT ![k] = e]]
      <4>1. w = [w1 EXCEPT !.gw = [w1.gw EXCEPT ![k] = [w1.gw[k] EXCEPT !.timeout_cnt = 0]]]
        BY <3>2
      <4> HIDE DEF w
      <4> QED
        BY <3>4, <3>6, <4>1
    <3> HIDE DEF w, e
    <3>8. w = [h |-> w1.h, gw |-> [gateway EXCEPT ![k] = e], nodes |-> w1.nodes, due |-> w1.due,
               stray |-> w1.stray]
      BY <3>6, <3>7, WorldExcept
    <3>9. /\ IsWorld(w) /\ w.h = World.h /\ w.gw = [World.gw EXCEPT ![k] = e]
          /\ w.nodes = World.nodes /\ w.due = World.due
      BY <1>7, <3>5, <3>8 DEF IsWorld
    <3>10. Moves(World, w, peers)
      <4>1. World.due \in Ages
        BY <1>7 DEF SoundWorld
      <4> QED
        BY <1>1, <1>5, <1>7, <3>3, <3>9, <4>1, EntryMoves
    <3> QED
      BY <1>10, <1>11, <3>10 DEF w
  <2>2. CASE ~(gateway[k].reconnect_cnt < ReconnectMax)
    <3> DEFINE e == [gateway[k] EXCEPT !.status = "DISCONNECTED"]
    <3>1. e \in GatewayEntry /\ e.status # "CONNECTED" /\ e.sock = gateway[k].sock
      BY <1>5 DEF GatewayEntry
    <3>2. w = Unregister([World EXCEPT !.gw = [World.gw EXCEPT ![k] = e]], World.gw[k].sock)
      <4>1. w = Unregister([World EXCEPT !.gw[k].status = "DISCONNECTED"], Con.fd)
        BY <1>7, <2>2 DEF ConnectionLost
      <4>2. [World EXCEPT !.gw[k].status = "DISCONNECTED"] =
               [World EXCEPT !.gw = [World.gw EXCEPT ![k] =
                                       [World.gw[k] EXCEPT !.status = "DISCONNECTED"]]]
        OBVIOUS
      <4> HIDE DEF w
      <4> QED
        BY <1>5, <1>7, <4>1, <4>2
    <3> HIDE DEF w, e
    <3>3. Moves(World, w, peers)
      BY <1>1, <1>5, <1>7, <3>1, <3>2, GivenUpMoves DEF Orderly
    <3> QED
      BY <1>10, <1>11, <3>3 DEF w
  <2> QED
    BY <2>1, <2>2
<1>12. CASE \E h \in AfterSending(handler) : GatewayReturns([a EXCEPT !.h = h])
  <2>1. PICK h \in AfterSending(handler) : GatewayReturns([a EXCEPT !.h = h])
    BY <1>12
  <2> DEFINE w == [a EXCEPT !.h = h]
  <2>2. w = [h |-> h, gw |-> a.gw, nodes |-> a.nodes, due |-> a.due, stray |-> a.stray]
    BY <1>8, WorldExcept
  <2> HIDE DEF w
  <2>3. IsWorld(w) /\ w.h = h /\ w.gw = a.gw /\ w.nodes = a.nodes /\ w.due = a.due
    BY <2>2 DEF IsWorld
  <2>4. /\ Shrinks(handler, h, peers)
        /\ \A f \in Fd : handler.fds[f] \notin 1 .. Len(peers) => h.fds[f] = handler.fds[f]
    BY <1>5, AfterSendingShrinks
  <2>5. /\ Table(h, peers) /\ Later(handler, h)
        /\ \A f \in Fd : h.fds[f] = handler.fds[f] \/ h.fds[f] = Free
    BY <2>4 DEF Shrinks, Fewer
  <2>6. KeepsNodes(handler, h)
    <3>1. MaxPeers \in Nat /\ Len(peers) \in Nat /\ Len(peers) <= MaxPeers
      BY <1>5, Bounds DEF PeersSound
    <3>2. \A f \in Fd : handler.fds[f] \in 1 .. Len(peers) => handler.fds[f] <= MaxPeers
      BY <3>1
    <3>3. Free \in 0 .. MaxPeers
      BY <3>1 DEF Free
    <3> QED
      BY <2>4, <2>5, <3>2, <3>3 DEF KeepsNodes
  <2>7. Attached(h, w.gw)
    BY <1>8, <2>3, <2>6, AttachedKept DEF SoundWorld
  <2>8. Moves(a, w, peers)
    BY <1>8, <2>3, <2>5, <2>7 DEF Moves, SoundWorld
  <2> QED
    BY <1>10, <2>1, <2>8 DEF w
<1>13. CASE GatewayReturns(WrongEcu(a, k))
  <2> DEFINE w == WrongEcu(a, k)
             e1 == [gateway[k] EXCEPT !.status = "DISCONNECTED"]
             e == [e1 EXCEPT !.trigger = "DISABLED"]
             g1 == [gateway EXCEPT ![k] = e1]
             w1 == [a EXCEPT !.gw = g1]
             w2 == [w1 EXCEPT !.gw[k].trigger = "DISABLED"]
  <2>1. e1 \in GatewayEntry /\ e1.status = "DISCONNECTED" /\ e1.sock = gateway[k].sock
    BY <1>5 DEF GatewayEntry
  <2>2. w = Unregister(w2, Con.fd)
    BY <1>8 DEF WrongEcu
  <2> HIDE DEF e1
  <2>3. e \in GatewayEntry /\ e.status # "CONNECTED" /\ e.sock = gateway[k].sock
    BY <2>1 DEF GatewayEntry
  <2>4. g1[k] = e1 /\ [g1 EXCEPT ![k] = e] = [gateway EXCEPT ![k] = e]
    <3> HIDE DEF e
    <3> QED
      BY <1>1, <1>5
  <2> HIDE DEF g1
  <2>5. w1 = [h |-> a.h, gw |-> g1, nodes |-> a.nodes, due |-> a.due, stray |-> a.stray]
    BY <1>8, WorldExcept
  <2>6. w2 = [w1 EXCEPT !.gw = [w1.gw EXCEPT ![k] = [w1.gw[k] EXCEPT !.trigger = "DISABLED"]]]
    OBVIOUS
  <2>7. w2 = [w1 EXCEPT !.gw = [gateway EXCEPT ![k] = e]]
    <3>1. w1.gw = g1
      BY <2>5
    <3> HIDE DEF w1, w2
    <3> QED
      BY <2>4, <2>6, <3>1
  <2>8. w2 = [a EXCEPT !.gw = [gateway EXCEPT ![k] = e]]
    <3> HIDE DEF w2, e
    <3> QED
      BY <2>7
  <2> HIDE DEF w, w2, e, w1
  <2>9. w = Unregister([a EXCEPT !.gw = [a.gw EXCEPT ![k] = e]], a.gw[k].sock)
    BY <1>5, <1>8, <2>2, <2>8
  <2>10. Moves(a, w, peers)
    BY <1>1, <1>5, <1>8, <2>3, <2>9, GivenUpMoves DEF Orderly
  <2> QED
    BY <1>10, <1>13, <2>10 DEF w
<1> QED
  BY <1>9, <1>11, <1>12, <1>13

-----------------------------------------------------------------------------
(***************************************************************************)
(* The start.                                                              *)
(***************************************************************************)

(* Nothing but these ends is open, and the numbers from n to m are free.   *)
Started(h, n, m, S) ==
  /\ Table(h, <<>>)
  /\ \A f \in Fd : h.fds[f] \in S \cup {Free, LogFile}
  /\ \A f \in Fd : n <= f /\ f <= m => h.fds[f] = Free

(* Nobody else is there yet.                                               *)
LEMMA NoPeers ==
  PeersSound(<<>>) /\ Len(<<>>) = 0
<1>1. <<>> \in Seq(Peer) /\ Len(<<>>) = 0
  OBVIOUS
<1> QED
  BY <1>1, Bounds DEF PeersSound

(* While one of the numbers is free the lowest that is free is not above.  *)
LEMMA LowestIsLow ==
  ASSUME NEW h, NEW n \in Fd, h.fds[n] = Free
  PROVE  HasFree(h) /\ Lowest(h) \in Fd /\ h.fds[Lowest(h)] = Free /\ Lowest(h) <= n
<1> DEFINE T == {f \in Fd : h.fds[f] = Free}
<1>1. T \in SUBSET Nat /\ n \in T
  BY Bounds
<1>2. Min(T) \in T /\ Min(T) <= n
  BY <1>1, MinIsLeast
<1> QED
  BY <1>1, <1>2 DEF Lowest, HasFree

(* An end of the daemon's own is opened.                                   *)
LEMMA OpenStarted ==
  ASSUME NEW h, NEW n \in Int, NEW m \in Int, NEW S, Started(h, n, m, S),
         3 <= n, n <= m, m <= MaxFd,
         NEW end \in GatewayTimer .. Fifo, end \notin S,
         NEW type \in ConnectionType, Fits(type, end, <<>>),
         NEW g, g = Open(h, end, type)
  PROVE  Started(g, n + 1, m, S \cup {end})
<1> DEFINE fd == Lowest(h)
<1>1. /\ Table(h, <<>>) /\ \A f \in Fd : h.fds[f] \in S \cup {Free, LogFile}
      /\ \A f \in Fd : n <= f /\ f <= m => h.fds[f] = Free
  BY DEF Started
<1>2. n \in Fd
  BY Bounds DEF Fd, DLT_FD_MINIMUM
<1>3. fd \in Fd /\ h.fds[fd] = Free /\ fd <= n
  BY <1>1, <1>2, LowestIsLow
<1>4. g = connection_create([h EXCEPT !.fds[fd] = end], fd, type)
  BY DEF Open
<1> HIDE DEF fd
<1>5. g = Created(h, fd, end, type)
  BY <1>1, <1>3, <1>4, NoPeers, CreateIs
<1>6. end \in Ends(<<>>) /\ end # Free /\ end # LogFile
  BY DEF Ends, Free, LogFile, GatewayTimer, Fifo
<1>7. \A f \in Fd : h.fds[f] # end
  BY <1>1, <1>6
<1>8. /\ Table(g, <<>>) /\ g.fds[fd] = end
      /\ \A f \in Fd : f # fd => g.fds[f] = h.fds[f]
  BY <1>1, <1>3, <1>5, <1>6, <1>7, NoPeers, CreateTable
<1>9. \A f \in Fd : n + 1 <= f => f # fd /\ n <= f
  BY <1>2, <1>3, Bounds
<1>10. \A f \in Fd : g.fds[f] \in S \cup {end} \cup {Free, LogFile}
  BY <1>1, <1>8
<1>11. \A f \in Fd : n + 1 <= f /\ f <= m => g.fds[f] = Free
  BY <1>1, <1>8, <1>9
<1> QED
  BY <1>8, <1>10, <1>11 DEF Started

(* The tables before anything is opened.                                   *)
LEMMA EmptyStarted ==
  ASSUME NEW sc, NEW m \in Int, m = IF "files" \in sc THEN MaxFd - 1 ELSE MaxFd
  PROVE  Started(dlt_daemon_prepare_event_handling(sc), 3, m, {})
<1> DEFINE fs == [f \in Fd |-> IF "files" \in sc /\ f = MaxFd THEN LogFile ELSE Free]
           h == dlt_daemon_prepare_event_handling(sc)
<1>1. h = [connections |-> <<>>, pfd |-> <<>>, client_connections |-> 0, fds |-> fs]
  BY DEF dlt_daemon_prepare_event_handling
<1>2. fs \in [Fd -> Int] /\ \A f \in Fd : fs[f] \in {Free, LogFile}
  BY DEF Free, LogFile
<1>3. \A f \in Fd : f <= m => fs[f] = Free
  BY Bounds
<1> HIDE DEF fs, h
<1>4. <<>> \in Seq(Connection) /\ <<>> \in Seq(PollEntry) /\ DOMAIN <<>> = {}
  OBVIOUS
<1>5. h.connections = <<>> /\ h.pfd = <<>> /\ h.fds = fs
  BY <1>1
<1>6. h \in Handler
  BY <1>1, <1>2, <1>4 DEF Handler
<1>7. \A f \in Fd : ~IsOpen(h, f)
  BY <1>2, <1>5 DEF IsOpen
<1>8. DOMAIN h.connections = {} /\ DOMAIN h.pfd = {}
  BY <1>4, <1>5
<1>9. Table(h, <<>>)
  BY <1>6, <1>7, <1>8 DEF Table, Parallel, Distinct, Fitting, Covered, Single
<1> QED
  BY <1>2, <1>3, <1>5, <1>9 DEF Started, h

(* The number of descriptors that a serial line and a log file take.       *)
LEMMA TakenIs ==
  ASSUME NEW sc
  PROVE  Cardinality(sc \cap {"serial", "files"}) =
           (IF "serial" \in sc THEN 1 ELSE 0) + (IF "files" \in sc THEN 1 ELSE 0)
<1>1. Cardinality({}) = 0
  BY FS_EmptySet
<1>2. \A x : IsFiniteSet({x}) /\ Cardinality({x}) = 1
  BY FS_Singleton
<1>3. Cardinality({"serial", "files"}) = 2
  <2> DEFINE T == {"serial"}
  <2>1. {"serial", "files"} = T \cup {"files"} /\ "files" \notin T
    OBVIOUS
  <2>2. IsFiniteSet(T) /\ Cardinality(T) = 1
    BY <1>2
  <2> HIDE DEF T
  <2>3. Cardinality(T \cup {"files"}) = Cardinality(T) + 1
    BY <2>1, <2>2, FS_AddElement
  <2> QED
    BY <2>1, <2>2, <2>3
<1>4. CASE "serial" \in sc /\ "files" \in sc
  <2>1. sc \cap {"serial", "files"} = {"serial", "files"}
    BY <1>4
  <2> QED
    BY <1>3, <1>4, <2>1
<1>5. CASE "serial" \in sc /\ "files" \notin sc
  <2>1. sc \cap {"serial", "files"} = {"serial"}
    BY <1>5
  <2> QED
    BY <1>2, <1>5, <2>1
<1>6. CASE "serial" \notin sc /\ "files" \in sc
  <2>1. sc \cap {"serial", "files"} = {"files"}
    BY <1>6
  <2> QED
    BY <1>2, <1>6, <2>1
<1>7. CASE "serial" \notin sc /\ "files" \notin sc
  <2>1. sc \cap {"serial", "files"} = {}
    BY <1>7
  <2> QED
    BY <1>1, <1>7, <2>1
<1> QED
  BY <1>4, <1>5, <1>6, <1>7

(* Where the numbers end that are free, and how many the daemon takes.     *)
LastFree(sc) == IF "files" \in sc THEN MaxFd - 1 ELSE MaxFd
FirstFree(sc) == IF "serial" \in sc THEN 8 ELSE 7

(* The daemon's own descriptors fit, and the gateway's behind them.        *)
LEMMA RoomIs ==
  ASSUME NEW sc \in Scenarios
  PROVE  /\ LastFree(sc) \in Int /\ FirstFree(sc) \in Int /\ LastFree(sc) <= MaxFd
         /\ FirstFree(sc) \in {7, 8} /\ FirstFree(sc) <= LastFree(sc) + 1
         /\ "gateway" \in sc => FirstFree(sc) + Nodes <= LastFree(sc)
<1>1. MaxFd \in Nat /\ Nodes \in Nat
  BY Bounds
<1>2. DLT_FD_MINIMUM + 4 + Cardinality(sc \cap {"serial", "files"})
          + (IF "gateway" \in sc THEN 1 + Nodes ELSE 0) <= MaxFd + 1
  BY GatewayAssumption
<1> QED
  BY <1>1, <1>2, TakenIs DEF LastFree, FirstFree, DLT_FD_MINIMUM

(* What the daemon has opened when the gateway starts.                     *)
OwnEnds == {Fifo, AppSocket, ClientSocket, ControlSocket, SerialLine, OneSecondTimer}

(* Each of its ends is opened at the lowest number that is free.           *)
LEMMA HandlerStarted ==
  ASSUME NEW sc \in Scenarios
  PROVE  \E S \in SUBSET OwnEnds : Started(StartedHandler(sc), FirstFree(sc), LastFree(sc), S)
<1> DEFINE m == LastFree(sc)
           empty == dlt_daemon_prepare_event_handling(sc)
           app == IF "sockets" \in sc THEN dlt_daemon_init_app_socket(empty)
                  ELSE dlt_daemon_init_fifo(empty)
           client == dlt_daemon_socket_open(app)
           control == dlt_daemon_initialize_control_socket(client)
           local == dlt_daemon_init_serial(control, sc)
           A == IF "sockets" \in sc THEN {AppSocket} ELSE {Fifo}
           C == A \cup {ClientSocket}
           D == C \cup {ControlSocket}
           E == IF "serial" \in sc THEN D \cup {SerialLine} ELSE D
           l == IF "serial" \in sc THEN 7 ELSE 6
<1>0. StartedHandler(sc) = Open(local, OneSecondTimer, "ONE_S_TIMER")
  BY DEF StartedHandler, dlt_daemon_local_connection_init, create_timer_fd
<1>1. m \in Int /\ m <= MaxFd /\ l + 1 = FirstFree(sc) /\ l <= m /\ l \in {6, 7}
  BY RoomIs DEF FirstFree
<1>2. /\ Fifo \in GatewayTimer .. Fifo /\ AppSocket \in GatewayTimer .. Fifo
      /\ ClientSocket \in GatewayTimer .. Fifo /\ ControlSocket \in GatewayTimer .. Fifo
      /\ SerialLine \in GatewayTimer .. Fifo /\ OneSecondTimer \in GatewayTimer .. Fifo
  BY DEF GatewayTimer, Fifo, AppSocket, ClientSocket, ControlSocket, SerialLine, OneSecondTimer
<1>3. /\ "APP_MSG" \in ConnectionType /\ "APP_CONNECT" \in ConnectionType
      /\ "CLIENT_CONNECT" \in ConnectionType /\ "CONTROL_CONNECT" \in ConnectionType
      /\ "CLIENT_MSG_SERIAL" \in ConnectionType /\ "ONE_S_TIMER" \in ConnectionType
  BY DEF ConnectionType
<1>4. /\ Fits("APP_MSG", Fifo, <<>>) /\ Fits("APP_CONNECT", AppSocket, <<>>)
      /\ Fits("CLIENT_CONNECT", ClientSocket, <<>>) /\ Fits("CONTROL_CONNECT", ControlSocket, <<>>)
      /\ Fits("CLIENT_MSG_SERIAL", SerialLine, <<>>)
      /\ Fits("ONE_S_TIMER", OneSecondTimer, <<>>)
  BY Bounds, NoPeers DEF Fits, GatewayTimer, Fifo, AppSocket, ClientSocket, ControlSocket,
                         SerialLine, OneSecondTimer
<1>5. /\ ClientSocket \notin A /\ ControlSocket \notin C /\ SerialLine \notin D
      /\ OneSecondTimer \notin E /\ E \cup {OneSecondTimer} \in SUBSET OwnEnds
  BY DEF OwnEnds, Fifo, AppSocket, ClientSocket, ControlSocket, SerialLine, OneSecondTimer
<1>6. Started(empty, 3, m, {})
  BY <1>1, EmptyStarted DEF LastFree
<1>7. Started(app, 4, m, A)
  <2>1. CASE "sockets" \in sc
    <3>1. app = Open(empty, AppSocket, "APP_CONNECT")
      BY <2>1 DEF dlt_daemon_init_app_socket
    <3> HIDE DEF m, empty, app
    <3>2. Started(app, 3 + 1, m, {} \cup {AppSocket})
      BY <1>1, <1>2, <1>3, <1>4, <1>6, <3>1, OpenStarted
    <3>3. A = {} \cup {AppSocket}
      BY <2>1
    <3> QED
      BY <3>2, <3>3
  <2>2. CASE "sockets" \notin sc
    <3>1. app = Open(empty, Fifo, "APP_MSG")
      BY <2>2 DEF dlt_daemon_init_fifo
    <3> HIDE DEF m, empty, app
    <3>2. Started(app, 3 + 1, m, {} \cup {Fifo})
      BY <1>1, <1>2, <1>3, <1>4, <1>6, <3>1, OpenStarted
    <3>3. A = {} \cup {Fifo}
      BY <2>2
    <3> QED
      BY <3>2, <3>3
  <2> QED
    BY <2>1, <2>2
<1>8. client = Open(app, ClientSocket, "CLIENT_CONNECT")
  BY DEF dlt_daemon_socket_open
<1>9. control = Open(client, ControlSocket, "CONTROL_CONNECT")
  BY DEF dlt_daemon_initialize_control_socket
<1>10. local = IF "serial" \in sc THEN Open(control, SerialLine, "CLIENT_MSG_SERIAL") ELSE control
  BY DEF dlt_daemon_init_serial
<1> HIDE DEF m, empty, app, client, control, local, A
<1>11. Started(client, 4 + 1, m, C)
  BY <1>1, <1>2, <1>3, <1>4, <1>5, <1>7, <1>8, OpenStarted
<1> HIDE DEF C
<1>12. Started(control, 5 + 1, m, D)
  BY <1>1, <1>2, <1>3, <1>4, <1>5, <1>9, <1>11, OpenStarted
<1> HIDE DEF D
<1>13. Started(local, l, m, E)
  <2>1. CASE "serial" \in sc
    <3>1. local = Open(control, SerialLine, "CLIENT_MSG_SERIAL")
      BY <1>10, <2>1
    <3>2. Started(local, 6 + 1, m, D \cup {SerialLine})
      BY <1>1, <1>2, <1>3, <1>4, <1>5, <1>12, <2>1, <3>1, OpenStarted
    <3> QED
      BY <2>1, <3>2
  <2>2. CASE "serial" \notin sc
    BY <1>10, <1>12, <2>2
  <2> QED
    BY <2>1, <2>2
<1> HIDE DEF E, l
<1> DEFINE h == StartedHandler(sc)
<1>14. h = Open(local, OneSecondTimer, "ONE_S_TIMER")
  BY <1>0
<1> HIDE DEF h
<1>15. Started(h, l + 1, m, E \cup {OneSecondTimer})
  BY <1>1, <1>2, <1>3, <1>4, <1>5, <1>13, <1>14, OpenStarted
<1> QED
  BY <1>1, <1>5, <1>15 DEF h, m

(* What the gateway starts from: nothing is connected.                     *)
LEMMA FirstWorld ==
  ASSUME scenario \in Scenarios, NEW ns \in [Node -> PassiveNode],
         NEW S \in SUBSET OwnEnds, NEW n, NEW m,
         Started(StartedHandler(scenario), n, m, S),
         NEW gw, gw = [k \in Node |-> InitialEntry(scenario)],
         NEW du, du = [k \in Node |-> [i \in DOMAIN CtrlMsgs |-> Never]],
         NEW w, w = [h |-> StartedHandler(scenario), nodes |-> ns, stray |-> {}, gw |-> gw,
                     due |-> du]
  PROVE  SoundWorld(w, <<>>)
<1> DEFINE h == StartedHandler(scenario)
<1>1. IsWorld(w) /\ w.h = h /\ w.gw = gw /\ w.nodes = ns /\ w.due = du
  BY DEF IsWorld
<1>2. \A k \in Node : gw[k] \in GatewayEntry /\ gw[k].status # "CONNECTED" /\ gw[k].sock = -1
  BY DEF InitialEntry, GatewayEntry
<1>3. gw \in [Node -> GatewayEntry]
  BY <1>2
<1>4. du \in Ages
  BY DEF Ages, Never
<1>5. Table(h, <<>>) /\ \A f \in Fd : h.fds[f] \in S \cup {Free, LogFile}
  BY DEF Started
<1>6. \A f \in Fd, k \in Node : h.fds[f] # NodeSocket(k)
  <2>1. \A x \in OwnEnds \cup {Free, LogFile} : x \in Int /\ x <= 0
    BY DEF OwnEnds, Fifo, AppSocket, ClientSocket, ControlSocket, SerialLine, OneSecondTimer,
           Free, LogFile
  <2>2. \A f \in Fd : h.fds[f] \in OwnEnds \cup {Free, LogFile}
    BY <1>5
  <2>3. \A k \in Node : NodeSocket(k) \in Int /\ ~(NodeSocket(k) <= 0)
    BY Bounds
  <2> HIDE DEF h
  <2> QED
    BY <2>1, <2>2, <2>3
<1>7. -1 \notin Fd
  BY Bounds
<1>8. Attached(h, gw)
  BY <1>2, <1>6, <1>7 DEF Attached
<1> QED
  BY <1>1, <1>3, <1>4, <1>5, <1>8 DEF SoundWorld

(* The gateway has connected to the nodes it could, and its timer starts.  *)
LEMMA GatewayStarted ==
  ASSUME Nodes <= 1, scenario \in Scenarios, "gateway" \in scenario, NEW w, SoundWorld(w, <<>>),
         NEW S \in SUBSET OwnEnds,
         Started(w.h, FirstFree(scenario), LastFree(scenario), S),
         NEW v, v = dlt_gateway_establish_connections(w),
         NEW g, g = create_timer_fd(v.h, GatewayTimer, "GATEWAY_TIMER")
  PROVE  Table(g, <<>>) /\ Attached(g, v.gw)
<1> DEFINE n == FirstFree(scenario)
           m == LastFree(scenario)
           T == S \cup {x \in Int : x > MaxPeers}
<1>1. m \in Int /\ n \in {7, 8} /\ m <= MaxFd /\ n + Nodes <= m /\ MaxFd \in Nat
  BY RoomIs, Bounds
<1> HIDE DEF n, m
<1>2. /\ \A f \in Fd : w.h.fds[f] \in S \cup {Free, LogFile}
      /\ \A f \in Fd : n <= f /\ f <= m => w.h.fds[f] = Free
  BY DEF Started, n, m
<1>3. Moves(w, v, <<>>) /\ OneTaken(w.h, v.h) /\ (Nodes = 0 => v = w)
  BY NoPeers, EstablishMoves
<1>4. SoundWorld(v, <<>>)
  BY <1>3 DEF Moves
<1>5. Table(v.h, <<>>) /\ Attached(v.h, v.gw) /\ v.h.fds \in [Fd -> Int]
  BY <1>4 DEF SoundWorld, Table, Handler
<1>6. \A f \in Fd : v.h.fds[f] \in T \cup {Free, LogFile}
  BY <1>2, <1>3, <1>5 DEF Moves
<1>7. \A f \in Fd : n + Nodes <= f /\ f <= m => v.h.fds[f] = Free
  <2>1. CASE Nodes = 0
    BY <1>1, <1>2, <1>3, <2>1
  <2>2. CASE Nodes = 1
    <3>1. n \in Fd /\ n <= m
      BY <1>1, <2>2 DEF Fd, DLT_FD_MINIMUM
    <3>2. w.h.fds[n] = Free
      BY <1>1, <1>2, <3>1
    <3>3. Lowest(w.h) \in Fd /\ Lowest(w.h) <= n
      BY <3>1, <3>2, LowestIsLow
    <3>4. \A f \in Fd : n + 1 <= f => f # Lowest(w.h) /\ n <= f
      BY <3>1, <3>3, Bounds
    <3> QED
      BY <1>2, <1>3, <2>2, <3>4 DEF OneTaken
  <2>3. Nodes \in {0, 1}
    BY Bounds
  <2> QED
    BY <2>1, <2>2, <2>3
<1>8. /\ GatewayTimer \in GatewayTimer .. Fifo /\ GatewayTimer \notin T
      /\ "GATEWAY_TIMER" \in ConnectionType /\ Fits("GATEWAY_TIMER", GatewayTimer, <<>>)
  <2>1. GatewayTimer \in GatewayTimer .. Fifo /\ GatewayTimer \notin OwnEnds
    BY DEF OwnEnds, GatewayTimer, Fifo, AppSocket, ClientSocket, ControlSocket, SerialLine,
           OneSecondTimer
  <2>2. GatewayTimer < 0 /\ ~(GatewayTimer > MaxPeers)
    BY Bounds DEF GatewayTimer
  <2>3. Fits("GATEWAY_TIMER", GatewayTimer, <<>>)
    BY Bounds, NoPeers DEF Fits, GatewayTimer, Fifo, AppSocket, ClientSocket, ControlSocket,
                           SerialLine, OneSecondTimer
  <2> QED
    BY <2>1, <2>2, <2>3 DEF ConnectionType
<1>9. n + Nodes \in Int /\ 3 <= n + Nodes
  BY <1>1, Bounds
<1> HIDE DEF T
<1>10. Started(v.h, n + Nodes, m, T)
  BY <1>5, <1>6, <1>7 DEF Started
<1>11. g = Open(v.h, GatewayTimer, "GATEWAY_TIMER")
  BY DEF create_timer_fd
<1>12. Table(g, <<>>)
  <2>1. Started(g, n + Nodes + 1, m, T \cup {GatewayTimer})
    BY <1>1, <1>8, <1>9, <1>10, <1>11, OpenStarted
  <2> QED
    BY <2>1 DEF Started
<1>13. \A f \in Fd : g.fds[f] = v.h.fds[f] \/ (g.fds[f] = GatewayTimer /\ v.h.fds[f] = Free)
  <2> DEFINE fd == Lowest(v.h)
  <2>1. fd \in Fd /\ v.h.fds[fd] = Free
    <3>1. n + Nodes \in Fd
      BY <1>1, <1>9, Bounds DEF Fd, DLT_FD_MINIMUM
    <3>2. v.h.fds[n + Nodes] = Free
      BY <1>1, <1>7, <1>9, <3>1
    <3> QED
      BY <3>1, <3>2, LowestIsLow
  <2>2. g = connection_create([v.h EXCEPT !.fds[fd] = GatewayTimer], fd, "GATEWAY_TIMER")
    BY <1>11 DEF Open
  <2> HIDE DEF fd
  <2>3. g = Created(v.h, fd, GatewayTimer, "GATEWAY_TIMER")
    BY <1>5, <2>1, <2>2, NoPeers, CreateIs
  <2>4. g.fds = [v.h.fds EXCEPT ![fd] = GatewayTimer]
    BY <2>3 DEF Created
  <2> QED
    BY <1>5, <2>1, <2>4
<1>14. Attached(g, v.gw)
  <2>1. /\ GatewayTimer # ClientSocket
        /\ \A k \in Node : NodeSocket(k) # Free /\ NodeSocket(k) # GatewayTimer
    BY Bounds DEF Free, GatewayTimer, ClientSocket
  <2> QED
    BY <1>5, <1>13, <2>1 DEF Attached
<1> QED
  BY <1>12, <1>14

(* The invariant holds at the start.                                       *)
LEMMA InitInv ==
  ASSUME Init, Orderly
  PROVE  Inv
<1>1. PICK up \in [Node -> IF "gateway" \in scenario THEN BOOLEAN ELSE {FALSE}] :
          LET ns == [k \in Node |-> [up |-> up[k], state |-> "closed", data |-> {}]]
              w == dlt_gateway_init(scenario, ns)
          IN  IF "gateway" \in scenario
              THEN /\ handler = create_timer_fd(w.h, GatewayTimer, "GATEWAY_TIMER")
                   /\ gateway = w.gw /\ nodes = w.nodes /\ due = w.due /\ stray = w.stray
              ELSE /\ handler = StartedHandler(scenario)
                   /\ gateway = [k \in Node |-> InitialEntry(scenario)] /\ nodes = ns
                   /\ due = w.due /\ stray = {}
  BY DEF Init
<1>2. /\ scenario \in Scenarios /\ peers = <<>> /\ backlog = <<>> /\ input = {}
      /\ index = 0 /\ running = "yes"
  BY DEF Init
<1> DEFINE ns == [k \in Node |-> [up |-> up[k], state |-> "closed", data |-> {}]]
           gw == [k \in Node |-> InitialEntry(scenario)]
           du == [k \in Node |-> [i \in DOMAIN CtrlMsgs |-> Never]]
           w == [h |-> StartedHandler(scenario), nodes |-> ns, stray |-> {}, gw |-> gw,
                 due |-> du]
           v == dlt_gateway_establish_connections(w)
<1>3. v = dlt_gateway_init(scenario, ns)
  BY DEF dlt_gateway_init
<1>4. ns \in [Node -> PassiveNode] /\ \A k \in Node : ns[k].state = "closed"
  <2>1. \A k \in Node : up[k] \in BOOLEAN
    BY <1>1
  <2> QED
    BY <2>1 DEF PassiveNode
<1>5. PICK S \in SUBSET OwnEnds :
         Started(StartedHandler(scenario), FirstFree(scenario), LastFree(scenario), S)
  BY <1>2, HandlerStarted
<1> HIDE DEF ns
<1>6. w.h = StartedHandler(scenario) /\ w.nodes = ns /\ w.gw = gw
  OBVIOUS
<1> HIDE DEF gw, du
<1>7. SoundWorld(w, <<>>)
  BY <1>2, <1>4, <1>5, FirstWorld DEF gw, du
<1> HIDE DEF w
<1>8. Moves(w, v, <<>>)
  BY <1>7, NoPeers, EstablishMoves DEF Orderly
<1>9. SoundWorld(v, <<>>) /\ \A k \in Node : v.nodes[k] = ns[k] \/ v.nodes[k].state = "open"
  BY <1>6, <1>8 DEF Moves
<1>10. PeersSound(peers) /\ Waiting(handler, peers, backlog)
  <2>1. <<>> \in Seq(1 .. Len(<<>>)) /\ Len(<<>>) = 0
    OBVIOUS
  <2> QED
    BY <1>2, <2>1, NoPeers DEF Waiting
<1>11. /\ Table(handler, peers) /\ Attached(handler, gateway) /\ gateway \in [Node -> GatewayEntry]
       /\ nodes \in [Node -> PassiveNode] /\ due \in Ages /\ OffMeansOff
  <2>1. CASE "gateway" \in scenario
    <3>1. /\ handler = create_timer_fd(v.h, GatewayTimer, "GATEWAY_TIMER")
          /\ gateway = v.gw /\ nodes = v.nodes /\ due = v.due
      BY <1>1, <1>3, <2>1 DEF ns
    <3>2. Table(handler, <<>>) /\ Attached(handler, v.gw)
      BY <1>2, <1>5, <1>6, <1>7, <2>1, <3>1, GatewayStarted DEF Orderly
    <3>3. OffMeansOff
      BY <1>4, <1>9, <2>1, <3>1 DEF OffMeansOff
    <3> QED
      BY <1>2, <1>9, <3>1, <3>2, <3>3 DEF SoundWorld
  <2>2. CASE "gateway" \notin scenario
    <3>1. /\ handler = w.h /\ gateway = w.gw /\ nodes = ns /\ due = v.due
      BY <1>1, <1>3, <1>6, <2>2 DEF ns, gw
    <3>2. Table(handler, <<>>) /\ Attached(handler, gateway) /\ gateway \in [Node -> GatewayEntry]
      BY <1>7, <3>1 DEF SoundWorld
    <3>3. OffMeansOff
      <4>1. \A f \in Fd : handler.fds[f] \in S \cup {Free, LogFile}
        BY <1>5, <1>6, <3>1 DEF Started
      <4>2. \A x \in OwnEnds \cup {Free, LogFile} : x # GatewayTimer /\ ~(x > MaxPeers)
        BY Bounds DEF OwnEnds, Fifo, AppSocket, ClientSocket, ControlSocket, SerialLine,
                      OneSecondTimer, Free, LogFile, GatewayTimer
      <4> QED
        BY <1>4, <3>1, <4>1, <4>2 DEF OffMeansOff
    <3> QED
      BY <1>2, <1>4, <1>9, <3>1, <3>2, <3>3 DEF SoundWorld
  <2> QED
    BY <2>1, <2>2
<1>12. index \in 0 .. Len(handler.pfd)
  <2>1. Len(handler.pfd) \in Nat
    BY <1>11 DEF Table, Handler
  <2> QED
    BY <1>2, <2>1
<1> QED
  BY <1>2, <1>10, <1>11, <1>12 DEF Inv

-----------------------------------------------------------------------------
(***************************************************************************)
(* The specification.                                                      *)
(***************************************************************************)

(* Every step keeps the invariant.                                         *)
LEMMA StepInv ==
  ASSUME Inv, Orderly, [Next]_vars
  PROVE  Inv'
<1>1. CASE UNCHANGED vars
  <2>1. /\ handler' = handler /\ peers' = peers /\ nodes' = nodes /\ backlog' = backlog
        /\ input' = input /\ index' = index /\ running' = running /\ scenario' = scenario
        /\ gateway' = gateway /\ due' = due
    BY <1>1 DEF vars, evVars, gwVars
  <2> QED
    BY <2>1 DEF Inv, OffMeansOff, Ages, CtrlMsgs
<1>2. CASE DaemonStep
  <2>1. CASE Poll /\ UNCHANGED gwVars
    BY <2>1, PollInv
  <2>2. CASE Dispatch /\ UNCHANGED gwVars
    BY <2>2, DispatchInv
  <2>3. CASE dlt_gateway_process_passive_node_messages
    BY <2>3, PassiveNodeInv
  <2>4. CASE dlt_gateway_process_gateway_timer
    BY <2>4, GatewayTimerInv
  <2>5. CASE ForwardRequest
    BY <2>5, ForwardInv
  <2>6. CASE OnDemandRequest
    BY <2>6, OnDemandInv
  <2> QED
    BY <1>2, <2>1, <2>2, <2>3, <2>4, <2>5, <2>6 DEF DaemonStep
<1>3. CASE Environment /\ running = "yes" /\ UNCHANGED gwVars
  BY <1>3, EnvironmentInv
<1>4. ASSUME NEW k \in Node,
             \/ NodeStarts(k)
             \/ \E how \in {"closed", "reset"} : NodeStops(k, how)
             \/ \E ecu \in Node \cup {0} : NodeSends(k, ecu)
      PROVE  Inv'
  BY <1>4, NodeInv
<1>5. CASE Stopped
  BY <1>1, <1>5 DEF Stopped
<1> QED
  BY <1>1, <1>2, <1>3, <1>4, <1>5 DEF Next

(* What the loop is at is as poll reported it.                             *)
LEMMA InvIsFresh ==
  ASSUME Inv
  PROVE  EventsAreFresh
<1> SUFFICES ASSUME AtEvent
             PROVE  handler.fds[Con.fd] = Entry.of /\ Entry.revents \subseteq EndEvents(Entry.of)
  BY DEF EventsAreFresh
<1>1. index # 0 /\ Entry.revents # {}
  BY DEF AtEvent
<1>2. /\ Entry.fd \in Fd /\ Con.fd = Entry.fd /\ Current \in Ends(peers)
      /\ Entry.revents \subseteq Ready(Current, peers, nodes, backlog, input)
  BY <1>1, AtEntry
<1>3. Current = Entry.of
  <2>1. handler.pfd \in Seq(PollEntry) /\ index \in 0 .. Len(handler.pfd)
    BY DEF Inv, Table, Handler
  <2>2. index \in DOMAIN handler.pfd /\ index >= index
    BY <1>1, <2>1
  <2> QED
    BY <1>1, <2>2 DEF Inv, FreshFrom, Entry, Current
<1>4. EndEvents(Current) = Ready(Current, peers, nodes, backlog, input)
  BY <1>2, EndEventsIs
<1> QED
  BY <1>2, <1>3, <1>4 DEF Current

(* The conjuncts of ConnectionsSound that relate the tables, the           *)
(* descriptors and the gateway's entries.                                  *)
TablesSound == TablesMatch /\ NothingLeaks /\ ConnectedIsPolled

(* They follow from the invariant.                                         *)
LEMMA InvIsTable ==
  ASSUME Inv
  PROVE  TablesSound
<1>1. /\ handler \in Handler /\ Parallel(handler) /\ Distinct(handler) /\ Covered(handler)
      /\ Fitting(handler, peers)
  BY DEF Inv, Table
<1>2. TablesMatch
  <2> DEFINE p == [i \in DOMAIN handler.pfd |-> handler.pfd[i].fd]
             c == [i \in DOMAIN handler.connections |-> handler.connections[i].fd]
  <2>1. p = c
    BY <1>1 DEF Parallel
  <2>2. IsInjective(c)
    BY <1>1 DEF IsInjective, Distinct
  <2> QED
    BY <2>1, <2>2 DEF TablesMatch
<1>3. \A f \in Fd : IsOpen(handler, f) => find_connection(handler, f) # 0
  BY <1>1, FindIs DEF Covered, IsConnected
<1>4. NothingLeaks
  BY <1>3 DEF NothingLeaks, IsOpen
<1>5. ConnectedIsPolled
  <2> SUFFICES ASSUME running = "yes", NEW k \in Node
               PROVE  gateway[k].status = "CONNECTED" <=> Polls(k)
    BY DEF ConnectedIsPolled
  <2>1. NodeSocket(k) \notin {Free, LogFile}
    BY Bounds DEF Free, LogFile
  <2> QED
    BY <1>3, <2>1 DEF Inv, Attached, Polls, IsOpen
<1> QED
  BY <1>2, <1>4, <1>5 DEF TablesSound

(* The event loop calls a callback for the very thing that was ready when  *)
(* poll was called, and that is ready still (dlt_daemon_handle_event walks *)
(* over a table its callbacks change), whatever the other ends do and      *)
(* whatever the gateway opens and closes.  With more than one node, or one *)
(* that resets connections, it does not hold: the gateway registers closed *)
(* numbers again, and a number handed out anew inherits the event.         *)
THEOREM EventsAreFreshTheorem ==
  ASSUME Orderly
  PROVE  Spec => []EventsAreFresh
<1>1. Init => Inv
  BY InitInv
<1>2. Inv /\ [Next]_vars => Inv'
  BY StepInv
<1>3. Inv => EventsAreFresh
  BY InvIsFresh
<1> QED
  BY <1>1, <1>2, <1>3, PTL DEF Spec

(* The poll table and the list of connections hold the same descriptors,   *)
(* each once; every open descriptor has a connection; the gateway takes a  *)
(* node for connected exactly while its socket is polled                   *)
(* (dlt_event_handler_register_connection, dlt_daemon_close_socket,        *)
(* dlt_gateway_add_to_event_loop).                                         *)
THEOREM TablesSoundTheorem ==
  ASSUME Orderly
  PROVE  Spec => []TablesSound
<1>1. Init => Inv
  BY InitInv
<1>2. Inv /\ [Next]_vars => Inv'
  BY StepInv
<1>3. Inv => TablesSound
  BY InvIsTable
<1> QED
  BY <1>1, <1>2, <1>3, PTL DEF Spec
=============================================================================
