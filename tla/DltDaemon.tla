------------------------------ MODULE DltDaemon ------------------------------
(***************************************************************************)
(* How the daemon forwards messages to its TCP clients: the logging state  *)
(* machine (INIT, BUFFER, BUFFER_FULL, SEND_BUFFER, SEND_DIRECT), the      *)
(* client list, the client ring buffer, the overflow counter and the       *)
(* connection state announced to the applications                          *)
(* (src/daemon/dlt-daemon.c, dlt_daemon_client.c, dlt_daemon_event_handler.c).*)
(*                                                                         *)
(* The daemon is one thread: an event handler runs to completion before    *)
(* the next.  But the handlers are re-entrant: a failing send closes the   *)
(* client's socket, and closing it sends messages again, through the same  *)
(* functions and over the same client list.  The calls in progress are     *)
(* therefore modelled as an explicit call stack, one step of the innermost *)
(* function at a time, and every send to a client may fail.                *)
(*                                                                         *)
(* The client sockets are next to each other in pfd, as when applications  *)
(* write to the FIFO: closing one moves the next client into its place.    *)
(* The ring buffer is the bounded queue of DltFifo with messages of one    *)
(* size; mode is DLT_USER_MODE_EXTERNAL and no serial line is configured.  *)
(***************************************************************************)
EXTENDS Naturals, Sequences, FiniteSets, SequencesExt

CONSTANTS
    Client,         \* client connections; each connects at most once
    App,            \* the connection of an application
    RingSize,       \* messages the client ring buffer holds
    MaxConnected,   \* bound: clients connected at the same time
    MaxLog,         \* bound: log messages from applications
    MaxUserOverflow,\* bound: messages applications report as lost
    MaxSixty,       \* bound: expirations of the sixty second timer
    MaxAppGone,     \* bound: application connections that close
    sendECUSoftwareVersion, sendTimezone   \* configuration flags

ASSUME ClientAssumption == IsFiniteSet(Client) /\ App \notin Client
ASSUME BoundAssumption ==
    /\ RingSize \in Nat \ {0} /\ MaxConnected \in Nat
    /\ MaxLog \in Nat /\ MaxUserOverflow \in Nat /\ MaxSixty \in Nat
    /\ MaxAppGone \in Nat
ASSUME FlagAssumption == sendECUSoftwareVersion \in BOOLEAN /\ sendTimezone \in BOOLEAN

VARIABLES
    clients,          \* pEvent.pfd restricted to client sockets, in its order
    state,            \* daemon->state
    connectionState,  \* daemon->connectionState
    logState,         \* the log state last sent to the applications
    client_ringbuffer,
    overflow_counter,
    timingpackets,    \* daemon->timingpackets, set by a control message
    stack,            \* the calls in progress, innermost last
    ret,              \* the value the last call returned
    connected,        \* history: the clients that ever connected
    logs,             \* history: number of log messages received
    sixty,            \* history: expirations of the sixty second timer
    appsGone,         \* history: application connections that closed
    delivered,        \* history: the log messages sent to each client
    discarded,        \* history: the log messages dropped and counted
    userLost,         \* history: losses reported by applications
    reported          \* history: losses that were put into an overflow message

daemon == <<state, connectionState, logState, client_ringbuffer, overflow_counter, timingpackets>>
hist == <<connected, logs, sixty, appsGone, delivered, discarded, userLost, reported>>
vars == <<clients, state, connectionState, logState, client_ringbuffer,
          overflow_counter, timingpackets, stack, ret, connected, logs, sixty, appsGone, delivered,
          discarded, userLost, reported>>

(* Return codes: DLT_DAEMON_ERROR_...                                      *)
ERROR_OK == 0
ERROR_UNKNOWN == 1
ERROR_BUFFER_FULL == 2
ERROR_SEND_FAILED == 3

(* Messages: from an application, the daemon's own log and control         *)
(* messages, and overflow reports.                                         *)
LogMsg(n) == [kind |-> "log", id |-> n]
DaemonMsg == [kind |-> "daemon", id |-> 0]
OverflowMsg(n) == [kind |-> "overflow", id |-> n]

Message == [kind : {"log", "daemon", "overflow"}, id : Nat]

-----------------------------------------------------------------------------
(* Frames of the functions that can be in progress.                        *)
SendFrame(force, m) ==
    [fn |-> "client_send", pc |-> "start", force |-> force, msg |-> m, i |-> 1, sent |-> FALSE]
CloseFrame(c) == [fn |-> "close_socket", pc |-> "start", sock |-> c]
RingFrame == [fn |-> "send_ringbuffer", pc |-> "start"]
ConnectFrame(k) == [fn |-> "client_connect", pc |-> "announce", left |-> k]
OneSecondFrame == [fn |-> "one_s_timer", pc |-> "start"]
SixtySecondFrame(k) == [fn |-> "sixty_s_timer", pc |-> "announce", left |-> k]
OverflowFrame(n) == [fn |-> "user_overflow", pc |-> "sent", n |-> n]

top == stack[Len(stack)]
At(fn, pc) == stack # <<>> /\ top.fn = fn /\ top.pc = pc
Idle == stack = <<>>

Goto(f) == stack' = [stack EXCEPT ![Len(stack)] = f]
GotoPc(pc) == Goto([top EXCEPT !.pc = pc])
Call(pc, g) == stack' = Append([stack EXCEPT ![Len(stack)].pc = pc], g)
Return(r) == stack' = Front(stack) /\ ret' = r

Init ==
    /\ clients = <<>>
    /\ state = "BUFFER"       \* main leaves INIT before the event loop
    /\ connectionState = 0 /\ logState = 0
    /\ client_ringbuffer = <<DaemonMsg>>   \* "Daemon launched. Starting to output traces..."
    /\ overflow_counter = 0 /\ timingpackets = FALSE
    /\ stack = <<>> /\ ret = ERROR_OK
    /\ connected = {} /\ logs = 0 /\ sixty = 0 /\ appsGone = 0
    /\ delivered = [c \in Client |-> <<>>]
    /\ discarded = {} /\ userLost = 0 /\ reported = 0

-----------------------------------------------------------------------------
(* dlt_daemon_client_send, with dlt_daemon_client_send_all_multiple inlined *)

SendStart ==
    /\ At("client_send", "start")
    /\ GotoPc(IF top.force \/ state = "SEND_DIRECT" THEN "loop" ELSE "store")
    /\ UNCHANGED <<clients, daemon, ret, hist>>

(* dlt_connection_send_multiple reaches the client                         *)
SendToClient ==
    /\ At("client_send", "loop")
    /\ top.i <= Len(clients)
    /\ Goto([top EXCEPT !.i = @ + 1, !.sent = TRUE])
    /\ delivered' = IF top.msg.kind = "log"
                    THEN [delivered EXCEPT ![clients[top.i]] = Append(@, top.msg.id)]
                    ELSE delivered
    /\ UNCHANGED <<clients, daemon, ret, connected, logs, sixty, appsGone, discarded, userLost, reported>>

(* It fails: the socket is closed, which takes it out of the list the loop *)
(* is running over, and the loop goes on at the next index.                *)
SendFails ==
    /\ At("client_send", "loop")
    /\ top.i <= Len(clients)
    /\ stack' = Append([stack EXCEPT ![Len(stack)].i = @ + 1], CloseFrame(clients[top.i]))
    /\ UNCHANGED <<clients, daemon, ret, hist>>

SendLoopDone ==
    /\ At("client_send", "loop")
    /\ top.i > Len(clients)
    /\ IF top.force /\ ~top.sent
       THEN Return(ERROR_SEND_FAILED) /\ UNCHANGED reported
       ELSE /\ GotoPc("store")
            /\ reported' = IF top.msg.kind = "overflow" /\ top.sent /\ ~top.force
                           THEN reported + top.msg.id ELSE reported
            /\ UNCHANGED ret
    /\ UNCHANGED <<clients, daemon, connected, logs, sixty, appsGone, delivered, discarded, userLost>>

Buffering == state \in {"BUFFER", "SEND_BUFFER", "BUFFER_FULL"}
RingFull == Len(client_ringbuffer) >= RingSize

(* dlt_buffer_push3 takes the message                                      *)
SendStore ==
    /\ At("client_send", "store")
    /\ ~top.force /\ Buffering
    /\ state # "BUFFER_FULL" /\ ~RingFull
    /\ client_ringbuffer' = Append(client_ringbuffer, top.msg)
    /\ reported' = IF top.msg.kind = "overflow" THEN reported + top.msg.id ELSE reported
    /\ Return(ERROR_OK)
    /\ UNCHANGED <<clients, state, connectionState, logState, overflow_counter, timingpackets,
                   connected, logs, sixty, appsGone, delivered, discarded, userLost>>

(* it does not, or is not even tried: the message is dropped and counted   *)
SendDiscard ==
    /\ At("client_send", "store")
    /\ ~top.force /\ Buffering
    /\ state = "BUFFER_FULL" \/ RingFull
    /\ state' = "BUFFER_FULL"
    /\ overflow_counter' = overflow_counter + 1
    /\ discarded' = IF top.msg.kind = "log" THEN discarded \cup {top.msg.id} ELSE discarded
    /\ Return(ERROR_BUFFER_FULL)
    /\ UNCHANGED <<clients, connectionState, logState, client_ringbuffer, timingpackets,
                   connected, logs, sixty, appsGone, delivered, userLost, reported>>

(* the else branch: losses are reported once a client is there             *)
SendReport ==
    /\ At("client_send", "store")
    /\ top.force \/ ~Buffering
    /\ IF overflow_counter > 0 /\ clients # <<>>
       THEN /\ Call("reported", SendFrame(FALSE, OverflowMsg(overflow_counter)))
            /\ UNCHANGED ret
       ELSE Return(ERROR_OK)
    /\ UNCHANGED <<clients, daemon, hist>>

(* mutant: the counter is reset although the report was refused            *)
SendReported_AlwaysReset ==
    /\ At("client_send", "reported")
    /\ overflow_counter' = 0
    /\ Return(ERROR_OK)
    /\ UNCHANGED <<clients, state, connectionState, logState, client_ringbuffer, timingpackets, hist>>

SendReported ==
    /\ At("client_send", "reported")
    /\ overflow_counter' = IF ret = ERROR_OK THEN 0 ELSE overflow_counter
    /\ Return(ERROR_OK)
    /\ UNCHANGED <<clients, state, connectionState, logState, client_ringbuffer, timingpackets, hist>>

dlt_daemon_client_send ==
    \/ SendStart \/ SendToClient \/ SendFails \/ SendLoopDone
    \/ SendStore \/ SendDiscard \/ SendReport \/ SendReported

-----------------------------------------------------------------------------
(* mutant: the daemon stays in its state when the last client goes         *)
CloseUnregister_KeepsState ==
    /\ At("close_socket", "start")
    /\ clients' = RemoveFirst(clients, top.sock)
    /\ IF clients' = <<>>
       THEN connectionState' = 0 /\ logState' = 0
       ELSE UNCHANGED <<connectionState, logState>>
    /\ Call("info", SendFrame(FALSE, DaemonMsg))
    /\ UNCHANGED <<state, client_ringbuffer, overflow_counter, timingpackets, ret, hist>>

(* dlt_daemon_close_socket: dlt_event_handler_unregister_connection, the   *)
(* new log state when the last client went, then two messages to the rest. *)
CloseUnregister ==
    /\ At("close_socket", "start")
    /\ clients' = RemoveFirst(clients, top.sock)
    /\ IF clients' = <<>>
       THEN connectionState' = 0 /\ logState' = 0 /\ state' = "BUFFER"
       ELSE UNCHANGED <<connectionState, logState, state>>
    /\ Call("info", SendFrame(FALSE, DaemonMsg))
    /\ UNCHANGED <<client_ringbuffer, overflow_counter, timingpackets, ret, hist>>

CloseInfoSent ==
    /\ At("close_socket", "info")
    /\ Call("log", SendFrame(FALSE, DaemonMsg))
    /\ UNCHANGED <<clients, daemon, ret, hist>>

CloseReturn ==
    /\ At("close_socket", "log")
    /\ Return(ERROR_OK)
    /\ UNCHANGED <<clients, daemon, hist>>

dlt_daemon_close_socket == CloseUnregister \/ CloseInfoSent \/ CloseReturn

-----------------------------------------------------------------------------
(* dlt_daemon_send_ringbuffer_to_client                                    *)
RingStart ==
    /\ At("send_ringbuffer", "start")
    /\ IF client_ringbuffer = <<>>
       THEN state' = "SEND_DIRECT" /\ Return(ERROR_OK)
       ELSE /\ Call("sent", SendFrame(TRUE, Head(client_ringbuffer)))
            /\ UNCHANGED <<state, ret>>
    /\ UNCHANGED <<clients, connectionState, logState, client_ringbuffer, overflow_counter, timingpackets, hist>>

(* mutant: the next message is copied before the one sent is removed       *)
RingSent_CopiesTooEarly ==
    /\ At("send_ringbuffer", "sent")
    /\ IF ret # ERROR_OK
       THEN Return(ret) /\ UNCHANGED <<state, client_ringbuffer>>
       ELSE /\ client_ringbuffer' = Tail(client_ringbuffer)
            /\ IF Len(client_ringbuffer) = 1
               THEN state' = "SEND_DIRECT" /\ Return(ERROR_OK)
               ELSE /\ state' = "SEND_BUFFER"
                    /\ stack' = Append(stack, SendFrame(TRUE, client_ringbuffer[1]))
                    /\ UNCHANGED ret
    /\ UNCHANGED <<clients, connectionState, logState, overflow_counter, timingpackets, hist>>

(* dlt_buffer_remove, and the next message unless the ring is empty        *)
RingSent ==
    /\ At("send_ringbuffer", "sent")
    /\ IF ret # ERROR_OK
       THEN Return(ret) /\ UNCHANGED <<state, client_ringbuffer>>
       ELSE /\ client_ringbuffer' = Tail(client_ringbuffer)
            /\ IF Len(client_ringbuffer) = 1
               THEN state' = "SEND_DIRECT" /\ Return(ERROR_OK)
               ELSE /\ state' = "SEND_BUFFER"
                    /\ stack' = Append(stack, SendFrame(TRUE, client_ringbuffer[2]))
                    /\ UNCHANGED ret
    /\ UNCHANGED <<clients, connectionState, logState, overflow_counter, timingpackets, hist>>

dlt_daemon_send_ringbuffer_to_client == RingStart \/ RingSent

-----------------------------------------------------------------------------
(* dlt_daemon_process_client_connect: dlt_connection_create, then the      *)
(* software version and the time zone if configured, and a log message, to *)
(* all clients                                                             *)
VersionMessages == (IF sendECUSoftwareVersion THEN 1 ELSE 0)
TimezoneMessages == (IF sendTimezone THEN 1 ELSE 0)

dlt_daemon_process_client_connect(c) ==
    /\ Idle
    /\ c \notin connected /\ Len(clients) < MaxConnected
    /\ connected' = connected \cup {c}
    /\ clients' = Append(clients, c)
    /\ stack' = <<ConnectFrame(1 + VersionMessages * (1 + TimezoneMessages))>>
    /\ UNCHANGED <<daemon, ret, logs, sixty, appsGone, delivered, discarded, userLost, reported>>

Announce(fn) ==
    /\ At(fn, "announce")
    /\ top.left > 0
    /\ stack' = Append([stack EXCEPT ![Len(stack)].left = @ - 1], SendFrame(FALSE, DaemonMsg))
    /\ UNCHANGED <<clients, daemon, ret, hist>>

(* mutant: the ring is flushed for the second client only                  *)
ConnectAnnounced_SecondClient ==
    /\ At("client_connect", "announce")
    /\ top.left = 0
    /\ IF Len(clients) = 2
       THEN state' = "SEND_BUFFER" /\ Call("flushed", RingFrame) /\ UNCHANGED ret
       ELSE UNCHANGED state /\ Return(ERROR_OK)
    /\ UNCHANGED <<clients, connectionState, logState, client_ringbuffer, overflow_counter, timingpackets, hist>>

ConnectAnnounced ==
    /\ At("client_connect", "announce")
    /\ top.left = 0
    /\ IF Len(clients) = 1
       THEN state' = "SEND_BUFFER" /\ Call("flushed", RingFrame) /\ UNCHANGED ret
       ELSE UNCHANGED state /\ Return(ERROR_OK)
    /\ UNCHANGED <<clients, connectionState, logState, client_ringbuffer, overflow_counter, timingpackets, hist>>

(* only a return value of -1 (ERROR_UNKNOWN) is taken as a failure         *)
ConnectFlushed ==
    /\ At("client_connect", "flushed")
    /\ IF ret = ERROR_UNKNOWN
       THEN Return(ERROR_UNKNOWN) /\ UNCHANGED <<connectionState, logState>>
       ELSE connectionState' = 1 /\ logState' = 1 /\ Return(ERROR_OK)
    /\ UNCHANGED <<clients, state, client_ringbuffer, overflow_counter, timingpackets, hist>>

(* dlt_daemon_process_client_messages receives nothing (the client went),  *)
(* or dlt_daemon_handle_event sees an error on its socket                  *)
ClientGone(i) ==
    /\ Idle
    /\ stack' = <<CloseFrame(clients[i])>>
    /\ UNCHANGED <<clients, daemon, ret, hist>>

(* dlt_daemon_process_user_messages receives nothing: an application went. *)
(* Its socket is closed in the same way, so with no client connected the   *)
(* daemon goes back to BUFFER and tries the ring buffer again.             *)
AppGone ==
    /\ Idle
    /\ appsGone < MaxAppGone
    /\ appsGone' = appsGone + 1
    /\ stack' = <<CloseFrame(App)>>
    /\ UNCHANGED <<clients, daemon, ret, connected, logs, sixty, delivered, discarded, userLost, reported>>

(* dlt_daemon_process_user_message_log: a log message from an application  *)
dlt_daemon_process_user_message_log ==
    /\ Idle
    /\ logs < MaxLog
    /\ logs' = logs + 1
    /\ stack' = <<SendFrame(FALSE, LogMsg(logs + 1))>>
    /\ UNCHANGED <<clients, daemon, ret, connected, sixty, appsGone, delivered, discarded, userLost, reported>>

(* dlt_daemon_process_user_message_overflow: an application lost n messages *)
dlt_daemon_process_user_message_overflow(n) ==
    /\ Idle
    /\ userLost + n <= MaxUserOverflow
    /\ userLost' = userLost + n
    /\ stack' = <<OverflowFrame(n), SendFrame(FALSE, OverflowMsg(n))>>
    /\ UNCHANGED <<clients, daemon, ret, connected, logs, sixty, appsGone, delivered, discarded, reported>>

UserOverflowSent ==
    /\ At("user_overflow", "sent")
    /\ overflow_counter' = IF ret # ERROR_OK THEN overflow_counter + top.n ELSE overflow_counter
    /\ Return(ERROR_OK)
    /\ UNCHANGED <<clients, state, connectionState, logState, client_ringbuffer, timingpackets, hist>>

(* dlt_daemon_process_one_s_timer: retry what is left in the ring buffer,  *)
(* then a time message; in other states it does nothing                    *)
MustFlush == state \in {"SEND_BUFFER", "BUFFER_FULL"}
MustSendTime == timingpackets /\ state = "SEND_DIRECT"

dlt_daemon_process_one_s_timer ==
    /\ Idle
    /\ MustFlush \/ MustSendTime
    /\ stack' = IF MustFlush THEN <<OneSecondFrame, RingFrame>> ELSE <<OneSecondFrame>>
    /\ UNCHANGED <<clients, daemon, ret, hist>>

OneSecondTime ==
    /\ At("one_s_timer", "start")
    /\ IF MustSendTime
       THEN Call("time", SendFrame(FALSE, DaemonMsg)) /\ UNCHANGED ret
       ELSE Return(ERROR_OK)
    /\ UNCHANGED <<clients, daemon, hist>>

TimerReturn ==
    /\ At("one_s_timer", "time") \/ (At("sixty_s_timer", "announce") /\ top.left = 0)
    /\ Return(ERROR_OK)
    /\ UNCHANGED <<clients, daemon, hist>>

(* dlt_daemon_process_sixty_s_timer                                        *)
dlt_daemon_process_sixty_s_timer ==
    /\ Idle
    /\ sixty < MaxSixty
    /\ VersionMessages + TimezoneMessages > 0
    /\ sixty' = sixty + 1
    /\ stack' = <<SixtySecondFrame(VersionMessages + TimezoneMessages)>>
    /\ UNCHANGED <<clients, daemon, ret, connected, logs, appsGone, delivered, discarded, userLost, reported>>

(* dlt_daemon_control_set_timing_packets, requested by a client            *)
dlt_daemon_control_set_timing_packets(on) ==
    /\ Idle /\ clients # <<>>
    /\ timingpackets' = on
    /\ UNCHANGED <<clients, state, connectionState, logState, client_ringbuffer,
                   overflow_counter, stack, ret, hist>>

-----------------------------------------------------------------------------
(* the running handler                                                     *)
Step ==
    \/ dlt_daemon_client_send
    \/ dlt_daemon_close_socket
    \/ dlt_daemon_send_ringbuffer_to_client
    \/ ConnectAnnounced
    \/ ConnectFlushed
    \/ UserOverflowSent
    \/ OneSecondTime
    \/ TimerReturn
    \/ Announce("client_connect")
    \/ Announce("sixty_s_timer")

Next ==
    \/ Step
    \/ \E c \in Client : dlt_daemon_process_client_connect(c)
    \/ \E i \in 1 .. Len(clients) : ClientGone(i)
    \/ AppGone
    \/ dlt_daemon_process_user_message_log
    \/ \E n \in 1 .. MaxUserOverflow : dlt_daemon_process_user_message_overflow(n)
    \/ dlt_daemon_process_one_s_timer
    \/ dlt_daemon_process_sixty_s_timer
    \/ \E on \in BOOLEAN : dlt_daemon_control_set_timing_packets(on)

(* A running handler goes on, and the one second timer keeps expiring.     *)
Fairness == WF_vars(Step) /\ WF_vars(dlt_daemon_process_one_s_timer)

Spec == Init /\ [][Next]_vars /\ Fairness

-----------------------------------------------------------------------------
Frame ==
    [fn : {"client_send"}, pc : {"start", "loop", "store", "reported"}, force : BOOLEAN,
     msg : Message, i : Nat \ {0}, sent : BOOLEAN]
    \cup [fn : {"close_socket"}, pc : {"start", "info", "log"}, sock : Client \cup {App}]
    \cup [fn : {"send_ringbuffer"}, pc : {"start", "sent"}]
    \cup [fn : {"client_connect"}, pc : {"announce", "flushed"}, left : 0 .. 3]
    \cup [fn : {"sixty_s_timer"}, pc : {"announce"}, left : 0 .. 2]
    \cup [fn : {"one_s_timer"}, pc : {"start", "time"}]
    \cup [fn : {"user_overflow"}, pc : {"sent"}, n : Nat]

TypeOK ==
    /\ clients \in Seq(Client) /\ IsInjective(clients)
    /\ state \in {"INIT", "BUFFER", "BUFFER_FULL", "SEND_BUFFER", "SEND_DIRECT"}
    /\ connectionState \in {0, 1} /\ logState \in {0, 1}
    /\ client_ringbuffer \in Seq(Message) /\ Len(client_ringbuffer) <= RingSize
    /\ overflow_counter \in Nat /\ timingpackets \in BOOLEAN
    /\ stack \in Seq(Frame)
    /\ ret \in {ERROR_OK, ERROR_UNKNOWN, ERROR_BUFFER_FULL, ERROR_SEND_FAILED}
    /\ connected \in SUBSET Client /\ logs \in Nat /\ sixty \in Nat /\ appsGone \in Nat
    /\ delivered \in [Client -> Seq(Nat)]
    /\ discarded \in SUBSET Nat /\ userLost \in Nat /\ reported \in Nat

(* What the comments on DltDaemonState say, whenever no handler runs: with *)
(* no client the daemon buffers; with one it never waits for a client in   *)
(* state BUFFER; and SEND_DIRECT means a client is there and the ring      *)
(* buffer is empty, so a direct message cannot overtake a buffered one.    *)
StateMatchesClients ==
    Idle => /\ clients = <<>> => state \in {"BUFFER", "BUFFER_FULL"}
            /\ clients # <<>> => state # "BUFFER"
            /\ state = "SEND_DIRECT" => client_ringbuffer = <<>>

(* A connected client is announced to the applications: with a client      *)
(* connected and no handler running, the applications were last told 1.    *)
ClientIsAnnounced == Idle /\ clients # <<>> => connectionState = 1 /\ logState = 1

(* The comment on connectionState (dlt_daemon_common.h): 0 = no client     *)
(* connected, 1 = client connected.                                        *)
ConnectionStateIsTrue == Idle => (connectionState = 1 <=> clients # <<>>)

(* A client sees the log messages in the order the applications sent them, *)
(* and none twice, whatever was buffered, sent again or dropped between.   *)
DeliveredInOrder ==
    \A c \in Client : \A i, j \in 1 .. Len(delivered[c]) :
        i < j => delivered[c][i] < delivered[c][j]

RingLogs == {client_ringbuffer[i].id : i \in
                {k \in 1 .. Len(client_ringbuffer) : client_ringbuffer[k].kind = "log"}}
DeliveredLogs == UNION {ToSet(delivered[c]) : c \in Client}

(* A log message reaches a client, waits in the ring buffer, or was        *)
(* dropped and counted: "Message was not sent to client, so store it in    *)
(* client ringbuffer" (dlt_daemon_client.c).                               *)
NothingLost == Idle => 1 .. logs \subseteq RingLogs \cup DeliveredLogs \cup discarded

(* "If sent to at least one client, then do not store in ring buffer"      *)
(* (dlt_daemon_client_send_all_multiple).                                  *)
SentIsNotStored == Idle => RingLogs \cap DeliveredLogs = {}

(* Losses are never under-reported: what was dropped, by the daemon or by  *)
(* an application, is in overflow_counter or was put into an overflow      *)
(* message.                                                                *)
LossesAreCounted ==
    Idle => Cardinality(discarded) + userLost <= overflow_counter + reported

(* dlt_daemon_client_send returns: the calls nest at most once per client  *)
(* that fails, plus an overflow report.                                    *)
CallsAreBounded == Len(stack) <= 4 + 2 * Cardinality(Client) + 2

(* The daemon's state, its list of clients, what the applications were     *)
(* told and the calls in progress stay in step, however calls nest that    *)
(* close the client they are sending to.                                   *)
Consistent == TypeOK /\ StateMatchesClients /\ ClientIsAnnounced /\ CallsAreBounded

(* While a client stays connected, the ring buffer is eventually flushed.  *)
RingIsFlushed == (clients # <<>> /\ client_ringbuffer # <<>>)
                    ~> (clients = <<>> \/ client_ringbuffer = <<>>)
==============================================================================
