--------------------------- MODULE DltDaemonProofs ---------------------------
(***************************************************************************)
(* For any clients, any size of the ring buffer and any order of events:   *)
(* a client gets the log messages in order and none twice, and whenever no *)
(* handler runs the daemon's state, its clients and what the applications  *)
(* were told fit together; and, with room for two messages in the ring     *)
(* buffer, calls nest no deeper than the clients allow.                    *)
(*                                                                         *)
(* The argument: which function calls which bounds what can be in          *)
(* progress at the same time.  Only one call on the stack carries a log    *)
(* message.  Outside of a flush, messages go to clients directly only      *)
(* while the ring buffer is empty; in a flush, what is sent is its front.  *)
(***************************************************************************)
EXTENDS DltDaemon, SequenceLemmas

(* A call of dlt_daemon_client_send that is neither a flush nor for a log  *)
(* message.                                                                *)
Plain(f) == f.fn = "client_send" /\ ~f.force /\ f.msg.kind # "log"

(* Which function is called from where.                                    *)
Calls(f, g) ==
    \/ f.fn = "client_send" /\ f.pc = "loop" /\ g.fn = "close_socket"
    \/ f.fn = "client_send" /\ f.pc = "reported" /\ Plain(g)
    \/ f.fn = "close_socket" /\ f.pc # "start" /\ Plain(g)
    \/ f.fn = "send_ringbuffer" /\ f.pc = "sent" /\ g.fn = "client_send" /\ g.force
    \/ f.fn = "client_connect" /\ f.pc = "announce" /\ Plain(g)
    \/ f.fn = "client_connect" /\ f.pc = "flushed" /\ g.fn = "send_ringbuffer"
    \/ f.fn = "one_s_timer" /\ f.pc = "start" /\ g.fn = "send_ringbuffer"
    \/ f.fn = "one_s_timer" /\ f.pc = "time" /\ Plain(g)
    \/ f.fn = "sixty_s_timer" /\ Plain(g)
    \/ f.fn = "user_overflow" /\ Plain(g)

Shape ==
    /\ stack # <<>> => stack[1].fn # "send_ringbuffer"
                       /\ (stack[1].fn = "client_send" => ~stack[1].force)
    /\ \A k \in 1 .. Len(stack) - 1 : Calls(stack[k], stack[k + 1])

(* A message to all clients is under way: not one from the ring buffer, or *)
(* one of these.                                                           *)
Direct(f) == f.fn = "client_send" /\ ~f.force /\ f.pc = "loop"
Forced(f) == f.fn = "client_send" /\ f.force
Connecting == stack # <<>> /\ stack[1].fn = "client_connect"

(* The daemon sends directly only with a client and nothing to flush; a    *)
(* full ring is full; and while a client is new, it is the only one.       *)
StateSound ==
    /\ state # "INIT" /\ ret # ERROR_UNKNOWN
    /\ state \in {"SEND_DIRECT", "SEND_BUFFER"} => clients # <<>>
    /\ state = "SEND_DIRECT" => client_ringbuffer = <<>>
    /\ state = "BUFFER_FULL" => Len(client_ringbuffer) = RingSize

ConnectSound ==
    /\ state = "BUFFER" /\ clients # <<>> =>
          Connecting /\ stack[1].pc = "announce" /\ Len(clients) = 1
    /\ clients # <<>> /\ ~(connectionState = 1 /\ logState = 1) =>
          Connecting /\ (stack[1].pc = "announce" => Len(clients) = 1)

(* What a call in progress relies on: a flush sends the front of the ring  *)
(* buffer, and when it was sent, someone it was sent to is still there.    *)
FrameFits(f, st, cl, ring) ==
    /\ Direct(f) => st = "SEND_DIRECT" \/ cl = <<>>
    /\ f.fn = "send_ringbuffer" =>
          /\ st # "SEND_DIRECT"
          /\ f.pc = "start" => cl # <<>> \/ ring # <<>>
          /\ f.pc = "sent" => ring # <<>>
    /\ Forced(f) =>
          /\ f.msg = ring[1]
          /\ f.pc = "start" => ~f.sent /\ f.i = 1
          /\ f.pc \in {"store", "reported"} => f.sent
          /\ f.sent => cl # <<>> /\ f.i > 1
FrameSound(f) == FrameFits(f, state, clients, client_ringbuffer)
FramesSound == \A k \in 1 .. Len(stack) : FrameSound(stack[k])

(* The innermost call: the client to close is there, and not the only one  *)
(* the front of the ring buffer was sent to.                               *)
TopSound ==
    stack # <<>> =>
        /\ top.fn = "send_ringbuffer" /\ top.pc = "sent" /\ ret = ERROR_OK => clients # <<>>
        /\ Len(stack) > 1 /\ top.fn = "close_socket" /\ top.pc = "start" =>
              /\ top.sock \in Range(clients)
              /\ Forced(stack[Len(stack) - 1]) /\ stack[Len(stack) - 1].sent =>
                    \E c \in Range(clients) : c # top.sock

(* The front of the ring buffer was sent to client c, and is not removed.  *)
SentFront(c) ==
    \/ \E k \in 1 .. Len(stack) :
          /\ Forced(stack[k]) /\ stack[k].sent
          /\ stack[k].pc = "loop" => \E m \in 1 .. Len(clients) : m < stack[k].i /\ clients[m] = c
    \/ /\ stack # <<>> /\ top.fn = "send_ringbuffer" /\ top.pc = "sent" /\ ret = ERROR_OK

(* All log messages sent to client c are before message n.                 *)
Before(c, n) == \A i \in 1 .. Len(delivered[c]) : delivered[c][i] < n

(* Who is connected has been before, and got nothing earlier; and nobody   *)
(* got a message that was not logged yet.                                  *)
PastSound ==
    /\ Range(clients) \subseteq connected /\ \A c \in Client \ connected : delivered[c] = <<>>
    /\ \A c \in Client : Before(c, logs + 1)

(* The ring buffer is in order, and after what its clients got.            *)
RingOrdered ==
    \A j \in 1 .. Len(client_ringbuffer) : client_ringbuffer[j].kind = "log" =>
        /\ client_ringbuffer[j].id <= logs
        /\ \A l \in 1 .. Len(client_ringbuffer) : l < j /\ client_ringbuffer[l].kind = "log" =>
              client_ringbuffer[l].id < client_ringbuffer[j].id
        /\ \A c \in Range(clients) :
              \/ Before(c, client_ringbuffer[j].id)
              \/ j = 1 /\ SentFront(c) /\ Before(c, client_ringbuffer[j].id + 1)

OrderSound == DeliveredInOrder /\ PastSound /\ RingOrdered

(* The call that carries a new log message.                                *)
NewSound ==
    stack # <<>> /\ stack[1].fn = "client_send" /\ stack[1].msg.kind = "log" =>
        /\ stack[1].msg.id = logs
        /\ \A j \in 1 .. Len(client_ringbuffer) :
              client_ringbuffer[j].kind = "log" => client_ringbuffer[j].id < logs
        /\ stack[1].pc = "start" => \A c \in Range(clients) : Before(c, logs)
        /\ stack[1].pc = "loop" =>
              \A m \in 1 .. Len(clients) : m >= stack[1].i => Before(clients[m], logs)
        /\ stack[1].pc = "store" /\ state # "SEND_DIRECT" => \A c \in Range(clients) : Before(c, logs)

IInv ==
    /\ TypeOK /\ Shape /\ StateSound /\ ConnectSound /\ FramesSound /\ TopSound
    /\ OrderSound /\ NewSound

(* How deep calls are nested depends on the clients that are left.         *)
Depth(f) ==
    CASE f.fn = "client_send" -> 4
      [] f.fn = "close_socket" /\ f.pc = "start" -> 5
      [] OTHER -> 3

(* With room for two messages the losses are always reported before the    *)
(* ring buffer is empty, and no report calls for another.                  *)
DepthSound ==
    /\ client_ringbuffer = <<>> => overflow_counter = 0
    /\ stack # <<>> /\ top.fn = "send_ringbuffer" /\ top.pc = "sent" /\ ret = ERROR_OK
          /\ Len(client_ringbuffer) = 1 => overflow_counter = 0
    /\ stack # <<>> /\ ret # ERROR_OK
          /\ (top.fn = "user_overflow" \/ (top.fn = "client_send" /\ top.pc = "reported"))
          => state = "BUFFER_FULL"
    /\ \A k \in 1 .. Len(stack) :
          stack[k].fn = "client_send" /\ stack[k].pc = "reported" => stack[k].force
    /\ \A k \in 1 .. Len(stack) :
          k + 2 * Len(clients) <= 2 * Cardinality(Client) + Depth(stack[k])

DInv == IInv /\ DepthSound

-----------------------------------------------------------------------------
(* What a step does to the calls in progress: the innermost one goes on,   *)
(* calls another function, or returns; or an event starts one or two.      *)
Replaces(f) ==
    /\ stack # <<>> /\ Len(stack') = Len(stack) /\ stack'[Len(stack)] = f
    /\ \A k \in 1 .. Len(stack) - 1 : stack'[k] = stack[k]
Pushes(f, g) ==
    /\ stack # <<>> /\ Len(stack') = Len(stack) + 1
    /\ stack'[Len(stack)] = f /\ stack'[Len(stack) + 1] = g
    /\ \A k \in 1 .. Len(stack) - 1 : stack'[k] = stack[k]
Pops ==
    /\ stack # <<>> /\ Len(stack') = Len(stack) - 1
    /\ \A k \in 1 .. Len(stack) - 1 : stack'[k] = stack[k]

(* The stack as a sequence.                                                *)
LEMMA StackIs ==
  ASSUME stack \in Seq(Frame)
  PROVE  /\ Len(stack) \in Nat /\ DOMAIN stack = 1 .. Len(stack)
         /\ \A k \in 1 .. Len(stack) : stack[k] \in Frame
         /\ stack # <<>> <=> Len(stack) > 0
         /\ stack # <<>> => top \in Frame /\ Len(stack) \in 1 .. Len(stack)
BY DEF top

(* The innermost call goes on.                                             *)
LEMMA ReplacesIs ==
  ASSUME stack \in Seq(Frame), stack # <<>>, NEW f \in Frame,
         stack' = [stack EXCEPT ![Len(stack)] = f]
  PROVE  Replaces(f) /\ stack' \in Seq(Frame)
<1>1. Len(stack) \in 1 .. Len(stack)
  BY StackIs
<1> QED
  BY <1>1, SeqExcept DEF Replaces

(* It calls another function.                                              *)
LEMMA PushesIs ==
  ASSUME stack \in Seq(Frame), stack # <<>>, NEW f \in Frame, NEW g \in Frame,
         stack' = Append([stack EXCEPT ![Len(stack)] = f], g)
  PROVE  Pushes(f, g) /\ stack' \in Seq(Frame)
<1> DEFINE s == [stack EXCEPT ![Len(stack)] = f]
<1>0. Len(stack) \in 1 .. Len(stack)
  BY StackIs
<1>1. /\ s \in Seq(Frame) /\ Len(s) = Len(stack) /\ s[Len(stack)] = f
      /\ \A k \in 1 .. Len(stack) - 1 : s[k] = stack[k]
  BY <1>0, SeqExcept
<1> HIDE DEF s
<1>2. stack' = Append(s, g)
  BY DEF s
<1>3. /\ stack' \in Seq(Frame) /\ Len(stack') = Len(s) + 1 /\ stack'[Len(s) + 1] = g
      /\ \A k \in 1 .. Len(s) : stack'[k] = s[k]
  BY <1>1, <1>2
<1> QED
  BY <1>1, <1>3, StackIs DEF Pushes

(* It returns.                                                             *)
LEMMA PopsIs ==
  ASSUME stack \in Seq(Frame), stack # <<>>, stack' = Front(stack)
  PROVE  Pops /\ stack' \in Seq(Frame)
BY StackIs DEF Pops, Front

(* The frames of each function.                                            *)
LEMMA FrameIs ==
  ASSUME NEW t \in Frame
  PROVE  /\ t.fn = "client_send" =>
              /\ t = [fn |-> t.fn, pc |-> t.pc, force |-> t.force, msg |-> t.msg, i |-> t.i,
                      sent |-> t.sent]
              /\ t.pc \in {"start", "loop", "store", "reported"} /\ t.force \in BOOLEAN
              /\ t.msg \in Message /\ t.i \in Nat \ {0} /\ t.sent \in BOOLEAN
         /\ t.fn = "close_socket" =>
              /\ t = [fn |-> t.fn, pc |-> t.pc, sock |-> t.sock]
              /\ t.pc \in {"start", "info", "log"} /\ t.sock \in Client \cup {App}
         /\ t.fn = "send_ringbuffer" =>
              t = [fn |-> t.fn, pc |-> t.pc] /\ t.pc \in {"start", "sent"}
         /\ t.fn = "client_connect" =>
              /\ t = [fn |-> t.fn, pc |-> t.pc, left |-> t.left]
              /\ t.pc \in {"announce", "flushed"} /\ t.left \in 0 .. 3
         /\ t.fn = "sixty_s_timer" =>
              /\ t = [fn |-> t.fn, pc |-> t.pc, left |-> t.left]
              /\ t.pc = "announce" /\ t.left \in 0 .. 2
         /\ t.fn = "one_s_timer" =>
              t = [fn |-> t.fn, pc |-> t.pc] /\ t.pc \in {"start", "time"}
         /\ t.fn = "user_overflow" =>
              t = [fn |-> t.fn, pc |-> t.pc, n |-> t.n] /\ t.pc = "sent" /\ t.n \in Nat
         /\ t.fn \in {"client_send", "close_socket", "send_ringbuffer", "client_connect",
                      "sixty_s_timer", "one_s_timer", "user_overflow"}
BY DEF Frame

(* A call of dlt_daemon_client_send goes on.                               *)
LEMMA SendFrameIs ==
  ASSUME NEW t \in Frame, t.fn = "client_send",
         NEW pc \in {"start", "loop", "store", "reported"}, NEW i \in Nat \ {0},
         NEW sent \in BOOLEAN
  PROVE  LET f == [fn |-> t.fn, pc |-> pc, force |-> t.force, msg |-> t.msg, i |-> i, sent |-> sent]
         IN  f \in Frame
BY FrameIs DEF Frame

(* It is at another position.                                              *)
LEMMA SendFrameAt ==
  ASSUME NEW t \in Frame, t.fn = "client_send", NEW pc
  PROVE  [t EXCEPT !.pc = pc] =
            [fn |-> t.fn, pc |-> pc, force |-> t.force, msg |-> t.msg, i |-> t.i, sent |-> t.sent]
<1>1. t = [fn |-> t.fn, pc |-> t.pc, force |-> t.force, msg |-> t.msg, i |-> t.i, sent |-> t.sent]
  BY FrameIs
<1>2. \A a, b, c, d, e, g : LET r == [fn |-> a, pc |-> b, force |-> c, msg |-> d, i |-> e, sent |-> g]
                           IN  [r EXCEPT !.pc = pc] =
                                 [fn |-> a, pc |-> pc, force |-> c, msg |-> d, i |-> e, sent |-> g]
  OBVIOUS
<1> QED
  BY <1>1, <1>2

(* The frame of a new call.                                                *)
LEMMA NewFrames ==
  /\ \A force \in BOOLEAN, m \in Message : SendFrame(force, m) \in Frame
  /\ \A c \in Client \cup {App} : CloseFrame(c) \in Frame
  /\ RingFrame \in Frame /\ OneSecondFrame \in Frame
  /\ \A k \in 0 .. 3 : ConnectFrame(k) \in Frame
  /\ \A k \in 0 .. 2 : SixtySecondFrame(k) \in Frame
  /\ \A n \in Nat : OverflowFrame(n) \in Frame
  /\ DaemonMsg \in Message /\ \A n \in Nat : LogMsg(n) \in Message /\ OverflowMsg(n) \in Message
<1>1. \A force \in BOOLEAN, m \in Message : SendFrame(force, m) \in Frame
  BY DEF SendFrame, Frame
<1>2. \A c \in Client \cup {App} : CloseFrame(c) \in Frame
  BY DEF CloseFrame, Frame
<1>3. RingFrame \in Frame /\ OneSecondFrame \in Frame
  BY DEF RingFrame, OneSecondFrame, Frame
<1>4. \A k \in 0 .. 3 : ConnectFrame(k) \in Frame
  BY DEF ConnectFrame, Frame
<1>5. \A k \in 0 .. 2 : SixtySecondFrame(k) \in Frame
  BY DEF SixtySecondFrame, Frame
<1>6. \A n \in Nat : OverflowFrame(n) \in Frame
  BY DEF OverflowFrame, Frame
<1>7. DaemonMsg \in Message /\ \A n \in Nat : LogMsg(n) \in Message /\ OverflowMsg(n) \in Message
  BY DEF DaemonMsg, LogMsg, OverflowMsg, Message
<1> QED
  BY <1>1, <1>2, <1>3, <1>4, <1>5, <1>6, <1>7

-----------------------------------------------------------------------------
(* What the steps of dlt_daemon_client_send do to the stack.               *)
Sending(f) ==
    /\ f \in Frame /\ f.fn = "client_send" /\ top.fn = "client_send"
    /\ f.force = top.force /\ f.msg = top.msg

(* It goes on elsewhere, or calls.                                         *)
LEMMA SendGoto ==
  ASSUME TypeOK, stack # <<>>, top.fn = "client_send",
         NEW pc \in {"start", "loop", "store", "reported"}, GotoPc(pc)
  PROVE  /\ stack' \in Seq(Frame)
         /\ \E f : /\ Sending(f) /\ Replaces(f) /\ f.pc = pc /\ f.i = top.i /\ f.sent = top.sent
<1> DEFINE f == [top EXCEPT !.pc = pc]
<1>0. stack \in Seq(Frame)
  BY DEF TypeOK
<1>1. stack \in Seq(Frame) /\ top \in Frame
  BY <1>0, StackIs
<1>2. stack' = [stack EXCEPT ![Len(stack)] = f]
  BY DEF GotoPc, Goto
<1>3. f = [fn |-> top.fn, pc |-> pc, force |-> top.force, msg |-> top.msg, i |-> top.i,
           sent |-> top.sent]
  BY <1>1, SendFrameAt
<1> HIDE DEF f
<1>4. f \in Frame
  BY <1>1, <1>3, FrameIs, SendFrameIs
<1>5. Replaces(f) /\ stack' \in Seq(Frame)
  BY <1>1, <1>2, <1>4, ReplacesIs
<1>6. Sending(f) /\ f.i = top.i /\ f.sent = top.sent /\ f.pc = pc
  BY <1>1, <1>3, <1>4 DEF Sending
<1> QED
  BY <1>5, <1>6

(* dlt_daemon_client_send calls another function.                          *)
LEMMA SendCall ==
  ASSUME TypeOK, stack # <<>>, top.fn = "client_send",
         NEW pc \in {"start", "loop", "store", "reported"}, NEW g \in Frame, Call(pc, g)
  PROVE  /\ stack' \in Seq(Frame)
         /\ \E f : Sending(f) /\ Pushes(f, g) /\ f.pc = pc /\ f.i = top.i /\ f.sent = top.sent
<1> DEFINE f == [top EXCEPT !.pc = pc]
<1>1. stack \in Seq(Frame) /\ top \in Frame
  BY StackIs DEF TypeOK
<1>2. stack' = Append([stack EXCEPT ![Len(stack)] = f], g)
  BY DEF Call, top
<1>3. f = [fn |-> top.fn, pc |-> pc, force |-> top.force, msg |-> top.msg, i |-> top.i,
           sent |-> top.sent]
  BY <1>1, FrameIs
<1> HIDE DEF f
<1>4. f \in Frame
  BY <1>1, <1>3, FrameIs, SendFrameIs
<1>5. Pushes(f, g) /\ stack' \in Seq(Frame)
  BY <1>1, <1>2, <1>4, PushesIs
<1>6. Sending(f) /\ f.i = top.i /\ f.sent = top.sent /\ f.pc = pc
  BY <1>1, <1>3, <1>4 DEF Sending
<1> QED
  BY <1>5, <1>6

(* The other functions call.                                               *)
LEMMA OtherCall ==
  ASSUME TypeOK, stack # <<>>, NEW pc, NEW g \in Frame, Call(pc, g),
         \/ top.fn = "close_socket" /\ pc \in {"info", "log"}
         \/ top.fn = "send_ringbuffer" /\ pc = "sent"
         \/ top.fn = "client_connect" /\ pc = "flushed"
         \/ top.fn = "one_s_timer" /\ pc = "time"
  PROVE  /\ stack' \in Seq(Frame)
         /\ \E f : /\ f \in Frame /\ Pushes(f, g) /\ f.fn = top.fn /\ f.pc = pc
                   /\ top.fn = "close_socket" => f.sock = top.sock
<1> DEFINE f == [top EXCEPT !.pc = pc]
<1>1. stack \in Seq(Frame) /\ top \in Frame
  BY StackIs DEF TypeOK
<1>2. stack' = Append([stack EXCEPT ![Len(stack)] = f], g)
  BY DEF Call, top
<1>3. f \in Frame /\ f.fn = top.fn /\ f.pc = pc /\ (top.fn = "close_socket" => f.sock = top.sock)
  <2>1. CASE top.fn = "close_socket" /\ pc \in {"info", "log"}
    <3>1. f = [fn |-> top.fn, pc |-> pc, sock |-> top.sock]
      BY <1>1, <2>1, FrameIs
    <3> QED
      BY <1>1, <2>1, <3>1, FrameIs DEF Frame
  <2>2. CASE top.fn \in {"send_ringbuffer", "one_s_timer"}
    <3>1. f = [fn |-> top.fn, pc |-> pc]
      BY <1>1, <2>2, FrameIs
    <3> QED
      BY <1>1, <2>2, <3>1 DEF Frame
  <2>3. CASE top.fn = "client_connect"
    <3>1. f = [fn |-> top.fn, pc |-> pc, left |-> top.left]
      BY <1>1, <2>3, FrameIs
    <3> QED
      BY <1>1, <2>3, <3>1, FrameIs DEF Frame
  <2> QED
    BY <2>1, <2>2, <2>3
<1> HIDE DEF f
<1>4. Pushes(f, g) /\ stack' \in Seq(Frame)
  BY <1>1, <1>2, <1>3, PushesIs
<1> QED
  BY <1>3, <1>4

(* Any function returns.                                                   *)
LEMMA ReturnIs ==
  ASSUME TypeOK, stack # <<>>, NEW r, Return(r)
  PROVE  Pops /\ stack' \in Seq(Frame) /\ ret' = r
BY PopsIs DEF Return, TypeOK

(* What each step of dlt_daemon_client_send does to the calls in progress. *)
LEMMA SendStartIs ==
  ASSUME TypeOK, SendStart
  PROVE  /\ stack' \in Seq(Frame)
         /\ \E f : /\ Sending(f) /\ Replaces(f) /\ f.i = top.i /\ f.sent = top.sent
                   /\ f.pc = IF top.force \/ state = "SEND_DIRECT" THEN "loop" ELSE "store"
<1> DEFINE pc == IF top.force \/ state = "SEND_DIRECT" THEN "loop" ELSE "store"
<1>1. stack # <<>> /\ top.fn = "client_send" /\ GotoPc(pc)
  BY DEF SendStart, At
<1>2. pc \in {"start", "loop", "store", "reported"}
  OBVIOUS
<1> HIDE DEF pc
<1> QED
  BY <1>1, <1>2, SendGoto DEF pc

(* It reaches a client and goes on with the next.                          *)
LEMMA SendToClientIs ==
  ASSUME TypeOK, SendToClient
  PROVE  /\ stack' \in Seq(Frame)
         /\ \E f : Sending(f) /\ Replaces(f) /\ f.pc = "loop" /\ f.i = top.i + 1 /\ f.sent
<1> DEFINE f == [top EXCEPT !.i = @ + 1, !.sent = TRUE]
<1>1. /\ stack \in Seq(Frame) /\ stack # <<>> /\ top \in Frame
      /\ top.fn = "client_send" /\ top.pc = "loop"
  BY StackIs DEF TypeOK, SendToClient, At
<1>2. stack' = [stack EXCEPT ![Len(stack)] = f]
  BY Zenon DEF SendToClient, Goto
<1>e. f = [top EXCEPT !.i = top.i + 1, !.sent = TRUE]
  OBVIOUS
<1> HIDE DEF f
<1>3. f = [fn |-> top.fn, pc |-> "loop", force |-> top.force, msg |-> top.msg, i |-> top.i + 1,
           sent |-> TRUE]
  <2>1. top = [fn |-> top.fn, pc |-> top.pc, force |-> top.force, msg |-> top.msg, i |-> top.i,
               sent |-> top.sent]
    BY <1>1, FrameIs
  <2> QED
    BY <1>1, <1>e, <2>1
<1>i. top.i + 1 \in Nat \ {0} /\ top.sent \in BOOLEAN
  BY <1>1, FrameIs
<1>4. f \in Frame
  BY <1>1, <1>3, <1>i, SendFrameIs
<1>5. Replaces(f) /\ stack' \in Seq(Frame)
  BY <1>1, <1>2, <1>4, ReplacesIs
<1>6. Sending(f) /\ f.pc = "loop" /\ f.i = top.i + 1 /\ f.sent
  BY <1>1, <1>3, <1>4 DEF Sending
<1> QED
  BY <1>5, <1>6

(* It closes a client and goes on with the next index.                     *)
LEMMA SendFailsIs ==
  ASSUME TypeOK, SendFails
  PROVE  /\ stack' \in Seq(Frame) /\ clients[top.i] \in Range(clients)
         /\ \E f : /\ Sending(f) /\ Pushes(f, CloseFrame(clients[top.i]))
                   /\ f.pc = "loop" /\ f.i = top.i + 1 /\ f.sent = top.sent
<1> DEFINE f == [top EXCEPT !.i = @ + 1]
           g == CloseFrame(clients[top.i])
<1>1. /\ stack \in Seq(Frame) /\ stack # <<>> /\ top \in Frame
      /\ top.fn = "client_send" /\ top.pc = "loop"
  BY StackIs DEF TypeOK, SendFails, At
<1>2. top.i \in 1 .. Len(clients) /\ clients \in Seq(Client)
  BY <1>1, FrameIs DEF SendFails, TypeOK
<1>3. clients[top.i] \in Client /\ clients[top.i] \in Range(clients)
  BY <1>2 DEF Range
<1>4. stack' = Append([stack EXCEPT ![Len(stack)] = f], g)
  BY DEF SendFails, top
<1>5. f = [fn |-> top.fn, pc |-> "loop", force |-> top.force, msg |-> top.msg, i |-> top.i + 1,
           sent |-> top.sent]
  BY <1>1, FrameIs
<1>6. g \in Frame
  BY <1>3, NewFrames
<1> HIDE DEF f, g
<1>i. top.i + 1 \in Nat \ {0} /\ top.sent \in BOOLEAN
  BY <1>1, FrameIs
<1>7. f \in Frame
  BY <1>1, <1>5, <1>i, SendFrameIs
<1>8. Pushes(f, g) /\ stack' \in Seq(Frame)
  BY <1>1, <1>4, <1>6, <1>7, PushesIs
<1>9. Sending(f) /\ f.pc = "loop" /\ f.i = top.i + 1 /\ f.sent = top.sent
  BY <1>1, <1>5, <1>7 DEF Sending
<1> QED
  BY <1>3, <1>8, <1>9 DEF g

(* A handler announces something: one message less is left to send.        *)
LEMMA AnnounceIs ==
  ASSUME TypeOK, NEW fn \in {"client_connect", "sixty_s_timer"}, Announce(fn)
  PROVE  /\ stack' \in Seq(Frame)
         /\ \E f : /\ f \in Frame /\ Pushes(f, SendFrame(FALSE, DaemonMsg))
                   /\ f.fn = fn /\ top.fn = fn /\ f.pc = "announce"
<1> DEFINE f == [top EXCEPT !.left = @ - 1]
           g == SendFrame(FALSE, DaemonMsg)
<1>1. /\ stack \in Seq(Frame) /\ stack # <<>> /\ top \in Frame
      /\ top.fn = fn /\ top.pc = "announce" /\ top.left > 0
  BY StackIs DEF TypeOK, Announce, At
<1>2. stack' = Append([stack EXCEPT ![Len(stack)] = f], g)
  BY DEF Announce, top
<1>3. f = [fn |-> fn, pc |-> "announce", left |-> top.left - 1]
  BY <1>1, FrameIs
<1>4. g \in Frame
  BY NewFrames
<1> HIDE DEF f, g
<1>5. f \in Frame
  <2>1. CASE fn = "client_connect"
    <3>1. top.left - 1 \in 0 .. 3
      BY <1>1, <2>1, FrameIs
    <3> QED
      BY <1>3, <2>1, <3>1 DEF Frame
  <2>2. CASE fn = "sixty_s_timer"
    <3>1. top.left - 1 \in 0 .. 2
      BY <1>1, <2>2, FrameIs
    <3> QED
      BY <1>3, <2>2, <3>1 DEF Frame
  <2> QED
    BY <2>1, <2>2
<1>6. Pushes(f, g) /\ stack' \in Seq(Frame)
  BY <1>1, <1>2, <1>4, <1>5, PushesIs
<1>7. f.fn = fn /\ f.pc = "announce"
  BY <1>3
<1> QED
  BY <1>1, <1>5, <1>6, <1>7 DEF g

(* After the last client it stores or reports, or a flush fails.           *)
LEMMA SendLoopDoneIs ==
  ASSUME TypeOK, SendLoopDone
  PROVE  /\ stack' \in Seq(Frame)
         /\ \/ top.force /\ ~top.sent /\ Pops /\ ret' = ERROR_SEND_FAILED
            \/ /\ top.force => top.sent
               /\ ret' = ret
               /\ \E f : /\ Sending(f) /\ Replaces(f) /\ f.pc = "store"
                         /\ f.i = top.i /\ f.sent = top.sent
<1>1. stack # <<>> /\ top.fn = "client_send" /\ top \in Frame
  BY StackIs DEF SendLoopDone, At, TypeOK
<1>2. CASE top.force /\ ~top.sent
  <2>1. Return(ERROR_SEND_FAILED)
    BY <1>2 DEF SendLoopDone
  <2> QED
    BY <1>1, <1>2, <2>1, ReturnIs
<1>3. CASE ~(top.force /\ ~top.sent)
  <2>1. GotoPc("store") /\ ret' = ret
    BY <1>3 DEF SendLoopDone
  <2>2. top.force \in BOOLEAN /\ top.sent \in BOOLEAN
    BY <1>1, FrameIs
  <2> QED
    BY <1>1, <1>3, <2>1, <2>2, SendGoto
<1> QED
  BY <1>2, <1>3

(* It reports the losses, or is done.                                      *)
LEMMA SendReportIs ==
  ASSUME TypeOK, SendReport
  PROVE  /\ stack' \in Seq(Frame)
         /\ \/ /\ overflow_counter > 0 /\ clients # <<>> /\ ret' = ret
               /\ \E f : /\ Sending(f)
                         /\ Pushes(f, SendFrame(FALSE, OverflowMsg(overflow_counter)))
                         /\ f.pc = "reported" /\ f.i = top.i /\ f.sent = top.sent
            \/ /\ overflow_counter = 0 \/ clients = <<>>
               /\ Pops /\ ret' = ERROR_OK
<1>1. stack # <<>> /\ top.fn = "client_send" /\ overflow_counter \in Nat
  BY DEF SendReport, At, TypeOK
<1>2. CASE overflow_counter > 0 /\ clients # <<>>
  <2>1. Call("reported", SendFrame(FALSE, OverflowMsg(overflow_counter))) /\ ret' = ret
    BY <1>2 DEF SendReport
  <2>2. SendFrame(FALSE, OverflowMsg(overflow_counter)) \in Frame
    BY <1>1, NewFrames
  <2>3. /\ stack' \in Seq(Frame)
        /\ \E f : /\ Sending(f) /\ Pushes(f, SendFrame(FALSE, OverflowMsg(overflow_counter)))
                  /\ f.pc = "reported" /\ f.i = top.i /\ f.sent = top.sent
    <3>1. PICK g \in Frame : g = SendFrame(FALSE, OverflowMsg(overflow_counter))
      BY <2>2
    <3>2. Call("reported", g)
      BY <2>1, <3>1
    <3>3. /\ stack' \in Seq(Frame)
          /\ \E f : Sending(f) /\ Pushes(f, g) /\ f.pc = "reported" /\ f.i = top.i /\ f.sent = top.sent
      BY <1>1, <3>2, SendCall
    <3> QED
      BY <3>1, <3>3
  <2> QED
    BY <1>2, <2>1, <2>3
<1>3. CASE ~(overflow_counter > 0 /\ clients # <<>>)
  <2>1. Return(ERROR_OK)
    BY <1>3 DEF SendReport
  <2>2. overflow_counter = 0 \/ clients = <<>>
    BY <1>1, <1>3
  <2> QED
    BY <1>1, <2>1, <2>2, ReturnIs
<1> QED
  BY <1>2, <1>3

(* The steps that return, whatever happens.                                *)
Returning ==
    \/ SendStore \/ SendDiscard \/ SendReported \/ CloseReturn
    \/ ConnectFlushed \/ UserOverflowSent \/ TimerReturn

(* Only a message for a full ring buffer returns an error here.            *)
LEMMA ReturningIs ==
  ASSUME TypeOK, ret # ERROR_UNKNOWN, Returning
  PROVE  /\ stack # <<>> /\ Pops /\ stack' \in Seq(Frame)
         /\ ret' = IF SendDiscard THEN ERROR_BUFFER_FULL ELSE ERROR_OK
<1>1. SendDiscard => Return(ERROR_BUFFER_FULL) /\ stack # <<>>
  BY DEF SendDiscard, At
<1>2. SendStore => Return(ERROR_OK) /\ stack # <<>> /\ ~SendDiscard
  BY DEF SendStore, SendDiscard, At
<1>3. SendReported => Return(ERROR_OK) /\ stack # <<>> /\ ~SendDiscard
  BY DEF SendReported, SendDiscard, At
<1>4. CloseReturn => Return(ERROR_OK) /\ stack # <<>> /\ ~SendDiscard
  BY DEF CloseReturn, SendDiscard, At
<1>5. ConnectFlushed => Return(ERROR_OK) /\ stack # <<>> /\ ~SendDiscard
  BY DEF ConnectFlushed, SendDiscard, At
<1>6. UserOverflowSent => Return(ERROR_OK) /\ stack # <<>> /\ ~SendDiscard
  BY DEF UserOverflowSent, SendDiscard, At
<1>7. TimerReturn => Return(ERROR_OK) /\ stack # <<>> /\ ~SendDiscard
  BY DEF TimerReturn, SendDiscard, At
<1> QED
  BY <1>1, <1>2, <1>3, <1>4, <1>5, <1>6, <1>7, ReturnIs DEF Returning

(* dlt_daemon_close_socket tells the remaining clients, twice.             *)
LEMMA CloseCallsIs ==
  ASSUME TypeOK, CloseUnregister \/ CloseInfoSent
  PROVE  /\ stack' \in Seq(Frame) /\ ret' = ret
         /\ \E f : /\ f \in Frame /\ Pushes(f, SendFrame(FALSE, DaemonMsg))
                   /\ top.fn = "close_socket" /\ f.fn = "close_socket" /\ f.pc # "start"
<1>1. /\ stack # <<>> /\ top.fn = "close_socket" /\ ret' = ret
      /\ \E pc \in {"info", "log"} : Call(pc, SendFrame(FALSE, DaemonMsg))
  BY DEF CloseUnregister, CloseInfoSent, At
<1>2. PICK pc \in {"info", "log"} : Call(pc, SendFrame(FALSE, DaemonMsg))
  BY <1>1
<1>3. SendFrame(FALSE, DaemonMsg) \in Frame
  BY NewFrames
<1>4. /\ stack' \in Seq(Frame)
      /\ \E f : f \in Frame /\ Pushes(f, SendFrame(FALSE, DaemonMsg)) /\ f.fn = top.fn /\ f.pc = pc
  BY <1>1, <1>2, <1>3, OtherCall
<1> QED
  BY <1>1, <1>4

(* dlt_daemon_send_ringbuffer_to_client starts with the front, if any.     *)
LEMMA RingStartIs ==
  ASSUME TypeOK, RingStart
  PROVE  /\ stack' \in Seq(Frame)
         /\ \/ client_ringbuffer = <<>> /\ state' = "SEND_DIRECT" /\ Pops /\ ret' = ERROR_OK
            \/ /\ client_ringbuffer # <<>> /\ state' = state /\ ret' = ret
               /\ \E f : /\ f \in Frame /\ Pushes(f, SendFrame(TRUE, client_ringbuffer[1]))
                         /\ f.fn = "send_ringbuffer" /\ f.pc = "sent"
<1>1. stack # <<>> /\ top.fn = "send_ringbuffer" /\ client_ringbuffer \in Seq(Message)
  BY DEF RingStart, At, TypeOK
<1>2. CASE client_ringbuffer = <<>>
  <2>1. Return(ERROR_OK) /\ state' = "SEND_DIRECT"
    BY <1>2 DEF RingStart
  <2> QED
    BY <1>1, <1>2, <2>1, ReturnIs
<1>3. CASE client_ringbuffer # <<>>
  <2>1. /\ Call("sent", SendFrame(TRUE, Head(client_ringbuffer)))
        /\ state' = state /\ ret' = ret
    BY <1>3 DEF RingStart
  <2>2. Head(client_ringbuffer) = client_ringbuffer[1] /\ client_ringbuffer[1] \in Message
    BY <1>1, <1>3
  <2>3. SendFrame(TRUE, client_ringbuffer[1]) \in Frame
    BY <2>2, NewFrames
  <2>4. Call("sent", SendFrame(TRUE, client_ringbuffer[1]))
    BY <2>1, <2>2
  <2>5. /\ stack' \in Seq(Frame)
        /\ \E f : /\ f \in Frame /\ Pushes(f, SendFrame(TRUE, client_ringbuffer[1]))
                  /\ f.fn = top.fn /\ f.pc = "sent"
    BY <1>1, <2>3, <2>4, OtherCall
  <2> QED
    BY <1>1, <1>3, <2>1, <2>5
<1> QED
  BY <1>2, <1>3

(* What was sent is removed, and the next message is sent.                 *)
LEMMA RingSentIs ==
  ASSUME TypeOK, RingSent, client_ringbuffer # <<>>
  PROVE  /\ stack' \in Seq(Frame) /\ top \in Frame
         /\ \/ /\ ret # ERROR_OK /\ Pops /\ ret' = ret
               /\ UNCHANGED <<state, client_ringbuffer>>
            \/ /\ ret = ERROR_OK /\ Pops /\ ret' = ERROR_OK
               /\ client_ringbuffer' = Tail(client_ringbuffer)
               /\ Len(client_ringbuffer) = 1 /\ state' = "SEND_DIRECT"
            \/ /\ ret = ERROR_OK /\ ret' = ret
               /\ client_ringbuffer' = Tail(client_ringbuffer)
               /\ Len(client_ringbuffer) > 1 /\ state' = "SEND_BUFFER"
               /\ Pushes(top, SendFrame(TRUE, client_ringbuffer[2]))
<1>1. /\ stack # <<>> /\ top.fn = "send_ringbuffer" /\ client_ringbuffer \in Seq(Message)
      /\ stack \in Seq(Frame) /\ top \in Frame
  BY StackIs DEF RingSent, At, TypeOK
<1>2. CASE ret # ERROR_OK
  <2>1. Return(ret) /\ UNCHANGED <<state, client_ringbuffer>>
    BY <1>2 DEF RingSent
  <2> QED
    BY <1>1, <1>2, <2>1, ReturnIs
<1>3. CASE ret = ERROR_OK /\ Len(client_ringbuffer) = 1
  <2>1. /\ Return(ERROR_OK) /\ state' = "SEND_DIRECT"
        /\ client_ringbuffer' = Tail(client_ringbuffer)
    BY <1>3 DEF RingSent
  <2> QED
    BY <1>1, <1>3, <2>1, ReturnIs
<1>4. CASE ret = ERROR_OK /\ Len(client_ringbuffer) # 1
  <2> DEFINE g == SendFrame(TRUE, client_ringbuffer[2])
  <2>1. /\ stack' = Append(stack, g) /\ state' = "SEND_BUFFER" /\ ret' = ret
        /\ client_ringbuffer' = Tail(client_ringbuffer)
    BY <1>4 DEF RingSent
  <2>2. Len(client_ringbuffer) > 1 /\ client_ringbuffer[2] \in Message
    <3>1. Len(client_ringbuffer) \in Nat /\ Len(client_ringbuffer) # 0
      BY <1>1
    <3>2. \A n \in Nat : n # 0 /\ n # 1 => n > 1
      OBVIOUS
    <3>3. Len(client_ringbuffer) > 1
      BY <1>4, <3>1, <3>2
    <3> QED
      BY <1>1, <3>3
  <2>3. g \in Frame
    BY <2>2, NewFrames
  <2> HIDE DEF g
  <2>4. Pushes(top, g) /\ stack' \in Seq(Frame)
    <3>1. stack' \in Seq(Frame) /\ Len(stack') = Len(stack) + 1 /\ stack'[Len(stack) + 1] = g
          /\ \A k \in 1 .. Len(stack) : stack'[k] = stack[k]
      BY <1>1, <2>1, <2>3
    <3> QED
      BY <1>1, <3>1, StackIs DEF Pushes, top
  <2> QED
    BY <1>1, <1>4, <2>1, <2>2, <2>4 DEF g
<1> QED
  BY <1>2, <1>3, <1>4

(* The first client gets the ring buffer.                                  *)
LEMMA ConnectAnnouncedIs ==
  ASSUME TypeOK, ConnectAnnounced
  PROVE  /\ stack' \in Seq(Frame)
         /\ \/ Len(clients) # 1 /\ state' = state /\ Pops /\ ret' = ERROR_OK
            \/ /\ Len(clients) = 1 /\ state' = "SEND_BUFFER" /\ ret' = ret
               /\ \E f : /\ f \in Frame /\ Pushes(f, RingFrame)
                         /\ f.fn = "client_connect" /\ f.pc = "flushed"
<1>1. stack # <<>> /\ top.fn = "client_connect"
  BY DEF ConnectAnnounced, At
<1>2. CASE Len(clients) # 1
  <2>1. Return(ERROR_OK) /\ state' = state
    BY <1>2 DEF ConnectAnnounced
  <2> QED
    BY <1>1, <1>2, <2>1, ReturnIs
<1>3. CASE Len(clients) = 1
  <2>1. Call("flushed", RingFrame) /\ state' = "SEND_BUFFER" /\ ret' = ret
    BY <1>3 DEF ConnectAnnounced
  <2> QED
    BY <1>1, <1>3, <2>1, NewFrames, OtherCall
<1> QED
  BY <1>2, <1>3

(* The one second timer sends the time, or is done.                        *)
LEMMA OneSecondTimeIs ==
  ASSUME TypeOK, OneSecondTime
  PROVE  /\ stack' \in Seq(Frame)
         /\ \/ Pops /\ ret' = ERROR_OK
            \/ /\ ret' = ret
               /\ \E f : /\ f \in Frame /\ Pushes(f, SendFrame(FALSE, DaemonMsg))
                         /\ f.fn = "one_s_timer" /\ f.pc = "time"
<1>1. stack # <<>> /\ top.fn = "one_s_timer"
  BY DEF OneSecondTime, At
<1>2. CASE MustSendTime
  <2>1. Call("time", SendFrame(FALSE, DaemonMsg)) /\ ret' = ret
    BY <1>2 DEF OneSecondTime
  <2>2. SendFrame(FALSE, DaemonMsg) \in Frame
    BY NewFrames
  <2>3. /\ stack' \in Seq(Frame)
        /\ \E f : /\ f \in Frame /\ Pushes(f, SendFrame(FALSE, DaemonMsg))
                  /\ f.fn = top.fn /\ f.pc = "time"
    BY <1>1, <2>1, <2>2, OtherCall
  <2> QED
    BY <1>1, <2>1, <2>3
<1>3. CASE ~MustSendTime
  <2>1. Return(ERROR_OK)
    BY <1>3 DEF OneSecondTime
  <2> QED
    BY <1>1, <2>1, ReturnIs
<1> QED
  BY <1>2, <1>3

-----------------------------------------------------------------------------
(* How the calls in progress nest.                                         *)
Same(f) ==
    /\ f \in Frame /\ f.fn = top.fn
    /\ f.fn = "client_send" => f.force = top.force /\ f.msg = top.msg

Starts ==
    /\ stack = <<>> /\ Len(stack') \in {1, 2}
    /\ stack'[1].fn # "send_ringbuffer"
    /\ stack'[1].fn = "client_send" => ~stack'[1].force
    /\ Len(stack') = 2 => Calls(stack'[1], stack'[2])

StackStep ==
    \/ \E f : Same(f) /\ Replaces(f)
    \/ \E f, g : Same(f) /\ g \in Frame /\ Calls(f, g) /\ Pushes(f, g)
    \/ Pops
    \/ Starts
    \/ UNCHANGED stack

(* Who called the innermost function would also call it as it goes on.     *)
LEMMA SameIsCalled ==
  ASSUME NEW x, NEW f, Same(f), Calls(x, top)
  PROVE  Calls(x, f)
BY DEF Same, Calls, Plain

(* Who calls whom stays as it is.                                          *)
LEMMA ShapeStep ==
  ASSUME stack \in Seq(Frame), stack' \in Seq(Frame), Shape, StackStep
  PROVE  Shape'
<1>0. /\ Len(stack) \in Nat /\ Len(stack') \in Nat
      /\ stack # <<>> => Len(stack) > 0
      /\ stack' # <<>> => Len(stack') > 0
  OBVIOUS
<1>1. CASE \E f : Same(f) /\ Replaces(f)
  <2>1. PICK f : Same(f) /\ Replaces(f)
    BY <1>1
  <2>2. /\ stack # <<>> /\ Len(stack') = Len(stack) /\ stack'[Len(stack)] = f
        /\ \A k \in 1 .. Len(stack) - 1 : stack'[k] = stack[k]
    BY <2>1 DEF Replaces
  <2>3. stack'[1].fn = stack[1].fn /\ (stack[1].fn = "client_send" => stack'[1].force = stack[1].force)
    <3>1. CASE Len(stack) = 1
      BY <2>1, <2>2, <3>1 DEF Same, top
    <3>2. CASE Len(stack) # 1
      <4>1. 1 \in 1 .. Len(stack) - 1
        BY <1>0, <2>2, <3>2
      <4> QED
        BY <2>2, <4>1
    <3> QED
      BY <3>1, <3>2
  <2>4. ASSUME NEW k \in 1 .. Len(stack') - 1
        PROVE  Calls(stack'[k], stack'[k + 1])
    <3>1. k \in 1 .. Len(stack) - 1 /\ stack'[k] = stack[k] /\ Calls(stack[k], stack[k + 1])
      BY <2>2 DEF Shape
    <3>2. CASE k + 1 = Len(stack)
      BY <2>1, <2>2, <3>1, <3>2, SameIsCalled DEF top
    <3>3. CASE k + 1 # Len(stack)
      <4>1. k + 1 \in 1 .. Len(stack) - 1
        BY <1>0, <3>1, <3>3
      <4> QED
        BY <2>2, <3>1, <4>1
    <3> QED
      BY <3>2, <3>3
  <2> QED
    BY <2>2, <2>3, <2>4 DEF Shape
<1>2. CASE \E f, g : Same(f) /\ g \in Frame /\ Calls(f, g) /\ Pushes(f, g)
  <2>1. PICK f, g : Same(f) /\ Calls(f, g) /\ Pushes(f, g)
    BY <1>2
  <2>2. /\ stack # <<>> /\ Len(stack') = Len(stack) + 1
        /\ stack'[Len(stack)] = f /\ stack'[Len(stack) + 1] = g
        /\ \A k \in 1 .. Len(stack) - 1 : stack'[k] = stack[k]
    BY <2>1 DEF Pushes
  <2>3. stack'[1].fn = stack[1].fn /\ (stack[1].fn = "client_send" => stack'[1].force = stack[1].force)
    <3>1. CASE Len(stack) = 1
      <4>1. stack'[1] = f /\ stack[1] = top
        BY <2>2, <3>1 DEF top
      <4>2. f.fn = top.fn /\ (f.fn = "client_send" => f.force = top.force)
        BY <2>1 DEF Same
      <4> QED
        BY <4>1, <4>2
    <3>2. CASE Len(stack) # 1
      <4>1. 1 \in 1 .. Len(stack) - 1
        <5>1. Len(stack) \in Nat /\ Len(stack) > 0
          BY <1>0, <2>2
        <5>2. \A n \in Nat : n > 0 /\ n # 1 => 1 \in 1 .. n - 1
          OBVIOUS
        <5> QED
          BY <3>2, <5>1, <5>2
      <4> QED
        BY <2>2, <4>1
    <3> QED
      BY <3>1, <3>2
  <2>4. ASSUME NEW k \in 1 .. Len(stack') - 1
        PROVE  Calls(stack'[k], stack'[k + 1])
    <3>1. k \in 1 .. Len(stack)
      BY <1>0, <2>2
    <3>2. CASE k = Len(stack)
      BY <2>1, <2>2, <3>2
    <3>3. CASE k # Len(stack)
      <4>1. k \in 1 .. Len(stack) - 1 /\ stack'[k] = stack[k] /\ Calls(stack[k], stack[k + 1])
        <5>1. k \in 1 .. Len(stack) - 1
          BY <1>0, <3>1, <3>3
        <5> QED
          BY <2>2, <5>1 DEF Shape
      <4>2. CASE k + 1 = Len(stack)
        BY <2>1, <2>2, <4>1, <4>2, SameIsCalled DEF top
      <4>3. CASE k + 1 # Len(stack)
        <5>1. k + 1 \in 1 .. Len(stack) - 1
          BY <1>0, <4>1, <4>3
        <5> QED
          BY <2>2, <4>1, <5>1
      <4> QED
        BY <4>2, <4>3
    <3> QED
      BY <3>2, <3>3
  <2> QED
    BY <2>2, <2>3, <2>4 DEF Shape
<1>3. CASE Pops
  <2>1. /\ stack # <<>> /\ Len(stack') = Len(stack) - 1
        /\ \A k \in 1 .. Len(stack) - 1 : stack'[k] = stack[k]
    BY <1>3 DEF Pops
  <2>2. stack' # <<>> => stack'[1] = stack[1]
    <3>1. stack' # <<>> => 1 \in 1 .. Len(stack) - 1
      BY <1>0, <2>1
    <3> QED
      BY <2>1, <3>1
  <2>3. ASSUME NEW k \in 1 .. Len(stack') - 1
        PROVE  Calls(stack'[k], stack'[k + 1])
    <3>1. k \in 1 .. Len(stack) - 1 /\ k + 1 \in 1 .. Len(stack) - 1
      BY <1>0, <2>1
    <3> QED
      BY <2>1, <3>1 DEF Shape
  <2> QED
    BY <2>1, <2>2, <2>3 DEF Shape
<1>4. CASE Starts
  <2>1. ASSUME NEW k \in 1 .. Len(stack') - 1
        PROVE  Calls(stack'[k], stack'[k + 1])
    <3>0. Len(stack') \in {1, 2}
      BY <1>4 DEF Starts
    <3>1. \A n \in {1, 2} : \A m \in 1 .. n - 1 : n = 2 /\ m = 1
      OBVIOUS
    <3>2. Len(stack') = 2 /\ k = 1
      BY <3>0, <3>1
    <3> QED
      BY <1>4, <3>2 DEF Starts
  <2> QED
    BY <1>4, <2>1 DEF Starts, Shape
<1>5. CASE UNCHANGED stack
  BY <1>5 DEF Shape
<1> QED
  BY <1>1, <1>2, <1>3, <1>4, <1>5 DEF StackStep

(* What is in progress where: an event's handler at the bottom, a flush    *)
(* above it, its messages above that; a log message only at the bottom.    *)
LEMMA NestingIs ==
  ASSUME stack \in Seq(Frame), Shape, NEW k \in 1 .. Len(stack)
  PROVE  /\ stack[k].fn = "send_ringbuffer" =>
              /\ k = 2
              /\ \/ stack[1].fn = "client_connect" /\ stack[1].pc = "flushed"
                 \/ stack[1].fn = "one_s_timer"
         /\ Forced(stack[k]) =>
              k = 3 /\ stack[2].fn = "send_ringbuffer" /\ stack[2].pc = "sent"
         /\ stack[k].fn \in {"client_connect", "one_s_timer", "sixty_s_timer", "user_overflow"} =>
              k = 1
         /\ stack[k].fn = "client_send" /\ k > 1 =>
              stack[k].force \/ stack[k].msg.kind # "log"
         /\ stack[k].fn = "close_socket" /\ k > 1 =>
              stack[k - 1].fn = "client_send" /\ stack[k - 1].pc = "loop"
         /\ k < Len(stack) =>
              /\ stack[k].fn = "close_socket" => stack[k].pc # "start"
              /\ stack[k].fn = "send_ringbuffer" => stack[k].pc = "sent"
              /\ stack[k].fn = "client_send" => stack[k].pc \in {"loop", "reported"}
<1>0. Len(stack) \in Nat /\ k \in Nat
  OBVIOUS
<1>c. ASSUME NEW m \in 1 .. Len(stack), m > 1
      PROVE  m - 1 \in 1 .. Len(stack) /\ Calls(stack[m - 1], stack[m])
  <2>1. m - 1 \in 1 .. Len(stack) - 1 /\ (m - 1) + 1 = m /\ m - 1 \in 1 .. Len(stack)
    BY <1>0, <1>c
  <2> QED
    BY <2>1 DEF Shape
<1>1. ASSUME NEW m \in 1 .. Len(stack),
             stack[m].fn \in {"client_connect", "one_s_timer", "sixty_s_timer", "user_overflow"}
      PROVE  m = 1
  <2>1. CASE m > 1
    BY <1>1, <1>c, <2>1 DEF Calls, Plain
  <2> QED
    BY <2>1
<1>2. ASSUME NEW m \in 1 .. Len(stack), stack[m].fn = "send_ringbuffer"
      PROVE  /\ m = 2
             /\ \/ stack[1].fn = "client_connect" /\ stack[1].pc = "flushed"
                \/ stack[1].fn = "one_s_timer"
  <2>1. m # 1 /\ m > 1
    BY <1>0, <1>2 DEF Shape
  <2>2. m - 1 \in 1 .. Len(stack) /\ Calls(stack[m - 1], stack[m])
    BY <1>c, <2>1
  <2>3. \/ stack[m - 1].fn = "client_connect" /\ stack[m - 1].pc = "flushed"
        \/ stack[m - 1].fn = "one_s_timer"
    BY <1>2, <2>2 DEF Calls, Plain
  <2>4. m - 1 = 1
    BY <1>1, <2>2, <2>3
  <2>5. m = 2
    BY <2>1, <2>4
  <2> QED
    BY <2>3, <2>4, <2>5
<1>3. ASSUME Forced(stack[k])
      PROVE  k = 3 /\ stack[2].fn = "send_ringbuffer" /\ stack[2].pc = "sent"
  <2>1. k # 1 /\ k > 1
    BY <1>0, <1>3 DEF Shape, Forced
  <2>2. k - 1 \in 1 .. Len(stack) /\ Calls(stack[k - 1], stack[k])
    BY <1>c, <2>1
  <2>3. stack[k - 1].fn = "send_ringbuffer" /\ stack[k - 1].pc = "sent"
    BY <1>3, <2>2 DEF Calls, Plain, Forced
  <2>4. k - 1 = 2
    BY <1>2, <2>2, <2>3
  <2>5. k = 3
    BY <1>0, <2>4
  <2> QED
    BY <2>3, <2>4, <2>5
<1>4. ASSUME stack[k].fn = "client_send", k > 1
      PROVE  stack[k].force \/ stack[k].msg.kind # "log"
  BY <1>4, <1>c DEF Calls, Plain
<1>5. ASSUME stack[k].fn = "close_socket", k > 1
      PROVE  stack[k - 1].fn = "client_send" /\ stack[k - 1].pc = "loop"
  BY <1>5, <1>c DEF Calls, Plain
<1>6. ASSUME k < Len(stack)
      PROVE  /\ stack[k].fn = "close_socket" => stack[k].pc # "start"
             /\ stack[k].fn = "send_ringbuffer" => stack[k].pc = "sent"
             /\ stack[k].fn = "client_send" => stack[k].pc \in {"loop", "reported"}
  <2>1. k \in 1 .. Len(stack) - 1
    BY <1>0, <1>6
  <2>2. Calls(stack[k], stack[k + 1])
    BY <2>1 DEF Shape
  <2> QED
    BY <2>2 DEF Calls
<1> QED
  BY <1>1, <1>2, <1>3, <1>4, <1>5, <1>6

-----------------------------------------------------------------------------
(* An event's handler starts.                                              *)
LEMMA OneCall ==
  ASSUME NEW f \in Frame, stack' = <<f>>
  PROVE  stack' \in Seq(Frame) /\ Len(stack') = 1 /\ stack'[1] = f
OBVIOUS

(* A handler that starts and calls.                                        *)
LEMMA TwoCalls ==
  ASSUME NEW f \in Frame, NEW g \in Frame, stack' = <<f, g>>
  PROVE  stack' \in Seq(Frame) /\ Len(stack') = 2 /\ stack'[1] = f /\ stack'[2] = g
OBVIOUS

(* The calls with which each handler starts: a client connects,            *)
LEMMA ConnectIs ==
  ASSUME NEW c \in Client, dlt_daemon_process_client_connect(c)
  PROVE  /\ stack = <<>> /\ stack' \in Seq(Frame) /\ Len(stack') = 1 /\ stack'[1] \in Frame
         /\ stack'[1].fn = "client_connect" /\ stack'[1].pc = "announce"
<1> DEFINE k == 1 + VersionMessages * (1 + TimezoneMessages)
<1>1. k \in 0 .. 3
  BY FlagAssumption DEF VersionMessages, TimezoneMessages
<1>2. stack = <<>> /\ stack' = <<ConnectFrame(k)>>
  BY DEF dlt_daemon_process_client_connect, Idle
<1> HIDE DEF k
<1>3. ConnectFrame(k) \in Frame
  BY <1>1, NewFrames
<1>4. ConnectFrame(k).fn = "client_connect" /\ ConnectFrame(k).pc = "announce"
  BY DEF ConnectFrame
<1> QED
  BY <1>2, <1>3, <1>4, OneCall

(* a client or an application is gone,                                     *)
LEMMA GoneIs ==
  ASSUME TypeOK, AppGone \/ \E i \in 1 .. Len(clients) : ClientGone(i)
  PROVE  /\ stack = <<>> /\ stack' \in Seq(Frame) /\ Len(stack') = 1 /\ stack'[1] \in Frame
         /\ stack'[1].fn = "close_socket" /\ stack'[1].pc = "start"
<1>1. \E s \in Client \cup {App} : stack = <<>> /\ stack' = <<CloseFrame(s)>>
  <2>1. CASE AppGone
    BY <2>1 DEF AppGone, Idle
  <2>2. CASE \E i \in 1 .. Len(clients) : ClientGone(i)
    <3>1. PICK i \in 1 .. Len(clients) : ClientGone(i)
      BY <2>2
    <3>2. clients[i] \in Client
      BY DEF TypeOK
    <3> QED
      BY <3>1, <3>2 DEF ClientGone, Idle
  <2> QED
    BY <2>1, <2>2
<1>2. PICK s \in Client \cup {App} : stack = <<>> /\ stack' = <<CloseFrame(s)>>
  BY <1>1
<1>3. CloseFrame(s) \in Frame
  BY NewFrames
<1>4. CloseFrame(s).fn = "close_socket" /\ CloseFrame(s).pc = "start"
  BY DEF CloseFrame
<1> QED
  BY <1>2, <1>3, <1>4, OneCall

(* a log message arrives,                                                  *)
LEMMA LogIs ==
  ASSUME TypeOK, dlt_daemon_process_user_message_log
  PROVE  /\ stack = <<>> /\ stack' \in Seq(Frame) /\ Len(stack') = 1 /\ stack'[1] \in Frame
         /\ stack'[1] = SendFrame(FALSE, LogMsg(logs + 1))
<1>1. stack = <<>> /\ stack' = <<SendFrame(FALSE, LogMsg(logs + 1))>>
  BY DEF dlt_daemon_process_user_message_log, Idle
<1>2. logs + 1 \in Nat
  BY DEF TypeOK
<1>3. SendFrame(FALSE, LogMsg(logs + 1)) \in Frame
  BY <1>2, NewFrames
<1> QED
  BY <1>1, <1>3, OneCall

(* an application reports losses,                                          *)
LEMMA OverflowIs ==
  ASSUME NEW n \in 1 .. MaxUserOverflow, dlt_daemon_process_user_message_overflow(n)
  PROVE  /\ stack = <<>> /\ stack' \in Seq(Frame) /\ Len(stack') = 2
         /\ stack'[1] \in Frame /\ stack'[2] \in Frame
         /\ stack'[1] = OverflowFrame(n) /\ stack'[2] = SendFrame(FALSE, OverflowMsg(n))
<1>1. stack = <<>> /\ stack' = <<OverflowFrame(n), SendFrame(FALSE, OverflowMsg(n))>>
  BY DEF dlt_daemon_process_user_message_overflow, Idle
<1>2. n \in Nat
  BY BoundAssumption
<1>3. OverflowFrame(n) \in Frame /\ SendFrame(FALSE, OverflowMsg(n)) \in Frame
  BY <1>2, NewFrames
<1> QED
  BY <1>1, <1>3, TwoCalls

(* a second has passed,                                                    *)
LEMMA OneSecondIs ==
  ASSUME dlt_daemon_process_one_s_timer
  PROVE  /\ stack = <<>> /\ stack' \in Seq(Frame)
         /\ stack'[1] \in Frame /\ stack'[1].fn = "one_s_timer" /\ stack'[1].pc = "start"
         /\ \/ ~MustFlush /\ Len(stack') = 1
            \/ /\ MustFlush /\ Len(stack') = 2 /\ stack'[2] \in Frame
               /\ stack'[2].fn = "send_ringbuffer" /\ stack'[2].pc = "start"
<1>1. /\ stack = <<>>
      /\ \/ ~MustFlush /\ stack' = <<OneSecondFrame>>
         \/ MustFlush /\ stack' = <<OneSecondFrame, RingFrame>>
  BY DEF dlt_daemon_process_one_s_timer, Idle
<1>2. OneSecondFrame.fn = "one_s_timer" /\ OneSecondFrame.pc = "start"
  BY DEF OneSecondFrame
<1>3. RingFrame.fn = "send_ringbuffer" /\ RingFrame.pc = "start"
  BY DEF RingFrame
<1>4. CASE ~MustFlush /\ stack' = <<OneSecondFrame>>
  BY <1>1, <1>2, <1>4, NewFrames, OneCall
<1>5. CASE MustFlush /\ stack' = <<OneSecondFrame, RingFrame>>
  BY <1>1, <1>2, <1>3, <1>5, NewFrames, TwoCalls
<1> QED
  BY <1>1, <1>4, <1>5

(* and a minute.                                                           *)
LEMMA SixtySecondIs ==
  ASSUME dlt_daemon_process_sixty_s_timer
  PROVE  /\ stack = <<>> /\ stack' \in Seq(Frame) /\ Len(stack') = 1 /\ stack'[1] \in Frame
         /\ stack'[1].fn = "sixty_s_timer"
<1> DEFINE k == VersionMessages + TimezoneMessages
<1>1. k \in 0 .. 2
  BY FlagAssumption DEF VersionMessages, TimezoneMessages
<1>2. stack = <<>> /\ stack' = <<SixtySecondFrame(k)>>
  BY DEF dlt_daemon_process_sixty_s_timer, Idle
<1> HIDE DEF k
<1>3. SixtySecondFrame(k) \in Frame
  BY <1>1, NewFrames
<1>4. SixtySecondFrame(k).fn = "sixty_s_timer"
  BY DEF SixtySecondFrame
<1> QED
  BY <1>2, <1>3, <1>4, OneCall

(* The events that leave everything but the stack and the history alone.   *)
Events ==
    \/ \E c \in Client : dlt_daemon_process_client_connect(c)
    \/ \E i \in 1 .. Len(clients) : ClientGone(i)
    \/ AppGone
    \/ dlt_daemon_process_user_message_log
    \/ \E n \in 1 .. MaxUserOverflow : dlt_daemon_process_user_message_overflow(n)
    \/ dlt_daemon_process_one_s_timer
    \/ dlt_daemon_process_sixty_s_timer

(* No handler starts before the last one is done.                          *)
LEMMA EventsStart ==
  ASSUME TypeOK, Events
  PROVE  stack = <<>> /\ stack' \in Seq(Frame) /\ Starts
<1>1. ASSUME NEW c \in Client, dlt_daemon_process_client_connect(c)
      PROVE  stack = <<>> /\ stack' \in Seq(Frame) /\ Starts
  BY <1>1, ConnectIs DEF Starts
<1>2. CASE AppGone \/ \E i \in 1 .. Len(clients) : ClientGone(i)
  BY <1>2, GoneIs DEF Starts
<1>3. CASE dlt_daemon_process_user_message_log
  <2>1. stack'[1].fn = "client_send" /\ ~stack'[1].force
    BY <1>3, LogIs DEF SendFrame
  <2> QED
    BY <1>3, <2>1, LogIs DEF Starts
<1>4. ASSUME NEW n \in 1 .. MaxUserOverflow, dlt_daemon_process_user_message_overflow(n)
      PROVE  stack = <<>> /\ stack' \in Seq(Frame) /\ Starts
  <2>1. /\ stack = <<>> /\ stack' \in Seq(Frame) /\ Len(stack') = 2
        /\ stack'[1] = OverflowFrame(n) /\ stack'[2] = SendFrame(FALSE, OverflowMsg(n))
    BY <1>4, OverflowIs
  <2>2. OverflowFrame(n).fn = "user_overflow"
    BY DEF OverflowFrame
  <2>3. Calls(OverflowFrame(n), SendFrame(FALSE, OverflowMsg(n)))
    BY DEF Calls, Plain, OverflowFrame, SendFrame, OverflowMsg
  <2> QED
    BY <2>1, <2>2, <2>3 DEF Starts
<1>5. CASE dlt_daemon_process_one_s_timer
  <2>1. Len(stack') = 2 => Calls(stack'[1], stack'[2])
    BY <1>5, OneSecondIs DEF Calls
  <2> QED
    BY <1>5, <2>1, OneSecondIs DEF Starts
<1>6. CASE dlt_daemon_process_sixty_s_timer
  BY <1>6, SixtySecondIs DEF Starts
<1> QED
  BY <1>1, <1>2, <1>3, <1>4, <1>5, <1>6 DEF Events

(* Every step makes, ends or goes on with a call where one may be.         *)
LEMMA SendingIsSame ==
  ASSUME NEW f, Sending(f)
  PROVE  Same(f) /\ f.fn = "client_send"
BY DEF Sending, Same

(* The calls that are made.                                                *)
LEMMA NewCalls ==
  /\ Plain(SendFrame(FALSE, DaemonMsg))
  /\ \A n : Plain(SendFrame(FALSE, OverflowMsg(n)))
  /\ \A m : SendFrame(TRUE, m).fn = "client_send" /\ SendFrame(TRUE, m).force
  /\ \A c : CloseFrame(c).fn = "close_socket"
  /\ RingFrame.fn = "send_ringbuffer"
BY DEF Plain, SendFrame, DaemonMsg, OverflowMsg, CloseFrame, RingFrame

(* What every step does to the calls in progress.                          *)
LEMMA StackSteps ==
  ASSUME TypeOK, StateSound, FramesSound, Next
  PROVE  stack' \in Seq(Frame) /\ StackStep
<1>1. CASE Events
  BY <1>1, EventsStart DEF StackStep
<1>2. CASE \E on \in BOOLEAN : dlt_daemon_control_set_timing_packets(on)
  BY <1>2 DEF dlt_daemon_control_set_timing_packets, StackStep, TypeOK
<1>3. CASE SendStart
  <2>1. stack' \in Seq(Frame) /\ \E f : Sending(f) /\ Replaces(f)
    BY <1>3, SendStartIs
  <2> QED
    BY <2>1, SendingIsSame DEF StackStep
<1>4. CASE SendToClient
  <2>1. stack' \in Seq(Frame) /\ \E f : Sending(f) /\ Replaces(f)
    BY <1>4, SendToClientIs
  <2> QED
    BY <2>1, SendingIsSame DEF StackStep
<1>5. CASE SendFails
  <2> DEFINE g == CloseFrame(clients[top.i])
  <2>1. /\ stack' \in Seq(Frame) /\ clients[top.i] \in Client
        /\ \E f : Sending(f) /\ Pushes(f, g) /\ f.pc = "loop"
    <3>1. clients[top.i] \in Client
      BY <1>5, SendFailsIs DEF TypeOK, Range
    <3> QED
      BY <1>5, <3>1, SendFailsIs
  <2>2. g \in Frame /\ g.fn = "close_socket"
    BY <2>1, NewFrames, NewCalls
  <2> HIDE DEF g
  <2>3. PICK f : Sending(f) /\ Pushes(f, g) /\ f.pc = "loop"
    BY <2>1
  <2>4. Same(f) /\ f.fn = "client_send"
    BY <2>3, SendingIsSame
  <2>5. Calls(f, g)
    BY <2>2, <2>3, <2>4 DEF Calls
  <2> QED
    BY <2>1, <2>2, <2>3, <2>4, <2>5 DEF StackStep
<1>6. CASE SendLoopDone
  <2>1. stack' \in Seq(Frame) /\ (Pops \/ \E f : Sending(f) /\ Replaces(f))
    BY <1>6, SendLoopDoneIs
  <2> QED
    BY <2>1, SendingIsSame DEF StackStep
<1>7. CASE SendReport
  <2> DEFINE g == SendFrame(FALSE, OverflowMsg(overflow_counter))
  <2>1. /\ stack' \in Seq(Frame)
        /\ Pops \/ \E f : Sending(f) /\ Pushes(f, g) /\ f.pc = "reported"
    BY <1>7, SendReportIs
  <2>2. g \in Frame /\ Plain(g)
    BY NewFrames, NewCalls DEF TypeOK
  <2> HIDE DEF g
  <2>3. CASE \E f : Sending(f) /\ Pushes(f, g) /\ f.pc = "reported"
    <3>1. PICK f : Sending(f) /\ Pushes(f, g) /\ f.pc = "reported"
      BY <2>3
    <3>2. Same(f) /\ f.fn = "client_send"
      BY <3>1, SendingIsSame
    <3>3. Calls(f, g)
      BY <2>2, <3>1, <3>2 DEF Calls
    <3> QED
      BY <2>1, <2>2, <3>1, <3>2, <3>3 DEF StackStep
  <2> QED
    BY <2>1, <2>3 DEF StackStep
<1>8. CASE Returning
  BY <1>8, ReturningIs DEF StackStep, StateSound
<1>9. CASE CloseUnregister \/ CloseInfoSent
  <2> DEFINE g == SendFrame(FALSE, DaemonMsg)
  <2>1. /\ stack' \in Seq(Frame)
        /\ \E f : /\ f \in Frame /\ Pushes(f, g) /\ top.fn = "close_socket"
                  /\ f.fn = "close_socket" /\ f.pc # "start"
    BY <1>9, CloseCallsIs
  <2>2. g \in Frame /\ Plain(g)
    BY NewFrames, NewCalls
  <2> HIDE DEF g
  <2>3. PICK f : /\ f \in Frame /\ Pushes(f, g) /\ top.fn = "close_socket"
                 /\ f.fn = "close_socket" /\ f.pc # "start"
    BY <2>1
  <2>4. Same(f) /\ Calls(f, g)
    BY <2>2, <2>3 DEF Same, Calls
  <2> QED
    BY <2>1, <2>2, <2>3, <2>4 DEF StackStep
<1>10. CASE RingStart
  <2> DEFINE g == SendFrame(TRUE, client_ringbuffer[1])
  <2>1. /\ stack' \in Seq(Frame)
        /\ Pops \/ /\ client_ringbuffer # <<>>
                   /\ \E f : /\ f \in Frame /\ Pushes(f, g)
                             /\ f.fn = "send_ringbuffer" /\ f.pc = "sent"
    BY <1>10, RingStartIs
  <2>2. CASE client_ringbuffer # <<>> /\ \E f : /\ f \in Frame /\ Pushes(f, g)
                                               /\ f.fn = "send_ringbuffer" /\ f.pc = "sent"
    <3>0. client_ringbuffer[1] \in Message
      BY <2>2 DEF TypeOK
    <3>1. g \in Frame /\ g.fn = "client_send" /\ g.force
      BY <3>0, NewFrames, NewCalls
    <3> HIDE DEF g
    <3>2. PICK f : /\ f \in Frame /\ Pushes(f, g)
                   /\ f.fn = "send_ringbuffer" /\ f.pc = "sent"
      BY <2>2
    <3>3. top.fn = "send_ringbuffer"
      BY <1>10 DEF RingStart, At
    <3>4. Same(f) /\ Calls(f, g)
      BY <3>1, <3>2, <3>3 DEF Same, Calls
    <3> QED
      BY <2>1, <3>1, <3>2, <3>4 DEF StackStep
  <2> QED
    BY <2>1, <2>2 DEF StackStep
<1>11. CASE RingSent
  <2>0. stack # <<>> /\ top.fn = "send_ringbuffer" /\ top.pc = "sent"
    BY <1>11 DEF RingSent, At
  <2>r. client_ringbuffer # <<>>
    <3>1. FrameSound(top)
      BY <2>0, StackIs DEF FramesSound, TypeOK, top
    <3> QED
      BY <2>0, <3>1 DEF FrameFits, FrameSound
  <2> DEFINE g == SendFrame(TRUE, client_ringbuffer[2])
  <2>1. /\ stack' \in Seq(Frame) /\ top \in Frame
        /\ Pops \/ (Len(client_ringbuffer) > 1 /\ Pushes(top, g))
    BY <1>11, <2>r, RingSentIs
  <2>2. CASE Len(client_ringbuffer) > 1 /\ Pushes(top, g)
    <3>0. client_ringbuffer[2] \in Message
      BY <2>2 DEF TypeOK
    <3>1. g \in Frame /\ g.fn = "client_send" /\ g.force
      BY <3>0, NewFrames, NewCalls
    <3> HIDE DEF g
    <3>2. Same(top) /\ Calls(top, g)
      BY <2>0, <2>1, <3>1 DEF Same, Calls
    <3> QED
      BY <2>1, <2>2, <3>1, <3>2 DEF StackStep
  <2> QED
    BY <2>1, <2>2 DEF StackStep
<1>12. CASE ConnectAnnounced
  <2>1. /\ stack' \in Seq(Frame)
        /\ Pops \/ \E f : /\ f \in Frame /\ Pushes(f, RingFrame)
                          /\ f.fn = "client_connect" /\ f.pc = "flushed"
    BY <1>12, ConnectAnnouncedIs
  <2>2. top.fn = "client_connect"
    BY <1>12 DEF ConnectAnnounced, At
  <2>3. CASE \E f : /\ f \in Frame /\ Pushes(f, RingFrame)
                    /\ f.fn = "client_connect" /\ f.pc = "flushed"
    <3>1. PICK f : /\ f \in Frame /\ Pushes(f, RingFrame)
                   /\ f.fn = "client_connect" /\ f.pc = "flushed"
      BY <2>3
    <3>2. Same(f) /\ Calls(f, RingFrame) /\ RingFrame \in Frame
      BY <2>2, <3>1, NewFrames, NewCalls DEF Same, Calls
    <3> QED
      BY <2>1, <3>1, <3>2 DEF StackStep
  <2> QED
    BY <2>1, <2>3 DEF StackStep
<1>13. CASE OneSecondTime
  <2> DEFINE g == SendFrame(FALSE, DaemonMsg)
  <2>1. /\ stack' \in Seq(Frame)
        /\ Pops \/ \E f : /\ f \in Frame /\ Pushes(f, g)
                          /\ f.fn = "one_s_timer" /\ f.pc = "time"
    BY <1>13, OneSecondTimeIs
  <2>2. top.fn = "one_s_timer"
    BY <1>13 DEF OneSecondTime, At
  <2>g. g \in Frame /\ Plain(g)
    BY NewFrames, NewCalls
  <2> HIDE DEF g
  <2>3. CASE \E f : /\ f \in Frame /\ Pushes(f, g)
                    /\ f.fn = "one_s_timer" /\ f.pc = "time"
    <3>1. PICK f : /\ f \in Frame /\ Pushes(f, g)
                   /\ f.fn = "one_s_timer" /\ f.pc = "time"
      BY <2>3
    <3>2. Same(f) /\ Calls(f, g)
      BY <2>2, <2>g, <3>1 DEF Same, Calls
    <3> QED
      BY <2>1, <2>g, <3>1, <3>2 DEF StackStep
  <2> QED
    BY <2>1, <2>3 DEF StackStep
<1>14. CASE Announce("client_connect") \/ Announce("sixty_s_timer")
  <2> DEFINE g == SendFrame(FALSE, DaemonMsg)
  <2>1. PICK fn \in {"client_connect", "sixty_s_timer"} : Announce(fn)
    BY <1>14
  <2>2. /\ stack' \in Seq(Frame)
        /\ \E f : f \in Frame /\ Pushes(f, g) /\ f.fn = fn /\ top.fn = fn /\ f.pc = "announce"
    BY <2>1, AnnounceIs
  <2>g. g \in Frame /\ Plain(g)
    BY NewFrames, NewCalls
  <2> HIDE DEF g
  <2>3. PICK f : f \in Frame /\ Pushes(f, g) /\ f.fn = fn /\ top.fn = fn /\ f.pc = "announce"
    BY <2>2
  <2>4. Same(f) /\ Calls(f, g)
    BY <2>g, <2>3 DEF Same, Calls
  <2> QED
    BY <2>2, <2>g, <2>3, <2>4 DEF StackStep
<1> QED
  BY <1>1, <1>2, <1>3, <1>4, <1>5, <1>6, <1>7, <1>8, <1>9, <1>10, <1>11, <1>12, <1>13, <1>14
     DEF Next, Step, Events, Returning, dlt_daemon_client_send, dlt_daemon_close_socket,
         dlt_daemon_send_ringbuffer_to_client

-----------------------------------------------------------------------------
(* Types are kept.                                                         *)
ListsTyped ==
    /\ clients \in Seq(Client) /\ IsInjective(clients)
    /\ client_ringbuffer \in Seq(Message) /\ Len(client_ringbuffer) <= RingSize
    /\ delivered \in [Client -> Seq(Nat)] /\ connected \in SUBSET Client
ScalarsTyped ==
    /\ state \in {"INIT", "BUFFER", "BUFFER_FULL", "SEND_BUFFER", "SEND_DIRECT"}
    /\ connectionState \in {0, 1} /\ logState \in {0, 1}
    /\ overflow_counter \in Nat /\ timingpackets \in BOOLEAN
    /\ ret \in {ERROR_OK, ERROR_UNKNOWN, ERROR_BUFFER_FULL, ERROR_SEND_FAILED}
    /\ logs \in Nat /\ sixty \in Nat /\ appsGone \in Nat
    /\ discarded \in SUBSET Nat /\ userLost \in Nat /\ reported \in Nat

(* The parts of the type invariant.                                        *)
LEMMA TypeParts ==
  /\ TypeOK <=> ListsTyped /\ ScalarsTyped /\ stack \in Seq(Frame)
  /\ TypeOK' <=> ListsTyped' /\ ScalarsTyped' /\ stack' \in Seq(Frame)
BY DEF TypeOK, ListsTyped, ScalarsTyped

(* What the innermost call of dlt_daemon_client_send sends.                *)
LEMMA TopSends ==
  ASSUME TypeOK, NEW pc, At("client_send", pc)
  PROVE  /\ stack # <<>> /\ top \in Frame /\ top.fn = "client_send" /\ top.pc = pc
         /\ top.msg \in Message /\ top.msg.id \in Nat /\ top.i \in Nat \ {0}
         /\ top.force \in BOOLEAN /\ top.sent \in BOOLEAN
<1>1. stack # <<>> /\ top \in Frame /\ top.fn = "client_send" /\ top.pc = pc
  BY StackIs DEF At, TypeOK
<1>2. /\ top.msg \in Message /\ top.i \in Nat \ {0}
      /\ top.force \in BOOLEAN /\ top.sent \in BOOLEAN
  BY <1>1, FrameIs
<1>3. top.msg.id \in Nat
  BY <1>2 DEF Message
<1> QED
  BY <1>1, <1>2, <1>3

(* What one client gets.                                                   *)
LEMMA DeliveredIs ==
  ASSUME TypeOK, SendToClient
  PROVE  /\ top.i \in 1 .. Len(clients) /\ clients[top.i] \in Client
         /\ \A c \in Client :
              delivered'[c] = IF top.msg.kind = "log" /\ c = clients[top.i]
                              THEN Append(delivered[c], top.msg.id) ELSE delivered[c]
         /\ delivered' \in [Client -> Seq(Nat)]
<1>1. /\ stack # <<>> /\ top \in Frame /\ top.msg.id \in Nat /\ top.i \in Nat \ {0}
  BY TopSends DEF SendToClient
<1>2. top.i \in 1 .. Len(clients) /\ clients[top.i] \in Client
  <2>1. clients \in Seq(Client)
    BY DEF TypeOK
  <2>2. top.i <= Len(clients)
    BY DEF SendToClient
  <2>3. \A q \in Seq(Client), i \in Nat \ {0} : i <= Len(q) => i \in 1 .. Len(q) /\ q[i] \in Client
    OBVIOUS
  <2> QED
    BY <1>1, <2>1, <2>2, <2>3
<1>3. delivered \in [Client -> Seq(Nat)]
  BY DEF TypeOK
<1>4. delivered' = IF top.msg.kind = "log"
                   THEN [delivered EXCEPT ![clients[top.i]] = Append(@, top.msg.id)]
                   ELSE delivered
  BY DEF SendToClient
<1> HIDE DEF top
<1>5. \A q \in Seq(Nat) : Append(q, top.msg.id) \in Seq(Nat)
  BY <1>1
<1> QED
  BY <1>2, <1>3, <1>4, <1>5

(* Who is left when a client is taken out of the list.                     *)
LEMMA ClientsLeft ==
  ASSUME TypeOK, CloseUnregister
  PROVE  /\ clients' \in Seq(Client) /\ IsInjective(clients)'
         /\ \/ clients' = clients /\ top.sock \notin Range(clients)
            \/ /\ Len(clients') = Len(clients) - 1 /\ top.sock \in Range(clients)
               /\ \E k \in 1 .. Len(clients) :
                     /\ clients[k] = top.sock
                     /\ \A j \in 1 .. k - 1 : clients'[j] = clients[j]
                     /\ \A j \in k .. Len(clients) - 1 : clients'[j] = clients[j + 1]
<1>1. clients \in Seq(Client) /\ IsInjective(clients) /\ clients' = RemoveFirst(clients, top.sock)
  BY DEF TypeOK, CloseUnregister
<1>2. /\ clients' \in Seq(Client)
      /\ \/ clients' = clients /\ \A j \in 1 .. Len(clients) : clients[j] # top.sock
         \/ \E k \in 1 .. Len(clients) :
               /\ clients[k] = top.sock /\ Len(clients') = Len(clients) - 1
               /\ \A j \in 1 .. k - 1 : clients'[j] = clients[j]
               /\ \A j \in k .. Len(clients) - 1 : clients'[j] = clients[j + 1]
  <2> DEFINE r == RemoveFirst(clients, top.sock)
  <2>1. /\ r \in Seq(Client)
        /\ \/ r = clients /\ \A j \in 1 .. Len(clients) : clients[j] # top.sock
           \/ \E k \in 1 .. Len(clients) :
                 /\ clients[k] = top.sock /\ Len(r) = Len(clients) - 1
                 /\ \A j \in 1 .. k - 1 : r[j] = clients[j]
                 /\ \A j \in k .. Len(clients) - 1 : r[j] = clients[j + 1]
    <3>1. PICK e : e = top.sock
      OBVIOUS
    <3>2. clients \in Seq(Client)
      BY <1>1
    <3> QED
      BY <3>1, <3>2, RemoveFirstIs
  <2>2. clients' = r
    BY <1>1
  <2> HIDE DEF r
  <2> QED
    BY <2>1, <2>2
<1>i. \A i, j \in 1 .. Len(clients) : clients[i] = clients[j] => i = j
  BY <1>1 DEF IsInjective
<1>3. CASE clients' = clients /\ \A j \in 1 .. Len(clients) : clients[j] # top.sock
  BY <1>1, <1>2, <1>3 DEF IsInjective, Range
<1>4. CASE \E k \in 1 .. Len(clients) :
               /\ clients[k] = top.sock /\ Len(clients') = Len(clients) - 1
               /\ \A j \in 1 .. k - 1 : clients'[j] = clients[j]
               /\ \A j \in k .. Len(clients) - 1 : clients'[j] = clients[j + 1]
  <2>1. PICK k \in 1 .. Len(clients) :
               /\ clients[k] = top.sock /\ Len(clients') = Len(clients) - 1
               /\ \A j \in 1 .. k - 1 : clients'[j] = clients[j]
               /\ \A j \in k .. Len(clients) - 1 : clients'[j] = clients[j + 1]
    BY <1>4
  <2>2. top.sock \in Range(clients)
    BY <1>1, <2>1 DEF Range
  <2>3. ASSUME NEW i \in 1 .. Len(clients'), NEW j \in 1 .. Len(clients'),
               clients'[i] = clients'[j]
        PROVE  i = j
    <3>0. Len(clients) \in Nat /\ i \in 1 .. Len(clients) - 1 /\ j \in 1 .. Len(clients) - 1
      BY <1>1, <2>1
    <3>1. \A m \in 1 .. Len(clients) - 1 :
             \/ m < k /\ m \in 1 .. Len(clients) /\ clients'[m] = clients[m]
             \/ m >= k /\ m + 1 \in 1 .. Len(clients) /\ clients'[m] = clients[m + 1]
      <4>1. ASSUME NEW m \in 1 .. Len(clients) - 1
            PROVE  \/ m \in 1 .. k - 1 /\ m \in 1 .. Len(clients) /\ m < k
                   \/ m \in k .. Len(clients) - 1 /\ m + 1 \in 1 .. Len(clients) /\ m >= k
        BY <3>0
      <4> QED
        BY <2>1, <4>1
    <3>2. CASE i < k /\ j < k
      BY <1>i, <2>3, <3>0, <3>1, <3>2
    <3>3. CASE i >= k /\ j >= k
      <4>1. i + 1 = j + 1
        BY <1>i, <2>3, <3>0, <3>1, <3>3
      <4> QED
        BY <3>0, <4>1
    <3>4. CASE i < k /\ j >= k
      <4>1. i = j + 1
        BY <1>i, <2>3, <3>0, <3>1, <3>4
      <4> QED
        BY <3>0, <3>4, <4>1
    <3>5. CASE i >= k /\ j < k
      <4>1. i + 1 = j
        BY <1>i, <2>3, <3>0, <3>1, <3>5
      <4> QED
        BY <3>0, <3>5, <4>1
    <3> QED
      BY <3>0, <3>2, <3>3, <3>4, <3>5
  <2>4. IsInjective(clients)'
    <3>1. DOMAIN clients' = 1 .. Len(clients')
      BY <1>2
    <3> QED
      BY <2>3, <3>1 DEF IsInjective
  <2> QED
    BY <1>2, <2>1, <2>2, <2>4
<1> QED
  BY <1>2, <1>3, <1>4

(* The variables with a number or a flag.                                  *)
LEMMA ScalarsKept ==
  ASSUME TypeOK, Next
  PROVE  ScalarsTyped'
<1> USE DEF ScalarsTyped, daemon, hist, Return
<1>0. ScalarsTyped
  BY TypeParts
<1>r. {ERROR_OK, ERROR_UNKNOWN, ERROR_BUFFER_FULL, ERROR_SEND_FAILED} = {0, 1, 2, 3}
  BY DEF ERROR_OK, ERROR_UNKNOWN, ERROR_BUFFER_FULL, ERROR_SEND_FAILED
<1>1. CASE SendStart \/ SendFails \/ CloseInfoSent
  BY <1>0, <1>1 DEF SendStart, SendFails, CloseInfoSent
<1>2. CASE SendToClient
  BY <1>0, <1>2 DEF SendToClient
<1>3. CASE SendLoopDone
  <2>1. top.msg.id \in Nat
    BY <1>3, TopSends DEF SendLoopDone
  <2>2. reported' \in Nat
    BY <1>0, <1>3, <2>1 DEF SendLoopDone
  <2>3. ret' \in {ERROR_OK, ERROR_UNKNOWN, ERROR_BUFFER_FULL, ERROR_SEND_FAILED}
    BY <1>0, <1>3 DEF SendLoopDone
  <2> QED
    BY <1>0, <1>3, <2>2, <2>3 DEF SendLoopDone
<1>4. CASE SendStore
  <2>1. top.msg.id \in Nat
    BY <1>4, TopSends DEF SendStore
  <2>2. reported' \in Nat
    BY <1>0, <1>4, <2>1 DEF SendStore
  <2> QED
    BY <1>0, <1>4, <2>2 DEF SendStore
<1>5. CASE SendDiscard
  <2>1. top.msg.id \in Nat
    BY <1>5, TopSends DEF SendDiscard
  <2>2. discarded' \in SUBSET Nat
    BY <1>0, <1>5, <2>1 DEF SendDiscard
  <2>3. overflow_counter' \in Nat
    BY <1>0, <1>5 DEF SendDiscard
  <2> QED
    BY <1>0, <1>5, <2>2, <2>3 DEF SendDiscard
<1>6. CASE SendReport \/ CloseReturn \/ OneSecondTime \/ TimerReturn
  BY <1>0, <1>6 DEF SendReport, CloseReturn, OneSecondTime, TimerReturn
<1>7. CASE SendReported
  BY <1>0, <1>7 DEF SendReported
<1>8. CASE CloseUnregister
  BY <1>0, <1>8 DEF CloseUnregister
<1>9. CASE RingStart \/ RingSent
  BY <1>0, <1>9 DEF RingStart, RingSent
<1>10. CASE ConnectAnnounced \/ ConnectFlushed
  BY <1>0, <1>10 DEF ConnectAnnounced, ConnectFlushed
<1>11. CASE UserOverflowSent
  <2>1. ret # ERROR_OK => top.n \in Nat
    BY <1>11, FrameIs, StackIs DEF UserOverflowSent, At, TypeOK
  <2> QED
    BY <1>0, <1>11, <2>1 DEF UserOverflowSent
<1>12. CASE Announce("client_connect") \/ Announce("sixty_s_timer")
  BY <1>0, <1>12 DEF Announce
<1>13. ASSUME NEW c \in Client, dlt_daemon_process_client_connect(c)
       PROVE  ScalarsTyped'
  BY <1>0, <1>13 DEF dlt_daemon_process_client_connect
<1>14. ASSUME NEW i \in 1 .. Len(clients), ClientGone(i)
       PROVE  ScalarsTyped'
  BY <1>0, <1>14 DEF ClientGone
<1>15. CASE AppGone
  BY <1>0, <1>15 DEF AppGone
<1>19. CASE dlt_daemon_process_user_message_log
  BY <1>0, <1>19 DEF dlt_daemon_process_user_message_log
<1>16. ASSUME NEW n \in 1 .. MaxUserOverflow, dlt_daemon_process_user_message_overflow(n)
       PROVE  ScalarsTyped'
  <2>1. userLost + n \in Nat
    BY <1>0, BoundAssumption
  <2> QED
    BY <1>0, <1>16, <2>1 DEF dlt_daemon_process_user_message_overflow
<1>17. CASE dlt_daemon_process_one_s_timer
  BY <1>0, <1>17 DEF dlt_daemon_process_one_s_timer
<1>20. CASE dlt_daemon_process_sixty_s_timer
  BY <1>0, <1>20 DEF dlt_daemon_process_sixty_s_timer
<1>18. ASSUME NEW on \in BOOLEAN, dlt_daemon_control_set_timing_packets(on)
       PROVE  ScalarsTyped'
  BY <1>0, <1>18 DEF dlt_daemon_control_set_timing_packets
<1> QED
  BY <1>1, <1>2, <1>3, <1>4, <1>5, <1>6, <1>7, <1>8, <1>9, <1>10, <1>11, <1>12, <1>13, <1>14,
     <1>15, <1>16, <1>17, <1>18, <1>19, <1>20
     DEF Next, Step, dlt_daemon_client_send, dlt_daemon_close_socket,
         dlt_daemon_send_ringbuffer_to_client

(* The steps that leave the clients, the ring buffer and what was delivered *)
(* alone.                                                                  *)
QuietStep ==
    \/ SendStart \/ SendFails \/ SendLoopDone \/ SendDiscard \/ SendReport \/ SendReported
    \/ CloseInfoSent \/ CloseReturn \/ RingStart
    \/ ConnectAnnounced \/ ConnectFlushed \/ UserOverflowSent \/ OneSecondTime \/ TimerReturn
    \/ Announce("client_connect") \/ Announce("sixty_s_timer")
    \/ (\E i \in 1 .. Len(clients) : ClientGone(i)) \/ AppGone
    \/ dlt_daemon_process_user_message_log
    \/ \E n \in 1 .. MaxUserOverflow : dlt_daemon_process_user_message_overflow(n)
    \/ dlt_daemon_process_one_s_timer \/ dlt_daemon_process_sixty_s_timer
    \/ \E on \in BOOLEAN : dlt_daemon_control_set_timing_packets(on)

(* They leave the lists alone.                                             *)
LEMMA QuietIs ==
  ASSUME QuietStep
  PROVE  UNCHANGED <<clients, client_ringbuffer, delivered, connected>>
<1> USE DEF daemon, hist
<1>1. CASE SendStart \/ SendFails \/ SendLoopDone \/ SendDiscard \/ SendReport \/ SendReported
  BY <1>1 DEF SendStart, SendFails, SendLoopDone, SendDiscard, SendReport, SendReported
<1>2. CASE CloseInfoSent \/ CloseReturn \/ RingStart
  BY <1>2 DEF CloseInfoSent, CloseReturn, RingStart
<1>3. CASE ConnectAnnounced \/ ConnectFlushed \/ UserOverflowSent \/ OneSecondTime \/ TimerReturn
  BY <1>3 DEF ConnectAnnounced, ConnectFlushed, UserOverflowSent, OneSecondTime, TimerReturn
<1>4. CASE Announce("client_connect") \/ Announce("sixty_s_timer")
  BY <1>4 DEF Announce
<1>5. ASSUME NEW i, ClientGone(i)
      PROVE  UNCHANGED <<clients, client_ringbuffer, delivered, connected>>
  BY <1>5 DEF ClientGone
<1>6. ASSUME NEW on, dlt_daemon_control_set_timing_packets(on)
      PROVE  UNCHANGED <<clients, client_ringbuffer, delivered, connected>>
  BY <1>6 DEF dlt_daemon_control_set_timing_packets
<1>7. ASSUME NEW n, dlt_daemon_process_user_message_overflow(n)
      PROVE  UNCHANGED <<clients, client_ringbuffer, delivered, connected>>
  BY <1>7 DEF dlt_daemon_process_user_message_overflow
<1>8. CASE \/ AppGone \/ dlt_daemon_process_user_message_log
           \/ dlt_daemon_process_one_s_timer \/ dlt_daemon_process_sixty_s_timer
  BY <1>8 DEF AppGone, dlt_daemon_process_user_message_log, dlt_daemon_process_one_s_timer,
              dlt_daemon_process_sixty_s_timer
<1> QED
  BY <1>1, <1>2, <1>3, <1>4, <1>5, <1>6, <1>7, <1>8 DEF QuietStep

(* The other steps.                                                        *)
LEMMA LoudIs ==
  ASSUME Next, ~QuietStep
  PROVE  \/ SendToClient \/ SendStore \/ CloseUnregister \/ RingSent
         \/ \E c \in Client : dlt_daemon_process_client_connect(c)
BY DEF Next, Step, QuietStep, dlt_daemon_client_send, dlt_daemon_close_socket,
       dlt_daemon_send_ringbuffer_to_client

(* The lists keep their types.                                             *)
LEMMA ListsKept ==
  ASSUME TypeOK, FramesSound, OrderSound, Next
  PROVE  ListsTyped'
<1>0. ListsTyped
  BY TypeParts
<1>1. CASE QuietStep
  <2>1. UNCHANGED <<clients, client_ringbuffer, delivered, connected>>
    BY <1>1, QuietIs
  <2> QED
    BY <1>0, <2>1 DEF ListsTyped
<1>2. CASE SendToClient
  <2>1. UNCHANGED <<clients, client_ringbuffer, connected>> /\ delivered' \in [Client -> Seq(Nat)]
    BY <1>2, DeliveredIs DEF SendToClient, daemon
  <2> QED
    BY <1>0, <2>1 DEF ListsTyped
<1>3. CASE SendStore
  <2>1. top.msg \in Message
    BY <1>3, TopSends DEF SendStore
  <2>2. client_ringbuffer' = Append(client_ringbuffer, top.msg) /\ Len(client_ringbuffer) < RingSize
    BY <1>0, <1>3, BoundAssumption DEF SendStore, RingFull, ListsTyped
  <2>3. client_ringbuffer' \in Seq(Message) /\ Len(client_ringbuffer') = Len(client_ringbuffer) + 1
    BY <1>0, <2>1, <2>2 DEF ListsTyped
  <2>4. Len(client_ringbuffer') <= RingSize
    BY <1>0, <2>2, <2>3, BoundAssumption DEF ListsTyped
  <2> QED
    BY <1>0, <1>3, <2>3, <2>4 DEF SendStore, ListsTyped
<1>4. CASE CloseUnregister
  <2>1. clients' \in Seq(Client) /\ IsInjective(clients)'
    BY <1>4, ClientsLeft
  <2>2. UNCHANGED <<client_ringbuffer, delivered, connected>>
    BY <1>4 DEF CloseUnregister, hist
  <2> QED
    BY <1>0, <2>1, <2>2 DEF ListsTyped
<1>5. CASE RingSent
  <2>1. client_ringbuffer # <<>>
    <3>1. stack # <<>> /\ top.fn = "send_ringbuffer" /\ top.pc = "sent"
      BY <1>5 DEF RingSent, At
    <3>2. FrameSound(top)
      BY <3>1, StackIs DEF FramesSound, TypeOK, top
    <3> QED
      BY <3>1, <3>2 DEF FrameFits, FrameSound
  <2>2. \/ client_ringbuffer' = client_ringbuffer
        \/ client_ringbuffer' = Tail(client_ringbuffer)
    BY <1>5, <2>1, RingSentIs
  <2>r. /\ client_ringbuffer \in Seq(Message) /\ Len(client_ringbuffer) \in Nat
        /\ Len(client_ringbuffer) <= RingSize /\ RingSize \in Nat
    BY <1>0, BoundAssumption DEF ListsTyped
  <2>t. /\ Tail(client_ringbuffer) \in Seq(Message)
        /\ Len(Tail(client_ringbuffer)) = Len(client_ringbuffer) - 1
    BY <2>1, <2>r
  <2>3. client_ringbuffer' \in Seq(Message) /\ Len(client_ringbuffer') <= RingSize
    BY <2>2, <2>r, <2>t
  <2>4. UNCHANGED <<clients, delivered, connected>>
    BY <1>5 DEF RingSent, hist
  <2> QED
    BY <1>0, <2>3, <2>4 DEF ListsTyped
<1>6. ASSUME NEW c \in Client, dlt_daemon_process_client_connect(c)
      PROVE  ListsTyped'
  <2>1. /\ clients' = Append(clients, c) /\ connected' = connected \cup {c} /\ c \notin connected
        /\ UNCHANGED <<client_ringbuffer, delivered>>
    BY <1>6 DEF dlt_daemon_process_client_connect, daemon
  <2>2. c \notin Range(clients)
    BY <2>1 DEF OrderSound, PastSound
  <2>3. /\ clients' \in Seq(Client) /\ Len(clients') = Len(clients) + 1
        /\ clients'[Len(clients) + 1] = c
        /\ \A i \in 1 .. Len(clients) : clients'[i] = clients[i]
    BY <1>0, <2>1 DEF ListsTyped
  <2>4. \A i \in 1 .. Len(clients) : clients[i] # c
    BY <1>0, <2>2 DEF ListsTyped, Range
  <2>5. \A i, j \in 1 .. Len(clients) : clients[i] = clients[j] => i = j
    BY <1>0 DEF ListsTyped, IsInjective
  <2>6. ASSUME NEW i \in 1 .. Len(clients'), NEW j \in 1 .. Len(clients'),
               clients'[i] = clients'[j]
        PROVE  i = j
    <3>1. Len(clients) \in Nat
      BY <1>0 DEF ListsTyped
    <3>2. /\ i \in 1 .. Len(clients) \/ i = Len(clients) + 1
          /\ j \in 1 .. Len(clients) \/ j = Len(clients) + 1
      BY <2>3, <3>1
    <3> QED
      BY <2>3, <2>4, <2>5, <2>6, <3>2
  <2>7. IsInjective(clients)'
    <3>1. DOMAIN clients' = 1 .. Len(clients')
      BY <2>3
    <3> QED
      BY <2>6, <3>1 DEF IsInjective
  <2> QED
    BY <1>0, <2>1, <2>3, <2>7 DEF ListsTyped
<1> QED
  BY <1>1, <1>2, <1>3, <1>4, <1>5, <1>6, LoudIs

(* All variables do.                                                       *)
LEMMA TypeKept ==
  ASSUME IInv, Next
  PROVE  TypeOK' /\ Shape'
<1>1. TypeOK'
  BY StackSteps, ScalarsKept, ListsKept, TypeParts DEF IInv
<1>2. Shape'
  BY StackSteps, ShapeStep DEF IInv, TypeOK
<1> QED
  BY <1>1, <1>2

-----------------------------------------------------------------------------
(* The state fits the clients and the ring buffer.                         *)
LEMMA StateIs ==
  ASSUME Next
  PROVE  \/ UNCHANGED <<state, connectionState, logState>>
         \/ SendDiscard \/ CloseUnregister \/ RingStart \/ RingSent \/ ConnectAnnounced
         \/ ConnectFlushed
<1> USE DEF daemon, hist
<1>1. CASE SendStart \/ SendToClient \/ SendFails \/ SendLoopDone \/ SendStore
  BY <1>1 DEF SendStart, SendToClient, SendFails, SendLoopDone, SendStore
<1>2. CASE SendReport \/ SendReported \/ CloseInfoSent \/ CloseReturn
  BY <1>2 DEF SendReport, SendReported, CloseInfoSent, CloseReturn
<1>3. CASE UserOverflowSent \/ OneSecondTime \/ TimerReturn
  BY <1>3 DEF UserOverflowSent, OneSecondTime, TimerReturn
<1>4. CASE Announce("client_connect") \/ Announce("sixty_s_timer")
  BY <1>4 DEF Announce
<1>5. ASSUME NEW i, ClientGone(i)
      PROVE  UNCHANGED <<state, connectionState, logState>>
  BY <1>5 DEF ClientGone
<1>6. ASSUME NEW on, dlt_daemon_control_set_timing_packets(on)
      PROVE  UNCHANGED <<state, connectionState, logState>>
  BY <1>6 DEF dlt_daemon_control_set_timing_packets
<1>7. ASSUME NEW n, dlt_daemon_process_user_message_overflow(n)
      PROVE  UNCHANGED <<state, connectionState, logState>>
  BY <1>7 DEF dlt_daemon_process_user_message_overflow
<1>8. CASE \/ AppGone \/ dlt_daemon_process_user_message_log
           \/ dlt_daemon_process_one_s_timer \/ dlt_daemon_process_sixty_s_timer
  BY <1>8 DEF AppGone, dlt_daemon_process_user_message_log, dlt_daemon_process_one_s_timer,
              dlt_daemon_process_sixty_s_timer
<1>9. ASSUME NEW c, dlt_daemon_process_client_connect(c)
      PROVE  UNCHANGED <<state, connectionState, logState>>
  BY <1>9 DEF dlt_daemon_process_client_connect
<1> QED
  BY <1>1, <1>2, <1>3, <1>4, <1>5, <1>6, <1>7, <1>8, <1>9
     DEF Next, Step, dlt_daemon_client_send, dlt_daemon_close_socket,
         dlt_daemon_send_ringbuffer_to_client

(* A sequence of one element has an empty tail.                            *)
LEMMA TailIsEmpty == \A q \in Seq(Message) : Len(q) = 1 => Tail(q) = <<>>
<1>1. \A q \in Seq(Message) : Len(q) = 1 => Len(Tail(q)) = 0 /\ Tail(q) \in Seq(Message)
  OBVIOUS
<1>2. \A q \in Seq(Message) : Len(q) = 0 => q = <<>>
  OBVIOUS
<1> QED
  BY <1>1, <1>2

(* No function returns ERROR_UNKNOWN.                                      *)
LEMMA RetIs ==
  ASSUME TypeOK, StateSound, FramesSound, Next
  PROVE  ret' # ERROR_UNKNOWN
<1> USE DEF daemon, hist
<1>r. /\ ret # ERROR_UNKNOWN
      /\ ERROR_OK # ERROR_UNKNOWN /\ ERROR_SEND_FAILED # ERROR_UNKNOWN /\ ERROR_BUFFER_FULL # ERROR_UNKNOWN
  BY DEF StateSound, ERROR_OK, ERROR_UNKNOWN, ERROR_BUFFER_FULL, ERROR_SEND_FAILED
<1>1. CASE SendStart \/ SendToClient \/ SendFails
  BY <1>1, <1>r DEF SendStart, SendToClient, SendFails
<1>2. CASE SendLoopDone \/ SendReport
  BY <1>2, <1>r, SendLoopDoneIs, SendReportIs
<1>3. CASE Returning
  BY <1>3, <1>r, ReturningIs
<1>4. CASE CloseUnregister \/ CloseInfoSent
  BY <1>4, <1>r, CloseCallsIs
<1>5. CASE RingStart
  BY <1>5, <1>r, RingStartIs
<1>6. CASE RingSent
  BY <1>6, <1>r DEF RingSent, Return
<1>7. CASE ConnectAnnounced
  BY <1>7, <1>r, ConnectAnnouncedIs
<1>8. CASE OneSecondTime
  BY <1>8, <1>r, OneSecondTimeIs
<1>9. CASE Announce("client_connect") \/ Announce("sixty_s_timer")
  BY <1>9, <1>r DEF Announce
<1>10. ASSUME NEW i, ClientGone(i)
       PROVE  ret' = ret
  BY <1>10 DEF ClientGone
<1>11. ASSUME NEW on, dlt_daemon_control_set_timing_packets(on)
       PROVE  ret' = ret
  BY <1>11 DEF dlt_daemon_control_set_timing_packets
<1>12. ASSUME NEW n, dlt_daemon_process_user_message_overflow(n)
       PROVE  ret' = ret
  BY <1>12 DEF dlt_daemon_process_user_message_overflow
<1>13. ASSUME NEW c, dlt_daemon_process_client_connect(c)
       PROVE  ret' = ret
  BY <1>13 DEF dlt_daemon_process_client_connect
<1>14. CASE \/ AppGone \/ dlt_daemon_process_user_message_log
            \/ dlt_daemon_process_one_s_timer \/ dlt_daemon_process_sixty_s_timer
  <2>1. ret' = ret
    BY <1>14 DEF AppGone, dlt_daemon_process_user_message_log, dlt_daemon_process_one_s_timer,
                 dlt_daemon_process_sixty_s_timer
  <2> QED
    BY <1>r, <2>1
<1> QED
  BY <1>r, <1>1, <1>2, <1>3, <1>4, <1>5, <1>6, <1>7, <1>8, <1>9, <1>10, <1>11, <1>12, <1>13, <1>14
     DEF Next, Step, Returning, dlt_daemon_client_send, dlt_daemon_close_socket,
         dlt_daemon_send_ringbuffer_to_client

(* The last client gone, the daemon buffers again.                         *)
LEMMA CloseIs ==
  ASSUME CloseUnregister
  PROVE  /\ clients' = <<>> => state' = "BUFFER"
         /\ clients' # <<>> => UNCHANGED <<connectionState, logState, state>>
         /\ client_ringbuffer' = client_ringbuffer
<1>1. CASE clients' = <<>>
  BY <1>1 DEF CloseUnregister
<1>2. CASE clients' # <<>>
  BY <1>2 DEF CloseUnregister
<1> QED
  BY <1>1, <1>2

(* The state fits after every step.                                        *)
LEMMA StateKept ==
  ASSUME IInv, Next
  PROVE  StateSound'
<1>0. /\ TypeOK /\ StateSound /\ FramesSound /\ TopSound
      /\ client_ringbuffer \in Seq(Message) /\ clients \in Seq(Client)
  BY DEF IInv, TypeOK
<1>r. ret' # ERROR_UNKNOWN
  BY RetIs DEF IInv
<1>t. \A q \in Seq(Message) : Len(q) = 1 => Tail(q) = <<>>
  BY TailIsEmpty
<1>1. CASE SendDiscard
  <2>1. state' = "BUFFER_FULL" /\ (state = "BUFFER_FULL" \/ Len(client_ringbuffer) >= RingSize)
    BY <1>1 DEF SendDiscard, RingFull
  <2>2. Len(client_ringbuffer) \in Nat /\ Len(client_ringbuffer) <= RingSize /\ RingSize \in Nat
    BY BoundAssumption, <1>0 DEF TypeOK
  <2>3. Len(client_ringbuffer) = RingSize
    BY <1>0, <2>1, <2>2 DEF StateSound
  <2>4. client_ringbuffer' = client_ringbuffer
    BY <1>1 DEF SendDiscard
  <2> QED
    BY <1>r, <2>1, <2>3, <2>4 DEF StateSound
<1>2. CASE CloseUnregister
  <2>1. client_ringbuffer' = client_ringbuffer
    BY <1>2, CloseIs
  <2>2. CASE clients' = <<>>
    <3>1. state' = "BUFFER"
      BY <1>2, <2>2, CloseIs
    <3> QED
      BY <1>r, <3>1 DEF StateSound
  <2>3. CASE clients' # <<>>
    <3>1. state' = state
      BY <1>2, <2>3, CloseIs
    <3> QED
      BY <1>0, <1>r, <2>1, <2>3, <3>1 DEF StateSound
  <2> QED
    BY <2>2, <2>3
<1>3. CASE RingStart
  <2>0. stack # <<>> /\ top.fn = "send_ringbuffer" /\ top.pc = "start"
    BY <1>3 DEF RingStart, At
  <2>1. FrameSound(top)
    BY <1>0, <2>0, StackIs DEF FramesSound, TypeOK, top
  <2>2. UNCHANGED <<clients, client_ringbuffer>>
    BY <1>3 DEF RingStart
  <2>3. (client_ringbuffer = <<>> /\ state' = "SEND_DIRECT") \/ state' = state
    BY <1>0, <1>3, RingStartIs
  <2>4. client_ringbuffer = <<>> => clients # <<>>
    BY <2>0, <2>1 DEF FrameFits, FrameSound
  <2> QED
    BY <1>0, <1>r, <2>2, <2>3, <2>4 DEF StateSound
<1>4. CASE RingSent
  <2>0. stack # <<>> /\ top.fn = "send_ringbuffer" /\ top.pc = "sent"
    BY <1>4 DEF RingSent, At
  <2>1. FrameSound(top)
    BY <1>0, <2>0, StackIs DEF FramesSound, TypeOK, top
  <2>2. client_ringbuffer # <<>> /\ clients' = clients
    BY <1>4, <2>0, <2>1 DEF FrameFits, FrameSound, RingSent
  <2>3. ret = ERROR_OK => clients # <<>>
    BY <1>0, <2>0 DEF TopSound
  <2>4. \/ UNCHANGED <<state, client_ringbuffer>>
        \/ /\ ret = ERROR_OK /\ state' = "SEND_DIRECT" /\ Len(client_ringbuffer) = 1
           /\ client_ringbuffer' = Tail(client_ringbuffer)
        \/ ret = ERROR_OK /\ state' = "SEND_BUFFER"
    BY <1>0, <1>4, <2>2, RingSentIs
  <2>5. Len(client_ringbuffer) = 1 => Tail(client_ringbuffer) = <<>>
    BY <1>0, <1>t
  <2> QED
    BY <1>0, <1>r, <2>2, <2>3, <2>4, <2>5 DEF StateSound
<1>5. CASE ConnectAnnounced
  <2>1. UNCHANGED <<clients, client_ringbuffer>>
    BY <1>5 DEF ConnectAnnounced
  <2>2. state' = state \/ (Len(clients) = 1 /\ state' = "SEND_BUFFER")
    BY <1>0, <1>5, ConnectAnnouncedIs
  <2>3. Len(clients) = 1 => clients # <<>>
    <3>1. \A q \in Seq(Client) : Len(q) = 1 => q # <<>>
      OBVIOUS
    <3> QED
      BY <1>0, <3>1
  <2> QED
    BY <1>0, <1>r, <2>1, <2>2, <2>3 DEF StateSound
<1>6. CASE ConnectFlushed
  BY <1>0, <1>r, <1>6 DEF ConnectFlushed, StateSound
<1>7. CASE UNCHANGED state /\ QuietStep
  <2>1. UNCHANGED <<clients, client_ringbuffer>>
    BY <1>7, QuietIs
  <2> QED
    BY <1>0, <1>r, <1>7, <2>1 DEF StateSound
<1>8. CASE SendToClient
  BY <1>0, <1>r, <1>8 DEF SendToClient, daemon, StateSound
<1>9. CASE SendStore
  BY <1>0, <1>r, <1>9 DEF SendStore, Buffering, StateSound
<1>10. ASSUME NEW c \in Client, dlt_daemon_process_client_connect(c)
       PROVE  StateSound'
  <2>1. clients' = Append(clients, c) /\ UNCHANGED <<state, client_ringbuffer>>
    BY <1>10 DEF dlt_daemon_process_client_connect, daemon
  <2>2. clients' # <<>>
    BY <1>0, <2>1
  <2> QED
    BY <1>0, <1>r, <2>1, <2>2 DEF StateSound
<1> QED
  BY <1>1, <1>2, <1>3, <1>4, <1>5, <1>6, <1>7, <1>8, <1>9, <1>10, StateIs, LoudIs

-----------------------------------------------------------------------------
(* The innermost function is the one that goes on.                         *)
LEMMA TopActs ==
  ASSUME Next, stack # <<>>
  PROVE  \/ top.fn = "client_send" /\ dlt_daemon_client_send
         \/ top.fn = "close_socket" /\ dlt_daemon_close_socket
         \/ top.fn = "send_ringbuffer" /\ dlt_daemon_send_ringbuffer_to_client
         \/ top.fn = "client_connect" /\ top.pc = "announce" /\ (ConnectAnnounced \/ Announce("client_connect"))
         \/ top.fn = "client_connect" /\ top.pc = "flushed" /\ ConnectFlushed
         \/ top.fn = "user_overflow" /\ UserOverflowSent
         \/ top.fn = "one_s_timer" /\ (OneSecondTime \/ TimerReturn)
         \/ top.fn = "sixty_s_timer" /\ (Announce("sixty_s_timer") \/ TimerReturn)
<1>1. dlt_daemon_client_send => top.fn = "client_send"
  BY DEF dlt_daemon_client_send, SendStart, SendToClient, SendFails, SendLoopDone, SendStore,
         SendDiscard, SendReport, SendReported, At
<1>2. dlt_daemon_close_socket => top.fn = "close_socket"
  BY DEF dlt_daemon_close_socket, CloseUnregister, CloseInfoSent, CloseReturn, At
<1>3. dlt_daemon_send_ringbuffer_to_client => top.fn = "send_ringbuffer"
  BY DEF dlt_daemon_send_ringbuffer_to_client, RingStart, RingSent, At
<1>4. /\ ConnectAnnounced => top.fn = "client_connect" /\ top.pc = "announce"
      /\ ConnectFlushed => top.fn = "client_connect" /\ top.pc = "flushed"
      /\ Announce("client_connect") => top.fn = "client_connect" /\ top.pc = "announce"
      /\ Announce("sixty_s_timer") => top.fn = "sixty_s_timer"
  BY DEF ConnectAnnounced, ConnectFlushed, Announce, At
<1>5. /\ UserOverflowSent => top.fn = "user_overflow"
      /\ OneSecondTime => top.fn = "one_s_timer"
      /\ TimerReturn => top.fn \in {"one_s_timer", "sixty_s_timer"}
  BY DEF UserOverflowSent, OneSecondTime, TimerReturn, At
<1>7. Step
  <2>1. ~Idle
    BY DEF Idle
  <2>2. ~dlt_daemon_process_one_s_timer /\ ~dlt_daemon_process_sixty_s_timer /\ ~AppGone
        /\ ~dlt_daemon_process_user_message_log
    BY <2>1 DEF dlt_daemon_process_one_s_timer, dlt_daemon_process_sixty_s_timer, AppGone,
                dlt_daemon_process_user_message_log
  <2>3. \A x : /\ ~dlt_daemon_process_client_connect(x) /\ ~ClientGone(x)
               /\ ~dlt_daemon_process_user_message_overflow(x)
               /\ ~dlt_daemon_control_set_timing_packets(x)
    BY <2>1 DEF dlt_daemon_process_client_connect, ClientGone, dlt_daemon_process_user_message_overflow,
                dlt_daemon_control_set_timing_packets
  <2> QED
    BY <2>2, <2>3 DEF Next
<1> QED
  BY <1>1, <1>2, <1>3, <1>4, <1>5, <1>7 DEF Step

(* The handler at the bottom of the stack.                                 *)
LEMMA BottomIs ==
  ASSUME stack \in Seq(Frame), stack' \in Seq(Frame), StackStep, stack # <<>>
  PROVE  \/ Pops /\ Len(stack) = 1 /\ stack[1] = top /\ stack' = <<>>
         \/ Len(stack) > 1 /\ stack' # <<>> /\ stack'[1] = stack[1]
         \/ /\ Len(stack) = 1 /\ stack[1] = top /\ stack' # <<>>
            /\ \E f : /\ Same(f) /\ stack'[1] = f
                      /\ Replaces(f) \/ (\E g : Pushes(f, g)) \/ UNCHANGED stack
<1>0. Len(stack) \in Nat /\ Len(stack) > 0 /\ Len(stack') \in Nat
  OBVIOUS
<1>n. \A n \in Nat : n > 0 /\ n # 1 => n > 1 /\ 1 \in 1 .. n - 1 /\ n - 1 # 0
  OBVIOUS
<1>1. CASE \E f : Same(f) /\ Replaces(f)
  <2>1. PICK f : Same(f) /\ Replaces(f)
    BY <1>1
  <2>2. /\ Len(stack') = Len(stack) /\ stack'[Len(stack)] = f
        /\ \A k \in 1 .. Len(stack) - 1 : stack'[k] = stack[k]
    BY <2>1 DEF Replaces
  <2>3. stack' # <<>>
    BY <1>0, <2>2
  <2>4. CASE Len(stack) = 1
    <3>1. stack[1] = top /\ stack'[1] = f
      BY <2>2, <2>4 DEF top
    <3> QED
      BY <2>1, <2>3, <2>4, <3>1
  <2>5. CASE Len(stack) # 1
    <3>1. Len(stack) > 1 /\ 1 \in 1 .. Len(stack) - 1
      BY <1>0, <1>n, <2>5
    <3> QED
      BY <2>2, <2>3, <3>1
  <2> QED
    BY <2>4, <2>5
<1>2. CASE \E f, g : Same(f) /\ g \in Frame /\ Calls(f, g) /\ Pushes(f, g)
  <2>1. PICK f, g : Same(f) /\ Pushes(f, g)
    BY <1>2
  <2>2. /\ Len(stack') = Len(stack) + 1 /\ stack'[Len(stack)] = f
        /\ \A k \in 1 .. Len(stack) - 1 : stack'[k] = stack[k]
    BY <2>1 DEF Pushes
  <2>3. stack' # <<>>
    BY <1>0, <2>2
  <2>4. CASE Len(stack) = 1
    <3>1. stack[1] = top /\ stack'[1] = f
      BY <2>2, <2>4 DEF top
    <3> QED
      BY <2>1, <2>3, <2>4, <3>1
  <2>5. CASE Len(stack) # 1
    <3>1. Len(stack) > 1 /\ 1 \in 1 .. Len(stack) - 1
      BY <1>0, <1>n, <2>5
    <3> QED
      BY <2>2, <2>3, <3>1
  <2> QED
    BY <2>4, <2>5
<1>3. CASE Pops
  <2>2. /\ Len(stack') = Len(stack) - 1
        /\ \A k \in 1 .. Len(stack) - 1 : stack'[k] = stack[k]
    BY <1>3 DEF Pops
  <2>4. CASE Len(stack) = 1
    <3>1. stack' = <<>> /\ stack[1] = top
      BY <2>2, <2>4 DEF top
    <3> QED
      BY <1>3, <2>4, <3>1
  <2>5. CASE Len(stack) # 1
    <3>1. Len(stack) > 1 /\ 1 \in 1 .. Len(stack) - 1 /\ Len(stack) - 1 # 0
      BY <1>0, <1>n, <2>5
    <3>2. stack' # <<>>
      BY <2>2, <3>1
    <3> QED
      BY <2>2, <3>1, <3>2
  <2> QED
    BY <2>4, <2>5
<1>4. CASE UNCHANGED stack
  <2>1. CASE Len(stack) = 1
    <3>1. stack[1] = top /\ top \in Frame
      BY <2>1, StackIs DEF top
    <3>2. Same(top) /\ stack'[1] = top
      BY <1>4, <3>1 DEF Same
    <3> QED
      BY <1>4, <2>1, <3>1, <3>2
  <2>2. CASE Len(stack) # 1
    BY <1>0, <1>n, <1>4, <2>2
  <2> QED
    BY <2>1, <2>2
<1> QED
  BY <1>1, <1>2, <1>3, <1>4 DEF StackStep, Starts

(* The handler of a new client is what it was, but for its own steps.      *)
LEMMA ConnectingStays ==
  ASSUME IInv, Next, ~ConnectAnnounced, ~ConnectFlushed, Connecting
  PROVE  Connecting' /\ stack'[1].pc = stack[1].pc
<1>1. stack \in Seq(Frame) /\ stack # <<>> /\ stack[1].fn = "client_connect"
  BY DEF IInv, TypeOK, Connecting
<1>2. stack' \in Seq(Frame) /\ StackStep
  BY StackSteps DEF IInv
<1>3. CASE Len(stack) = 1 /\ stack[1] = top
  <2>1. Announce("client_connect") /\ top.pc = "announce"
    BY <1>1, <1>3, TopActs
  <2>2. \E f : Pushes(f, SendFrame(FALSE, DaemonMsg)) /\ f.fn = "client_connect" /\ f.pc = "announce"
    BY <2>1, AnnounceIs DEF IInv
  <2>3. /\ Len(stack') = Len(stack) + 1
        /\ stack'[Len(stack)].fn = "client_connect" /\ stack'[Len(stack)].pc = "announce"
    BY <2>2 DEF Pushes
  <2>4. stack' # <<>>
    BY <1>2, <1>3, <2>3
  <2> QED
    BY <1>3, <2>1, <2>3, <2>4 DEF Connecting
<1> QED
  BY <1>1, <1>2, <1>3, BottomIs DEF Connecting

(* A new client is the only one until it has been served.                  *)
LEMMA ConnectKept ==
  ASSUME IInv, Next
  PROVE  ConnectSound'
<1>0. /\ TypeOK /\ ConnectSound /\ StateSound /\ FramesSound
      /\ stack \in Seq(Frame) /\ clients \in Seq(Client)
  BY DEF IInv, TypeOK
<1>i. stack = <<>> => ~Connecting
  BY DEF Connecting
<1>1. CASE ConnectAnnounced
  <2>0. /\ stack # <<>> /\ top.fn = "client_connect" /\ top.pc = "announce"
        /\ UNCHANGED <<clients, connectionState, logState>>
    BY <1>1 DEF ConnectAnnounced, At
  <2>1. Len(stack) = 1 /\ stack[1] = top
    <3>1. Len(stack) \in 1 .. Len(stack) /\ stack[Len(stack)].fn = "client_connect"
      BY <1>0, <2>0, StackIs DEF top
    <3>2. Len(stack) = 1
      BY <1>0, <3>1, NestingIs DEF IInv
    <3> QED
      BY <3>2 DEF top
  <2>2. CASE Len(clients) # 1 /\ state' = state
    BY <1>0, <2>0, <2>1, <2>2 DEF ConnectSound
  <2>3. CASE /\ Len(clients) = 1 /\ state' = "SEND_BUFFER"
             /\ \E f : Pushes(f, RingFrame) /\ f.fn = "client_connect" /\ f.pc = "flushed"
    <3>1. /\ Len(stack') = 2 /\ stack'[1].fn = "client_connect" /\ stack'[1].pc = "flushed"
      BY <2>1, <2>3 DEF Pushes
    <3>2. stack' # <<>>
      BY <3>1
    <3>3. Connecting'
      BY <3>1, <3>2 DEF Connecting
    <3> QED
      BY <2>3, <3>1, <3>3 DEF ConnectSound
  <2> QED
    BY <1>0, <1>1, <2>2, <2>3, ConnectAnnouncedIs
<1>2. CASE ConnectFlushed
  <2>0. /\ stack # <<>> /\ top.fn = "client_connect" /\ top.pc = "flushed"
        /\ UNCHANGED <<clients, state>> /\ connectionState' = 1 /\ logState' = 1
    BY <1>0, <1>2 DEF ConnectFlushed, At, StateSound
  <2>1. Len(stack) = 1 /\ stack[1] = top
    <3>1. Len(stack) \in 1 .. Len(stack) /\ stack[Len(stack)].fn = "client_connect"
      BY <1>0, <2>0, StackIs DEF top
    <3>2. Len(stack) = 1
      BY <1>0, <3>1, NestingIs DEF IInv
    <3> QED
      BY <3>2 DEF top
  <2> QED
    BY <1>0, <2>0, <2>1 DEF ConnectSound
<1>3. ASSUME NEW c \in Client, dlt_daemon_process_client_connect(c)
      PROVE  ConnectSound'
  <2>1. /\ clients' = Append(clients, c) /\ UNCHANGED <<state, connectionState, logState>>
    BY <1>3 DEF dlt_daemon_process_client_connect, daemon
  <2>2. /\ stack = <<>> /\ stack' \in Seq(Frame) /\ Len(stack') = 1
        /\ stack'[1].fn = "client_connect" /\ stack'[1].pc = "announce"
    BY <1>3, ConnectIs
  <2>3. Connecting' /\ stack'[1].pc = "announce"
    <3>1. \A q \in Seq(Frame) : Len(q) = 1 => q # <<>>
      OBVIOUS
    <3>2. stack' # <<>>
      BY <2>2, <3>1
    <3> QED
      BY <2>2, <3>2 DEF Connecting
  <2>4. CASE clients = <<>>
    <3>1. Len(clients') = 1
      BY <1>0, <2>1, <2>4
    <3> QED
      BY <2>3, <3>1 DEF ConnectSound
  <2>5. CASE clients # <<>>
    BY <1>0, <1>i, <2>1, <2>2, <2>5 DEF ConnectSound
  <2> QED
    BY <2>4, <2>5
<1>4. ASSUME ~ConnectAnnounced, ~ConnectFlushed,
             clients' # <<>> => /\ clients # <<>> /\ UNCHANGED <<connectionState, logState>>
                                /\ state' = "BUFFER" => state = "BUFFER"
                                /\ Len(clients) = 1 => Len(clients') = 1
      PROVE  ConnectSound'
  <2>1. Connecting => Connecting' /\ stack'[1].pc = stack[1].pc
    BY <1>4, ConnectingStays
  <2> QED
    BY <1>0, <1>4, <2>1 DEF ConnectSound
<1>5. CASE CloseUnregister
  <2>1. clients' # <<>> => UNCHANGED <<connectionState, logState, state>>
    BY <1>5 DEF CloseUnregister
  <2>2. clients' \in Seq(Client) /\ (clients' = clients \/ Len(clients') = Len(clients) - 1)
    BY <1>0, <1>5, ClientsLeft
  <2>3. clients' # <<>> => clients # <<>> /\ (Len(clients) = 1 => Len(clients') = 1)
    <3>1. Len(clients) \in Nat /\ Len(clients') \in Nat /\ (clients = <<>> => Len(clients) = 0)
          /\ (clients' # <<>> => Len(clients') # 0)
      BY <1>0, <2>2
    <3>2. \A m, n \in Nat : m = n - 1 /\ m # 0 => n # 0 /\ n # 1
      OBVIOUS
    <3>3. ASSUME clients' # <<>>, clients' # clients
          PROVE  Len(clients) # 0 /\ (Len(clients) = 1 => Len(clients') = 1)
      BY <2>2, <3>1, <3>2, <3>3
    <3>4. Len(clients) # 0 => clients # <<>>
      OBVIOUS
    <3> QED
      BY <3>3, <3>4
  <2>4. ~ConnectAnnounced /\ ~ConnectFlushed
    BY <1>5 DEF CloseUnregister, ConnectAnnounced, ConnectFlushed, At
  <2> QED
    BY <1>4, <2>1, <2>3, <2>4
<1>6. CASE SendDiscard \/ RingStart \/ RingSent
  <2>1. ~ConnectAnnounced /\ ~ConnectFlushed /\ UNCHANGED <<clients, connectionState, logState>>
    BY <1>6 DEF SendDiscard, RingStart, RingSent, ConnectAnnounced, ConnectFlushed, At
  <2>2. state' = "BUFFER" => state = "BUFFER"
    BY <1>6 DEF SendDiscard, RingStart, RingSent
  <2> QED
    BY <1>4, <2>1, <2>2
<1>7. CASE /\ ~ConnectAnnounced /\ ~ConnectFlushed
           /\ UNCHANGED <<state, connectionState, logState, clients>>
  BY <1>4, <1>7
<1>8. SendToClient \/ SendStore => UNCHANGED clients
  BY DEF SendToClient, SendStore
<1> QED
  BY <1>1, <1>2, <1>3, <1>5, <1>6, <1>7, <1>8, StateIs, LoudIs, QuietIs

-----------------------------------------------------------------------------
(* What the calls in progress rely on stays true.                          *)
Fits(f) == FrameFits(f, state', clients', client_ringbuffer')

(* A call that stays as it is relies on what is still so.                  *)
LEMMA FramesStay ==
  ASSUME stack \in Seq(Frame), stack' \in Seq(Frame),
         \A k \in 1 .. Len(stack) - 1 : Fits(stack[k]),
         \/ Pops
         \/ \E f : Replaces(f) /\ Fits(f)
         \/ \E f, g : Pushes(f, g) /\ Fits(f) /\ Fits(g)
  PROVE  FramesSound'
<1>0. Len(stack) \in Nat
  OBVIOUS
<1>g. FramesSound' <=> \A k \in 1 .. Len(stack') : Fits(stack'[k])
  BY DEF FramesSound, FrameSound, Fits
<1>1. CASE Pops
  BY <1>0, <1>1, <1>g DEF Pops
<1>2. CASE \E f : Replaces(f) /\ Fits(f)
  <2>1. PICK f : Replaces(f) /\ Fits(f)
    BY <1>2
  <2>2. /\ Len(stack') = Len(stack) /\ stack'[Len(stack)] = f
        /\ \A k \in 1 .. Len(stack) - 1 : stack'[k] = stack[k]
    BY <2>1 DEF Replaces
  <2>3. ASSUME NEW k \in 1 .. Len(stack') PROVE Fits(stack'[k])
    <3>1. k \in 1 .. Len(stack) - 1 \/ k = Len(stack)
      BY <1>0, <2>2
    <3> QED
      BY <2>1, <2>2, <3>1
  <2> QED
    BY <1>g, <2>3
<1>3. CASE \E f, g : Pushes(f, g) /\ Fits(f) /\ Fits(g)
  <2>1. PICK f, g : Pushes(f, g) /\ Fits(f) /\ Fits(g)
    BY <1>3
  <2>2. /\ Len(stack') = Len(stack) + 1 /\ stack'[Len(stack)] = f /\ stack'[Len(stack) + 1] = g
        /\ \A k \in 1 .. Len(stack) - 1 : stack'[k] = stack[k]
    BY <2>1 DEF Pushes
  <2>3. ASSUME NEW k \in 1 .. Len(stack') PROVE Fits(stack'[k])
    <3>1. k \in 1 .. Len(stack) - 1 \/ k = Len(stack) \/ k = Len(stack) + 1
      BY <1>0, <2>2
    <3> QED
      BY <2>1, <2>2, <3>1
  <2> QED
    BY <1>g, <2>3
<1> QED
  BY <1>1, <1>2, <1>3

(* Frames that rely on nothing.                                            *)
LEMMA FitAnyway ==
  /\ \A f : f.fn \notin {"client_send", "send_ringbuffer"} => Fits(f)
  /\ \A f : f.fn = "client_send" /\ ~f.force /\ f.pc # "loop" => Fits(f)
  /\ \A c : Fits(CloseFrame(c))
  /\ Fits(SendFrame(FALSE, DaemonMsg)) /\ \A n : Fits(SendFrame(FALSE, OverflowMsg(n)))
BY DEF Fits, FrameFits, Direct, Forced, CloseFrame, SendFrame

(* The innermost call, and those below it.                                 *)
LEMMA TopFits ==
  ASSUME IInv, stack # <<>>
  PROVE  FrameSound(top) /\ \A k \in 1 .. Len(stack) - 1 : FrameSound(stack[k])
<1>1. stack \in Seq(Frame) /\ Len(stack) \in 1 .. Len(stack)
  BY StackIs DEF IInv, TypeOK
<1> QED
  BY <1>1 DEF IInv, FramesSound, top

(* What the steps of dlt_daemon_client_send leave alone they rely on still. *)
LEMMA SendFrames ==
  ASSUME IInv,
         SendStart \/ SendToClient \/ SendFails \/ SendLoopDone \/ SendReport
  PROVE  FramesSound'
<1>0. /\ TypeOK /\ stack \in Seq(Frame) /\ stack # <<>> /\ clients \in Seq(Client)
      /\ top \in Frame /\ top.fn = "client_send"
  BY StackIs DEF IInv, TypeOK, SendStart, SendToClient, SendFails, SendLoopDone, SendReport, At
<1>u. UNCHANGED <<state, clients, client_ringbuffer>>
  BY DEF SendStart, SendToClient, SendFails, SendLoopDone, SendReport, daemon
<1>f. \A f : Fits(f) <=> FrameSound(f)
  BY <1>u DEF Fits, FrameSound
<1>t. FrameSound(top) /\ \A k \in 1 .. Len(stack) - 1 : Fits(stack[k])
  BY <1>0, <1>f, TopFits
<1>1. CASE SendStart
  <2>1. stack' \in Seq(Frame)
        /\ \E f : /\ Sending(f) /\ Replaces(f) /\ f.i = top.i /\ f.sent = top.sent
                   /\ f.pc = IF top.force \/ state = "SEND_DIRECT" THEN "loop" ELSE "store"
    BY <1>0, <1>1, SendStartIs
  <2>2. PICK f : /\ Sending(f) /\ Replaces(f) /\ f.i = top.i /\ f.sent = top.sent
                   /\ f.pc = IF top.force \/ state = "SEND_DIRECT" THEN "loop" ELSE "store"
    BY <2>1
  <2>3. top.pc = "start"
    BY <1>1 DEF SendStart, At
  <2>4. FrameSound(f)
    BY <1>0, <1>t, <2>2, <2>3 DEF FrameSound, FrameFits, Sending, Direct, Forced
  <2> QED
    BY <1>0, <1>f, <1>t, <2>1, <2>2, <2>4, FramesStay
<1>2. CASE SendToClient
  <2>1. stack' \in Seq(Frame)
        /\ \E f : Sending(f) /\ Replaces(f) /\ f.pc = "loop" /\ f.i = top.i + 1 /\ f.sent
    BY <1>0, <1>2, SendToClientIs
  <2>2. PICK f : Sending(f) /\ Replaces(f) /\ f.pc = "loop" /\ f.i = top.i + 1 /\ f.sent
    BY <2>1
  <2>3. top.pc = "loop" /\ top.i \in 1 .. Len(clients) /\ clients # <<>>
    <3>1. top.pc = "loop"
      BY <1>2 DEF SendToClient, At
    <3>2. top.i \in 1 .. Len(clients)
      BY <1>0, <1>2, DeliveredIs
    <3>3. clients # <<>>
      BY <1>0, <3>2
    <3> QED
      BY <3>1, <3>2, <3>3
  <2>4. f.i > 1
    BY <2>2, <2>3
  <2>5. FrameSound(f)
    BY <1>0, <1>t, <2>2, <2>3, <2>4 DEF FrameSound, FrameFits, Sending, Direct, Forced
  <2> QED
    BY <1>0, <1>f, <1>t, <2>1, <2>2, <2>5, FramesStay
<1>3. CASE SendFails
  <2> DEFINE g == CloseFrame(clients[top.i])
  <2>1. stack' \in Seq(Frame)
        /\ \E f : Sending(f) /\ Pushes(f, g) /\ f.pc = "loop" /\ f.i = top.i + 1 /\ f.sent = top.sent
    BY <1>0, <1>3, SendFailsIs
  <2>2. Fits(g)
    BY FitAnyway
  <2> HIDE DEF g
  <2>3. PICK f : Sending(f) /\ Pushes(f, g) /\ f.pc = "loop" /\ f.i = top.i + 1 /\ f.sent = top.sent
    BY <2>1
  <2>4. top.pc = "loop" /\ top.i \in Nat \ {0}
    BY <1>0, <1>3, TopSends DEF SendFails
  <2>5. f.i > 1
    BY <2>3, <2>4
  <2>6. FrameSound(f)
    BY <1>0, <1>t, <2>3, <2>4, <2>5 DEF FrameSound, FrameFits, Sending, Direct, Forced
  <2> QED
    BY <1>0, <1>f, <1>t, <2>1, <2>2, <2>3, <2>6, FramesStay
<1>4. CASE SendLoopDone
  <2>0. top.pc = "loop"
    BY <1>4 DEF SendLoopDone, At
  <2>1. stack' \in Seq(Frame)
        /\ \/ Pops
           \/ /\ top.force => top.sent
              /\ \E f : Sending(f) /\ Replaces(f) /\ f.pc = "store" /\ f.i = top.i /\ f.sent = top.sent
    BY <1>0, <1>4, SendLoopDoneIs
  <2>2. CASE /\ top.force => top.sent
             /\ \E f : Sending(f) /\ Replaces(f) /\ f.pc = "store" /\ f.i = top.i /\ f.sent = top.sent
    <3>1. PICK f : Sending(f) /\ Replaces(f) /\ f.pc = "store" /\ f.i = top.i /\ f.sent = top.sent
      BY <2>2
    <3>2. FrameSound(f)
      BY <1>0, <1>t, <2>0, <2>2, <3>1 DEF FrameSound, FrameFits, Sending, Direct, Forced
    <3> QED
      BY <1>0, <1>f, <1>t, <2>1, <3>1, <3>2, FramesStay
  <2> QED
    BY <1>0, <1>t, <2>1, <2>2, FramesStay
<1>5. CASE SendReport
  <2> DEFINE g == SendFrame(FALSE, OverflowMsg(overflow_counter))
  <2>0. top.pc = "store"
    BY <1>5 DEF SendReport, At
  <2>1. stack' \in Seq(Frame)
        /\ \/ Pops
           \/ \E f : Sending(f) /\ Pushes(f, g) /\ f.pc = "reported" /\ f.i = top.i /\ f.sent = top.sent
    BY <1>0, <1>5, SendReportIs
  <2>2. Fits(g)
    BY FitAnyway
  <2> HIDE DEF g
  <2>3. CASE \E f : Sending(f) /\ Pushes(f, g) /\ f.pc = "reported" /\ f.i = top.i /\ f.sent = top.sent
    <3>1. PICK f : Sending(f) /\ Pushes(f, g) /\ f.pc = "reported" /\ f.i = top.i /\ f.sent = top.sent
      BY <2>3
    <3>2. FrameSound(f)
      BY <1>0, <1>t, <2>0, <3>1 DEF FrameSound, FrameFits, Sending, Direct, Forced
    <3> QED
      BY <1>0, <1>f, <1>t, <2>1, <2>2, <3>1, <3>2, FramesStay
  <2> QED
    BY <1>0, <1>t, <2>1, <2>3, FramesStay
<1> QED
  BY <1>1, <1>2, <1>3, <1>4, <1>5

(* A flush is under way exactly below its messages.                        *)
LEMMA ForcedIs ==
  ASSUME IInv, NEW k \in 1 .. Len(stack), Forced(stack[k])
  PROVE  /\ k = 3 /\ 2 \in 1 .. Len(stack) /\ client_ringbuffer # <<>> /\ state # "SEND_DIRECT"
         /\ FrameSound(stack[k])
<1>1. k = 3 /\ stack[2].fn = "send_ringbuffer" /\ stack[2].pc = "sent" /\ Len(stack) \in Nat
  BY NestingIs, StackIs DEF IInv, TypeOK
<1>2. 2 \in 1 .. Len(stack)
  BY <1>1
<1>3. FrameSound(stack[2]) /\ FrameSound(stack[k])
  BY <1>2 DEF IInv, FramesSound
<1> QED
  BY <1>1, <1>2, <1>3 DEF FrameSound, FrameFits

(* What calls rely on when a client is taken out of the list.              *)
LEMMA CloseFrames ==
  ASSUME IInv, CloseUnregister
  PROVE  FramesSound'
<1>0. /\ TypeOK /\ stack \in Seq(Frame) /\ stack # <<>> /\ clients \in Seq(Client)
      /\ top.fn = "close_socket" /\ top.pc = "start" /\ Len(stack) \in 1 .. Len(stack)
      /\ Len(stack) \in Nat /\ top = stack[Len(stack)]
  BY StackIs DEF IInv, TypeOK, CloseUnregister, At, top
<1>1. /\ (clients' = <<>> /\ state' = "BUFFER") \/ (clients' # <<>> /\ state' = state)
      /\ client_ringbuffer' = client_ringbuffer
  BY DEF CloseUnregister
<1>2. clients = <<>> => clients' = <<>>
  <2>1. clients' \in Seq(Client) /\ (clients' = clients \/ top.sock \in Range(clients))
    BY <1>0, ClientsLeft
  <2> QED
    BY <2>1 DEF Range
<1>3. /\ stack' \in Seq(Frame)
      /\ \E f : f.fn = "close_socket" /\ Pushes(f, SendFrame(FALSE, DaemonMsg))
  BY <1>0, CloseCallsIs
<1>4. ASSUME NEW k \in 1 .. Len(stack) - 1
      PROVE  Fits(stack[k])
  <2>0. k \in 1 .. Len(stack) /\ k < Len(stack)
    BY <1>0
  <2>1. FrameSound(stack[k])
    BY <2>0 DEF IInv, FramesSound
  <2>2. stack[k].fn = "send_ringbuffer" => stack[k].pc = "sent"
    BY <1>0, <2>0, NestingIs DEF IInv
  <2>3. ASSUME Forced(stack[k]), stack[k].sent
        PROVE  clients' # <<>>
    <3>1. k = 3 /\ state # "SEND_DIRECT"
      BY <2>0, <2>3, ForcedIs
    <3>2. clients # <<>>
      BY <2>1, <2>3 DEF FrameSound, FrameFits
    <3>3. /\ Len(stack) > 1 /\ Len(stack) - 1 \in 1 .. Len(stack)
          /\ stack[Len(stack) - 1].fn = "client_send" /\ stack[Len(stack) - 1].pc = "loop"
      <4>1. Len(stack) > 1 /\ Len(stack) - 1 \in 1 .. Len(stack)
        BY <1>0, <2>0
      <4>2. stack[Len(stack)].fn = "close_socket"
        BY <1>0
      <4> QED
        BY <1>0, <4>1, <4>2, NestingIs DEF IInv
    <3>4. Forced(stack[Len(stack) - 1])
      <4>1. FrameSound(stack[Len(stack) - 1])
        BY <3>3 DEF IInv, FramesSound
      <4>2. ~Direct(stack[Len(stack) - 1])
        BY <3>1, <3>2, <4>1 DEF FrameSound, FrameFits
      <4>3. stack[Len(stack) - 1] \in Frame
        BY <1>0, <3>3, StackIs
      <4>4. stack[Len(stack) - 1].force \in BOOLEAN
        BY <3>3, <4>3, FrameIs
      <4> QED
        BY <3>3, <4>2, <4>4 DEF Direct, Forced
    <3>5. Len(stack) - 1 = 3
      BY <3>3, <3>4, ForcedIs
    <3>6. \E c \in Range(clients) : c # top.sock
      <4>1. stack[Len(stack) - 1].sent
        BY <2>3, <3>1, <3>5
      <4> QED
        BY <1>0, <3>3, <3>4, <4>1 DEF IInv, TopSound
    <3>7. PICK m \in 1 .. Len(clients) : clients[m] # top.sock
      BY <1>0, <3>6 DEF Range
    <3>8. clients' # <<>>
      <4>1. CASE clients' = clients
        BY <3>2, <4>1
      <4>2. CASE /\ Len(clients') = Len(clients) - 1
                 /\ \E j \in 1 .. Len(clients) : clients[j] = top.sock
        <5>1. PICK j \in 1 .. Len(clients) : clients[j] = top.sock
          BY <4>2
        <5>2. Len(clients) \in Nat /\ j # m
          BY <1>0, <3>7, <5>1
        <5>3. Len(clients) > 1
          BY <5>2
        <5>4. Len(clients') # 0
          BY <4>2, <5>2, <5>3
        <5> QED
          BY <5>4
      <4> QED
        BY <1>0, <4>1, <4>2, ClientsLeft
    <3> QED
      BY <3>8
  <2> QED
    BY <1>1, <1>2, <2>1, <2>2, <2>3 DEF Fits, FrameFits, FrameSound
<1> QED
  BY <1>0, <1>3, <1>4, FitAnyway, FramesStay

(* Nothing but a handler is below a flush.                                 *)
LEMMA FlushIs ==
  ASSUME IInv, stack # <<>>, top.fn = "send_ringbuffer"
  PROVE  /\ Len(stack) = 2 /\ stack[2] = top /\ stack[1].fn \in {"client_connect", "one_s_timer"}
         /\ FrameSound(top)
<1>1. stack \in Seq(Frame) /\ Len(stack) \in 1 .. Len(stack) /\ stack[Len(stack)] = top
  BY StackIs DEF IInv, TypeOK, top
<1>2. Len(stack) = 2 /\ stack[1].fn \in {"client_connect", "one_s_timer"}
  BY <1>1, NestingIs DEF IInv
<1> QED
  BY <1>1, <1>2, TopFits

(* What they rely on when the front of the ring buffer is removed.         *)
LEMMA RingFrames ==
  ASSUME IInv, RingStart \/ RingSent
  PROVE  FramesSound'
<1>0. /\ TypeOK /\ stack \in Seq(Frame) /\ stack # <<>> /\ top.fn = "send_ringbuffer"
      /\ client_ringbuffer \in Seq(Message)
  BY DEF IInv, TypeOK, RingStart, RingSent, At
<1>1. /\ Len(stack) = 2 /\ stack[1].fn \in {"client_connect", "one_s_timer"} /\ FrameSound(top)
  BY <1>0, FlushIs
<1>2. \A k \in 1 .. Len(stack) - 1 : Fits(stack[k])
  <2>1. \A k \in 1 .. Len(stack) - 1 : k = 1
    BY <1>1
  <2> QED
    BY <1>1, <2>1, FitAnyway
<1>3. CASE RingStart
  <2>0. UNCHANGED <<clients, client_ringbuffer>>
    BY <1>3 DEF RingStart
  <2>1. /\ stack' \in Seq(Frame)
        /\ \/ Pops
           \/ /\ client_ringbuffer # <<>> /\ state' = state
              /\ \E f : /\ f \in Frame /\ Pushes(f, SendFrame(TRUE, client_ringbuffer[1]))
                        /\ f.fn = "send_ringbuffer" /\ f.pc = "sent"
    BY <1>0, <1>3, RingStartIs
  <2>2. CASE /\ client_ringbuffer # <<>> /\ state' = state
             /\ \E f : /\ f \in Frame /\ Pushes(f, SendFrame(TRUE, client_ringbuffer[1]))
                       /\ f.fn = "send_ringbuffer" /\ f.pc = "sent"
    <3> DEFINE g == SendFrame(TRUE, client_ringbuffer[1])
    <3>1. Fits(g)
      BY <2>0 DEF Fits, FrameFits, SendFrame, Direct, Forced
    <3> HIDE DEF g
    <3>2. PICK f : Pushes(f, g) /\ f.fn = "send_ringbuffer" /\ f.pc = "sent"
      BY <2>2 DEF g
    <3>3. Fits(f)
      BY <1>0, <1>1, <2>0, <2>2, <3>2 DEF Fits, FrameFits, FrameSound, Direct, Forced
    <3> QED
      BY <1>0, <1>2, <2>1, <3>1, <3>2, <3>3, FramesStay
  <2> QED
    BY <1>0, <1>2, <2>1, <2>2, FramesStay
<1>4. CASE RingSent
  <2>0. client_ringbuffer # <<>> /\ top.pc = "sent"
    BY <1>0, <1>1, <1>4 DEF FrameSound, FrameFits, RingSent, At
  <2>1. /\ stack' \in Seq(Frame)
        /\ \/ Pops
           \/ /\ client_ringbuffer' = Tail(client_ringbuffer)
              /\ Len(client_ringbuffer) > 1 /\ state' = "SEND_BUFFER"
              /\ Pushes(top, SendFrame(TRUE, client_ringbuffer[2]))
    BY <1>0, <1>4, <2>0, RingSentIs
  <2>2. CASE /\ client_ringbuffer' = Tail(client_ringbuffer)
             /\ Len(client_ringbuffer) > 1 /\ state' = "SEND_BUFFER"
             /\ Pushes(top, SendFrame(TRUE, client_ringbuffer[2]))
    <3> DEFINE g == SendFrame(TRUE, client_ringbuffer[2])
    <3>1. client_ringbuffer' # <<>> /\ client_ringbuffer'[1] = client_ringbuffer[2]
      <4>1. /\ Tail(client_ringbuffer) \in Seq(Message)
            /\ Len(Tail(client_ringbuffer)) = Len(client_ringbuffer) - 1
            /\ Len(client_ringbuffer) \in Nat
        BY <1>0, <2>0
      <4>2. 1 \in 1 .. Len(Tail(client_ringbuffer))
        BY <2>2, <4>1
      <4>3. Tail(client_ringbuffer)[1] = client_ringbuffer[2]
        BY <1>0, <2>0, <2>2
      <4>4. Tail(client_ringbuffer) # <<>>
        BY <4>2
      <4> QED
        BY <2>2, <4>3, <4>4
    <3>2. Fits(g)
      BY <3>1 DEF Fits, FrameFits, SendFrame, Direct, Forced
    <3> HIDE DEF g
    <3>3. Fits(top)
      BY <1>0, <2>0, <2>2, <3>1 DEF Fits, FrameFits, Direct, Forced
    <3>4. Pushes(top, g)
      BY <2>2 DEF g
    <3> QED
      BY <1>0, <1>2, <2>1, <3>2, <3>3, <3>4, FramesStay
  <2> QED
    BY <1>0, <1>2, <2>1, <2>2, FramesStay
<1> QED
  BY <1>3, <1>4

(* What they rely on when a message is stored or dropped.                  *)
LEMMA StoreFrames ==
  ASSUME IInv, SendStore \/ SendDiscard
  PROVE  FramesSound'
<1>0. /\ TypeOK /\ stack \in Seq(Frame) /\ stack # <<>> /\ Len(stack) \in Nat
      /\ client_ringbuffer \in Seq(Message)
  BY StackIs DEF IInv, TypeOK, SendStore, SendDiscard, At
<1>1. /\ clients' = clients /\ state # "SEND_DIRECT" /\ state' # "SEND_DIRECT"
      /\ \/ client_ringbuffer' = client_ringbuffer
         \/ client_ringbuffer' = Append(client_ringbuffer, top.msg)
  BY DEF SendStore, SendDiscard, Buffering
<1>2. /\ client_ringbuffer' # <<>> \/ client_ringbuffer' = client_ringbuffer
      /\ client_ringbuffer # <<>> =>
           client_ringbuffer' # <<>> /\ client_ringbuffer'[1] = client_ringbuffer[1]
  <2>1. CASE client_ringbuffer' = client_ringbuffer
    BY <2>1
  <2>2. CASE client_ringbuffer' = Append(client_ringbuffer, top.msg)
    <3>1. Append(client_ringbuffer, top.msg) # <<>>
      BY <1>0
    <3>2. client_ringbuffer # <<>> => Append(client_ringbuffer, top.msg)[1] = client_ringbuffer[1]
      BY <1>0
    <3> QED
      BY <2>2, <3>1, <3>2
  <2> QED
    BY <1>1, <2>1, <2>2
<1>3. Pops /\ stack' \in Seq(Frame)
  BY ReturningIs DEF IInv, StateSound, Returning
<1>4. ASSUME NEW k \in 1 .. Len(stack) - 1
      PROVE  Fits(stack[k])
  <2>0. k \in 1 .. Len(stack)
    BY <1>0
  <2>1. FrameSound(stack[k])
    BY <2>0 DEF IInv, FramesSound
  <2>2. Forced(stack[k]) => client_ringbuffer # <<>>
    BY <2>0, ForcedIs
  <2> QED
    BY <1>1, <1>2, <2>1, <2>2 DEF Fits, FrameFits, FrameSound
<1> QED
  BY <1>0, <1>3, <1>4, FramesStay

(* A handler's own steps are at the bottom.                                *)
LEMMA HandlerIs ==
  ASSUME IInv, stack # <<>>,
         top.fn \in {"client_connect", "one_s_timer", "sixty_s_timer", "user_overflow"}
  PROVE  Len(stack) = 1 /\ stack[1] = top
<1>1. stack \in Seq(Frame) /\ Len(stack) \in 1 .. Len(stack) /\ stack[Len(stack)] = top
  BY StackIs DEF IInv, TypeOK, top
<1>2. Len(stack) = 1
  BY <1>1, NestingIs DEF IInv
<1> QED
  BY <1>1, <1>2

(* What they rely on when a handler goes on.                               *)
LEMMA HandlerFrames ==
  ASSUME IInv,
         \/ ConnectAnnounced \/ ConnectFlushed \/ UserOverflowSent \/ OneSecondTime \/ TimerReturn
         \/ Announce("client_connect") \/ Announce("sixty_s_timer")
  PROVE  FramesSound'
<1>0. TypeOK /\ stack \in Seq(Frame) /\ StateSound
  BY DEF IInv, TypeOK
<1>1. /\ stack # <<>>
      /\ top.fn \in {"client_connect", "one_s_timer", "sixty_s_timer", "user_overflow"}
  BY DEF ConnectAnnounced, ConnectFlushed, UserOverflowSent, OneSecondTime, TimerReturn, Announce, At
<1>2. \A k \in 1 .. Len(stack) - 1 : Fits(stack[k])
  <2>1. Len(stack) = 1
    BY <1>1, HandlerIs
  <2> QED
    BY <2>1
<1>3. CASE ConnectFlushed \/ UserOverflowSent \/ TimerReturn
  <2>1. Pops /\ stack' \in Seq(Frame)
    BY <1>0, <1>3, ReturningIs DEF Returning, StateSound
  <2> QED
    BY <1>0, <1>2, <2>1, FramesStay
<1>4. CASE ConnectAnnounced
  <2>1. /\ stack' \in Seq(Frame) /\ clients' = clients
        /\ \/ Pops
           \/ /\ Len(clients) = 1 /\ state' = "SEND_BUFFER"
              /\ \E f : /\ Pushes(f, RingFrame) /\ f.fn = "client_connect"
    BY <1>0, <1>4, ConnectAnnouncedIs DEF ConnectAnnounced
  <2>2. CASE /\ Len(clients) = 1 /\ state' = "SEND_BUFFER"
             /\ \E f : /\ Pushes(f, RingFrame) /\ f.fn = "client_connect"
    <3>1. clients' # <<>>
      BY <2>1, <2>2 DEF TypeOK
    <3>2. Fits(RingFrame)
      BY <2>2, <3>1 DEF Fits, FrameFits, RingFrame, Direct, Forced
    <3>3. PICK f : Pushes(f, RingFrame) /\ f.fn = "client_connect"
      BY <2>2
    <3> QED
      BY <1>0, <1>2, <2>1, <3>2, <3>3, FitAnyway, FramesStay
  <2> QED
    BY <1>0, <1>2, <2>1, <2>2, FramesStay
<1>5. CASE OneSecondTime
  <2>1. /\ stack' \in Seq(Frame)
        /\ \/ Pops
           \/ \E f : Pushes(f, SendFrame(FALSE, DaemonMsg)) /\ f.fn = "one_s_timer"
    BY <1>0, <1>5, OneSecondTimeIs
  <2> QED
    BY <1>0, <1>2, <2>1, FitAnyway, FramesStay
<1>6. CASE Announce("client_connect") \/ Announce("sixty_s_timer")
  <2>1. /\ stack' \in Seq(Frame)
        /\ \E f : /\ Pushes(f, SendFrame(FALSE, DaemonMsg))
                  /\ f.fn \in {"client_connect", "sixty_s_timer"}
    BY <1>0, <1>6, AnnounceIs
  <2> QED
    BY <1>0, <1>2, <2>1, FitAnyway, FramesStay
<1> QED
  BY <1>3, <1>4, <1>5, <1>6

(* Events: what their handlers start with relies on nothing, but for the   *)
(* flush of the one second timer.                                          *)
LEMMA EventFrames ==
  ASSUME IInv, Events
  PROVE  FramesSound' /\ TopSound'
<1>0. TypeOK /\ clients \in Seq(Client) /\ client_ringbuffer \in Seq(Message)
  BY DEF IInv, TypeOK
<1>g. FramesSound' <=> \A k \in 1 .. Len(stack') : Fits(stack'[k])
  BY DEF FramesSound, FrameSound, Fits
<1>t. stack' # <<>> => top' = stack'[Len(stack')]
  BY DEF top
<1>1. ASSUME Len(stack') = 1, Fits(stack'[1]), stack'[1].fn # "send_ringbuffer"
      PROVE  FramesSound' /\ TopSound'
  <2>1. top' = stack'[1]
    BY <1>1, <1>t DEF top
  <2>2. FramesSound'
    BY <1>g, <1>1
  <2>3. TopSound'
    BY <1>1, <2>1 DEF TopSound
  <2> QED
    BY <2>2, <2>3
<1>2. ASSUME Len(stack') = 2, Fits(stack'[1]), Fits(stack'[2]),
             \/ stack'[2].fn = "client_send"
             \/ stack'[2].fn = "send_ringbuffer" /\ stack'[2].pc = "start"
      PROVE  FramesSound' /\ TopSound'
  <2>1. top' = stack'[2]
    BY <1>2 DEF top
  <2>2. FramesSound'
    BY <1>g, <1>2
  <2>3. TopSound'
    BY <1>2, <2>1 DEF TopSound
  <2> QED
    BY <2>2, <2>3
<1>3. ASSUME NEW c \in Client, dlt_daemon_process_client_connect(c)
      PROVE  FramesSound' /\ TopSound'
  BY <1>1, <1>3, ConnectIs, FitAnyway
<1>4. CASE AppGone \/ \E i \in 1 .. Len(clients) : ClientGone(i)
  BY <1>0, <1>1, <1>4, GoneIs, FitAnyway
<1>5. CASE dlt_daemon_process_user_message_log
  <2>1. Len(stack') = 1 /\ stack'[1] = SendFrame(FALSE, LogMsg(logs + 1))
    BY <1>0, <1>5, LogIs
  <2>2. /\ stack'[1].fn = "client_send" /\ ~stack'[1].force /\ stack'[1].pc = "start"
    BY <2>1 DEF SendFrame
  <2> QED
    BY <1>1, <2>1, <2>2, FitAnyway
<1>6. ASSUME NEW n \in 1 .. MaxUserOverflow, dlt_daemon_process_user_message_overflow(n)
      PROVE  FramesSound' /\ TopSound'
  <2>1. /\ Len(stack') = 2
        /\ stack'[1] = OverflowFrame(n) /\ stack'[2] = SendFrame(FALSE, OverflowMsg(n))
    BY <1>6, OverflowIs
  <2>2. OverflowFrame(n).fn = "user_overflow" /\ SendFrame(FALSE, OverflowMsg(n)).fn = "client_send"
    BY DEF OverflowFrame, SendFrame
  <2> QED
    BY <1>2, <2>1, <2>2, FitAnyway
<1>7. CASE dlt_daemon_process_one_s_timer
  <2>1. /\ stack'[1].fn = "one_s_timer"
        /\ \/ Len(stack') = 1
           \/ /\ MustFlush /\ Len(stack') = 2
              /\ stack'[2].fn = "send_ringbuffer" /\ stack'[2].pc = "start"
    BY <1>7, OneSecondIs
  <2>2. UNCHANGED <<clients, state, client_ringbuffer>>
    BY <1>7 DEF dlt_daemon_process_one_s_timer, daemon
  <2>3. ASSUME MustFlush, stack'[2].fn = "send_ringbuffer" /\ stack'[2].pc = "start"
        PROVE  Fits(stack'[2])
    <3>1. state # "SEND_DIRECT" /\ (clients # <<>> \/ Len(client_ringbuffer) = RingSize)
      BY <2>3 DEF MustFlush, IInv, StateSound
    <3>2. clients # <<>> \/ client_ringbuffer # <<>>
      BY <1>0, <3>1, BoundAssumption
    <3> QED
      BY <2>2, <2>3, <3>1, <3>2 DEF Fits, FrameFits, Direct, Forced
  <2>4. Fits(stack'[1])
    BY <2>1, FitAnyway
  <2> QED
    BY <1>1, <1>2, <2>1, <2>3, <2>4
<1>8. CASE dlt_daemon_process_sixty_s_timer
  BY <1>1, <1>8, SixtySecondIs, FitAnyway
<1> QED
  BY <1>3, <1>4, <1>5, <1>6, <1>7, <1>8 DEF Events

(* Every step leaves calls what they rely on.                              *)
LEMMA FramesKept ==
  ASSUME IInv, Next
  PROVE  FramesSound'
<1>0. TypeOK /\ StateSound /\ FramesSound /\ stack \in Seq(Frame)
  BY DEF IInv, TypeOK
<1>1. CASE SendReported \/ CloseReturn
  <2>1. Pops /\ stack' \in Seq(Frame) /\ stack # <<>>
    BY <1>0, <1>1, ReturningIs DEF Returning, StateSound
  <2>2. UNCHANGED <<state, clients, client_ringbuffer>>
    BY <1>1 DEF SendReported, CloseReturn, daemon
  <2>3. \A k \in 1 .. Len(stack) - 1 : Fits(stack[k])
    BY <2>1, <2>2, TopFits DEF Fits, FrameSound
  <2> QED
    BY <1>0, <2>1, <2>3, FramesStay
<1>2. CASE CloseInfoSent
  <2>1. /\ stack' \in Seq(Frame) /\ stack # <<>>
        /\ \E f : f.fn = "close_socket" /\ Pushes(f, SendFrame(FALSE, DaemonMsg))
    BY <1>0, <1>2, CloseCallsIs DEF Pushes
  <2>2. UNCHANGED <<state, clients, client_ringbuffer>>
    BY <1>2 DEF CloseInfoSent, daemon
  <2>3. \A k \in 1 .. Len(stack) - 1 : Fits(stack[k])
    BY <2>1, <2>2, TopFits DEF Fits, FrameSound
  <2> QED
    BY <1>0, <2>1, <2>3, FitAnyway, FramesStay
<1>3. CASE \E on \in BOOLEAN : dlt_daemon_control_set_timing_packets(on)
  BY <1>0, <1>3 DEF dlt_daemon_control_set_timing_packets, FramesSound, FrameSound
<1> QED
  BY <1>1, <1>2, <1>3, SendFrames, CloseFrames, RingFrames, StoreFrames, HandlerFrames, EventFrames
     DEF Next, Step, Events, dlt_daemon_client_send, dlt_daemon_close_socket,
         dlt_daemon_send_ringbuffer_to_client

-----------------------------------------------------------------------------
(* The innermost call.                                                     *)
LEMMA NewTop ==
  ASSUME stack \in Seq(Frame), stack' \in Seq(Frame)
  PROVE  /\ \A f : Replaces(f) => top' = f /\ stack' # <<>>
         /\ \A f, g : Pushes(f, g) =>
               /\ top' = g /\ stack' # <<>> /\ Len(stack') = Len(stack) + 1
               /\ stack'[Len(stack') - 1] = f
         /\ Pops => \/ Len(stack) = 1 /\ stack' = <<>>
                    \/ /\ Len(stack) > 1 /\ Len(stack) - 1 \in 1 .. Len(stack) /\ stack' # <<>>
                       /\ top' = stack[Len(stack) - 1]
<1>0. Len(stack) \in Nat /\ Len(stack') \in Nat /\ (stack # <<>> => Len(stack) > 0)
      /\ top' = stack'[Len(stack')]
  BY DEF top
<1>1. ASSUME NEW f, Replaces(f)
      PROVE  top' = f /\ stack' # <<>>
  <2>1. stack # <<>> /\ Len(stack') = Len(stack) /\ stack'[Len(stack)] = f
    BY <1>1 DEF Replaces
  <2> QED
    BY <1>0, <2>1
<1>2. ASSUME NEW f, NEW g, Pushes(f, g)
      PROVE  /\ top' = g /\ stack' # <<>> /\ Len(stack') = Len(stack) + 1
             /\ stack'[Len(stack') - 1] = f
  <2>1. /\ Len(stack') = Len(stack) + 1 /\ stack'[Len(stack) + 1] = g /\ stack'[Len(stack)] = f
    BY <1>2 DEF Pushes
  <2>2. Len(stack') - 1 = Len(stack) /\ stack' # <<>>
    BY <1>0, <2>1
  <2> QED
    BY <1>0, <2>1, <2>2
<1>3. ASSUME Pops
      PROVE  \/ Len(stack) = 1 /\ stack' = <<>>
             \/ /\ Len(stack) > 1 /\ Len(stack) - 1 \in 1 .. Len(stack) /\ stack' # <<>>
                /\ top' = stack[Len(stack) - 1]
  <2>1. /\ stack # <<>> /\ Len(stack') = Len(stack) - 1
        /\ \A k \in 1 .. Len(stack) - 1 : stack'[k] = stack[k]
    BY <1>3 DEF Pops
  <2>2. CASE Len(stack) = 1
    BY <2>1, <2>2
  <2>3. CASE Len(stack) # 1
    <3>1. \A n \in Nat : n > 0 /\ n # 1 =>
             n > 1 /\ n - 1 \in 1 .. n /\ n - 1 \in 1 .. n - 1 /\ n - 1 # 0
      OBVIOUS
    <3>2. /\ Len(stack) > 1 /\ Len(stack) - 1 \in 1 .. Len(stack)
          /\ Len(stack) - 1 \in 1 .. Len(stack) - 1 /\ Len(stack) - 1 # 0
      BY <1>0, <2>1, <2>3, <3>1
    <3>3. stack' # <<>>
      BY <2>1, <3>2
    <3> QED
      BY <1>0, <2>1, <3>2, <3>3
  <2> QED
    BY <2>2, <2>3
<1> QED
  BY <1>1, <1>2, <1>3

(* The innermost call after a return.                                      *)
LEMMA PopTop ==
  ASSUME IInv, stack' \in Seq(Frame), Pops,
         Forced(top) /\ ret' = ERROR_OK => clients' # <<>>
  PROVE  TopSound'
<1>0. stack \in Seq(Frame)
  BY DEF IInv, TypeOK
<1>1. CASE stack' = <<>>
  BY <1>1 DEF TopSound
<1>2. CASE Len(stack) > 1 /\ Len(stack) - 1 \in 1 .. Len(stack) /\ top' = stack[Len(stack) - 1]
  <2>1. Len(stack) - 1 \in 1 .. Len(stack) - 1 /\ (Len(stack) - 1) + 1 = Len(stack)
        /\ Len(stack) - 1 < Len(stack)
    BY <1>0, <1>2
  <2>2. Calls(top', top)
    BY <1>2, <2>1 DEF IInv, Shape, top
  <2>3. top'.fn = "close_socket" => top'.pc # "start"
    BY <1>0, <1>2, <2>1, NestingIs DEF IInv
  <2>4. top'.fn = "send_ringbuffer" => Forced(top)
    BY <2>2 DEF Calls, Plain, Forced
  <2> QED
    BY <2>3, <2>4 DEF TopSound
<1> QED
  BY <1>0, <1>1, <1>2, NewTop

(* The innermost call after a call.                                        *)
LEMMA CallTop ==
  ASSUME stack \in Seq(Frame), stack' \in Seq(Frame),
         \/ \E f : Replaces(f) /\ f.fn = "client_send"
         \/ \E f, g : /\ Pushes(f, g)
                      /\ g.fn = "client_send" \/ (g.fn = "send_ringbuffer" /\ g.pc = "start")
  PROVE  TopSound'
<1>1. top'.fn = "client_send" \/ (top'.fn = "send_ringbuffer" /\ top'.pc = "start")
  BY NewTop
<1> QED
  BY <1>1 DEF TopSound

(* The innermost call finds what it relies on, whatever is done.           *)
LEMMA TopKept ==
  ASSUME IInv, Next
  PROVE  TopSound'
<1>0. /\ TypeOK /\ StateSound /\ FramesSound /\ stack \in Seq(Frame) /\ clients \in Seq(Client)
      /\ stack' \in Seq(Frame)
  BY StackSteps DEF IInv, TypeOK
<1>s. /\ SendFrame(FALSE, DaemonMsg).fn = "client_send" /\ \A b, m : SendFrame(b, m).fn = "client_send"
      /\ RingFrame.fn = "send_ringbuffer" /\ RingFrame.pc = "start"
  BY DEF SendFrame, RingFrame
<1>1. CASE SendStart \/ SendToClient
  <2>1. \E f : Sending(f) /\ Replaces(f)
    BY <1>0, <1>1, SendStartIs, SendToClientIs
  <2> QED
    BY <1>0, <2>1, CallTop, SendingIsSame
<1>2. CASE SendFails
  <2> DEFINE g == CloseFrame(clients[top.i])
  <2>1. /\ clients[top.i] \in Range(clients)
        /\ \E f : /\ Sending(f) /\ Pushes(f, g) /\ f.sent = top.sent
    BY <1>0, <1>2, SendFailsIs
  <2>2. g.fn = "close_socket" /\ g.sock = clients[top.i]
    BY DEF CloseFrame
  <2> HIDE DEF g
  <2>3. PICK f : Sending(f) /\ Pushes(f, g) /\ f.sent = top.sent
    BY <2>1
  <2>4. top' = g /\ stack' # <<>> /\ stack'[Len(stack') - 1] = f
    BY <1>0, <2>3, NewTop
  <2>5. /\ stack # <<>> /\ top.i \in 1 .. Len(clients) /\ top.fn = "client_send"
        /\ clients' = clients
    BY <1>0, <1>2, TopSends DEF SendFails
  <2>6. ASSUME Forced(f), f.sent
        PROVE  \E c \in Range(clients) : c # clients[top.i]
    <3>1. Forced(top) /\ top.sent
      BY <2>3, <2>5, <2>6 DEF Forced, Sending
    <3>2. top.i > 1
      BY <2>5, <3>1, TopFits DEF FrameSound, FrameFits
    <3>3. 1 \in 1 .. Len(clients) /\ 1 # top.i
      BY <1>0, <2>5, <3>2
    <3>4. clients[1] # clients[top.i]
      BY <1>0, <2>5, <3>3 DEF TypeOK, IsInjective
    <3>5. clients[1] \in Range(clients)
      BY <1>0, <3>3 DEF Range
    <3> QED
      BY <3>4, <3>5
  <2>7. Range(clients') = Range(clients)
    BY <2>5
  <2>8. Range(clients)' = Range(clients)
    BY <2>5 DEF Range
  <2> QED
    BY <2>1, <2>2, <2>4, <2>6, <2>8 DEF TopSound
<1>3. CASE SendLoopDone
  <2>1. (Pops /\ ret' = ERROR_SEND_FAILED) \/ \E f : Sending(f) /\ Replaces(f)
    BY <1>0, <1>3, SendLoopDoneIs
  <2>2. ERROR_SEND_FAILED # ERROR_OK
    BY DEF ERROR_SEND_FAILED, ERROR_OK
  <2> QED
    BY <1>0, <2>1, <2>2, CallTop, PopTop, SendingIsSame
<1>4. CASE SendStore \/ SendDiscard
  <2>1. Pops /\ ~Forced(top)
    BY <1>0, <1>4, ReturningIs DEF Returning, SendStore, SendDiscard, Forced, StateSound
  <2> QED
    BY <1>0, <2>1, PopTop
<1>5. CASE SendReport
  <2>0. stack # <<>> /\ top.pc = "store" /\ clients' = clients
    BY <1>5 DEF SendReport, At
  <2>1. \/ Pops
        \/ \E f : Pushes(f, SendFrame(FALSE, OverflowMsg(overflow_counter)))
    BY <1>0, <1>5, SendReportIs
  <2>2. Forced(top) => clients' # <<>>
    BY <2>0, TopFits DEF FrameSound, FrameFits
  <2> QED
    BY <1>0, <1>s, <2>1, <2>2, CallTop, PopTop
<1>6. CASE SendReported
  <2>0. stack # <<>> /\ top.pc = "reported" /\ clients' = clients
    BY <1>6 DEF SendReported, At
  <2>1. Pops
    BY <1>0, <1>6, ReturningIs DEF Returning, StateSound
  <2>2. Forced(top) => clients' # <<>>
    BY <2>0, TopFits DEF FrameSound, FrameFits
  <2> QED
    BY <1>0, <2>1, <2>2, PopTop
<1>7. CASE CloseReturn \/ ConnectFlushed \/ UserOverflowSent \/ TimerReturn
  <2>1. Pops /\ ~Forced(top)
    BY <1>0, <1>7, ReturningIs
       DEF Returning, CloseReturn, ConnectFlushed, UserOverflowSent, TimerReturn, At, Forced, StateSound
  <2> QED
    BY <1>0, <2>1, PopTop
<1>8. CASE CloseUnregister \/ CloseInfoSent
  <2>1. \E f : Pushes(f, SendFrame(FALSE, DaemonMsg))
    BY <1>0, <1>8, CloseCallsIs
  <2> QED
    BY <1>0, <1>s, <2>1, CallTop
<1>9. CASE RingStart
  <2>1. Pops \/ \E f : Pushes(f, SendFrame(TRUE, client_ringbuffer[1]))
    BY <1>0, <1>9, RingStartIs
  <2>2. ~Forced(top)
    BY <1>9 DEF RingStart, At, Forced
  <2> QED
    BY <1>0, <1>s, <2>1, <2>2, CallTop, PopTop
<1>10. CASE RingSent
  <2>0. stack # <<>> /\ top.fn = "send_ringbuffer" /\ top.pc = "sent"
    BY <1>10 DEF RingSent, At
  <2>r. client_ringbuffer # <<>>
    BY <2>0, TopFits DEF FrameSound, FrameFits
  <2>1. Pops \/ Pushes(top, SendFrame(TRUE, client_ringbuffer[2]))
    BY <1>0, <1>10, <2>r, RingSentIs
  <2>2. ~Forced(top)
    BY <2>0 DEF Forced
  <2> QED
    BY <1>0, <1>s, <2>1, <2>2, CallTop, PopTop
<1>11. CASE ConnectAnnounced
  <2>1. Pops \/ \E f : Pushes(f, RingFrame)
    BY <1>0, <1>11, ConnectAnnouncedIs
  <2>2. ~Forced(top)
    BY <1>11 DEF ConnectAnnounced, At, Forced
  <2> QED
    BY <1>0, <1>s, <2>1, <2>2, CallTop, PopTop
<1>12. CASE OneSecondTime
  <2>1. Pops \/ \E f : Pushes(f, SendFrame(FALSE, DaemonMsg))
    BY <1>0, <1>12, OneSecondTimeIs
  <2>2. ~Forced(top)
    BY <1>12 DEF OneSecondTime, At, Forced
  <2> QED
    BY <1>0, <1>s, <2>1, <2>2, CallTop, PopTop
<1>13. CASE Announce("client_connect") \/ Announce("sixty_s_timer")
  <2>1. \E f : Pushes(f, SendFrame(FALSE, DaemonMsg))
    BY <1>0, <1>13, AnnounceIs
  <2> QED
    BY <1>0, <1>s, <2>1, CallTop
<1>14. CASE \E on \in BOOLEAN : dlt_daemon_control_set_timing_packets(on)
  <2>1. stack' = <<>>
    BY <1>14 DEF dlt_daemon_control_set_timing_packets, Idle
  <2> QED
    BY <2>1 DEF TopSound
<1> QED
  BY <1>1, <1>2, <1>3, <1>4, <1>5, <1>6, <1>7, <1>8, <1>9, <1>10, <1>11, <1>12, <1>13, <1>14,
     EventFrames
     DEF Next, Step, Events, dlt_daemon_client_send, dlt_daemon_close_socket,
         dlt_daemon_send_ringbuffer_to_client

-----------------------------------------------------------------------------
(* The front of the ring buffer, once sent, is removed before anything     *)
(* else is done with it.                                                   *)
LEMMA DeeperStays ==
  ASSUME stack \in Seq(Frame), stack' \in Seq(Frame), StackStep,
         NEW k \in 1 .. Len(stack) - 1
  PROVE  k \in 1 .. Len(stack') /\ stack'[k] = stack[k] /\ k \in 1 .. Len(stack)
<1>0. Len(stack) \in Nat /\ Len(stack') \in Nat /\ k \in 1 .. Len(stack) /\ stack # <<>>
  OBVIOUS
<1>1. CASE \E f : Replaces(f)
  BY <1>0, <1>1 DEF Replaces
<1>2. CASE \E f, g : Pushes(f, g)
  BY <1>0, <1>2 DEF Pushes
<1>3. CASE Pops
  BY <1>0, <1>3 DEF Pops
<1>4. CASE UNCHANGED stack
  BY <1>0, <1>4
<1> QED
  BY <1>0, <1>1, <1>2, <1>3, <1>4 DEF StackStep, Starts

(* Who got the front of the ring buffer stays marked until it is removed.  *)
LEMMA SentFrontStays ==
  ASSUME IInv, Next, ~(RingSent /\ ret = ERROR_OK),
         NEW c \in Range(clients), SentFront(c)
  PROVE  SentFront(c)' \/ c \notin Range(clients')
<1>0. /\ TypeOK /\ StateSound /\ stack \in Seq(Frame) /\ stack' \in Seq(Frame) /\ StackStep
      /\ clients \in Seq(Client) /\ Len(stack) \in Nat
  BY StackSteps DEF IInv, TypeOK
<1>1. CASE stack # <<>> /\ top.fn = "send_ringbuffer" /\ top.pc = "sent" /\ ret = ERROR_OK
  <2>1. RingStart \/ RingSent
    BY <1>1, TopActs DEF dlt_daemon_send_ringbuffer_to_client
  <2>2. ~RingStart
    BY <1>1 DEF RingStart, At
  <2> QED
    BY <1>1, <2>1, <2>2
<1>2. CASE \E k \in 1 .. Len(stack) :
             /\ Forced(stack[k]) /\ stack[k].sent
             /\ stack[k].pc = "loop" => \E m \in 1 .. Len(clients) : m < stack[k].i /\ clients[m] = c
  <2>1. PICK k \in 1 .. Len(stack) :
             /\ Forced(stack[k]) /\ stack[k].sent
             /\ stack[k].pc = "loop" => \E m \in 1 .. Len(clients) : m < stack[k].i /\ clients[m] = c
    BY <1>2
  <2>2. k = 3 /\ FrameSound(stack[k]) /\ stack # <<>>
    BY <2>1, ForcedIs
  <2>3. CASE k < Len(stack)
    <3>1. k \in 1 .. Len(stack) - 1
      BY <1>0, <2>3
    <3>2. k \in 1 .. Len(stack') /\ stack'[k] = stack[k]
      BY <1>0, <3>1, DeeperStays
    <3>i. stack[k].pc = "loop" => stack[k].i \in Nat
      <4>1. stack[k] \in Frame /\ stack[k].fn = "client_send"
        BY <1>0, <2>1 DEF Forced
      <4> QED
        BY <4>1, FrameIs
    <3>3. CASE UNCHANGED clients
      <4>1. stack'[k].pc = "loop" => \E m \in 1 .. Len(clients') : m < stack'[k].i /\ clients'[m] = c
        BY <2>1, <3>2, <3>3
      <4>2. Forced(stack'[k]) /\ stack'[k].sent
        BY <2>1, <3>2
      <4> QED
        BY <3>2, <4>1, <4>2 DEF SentFront
    <3>4. CASE CloseUnregister /\ c \in Range(clients')
      <4>1. stack'[k].pc = "loop" => \E m \in 1 .. Len(clients') : m < stack'[k].i /\ clients'[m] = c
        <5>1. CASE stack[k].pc = "loop"
          <6>1. PICK m \in 1 .. Len(clients) : m < stack[k].i /\ clients[m] = c
            BY <2>1, <5>1
          <6>2. CASE clients' = clients
            BY <3>2, <6>1, <6>2
          <6>3. CASE /\ Len(clients') = Len(clients) - 1
                     /\ \E p \in 1 .. Len(clients) :
                           /\ clients[p] = top.sock
                           /\ \A j \in 1 .. p - 1 : clients'[j] = clients[j]
                           /\ \A j \in p .. Len(clients) - 1 : clients'[j] = clients[j + 1]
            <7>1. PICK p \in 1 .. Len(clients) :
                           /\ \A j \in 1 .. p - 1 : clients'[j] = clients[j]
                           /\ \A j \in p .. Len(clients) - 1 : clients'[j] = clients[j + 1]
              BY <6>3
            <7>2. PICK q \in 1 .. Len(clients') : clients'[q] = c
              <8>1. clients' \in Seq(Client)
                BY <1>0, <3>4, ClientsLeft
              <8> QED
                BY <3>4, <8>1 DEF Range
            <7>3. Len(clients) \in Nat /\ q \in 1 .. Len(clients) - 1
              BY <1>0, <6>3, <7>2
            <7>4. \A x, y \in 1 .. Len(clients) : clients[x] = clients[y] => x = y
              <8>1. clients \in Seq(Client) /\ IsInjective(clients)
                BY <1>0 DEF TypeOK
              <8> QED
                BY <8>1 DEF IsInjective
            <7>5. q <= m
              <8>1. CASE q < p
                <9>1. q \in 1 .. p - 1 /\ q \in 1 .. Len(clients)
                  BY <7>3, <8>1
                <9>2. q = m
                  BY <6>1, <7>1, <7>2, <7>4, <9>1
                <9> QED
                  BY <7>3, <9>2
              <8>2. CASE q >= p
                <9>1. q \in p .. Len(clients) - 1 /\ q + 1 \in 1 .. Len(clients)
                  BY <7>3, <8>2
                <9>2. q + 1 = m
                  BY <6>1, <7>1, <7>2, <7>4, <9>1
                <9> QED
                  BY <7>3, <9>2
              <8> QED
                BY <7>3, <8>1, <8>2
            <7>6. q < stack[k].i
              BY <3>i, <5>1, <6>1, <7>3, <7>5
            <7> QED
              BY <3>2, <7>2, <7>6
          <6> QED
            BY <1>0, <3>4, <6>2, <6>3, ClientsLeft
        <5> QED
          BY <3>2, <5>1
      <4>2. Forced(stack'[k]) /\ stack'[k].sent
        BY <2>1, <3>2
      <4> QED
        BY <3>2, <4>1, <4>2 DEF SentFront
    <3>5. \A x : ~dlt_daemon_process_client_connect(x)
      BY <2>2 DEF dlt_daemon_process_client_connect, Idle
    <3>6. SendToClient \/ SendStore \/ RingSent => UNCHANGED clients
      BY DEF SendToClient, SendStore, RingSent
    <3> QED
      BY <3>3, <3>4, <3>5, <3>6, LoudIs, QuietIs
  <2>4. CASE k = Len(stack)
    <3>1. top = stack[k] /\ top.fn = "client_send" /\ top.force /\ top.sent
      BY <2>1, <2>4 DEF top, Forced
    <3>2. dlt_daemon_client_send
      BY <2>2, <3>1, TopActs
    <3>t. top \in Frame /\ top.i \in Nat \ {0}
      BY <1>0, <2>2, <3>1, StackIs, FrameIs
    <3>f. ASSUME NEW f, Sending(f), f.sent, Len(stack') >= Len(stack), stack'[Len(stack)] = f,
                 f.pc = "loop" => \E m \in 1 .. Len(clients') : m < f.i /\ clients'[m] = c
          PROVE  SentFront(c)'
      <4>1. k \in 1 .. Len(stack') /\ stack'[k] = f
        BY <1>0, <2>4, <3>f
      <4>2. Forced(f)
        BY <3>1, <3>f DEF Sending, Forced
      <4> QED
        BY <3>f, <4>1, <4>2 DEF SentFront
    <3>p. ASSUME Pops, ret' = ERROR_OK
          PROVE  SentFront(c)'
      <4>1. k - 1 = 2 /\ Len(stack) > 1 /\ Len(stack) - 1 = 2
        BY <2>2, <2>4
      <4>2. stack' # <<>> /\ top' = stack[2]
        <5>1. Len(stack) # 1 /\ stack[Len(stack) - 1] = stack[2]
          <6>1. Len(stack) # 1
            BY <4>1
          <6>2. stack[Len(stack) - 1] = stack[2]
            BY <4>1, Zenon
          <6> QED
            BY <6>1, <6>2
        <5>2. Pops
          BY <3>p
        <5> QED
          BY <1>0, <5>1, <5>2, NewTop
      <4>3. stack[2].fn = "send_ringbuffer" /\ stack[2].pc = "sent"
        BY <1>0, <2>1, NestingIs DEF IInv
      <4>4. (stack # <<>> /\ top.fn = "send_ringbuffer" /\ top.pc = "sent" /\ ret = ERROR_OK)'
        BY <3>p, <4>2, <4>3
      <4> QED
        BY <4>4 DEF SentFront
    <3>3. CASE SendStart
      <4>1. top.pc = "start"
        BY <3>3 DEF SendStart, At
      <4> QED
        BY <2>2, <3>1, <4>1 DEF FrameSound, FrameFits, Forced
    <3>4. CASE SendToClient
      <4>1. top.pc = "loop" /\ clients' = clients
        BY <3>4 DEF SendToClient, At
      <4>2. PICK f : Sending(f) /\ Replaces(f) /\ f.pc = "loop" /\ f.i = top.i + 1 /\ f.sent
        BY <1>0, <3>4, SendToClientIs
      <4>3. \E m \in 1 .. Len(clients') : m < f.i /\ clients'[m] = c
        BY <2>1, <3>1, <3>t, <4>1, <4>2
      <4>4. Len(stack') >= Len(stack) /\ stack'[Len(stack)] = f
        BY <1>0, <4>2 DEF Replaces
      <4> QED
        BY <3>f, <4>2, <4>3, <4>4
    <3>5. CASE SendFails
      <4>1. top.pc = "loop" /\ clients' = clients
        BY <3>5 DEF SendFails, At
      <4>2. PICK f : /\ Sending(f) /\ Pushes(f, CloseFrame(clients[top.i]))
                     /\ f.pc = "loop" /\ f.i = top.i + 1 /\ f.sent = top.sent
        BY <1>0, <3>5, SendFailsIs
      <4>3. \E m \in 1 .. Len(clients') : m < f.i /\ clients'[m] = c
        BY <2>1, <3>1, <3>t, <4>1, <4>2
      <4>4. Len(stack') >= Len(stack) /\ stack'[Len(stack)] = f
        BY <1>0, <4>2 DEF Pushes
      <4>5. f.sent
        BY <3>1, <4>2
      <4> QED
        BY <3>f, <4>2, <4>3, <4>4, <4>5
    <3>6. CASE SendLoopDone
      <4>1. PICK f : Sending(f) /\ Replaces(f) /\ f.pc = "store" /\ f.sent = top.sent
        BY <1>0, <3>1, <3>6, SendLoopDoneIs
      <4>2. Len(stack') >= Len(stack) /\ stack'[Len(stack)] = f
        BY <1>0, <4>1 DEF Replaces
      <4>3. f.sent /\ f.pc # "loop"
        BY <3>1, <4>1
      <4> QED
        BY <3>f, <4>1, <4>2, <4>3
    <3>7. CASE SendStore \/ SendDiscard
      BY <3>1, <3>7 DEF SendStore, SendDiscard
    <3>8. CASE SendReport
      <4>1. CASE Pops /\ ret' = ERROR_OK
        BY <3>p, <4>1
      <4>2. CASE \E f : /\ Sending(f) /\ Pushes(f, SendFrame(FALSE, OverflowMsg(overflow_counter)))
                        /\ f.pc = "reported" /\ f.sent = top.sent
        <5>1. PICK f : /\ Sending(f) /\ Pushes(f, SendFrame(FALSE, OverflowMsg(overflow_counter)))
                       /\ f.pc = "reported" /\ f.sent = top.sent
          BY <4>2
        <5>2. Len(stack') >= Len(stack) /\ stack'[Len(stack)] = f
          BY <1>0, <5>1 DEF Pushes
        <5>3. f.sent /\ f.pc # "loop"
          BY <3>1, <5>1
        <5> QED
          BY <3>f, <5>1, <5>2, <5>3
      <4> QED
        BY <1>0, <3>8, <4>1, <4>2, SendReportIs
    <3>9. CASE SendReported
      <4>1. Pops /\ ret' = ERROR_OK
        <5>1. ~SendDiscard
          BY <3>9 DEF SendReported, SendDiscard, At
        <5> QED
          BY <1>0, <3>9, <5>1, ReturningIs DEF Returning, StateSound
      <4> QED
        BY <3>p, <4>1
    <3> QED
      BY <3>2, <3>3, <3>4, <3>5, <3>6, <3>7, <3>8, <3>9 DEF dlt_daemon_client_send
  <2> QED
    BY <1>0, <2>3, <2>4
<1> QED
  BY <1>1, <1>2 DEF SentFront

-----------------------------------------------------------------------------
(* What was delivered is in order.                                         *)
LEMMA LogsIs ==
  ASSUME Next
  PROVE  logs' = logs \/ (dlt_daemon_process_user_message_log /\ logs' = logs + 1)
<1> USE DEF daemon, hist
<1>1. CASE SendStart \/ SendToClient \/ SendFails \/ SendLoopDone \/ SendStore
  BY <1>1 DEF SendStart, SendToClient, SendFails, SendLoopDone, SendStore
<1>2. CASE SendDiscard \/ SendReport \/ SendReported
  BY <1>2 DEF SendDiscard, SendReport, SendReported
<1>3. CASE CloseUnregister \/ CloseInfoSent \/ CloseReturn \/ RingStart \/ RingSent
  BY <1>3 DEF CloseUnregister, CloseInfoSent, CloseReturn, RingStart, RingSent
<1>4. CASE ConnectAnnounced \/ ConnectFlushed \/ UserOverflowSent \/ OneSecondTime \/ TimerReturn
  BY <1>4 DEF ConnectAnnounced, ConnectFlushed, UserOverflowSent, OneSecondTime, TimerReturn
<1>5. CASE Announce("client_connect") \/ Announce("sixty_s_timer")
  BY <1>5 DEF Announce
<1>6. ASSUME NEW x, ClientGone(x) \/ dlt_daemon_control_set_timing_packets(x)
                    \/ dlt_daemon_process_user_message_overflow(x)
                    \/ dlt_daemon_process_client_connect(x)
      PROVE  logs' = logs
  BY <1>6 DEF ClientGone, dlt_daemon_control_set_timing_packets,
              dlt_daemon_process_user_message_overflow, dlt_daemon_process_client_connect
<1>7. CASE AppGone \/ dlt_daemon_process_one_s_timer \/ dlt_daemon_process_sixty_s_timer
  BY <1>7 DEF AppGone, dlt_daemon_process_one_s_timer, dlt_daemon_process_sixty_s_timer
<1>8. CASE dlt_daemon_process_user_message_log
  BY <1>8 DEF dlt_daemon_process_user_message_log
<1> QED
  BY <1>1, <1>2, <1>3, <1>4, <1>5, <1>6, <1>7, <1>8
     DEF Next, Step, dlt_daemon_client_send, dlt_daemon_close_socket,
         dlt_daemon_send_ringbuffer_to_client

(* Before a message is before a later one.                                 *)
LEMMA BeforeIs ==
  ASSUME TypeOK, NEW c \in Client, NEW n \in Nat, NEW m \in Nat, n <= m, Before(c, n)
  PROVE  Before(c, m)
<1>1. \A i \in 1 .. Len(delivered[c]) : delivered[c][i] \in Nat
  BY DEF TypeOK
<1> QED
  BY <1>1 DEF Before

(* What the ring buffer holds was logged.                                  *)
LEMMA RingIds ==
  ASSUME TypeOK, NEW j \in 1 .. Len(client_ringbuffer)
  PROVE  client_ringbuffer[j] \in Message /\ client_ringbuffer[j].id \in Nat /\ j \in Nat
<1>1. client_ringbuffer[j] \in Message
  BY DEF TypeOK
<1> QED
  BY <1>1 DEF Message

(* Steps that leave the lists alone keep them in order.                    *)
LEMMA QuietOrder ==
  ASSUME IInv, Next, UNCHANGED <<clients, client_ringbuffer, delivered, connected>>
  PROVE  OrderSound'
<1>0. /\ TypeOK /\ OrderSound /\ logs \in Nat /\ clients \in Seq(Client)
      /\ UNCHANGED <<clients, client_ringbuffer, delivered, connected>>
  BY DEF IInv, TypeOK
<1>1. logs' \in Nat /\ logs <= logs'
  BY <1>0, LogsIs
<1>b. \A c, n : Before(c, n)' <=> Before(c, n)
  BY <1>0 DEF Before
<1>2. DeliveredInOrder'
  BY <1>0 DEF OrderSound, DeliveredInOrder
<1>3. PastSound'
  <2>1. \A c \in Client : Before(c, logs' + 1)
    <3>1. logs + 1 \in Nat /\ logs' + 1 \in Nat /\ logs + 1 <= logs' + 1
      <4>1. \A m, n \in Nat : m <= n => m + 1 \in Nat /\ n + 1 \in Nat /\ m + 1 <= n + 1
        OBVIOUS
      <4> QED
        BY <1>0, <1>1, <4>1
    <3>2. \A c \in Client : Before(c, logs + 1)
      BY <1>0 DEF OrderSound, PastSound
    <3> QED
      BY <1>0, <3>1, <3>2, BeforeIs
  <2>2. \A c \in Client : Before(c, logs + 1)'
    BY <1>0, <2>1 DEF Before
  <2> QED
    BY <1>0, <2>2 DEF OrderSound, PastSound
<1>4. ~(RingSent /\ ret = ERROR_OK)
  <2>1. CASE ~RingSent
    BY <2>1
  <2>2. CASE RingSent
    <3>1. stack # <<>> /\ top.fn = "send_ringbuffer" /\ top.pc = "sent"
      BY <2>2 DEF RingSent, At
    <3>2. client_ringbuffer # <<>>
      BY <3>1, TopFits DEF FrameSound, FrameFits
    <3>3. client_ringbuffer' = Tail(client_ringbuffer) => client_ringbuffer' # client_ringbuffer
      <4>1. Len(Tail(client_ringbuffer)) = Len(client_ringbuffer) - 1 /\ Len(client_ringbuffer) \in Nat
        BY <1>0, <3>2 DEF TypeOK
      <4>2. Len(Tail(client_ringbuffer)) # Len(client_ringbuffer)
        BY <4>1
      <4> QED
        BY <4>2
    <3> QED
      BY <1>0, <2>2, <3>2, <3>3, RingSentIs
  <2> QED
    BY <2>1, <2>2
<1>5. ASSUME NEW j \in 1 .. Len(client_ringbuffer), client_ringbuffer[j].kind = "log"
      PROVE  /\ client_ringbuffer[j].id <= logs'
             /\ \A l \in 1 .. Len(client_ringbuffer) : l < j /\ client_ringbuffer[l].kind = "log" =>
                   client_ringbuffer[l].id < client_ringbuffer[j].id
             /\ \A c \in Range(clients) :
                   \/ Before(c, client_ringbuffer[j].id)
                   \/ j = 1 /\ SentFront(c)' /\ Before(c, client_ringbuffer[j].id + 1)
  <2>1. /\ client_ringbuffer[j].id <= logs
        /\ \A l \in 1 .. Len(client_ringbuffer) : l < j /\ client_ringbuffer[l].kind = "log" =>
              client_ringbuffer[l].id < client_ringbuffer[j].id
        /\ \A c \in Range(clients) :
              \/ Before(c, client_ringbuffer[j].id)
              \/ j = 1 /\ SentFront(c) /\ Before(c, client_ringbuffer[j].id + 1)
    BY <1>0, <1>5 DEF OrderSound, RingOrdered
  <2>2. client_ringbuffer[j].id \in Nat
    BY <1>0, RingIds
  <2>3. \A c \in Range(clients) : SentFront(c) => SentFront(c)'
    BY <1>0, <1>4, SentFrontStays
  <2> QED
    BY <1>0, <1>1, <2>1, <2>2, <2>3
<1>6. RingOrdered'
  BY <1>0, <1>5 DEF RingOrdered, Before, Range
<1> QED
  BY <1>2, <1>3, <1>6 DEF OrderSound

(* The list of clients changes.                                            *)
LEMMA CloseOrder ==
  ASSUME IInv, Next, CloseUnregister
  PROVE  OrderSound'
<1>0. /\ TypeOK /\ OrderSound /\ logs \in Nat /\ clients \in Seq(Client)
      /\ UNCHANGED <<client_ringbuffer, delivered, connected, logs>>
  BY DEF IInv, TypeOK, CloseUnregister, hist
<1>1. clients' \in Seq(Client) /\ Range(clients') \subseteq Range(clients)
  <2>1. clients' \in Seq(Client)
    BY <1>0, ClientsLeft
  <2>2. CASE clients' = clients
    BY <2>1, <2>2
  <2>3. CASE /\ Len(clients') = Len(clients) - 1
             /\ \E p \in 1 .. Len(clients) :
                   /\ clients[p] = top.sock
                   /\ \A j \in 1 .. p - 1 : clients'[j] = clients[j]
                   /\ \A j \in p .. Len(clients) - 1 : clients'[j] = clients[j + 1]
    <3>1. PICK p \in 1 .. Len(clients) :
                   /\ \A j \in 1 .. p - 1 : clients'[j] = clients[j]
                   /\ \A j \in p .. Len(clients) - 1 : clients'[j] = clients[j + 1]
      BY <2>3
    <3>2. ASSUME NEW q \in 1 .. Len(clients')
          PROVE  clients'[q] \in Range(clients)
      <4>1. Len(clients) \in Nat /\ q \in 1 .. Len(clients) - 1
        BY <1>0, <2>3
      <4>2. CASE q < p
        <5>1. q \in 1 .. p - 1 /\ q \in 1 .. Len(clients)
          BY <4>1, <4>2
        <5> QED
          BY <1>0, <3>1, <5>1 DEF Range
      <4>3. CASE q >= p
        <5>1. q \in p .. Len(clients) - 1 /\ q + 1 \in 1 .. Len(clients)
          BY <4>1, <4>3
        <5> QED
          BY <1>0, <3>1, <5>1 DEF Range
      <4> QED
        BY <4>1, <4>2, <4>3
    <3> QED
      BY <2>1, <3>2 DEF Range
  <2> QED
    BY <1>0, <2>1, <2>2, <2>3, ClientsLeft
<1>2. DeliveredInOrder'
  BY <1>0 DEF OrderSound, DeliveredInOrder
<1>3. PastSound'
  BY <1>0, <1>1 DEF OrderSound, PastSound, Before, Range
<1>4. ~(RingSent /\ ret = ERROR_OK)
  BY DEF CloseUnregister, RingSent, At
<1>5. ASSUME NEW j \in 1 .. Len(client_ringbuffer), client_ringbuffer[j].kind = "log"
      PROVE  /\ client_ringbuffer[j].id <= logs
             /\ \A l \in 1 .. Len(client_ringbuffer) : l < j /\ client_ringbuffer[l].kind = "log" =>
                   client_ringbuffer[l].id < client_ringbuffer[j].id
             /\ \A c \in Range(clients') :
                   \/ Before(c, client_ringbuffer[j].id)
                   \/ j = 1 /\ SentFront(c)' /\ Before(c, client_ringbuffer[j].id + 1)
  <2>1. /\ client_ringbuffer[j].id <= logs
        /\ \A l \in 1 .. Len(client_ringbuffer) : l < j /\ client_ringbuffer[l].kind = "log" =>
              client_ringbuffer[l].id < client_ringbuffer[j].id
        /\ \A c \in Range(clients) :
              \/ Before(c, client_ringbuffer[j].id)
              \/ j = 1 /\ SentFront(c) /\ Before(c, client_ringbuffer[j].id + 1)
    BY <1>0, <1>5 DEF OrderSound, RingOrdered
  <2>3. \A c \in Range(clients') : SentFront(c) => SentFront(c)'
    BY <1>1, <1>4, SentFrontStays
  <2> QED
    BY <1>1, <2>1, <2>3
<1>6. RingOrdered'
  BY <1>0, <1>5 DEF RingOrdered, Before, Range
<1> QED
  BY <1>2, <1>3, <1>6 DEF OrderSound

(* A client that connects got nothing yet.                                 *)
LEMMA ConnectOrder ==
  ASSUME IInv, NEW d \in Client, dlt_daemon_process_client_connect(d)
  PROVE  OrderSound'
<1>0. /\ TypeOK /\ OrderSound /\ logs \in Nat /\ clients \in Seq(Client)
      /\ UNCHANGED <<client_ringbuffer, delivered, logs>> /\ stack = <<>>
      /\ connected' = connected \cup {d} /\ d \notin connected /\ clients' = Append(clients, d)
  BY DEF IInv, TypeOK, dlt_daemon_process_client_connect, daemon, Idle
<1>1. Range(clients') = Range(clients) \cup {d}
  <2>1. /\ clients' \in Seq(Client) /\ Len(clients') = Len(clients) + 1 /\ Len(clients) \in Nat
        /\ clients'[Len(clients) + 1] = d /\ \A i \in 1 .. Len(clients) : clients'[i] = clients[i]
    BY <1>0
  <2>2. ASSUME NEW x \in Range(clients')
        PROVE  x \in Range(clients) \cup {d}
    <3>1. PICK i \in 1 .. Len(clients) + 1 : clients'[i] = x
      BY <2>1, <2>2 DEF Range
    <3>2. i \in 1 .. Len(clients) \/ i = Len(clients) + 1
      BY <2>1
    <3> QED
      BY <1>0, <2>1, <3>1, <3>2 DEF Range
  <2>3. ASSUME NEW x \in Range(clients) \cup {d}
        PROVE  x \in Range(clients')
    <3>1. CASE x = d
      <4>1. Len(clients) + 1 \in 1 .. Len(clients')
        BY <2>1
      <4> QED
        BY <2>1, <3>1, <4>1 DEF Range
    <3>2. CASE x \in Range(clients)
      <4>1. PICK i \in 1 .. Len(clients) : clients[i] = x
        BY <1>0, <3>2 DEF Range
      <4>2. i \in 1 .. Len(clients')
        BY <2>1
      <4> QED
        BY <2>1, <4>1, <4>2 DEF Range
    <3> QED
      BY <3>1, <3>2
  <2> QED
    BY <2>2, <2>3
<1>e. delivered[d] = <<>>
  BY <1>0 DEF OrderSound, PastSound
<1>b. \A n : Before(d, n)
  BY <1>e DEF Before
<1>2. DeliveredInOrder'
  BY <1>0 DEF OrderSound, DeliveredInOrder
<1>3. PastSound'
  <2>1. Range(clients)' \subseteq connected'
    <3>1. Range(clients') \subseteq connected'
      BY <1>0, <1>1 DEF OrderSound, PastSound
    <3> QED
      BY <3>1 DEF Range
  <2>2. (\A c \in Client : Before(c, logs + 1))'
    BY <1>0 DEF OrderSound, PastSound, Before
  <2> QED
    BY <1>0, <2>1, <2>2 DEF OrderSound, PastSound
<1>4. \A c : ~SentFront(c)
  BY <1>0 DEF SentFront
<1>5. ASSUME NEW j \in 1 .. Len(client_ringbuffer), client_ringbuffer[j].kind = "log"
      PROVE  /\ client_ringbuffer[j].id <= logs
             /\ \A l \in 1 .. Len(client_ringbuffer) : l < j /\ client_ringbuffer[l].kind = "log" =>
                   client_ringbuffer[l].id < client_ringbuffer[j].id
             /\ \A c \in Range(clients') : Before(c, client_ringbuffer[j].id)
  BY <1>0, <1>1, <1>4, <1>5, <1>b DEF OrderSound, RingOrdered
<1>6. RingOrdered'
  BY <1>0, <1>5 DEF RingOrdered, Before, Range
<1> QED
  BY <1>2, <1>3, <1>6 DEF OrderSound

(* The message at the bottom of the stack.                                 *)
LEMMA LogAtBottom ==
  ASSUME IInv, stack # <<>>, top.fn = "client_send", ~top.force, top.msg.kind = "log"
  PROVE  Len(stack) = 1 /\ stack[1] = top
<1>1. stack \in Seq(Frame) /\ Len(stack) \in 1 .. Len(stack) /\ stack[Len(stack)] = top
  BY StackIs DEF IInv, TypeOK, top
<1>2. ~(Len(stack) > 1)
  BY <1>1, NestingIs DEF IInv
<1>3. Len(stack) = 1
  <2>1. \A n \in Nat : n \in 1 .. n /\ ~(n > 1) => n = 1
    OBVIOUS
  <2>2. Len(stack) \in Nat
    BY <1>1
  <2> QED
    BY <1>1, <1>2, <2>1, <2>2
<1> QED
  BY <1>1, <1>3

(* A message that is stored is later than all in the ring buffer.          *)
LEMMA StoreOrder ==
  ASSUME IInv, Next, SendStore
  PROVE  OrderSound'
<1>0. /\ TypeOK /\ OrderSound /\ logs \in Nat /\ clients \in Seq(Client)
      /\ client_ringbuffer \in Seq(Message) /\ Len(client_ringbuffer) \in Nat
      /\ UNCHANGED <<clients, delivered, connected, logs>> /\ state # "SEND_DIRECT"
      /\ client_ringbuffer' = Append(client_ringbuffer, top.msg) /\ ~top.force
      /\ ~(RingSent /\ ret = ERROR_OK)
  BY DEF IInv, TypeOK, SendStore, Buffering, RingSent, At
<1>t. /\ stack # <<>> /\ top.fn = "client_send" /\ top.pc = "store" /\ top.msg \in Message
  BY <1>0, TopSends DEF SendStore
<1>1. /\ Len(client_ringbuffer') = Len(client_ringbuffer) + 1
      /\ client_ringbuffer'[Len(client_ringbuffer) + 1] = top.msg
      /\ \A i \in 1 .. Len(client_ringbuffer) : client_ringbuffer'[i] = client_ringbuffer[i]
  BY <1>0, <1>t
<1>2. DeliveredInOrder'
  BY <1>0 DEF OrderSound, DeliveredInOrder
<1>3. PastSound'
  BY <1>0 DEF OrderSound, PastSound, Before
<1>4. ASSUME top.msg.kind = "log"
      PROVE  /\ top.msg.id = logs
             /\ \A l \in 1 .. Len(client_ringbuffer) :
                   client_ringbuffer[l].kind = "log" => client_ringbuffer[l].id < logs
             /\ \A c \in Range(clients) : Before(c, logs)
  <2>1. stack[1] = top
    BY <1>0, <1>4, <1>t, LogAtBottom
  <2> QED
    BY <1>0, <1>4, <1>t, <2>1 DEF IInv, NewSound
<1>5. ASSUME NEW j \in 1 .. Len(client_ringbuffer'), client_ringbuffer'[j].kind = "log"
      PROVE  /\ client_ringbuffer'[j].id <= logs
             /\ \A l \in 1 .. Len(client_ringbuffer') : l < j /\ client_ringbuffer'[l].kind = "log" =>
                   client_ringbuffer'[l].id < client_ringbuffer'[j].id
             /\ \A c \in Range(clients) :
                   \/ Before(c, client_ringbuffer'[j].id)
                   \/ j = 1 /\ SentFront(c)' /\ Before(c, client_ringbuffer'[j].id + 1)
  <2>1. CASE j \in 1 .. Len(client_ringbuffer)
    <3>1. client_ringbuffer'[j] = client_ringbuffer[j]
      BY <1>1, <2>1
    <3>2. /\ client_ringbuffer[j].id <= logs
          /\ \A l \in 1 .. Len(client_ringbuffer) : l < j /\ client_ringbuffer[l].kind = "log" =>
                client_ringbuffer[l].id < client_ringbuffer[j].id
          /\ \A c \in Range(clients) :
                \/ Before(c, client_ringbuffer[j].id)
                \/ j = 1 /\ SentFront(c) /\ Before(c, client_ringbuffer[j].id + 1)
      BY <1>0, <1>5, <2>1, <3>1 DEF OrderSound, RingOrdered
    <3>3. \A l \in 1 .. Len(client_ringbuffer') : l < j => l \in 1 .. Len(client_ringbuffer)
      BY <1>0, <1>1, <2>1
    <3>4. \A c \in Range(clients) : SentFront(c) => SentFront(c)'
      BY <1>0, SentFrontStays
    <3> QED
      BY <1>1, <3>1, <3>2, <3>3, <3>4
  <2>2. CASE j = Len(client_ringbuffer) + 1
    <3>1. client_ringbuffer'[j] = top.msg
      BY <1>1, <2>2
    <3>2. \A l \in 1 .. Len(client_ringbuffer') : l < j => l \in 1 .. Len(client_ringbuffer)
      BY <1>0, <1>1, <2>2
    <3>3. /\ top.msg.id = logs
          /\ \A l \in 1 .. Len(client_ringbuffer) :
                client_ringbuffer[l].kind = "log" => client_ringbuffer[l].id < logs
          /\ \A c \in Range(clients) : Before(c, logs)
      BY <1>4, <1>5, <3>1
    <3> QED
      BY <1>0, <1>1, <3>1, <3>2, <3>3
  <2>3. j \in 1 .. Len(client_ringbuffer) \/ j = Len(client_ringbuffer) + 1
    BY <1>0, <1>1
  <2> QED
    BY <2>1, <2>2, <2>3
<1>6. RingOrdered'
  <2>1. /\ clients' = clients /\ logs' = logs /\ Range(clients') = Range(clients)
        /\ \A c, n : Before(c, n)' <=> Before(c, n)
    BY <1>0 DEF Before
  <2> QED
    BY <1>5, <2>1 DEF RingOrdered
<1> QED
  BY <1>2, <1>3, <1>6 DEF OrderSound

(* Without its front the ring buffer is in order.                          *)
LEMMA RingOrder ==
  ASSUME IInv, Next, RingSent
  PROVE  OrderSound'
<1>0. /\ TypeOK /\ OrderSound /\ logs \in Nat /\ clients \in Seq(Client)
      /\ client_ringbuffer \in Seq(Message) /\ Len(client_ringbuffer) \in Nat
      /\ UNCHANGED <<clients, delivered, connected, logs>>
      /\ stack # <<>> /\ top.fn = "send_ringbuffer" /\ top.pc = "sent"
  BY DEF IInv, TypeOK, RingSent, hist, At
<1>1. client_ringbuffer # <<>>
  BY <1>0, TopFits DEF FrameSound, FrameFits
<1>2. CASE client_ringbuffer' = client_ringbuffer
  BY <1>0, <1>2, QuietOrder
<1>3. CASE client_ringbuffer' = Tail(client_ringbuffer)
  <2>1. /\ Len(client_ringbuffer') = Len(client_ringbuffer) - 1
        /\ \A j \in 1 .. Len(client_ringbuffer) - 1 : client_ringbuffer'[j] = client_ringbuffer[j + 1]
    BY <1>0, <1>1, <1>3
  <2>2. DeliveredInOrder'
    BY <1>0 DEF OrderSound, DeliveredInOrder
  <2>3. PastSound'
    BY <1>0 DEF OrderSound, PastSound, Before
  <2>4. ASSUME NEW j \in 1 .. Len(client_ringbuffer'), client_ringbuffer'[j].kind = "log"
        PROVE  /\ client_ringbuffer'[j].id <= logs
               /\ \A l \in 1 .. Len(client_ringbuffer') : l < j /\ client_ringbuffer'[l].kind = "log" =>
                     client_ringbuffer'[l].id < client_ringbuffer'[j].id
               /\ \A c \in Range(clients) : Before(c, client_ringbuffer'[j].id)
    <3>1. /\ j \in 1 .. Len(client_ringbuffer) - 1 /\ j + 1 \in 1 .. Len(client_ringbuffer)
          /\ j + 1 # 1 /\ client_ringbuffer'[j] = client_ringbuffer[j + 1]
      BY <1>0, <2>1
    <3>2. /\ client_ringbuffer[j + 1].id <= logs
          /\ \A l \in 1 .. Len(client_ringbuffer) : l < j + 1 /\ client_ringbuffer[l].kind = "log" =>
                client_ringbuffer[l].id < client_ringbuffer[j + 1].id
          /\ \A c \in Range(clients) : Before(c, client_ringbuffer[j + 1].id)
      BY <1>0, <2>4, <3>1 DEF OrderSound, RingOrdered
    <3>3. \A l \in 1 .. Len(client_ringbuffer') : l < j =>
             /\ l + 1 \in 1 .. Len(client_ringbuffer) /\ l + 1 < j + 1
             /\ client_ringbuffer'[l] = client_ringbuffer[l + 1]
      BY <1>0, <2>1, <3>1
    <3> QED
      BY <3>1, <3>2, <3>3
  <2>5. RingOrdered'
    BY <1>0, <2>4 DEF RingOrdered, Before, Range
  <2> QED
    BY <2>2, <2>3, <2>5 DEF OrderSound
<1> QED
  BY <1>0, <1>1, <1>2, <1>3, RingSentIs

(* A message goes out: it is later than all its client got before.         *)
LEMMA SentIsLater ==
  ASSUME IInv, Next, SendToClient, top.msg.kind = "log"
  PROVE  /\ Before(clients[top.i], top.msg.id) /\ top.msg.id <= logs
         /\ \/ Forced(top) /\ client_ringbuffer # <<>> /\ top.msg = client_ringbuffer[1]
               /\ Len(stack) = 3
            \/ ~Forced(top) /\ client_ringbuffer = <<>> /\ Len(stack) = 1 /\ stack[1] = top
               /\ top.msg.id = logs
<1>0. /\ TypeOK /\ OrderSound /\ logs \in Nat /\ clients \in Seq(Client)
      /\ client_ringbuffer \in Seq(Message) /\ stack \in Seq(Frame) /\ StateSound
  BY DEF IInv, TypeOK
<1>t. /\ stack # <<>> /\ top.fn = "client_send" /\ top.pc = "loop" /\ top.force \in BOOLEAN
      /\ top.i \in 1 .. Len(clients) /\ clients[top.i] \in Range(clients) /\ clients # <<>>
      /\ Len(stack) \in 1 .. Len(stack) /\ stack[Len(stack)] = top /\ FrameSound(top)
  <2>1. stack # <<>> /\ top.fn = "client_send" /\ top.pc = "loop" /\ top.force \in BOOLEAN
    BY <1>0, TopSends DEF SendToClient
  <2>2. top.i \in 1 .. Len(clients)
    BY <1>0, DeliveredIs
  <2>3. clients[top.i] \in Range(clients) /\ clients # <<>>
    BY <1>0, <2>2 DEF Range
  <2>4. Len(stack) \in 1 .. Len(stack) /\ stack[Len(stack)] = top
    BY <1>0, <2>1, StackIs DEF top
  <2> QED
    BY <2>1, <2>2, <2>3, <2>4, TopFits
<1>1. CASE top.force
  <2>1. Forced(top)
    BY <1>1, <1>t DEF Forced
  <2>2. /\ Len(stack) = 3 /\ client_ringbuffer # <<>> /\ top.msg = client_ringbuffer[1]
    BY <1>t, <2>1, ForcedIs DEF FrameSound, FrameFits
  <2>3. ~SentFront(clients[top.i])
    <3>1. SUFFICES ASSUME SentFront(clients[top.i]) PROVE FALSE
      OBVIOUS
    <3>2. top.fn # "send_ringbuffer"
      BY <1>t
    <3>3. PICK k \in 1 .. Len(stack) :
             /\ Forced(stack[k])
             /\ stack[k].pc = "loop" =>
                   \E m \in 1 .. Len(clients) : m < stack[k].i /\ clients[m] = clients[top.i]
      BY <3>1, <3>2 DEF SentFront
    <3>4. stack[k] = top
      BY <1>t, <2>2, <3>3, ForcedIs
    <3>5. PICK m \in 1 .. Len(clients) : m < top.i /\ clients[m] = clients[top.i]
      BY <1>t, <3>3, <3>4
    <3>6. m = top.i
      BY <1>0, <1>t, <3>5 DEF TypeOK, IsInjective
    <3> QED
      BY <1>t, <3>5, <3>6
  <2>4. 1 \in 1 .. Len(client_ringbuffer)
    BY <1>0, <2>2
  <2>5. Before(clients[top.i], top.msg.id) /\ top.msg.id <= logs
    BY <1>0, <1>t, <2>2, <2>3, <2>4 DEF OrderSound, RingOrdered
  <2> QED
    BY <2>1, <2>2, <2>5
<1>2. CASE ~top.force
  <2>1. ~Forced(top)
    BY <1>2 DEF Forced
  <2>2. Len(stack) = 1 /\ stack[1] = top
    BY <1>2, <1>t, LogAtBottom
  <2>3. client_ringbuffer = <<>>
    BY <1>0, <1>2, <1>t DEF FrameSound, FrameFits, Direct, StateSound
  <2>4. top.msg.id = logs /\ \A m \in 1 .. Len(clients) : m >= top.i => Before(clients[m], logs)
    BY <1>t, <2>2 DEF IInv, NewSound
  <2>5. Before(clients[top.i], logs) /\ logs <= logs
    BY <1>0, <1>t, <2>4
  <2> QED
    BY <2>1, <2>2, <2>3, <2>4, <2>5
<1> QED
  BY <1>1, <1>2, <1>t

(* A message that is sent is later than all its client got.                *)
LEMMA SendOrder ==
  ASSUME IInv, Next, SendToClient
  PROVE  OrderSound'
<1>0. /\ TypeOK /\ OrderSound /\ logs \in Nat /\ clients \in Seq(Client)
      /\ delivered \in [Client -> Seq(Nat)]
      /\ client_ringbuffer \in Seq(Message) /\ stack \in Seq(Frame)
      /\ UNCHANGED <<clients, client_ringbuffer, connected, logs>> /\ ~RingSent
  BY DEF IInv, TypeOK, SendToClient, daemon, RingSent, At
<1>i. top.i \in 1 .. Len(clients) /\ clients[top.i] \in Client /\ clients[top.i] \in Range(clients)
  BY <1>0, DeliveredIs DEF Range
<1>1. CASE top.msg.kind # "log"
  BY <1>0, <1>1, QuietOrder DEF SendToClient
<1>2. CASE top.msg.kind = "log"
  <2>d. PICK d, id : d = clients[top.i] /\ id = top.msg.id
    OBVIOUS
  <2>1. d \in Client /\ d \in Range(clients)
    BY <1>i, <2>d
  <2>2. Before(d, id) /\ id <= logs /\ id \in Nat
    BY <1>0, <1>2, <2>d, SentIsLater, TopSends DEF SendToClient
  <2>3. \A c \in Client : delivered'[c] = IF c = d THEN Append(delivered[c], id) ELSE delivered[c]
    BY <1>0, <1>2, <2>d, DeliveredIs
  <2>f. Forced(top) => SentFront(d)'
    <3>1. PICK f : Sending(f) /\ Replaces(f) /\ f.pc = "loop" /\ f.i = top.i + 1 /\ f.sent
      BY <1>0, SendToClientIs
    <3>2. SUFFICES ASSUME Forced(top) PROVE SentFront(d)'
      OBVIOUS
    <3>3. Forced(f)
      BY <3>1, <3>2 DEF Sending, Forced
    <3>4. Len(stack) \in 1 .. Len(stack') /\ stack'[Len(stack)] = f
      BY <1>0, <3>1, StackIs DEF Replaces
    <3>5. top.i \in 1 .. Len(clients') /\ top.i < f.i /\ clients'[top.i] = d
      BY <1>0, <1>i, <2>d, <3>1
    <3>6. /\ Forced(stack'[Len(stack)]) /\ stack'[Len(stack)].sent
          /\ \E m \in 1 .. Len(clients') : m < stack'[Len(stack)].i /\ clients'[m] = d
      BY <3>1, <3>3, <3>4, <3>5
    <3> QED
      BY <3>4, <3>6 DEF SentFront
  <2>s. /\ Forced(top) /\ client_ringbuffer # <<>> /\ client_ringbuffer[1].id = id
           /\ client_ringbuffer[1].kind = "log"
        \/ client_ringbuffer = <<>>
    BY <1>2, <2>d, SentIsLater
  <2>4. /\ delivered[d] \in Seq(Nat) /\ Len(delivered[d]) \in Nat
        /\ Len(delivered'[d]) = Len(delivered[d]) + 1 /\ delivered'[d][Len(delivered[d]) + 1] = id
        /\ \A k \in 1 .. Len(delivered[d]) : /\ delivered'[d][k] = delivered[d][k]
                                             /\ delivered[d][k] < id /\ delivered[d][k] \in Nat
    <3>1. delivered[d] \in Seq(Nat) /\ delivered'[d] = Append(delivered[d], id)
      BY <1>0, <2>1, <2>3
    <3>2. \A k \in 1 .. Len(delivered[d]) : delivered[d][k] < id
      BY <2>2 DEF Before
    <3>3. \A q \in Seq(Nat), e \in Nat :
             /\ Len(q) \in Nat /\ Len(Append(q, e)) = Len(q) + 1 /\ Append(q, e)[Len(q) + 1] = e
             /\ \A k \in 1 .. Len(q) : Append(q, e)[k] = q[k] /\ q[k] \in Nat
      OBVIOUS
    <3>4. PICK q : q = delivered[d]
      OBVIOUS
    <3>5. /\ Len(q) \in Nat /\ Len(Append(q, id)) = Len(q) + 1 /\ Append(q, id)[Len(q) + 1] = id
          /\ \A k \in 1 .. Len(q) : Append(q, id)[k] = q[k] /\ q[k] \in Nat
      BY <2>2, <3>1, <3>3, <3>4
    <3>6. delivered'[d] = Append(q, id) /\ \A k \in 1 .. Len(q) : q[k] < id
      BY <3>1, <3>2, <3>4
    <3> QED
      BY <3>1, <3>4, <3>5, <3>6, Zenon
  <2>5. \A n \in Nat : id < n => \A k \in 1 .. Len(delivered'[d]) : delivered'[d][k] < n
    <3>1. ASSUME NEW n \in Nat, id < n, NEW k \in 1 .. Len(delivered'[d])
          PROVE  delivered'[d][k] < n
      <4>1. k \in 1 .. Len(delivered[d]) \/ k = Len(delivered[d]) + 1
        BY <2>4, <3>1
      <4>2. CASE k \in 1 .. Len(delivered[d])
        <5>1. /\ delivered'[d][k] = delivered[d][k]
              /\ delivered[d][k] < id /\ delivered[d][k] \in Nat
          BY <2>4, <4>2
        <5>2. \A a, b, c \in Nat : a < b /\ b < c => a < c
          OBVIOUS
        <5> QED
          BY <2>2, <3>1, <5>1, <5>2
      <4>3. CASE k = Len(delivered[d]) + 1
        BY <2>4, <3>1, <4>3
      <4> QED
        BY <4>1, <4>2, <4>3
    <3> QED
      BY <3>1
  <2>6. \A c \in Client : c # d => delivered'[c] = delivered[c]
    BY <2>3
  <2>7. DeliveredInOrder'
    <3>1. ASSUME NEW k \in 1 .. Len(delivered'[d]), NEW m \in 1 .. Len(delivered'[d]), k < m
          PROVE  delivered'[d][k] < delivered'[d][m]
      <4>0. k \in 1 .. Len(delivered[d]) /\ (m \in 1 .. Len(delivered[d]) \/ m = Len(delivered[d]) + 1)
        BY <2>4, <3>1
      <4>1. CASE m \in 1 .. Len(delivered[d])
        BY <1>0, <2>1, <2>4, <3>1, <4>0, <4>1 DEF OrderSound, DeliveredInOrder
      <4>2. CASE m = Len(delivered[d]) + 1
        BY <2>4, <4>0, <4>2
      <4> QED
        BY <4>0, <4>1, <4>2
    <3>2. ASSUME NEW c \in Client, NEW k \in 1 .. Len(delivered'[c]), NEW m \in 1 .. Len(delivered'[c]),
                 k < m
          PROVE  delivered'[c][k] < delivered'[c][m]
      BY <1>0, <2>6, <3>1, <3>2 DEF OrderSound, DeliveredInOrder
    <3> QED
      BY <3>2 DEF DeliveredInOrder
  <2>8. PastSound'
    <3>1. \A c \in Client : \A k \in 1 .. Len(delivered'[c]) : delivered'[c][k] < logs + 1
      <4>1. logs + 1 \in Nat /\ id < logs + 1
        BY <1>0, <2>2
      <4>2. \A k \in 1 .. Len(delivered'[d]) : delivered'[d][k] < logs + 1
        BY <2>5, <4>1
      <4>3. ASSUME NEW c \in Client, c # d
            PROVE  \A k \in 1 .. Len(delivered'[c]) : delivered'[c][k] < logs + 1
        BY <1>0, <2>6, <4>3 DEF OrderSound, PastSound, Before
      <4> QED
        BY <4>2, <4>3
    <3>2. Range(clients) \subseteq connected /\ \A c \in Client \ connected : delivered'[c] = <<>>
      <4>1. d \in connected
        BY <1>0, <2>1 DEF OrderSound, PastSound
      <4> QED
        BY <1>0, <2>6, <4>1 DEF OrderSound, PastSound
    <3>3. (\A c \in Client : Before(c, logs + 1))'
      BY <1>0, <3>1 DEF Before
    <3> QED
      BY <1>0, <3>2, <3>3 DEF PastSound, Range
  <2>9. ASSUME NEW j \in 1 .. Len(client_ringbuffer), client_ringbuffer[j].kind = "log"
        PROVE  /\ client_ringbuffer[j].id <= logs
               /\ \A l \in 1 .. Len(client_ringbuffer) : l < j /\ client_ringbuffer[l].kind = "log" =>
                     client_ringbuffer[l].id < client_ringbuffer[j].id
               /\ \A c \in Range(clients) :
                     \/ \A k \in 1 .. Len(delivered'[c]) : delivered'[c][k] < client_ringbuffer[j].id
                     \/ /\ j = 1 /\ SentFront(c)'
                        /\ \A k \in 1 .. Len(delivered'[c]) :
                              delivered'[c][k] < client_ringbuffer[j].id + 1
    <3>1. /\ client_ringbuffer[j].id <= logs
          /\ \A l \in 1 .. Len(client_ringbuffer) : l < j /\ client_ringbuffer[l].kind = "log" =>
                client_ringbuffer[l].id < client_ringbuffer[j].id
          /\ \A c \in Range(clients) :
                \/ Before(c, client_ringbuffer[j].id)
                \/ j = 1 /\ SentFront(c) /\ Before(c, client_ringbuffer[j].id + 1)
      BY <1>0, <2>9 DEF OrderSound, RingOrdered
    <3>2. \A c \in Range(clients) : SentFront(c) => SentFront(c)'
      BY <1>0, SentFrontStays
    <3>3. Range(clients) \subseteq Client
      BY <1>0 DEF Range
    <3>4. ASSUME NEW c \in Range(clients), c # d
          PROVE  \/ \A k \in 1 .. Len(delivered'[c]) : delivered'[c][k] < client_ringbuffer[j].id
                 \/ /\ j = 1 /\ SentFront(c)'
                    /\ \A k \in 1 .. Len(delivered'[c]) :
                          delivered'[c][k] < client_ringbuffer[j].id + 1
      <4>1. delivered'[c] = delivered[c]
        BY <2>6, <3>3, <3>4
      <4> QED
        BY <3>1, <3>2, <4>1 DEF Before
    <3>5. \/ \A k \in 1 .. Len(delivered'[d]) : delivered'[d][k] < client_ringbuffer[j].id
          \/ /\ j = 1 /\ SentFront(d)'
             /\ \A k \in 1 .. Len(delivered'[d]) : delivered'[d][k] < client_ringbuffer[j].id + 1
      <4>0. /\ Forced(top) /\ client_ringbuffer[1].id = id /\ client_ringbuffer[1].kind = "log"
            /\ client_ringbuffer[j].id \in Nat /\ 1 \in 1 .. Len(client_ringbuffer) /\ j \in Nat
        BY <1>0, <2>s, RingIds
      <4>1. CASE j = 1
        <5>1. client_ringbuffer[j].id + 1 \in Nat /\ id < client_ringbuffer[j].id + 1
          BY <2>2, <4>0, <4>1
        <5> QED
          BY <2>5, <2>f, <4>0, <4>1, <5>1
      <4>2. CASE j # 1
        <5>1. 1 < j
          BY <4>2
        <5>2. id < client_ringbuffer[j].id
          BY <3>1, <4>0, <5>1
        <5> QED
          BY <2>5, <4>0, <5>2
      <4> QED
        BY <4>1, <4>2
    <3>6. \A c \in Range(clients) :
             \/ \A k \in 1 .. Len(delivered'[c]) : delivered'[c][k] < client_ringbuffer[j].id
             \/ /\ j = 1 /\ SentFront(c)'
                /\ \A k \in 1 .. Len(delivered'[c]) :
                      delivered'[c][k] < client_ringbuffer[j].id + 1
      BY <3>4, <3>5
    <3> QED
      BY <3>1, <3>6
  <2>10. RingOrdered'
    <3>1. /\ clients' = clients /\ logs' = logs /\ Range(clients') = Range(clients)
          /\ client_ringbuffer' = client_ringbuffer
          /\ \A c, n : Before(c, n)' <=> \A k \in 1 .. Len(delivered'[c]) : delivered'[c][k] < n
      BY <1>0 DEF Before
    <3> QED
      BY <2>9, <3>1 DEF RingOrdered
  <2> QED
    BY <2>7, <2>8, <2>10 DEF OrderSound
<1> QED
  BY <1>1, <1>2

(* Every step keeps the order.                                             *)
LEMMA OrderKept ==
  ASSUME IInv, Next
  PROVE  OrderSound'
<1>1. CASE QuietStep
  BY <1>1, QuietIs, QuietOrder
<1> QED
  BY <1>1, LoudIs, SendOrder, StoreOrder, CloseOrder, RingOrder, ConnectOrder

-----------------------------------------------------------------------------
(* The call that carries a new log message.                                *)
Carries(f) == f.fn = "client_send" /\ f.msg.kind = "log"

(* With such a call nothing is flushed.                                    *)
LEMMA NoFlush ==
  ASSUME IInv, stack # <<>>, Carries(stack[1])
  PROVE  ~RingSent /\ ~Forced(top)
<1>0. stack \in Seq(Frame) /\ Shape /\ Len(stack) \in 1 .. Len(stack) /\ top = stack[Len(stack)]
  BY StackIs DEF IInv, TypeOK, top
<1>1. \A k \in 1 .. Len(stack) : stack[k].fn # "send_ringbuffer"
  BY <1>0, NestingIs DEF Carries
<1>2. ~RingSent
  BY <1>0, <1>1 DEF RingSent, At
<1>3. ~Forced(top)
  <2>1. SUFFICES ASSUME Forced(stack[Len(stack)]) PROVE FALSE
    BY <1>0
  <2>2. 2 \in 1 .. Len(stack)
    BY <1>0, <2>1, ForcedIs
  <2>3. stack[2].fn = "send_ringbuffer"
    BY <1>0, <2>1, NestingIs
  <2> QED
    BY <1>1, <2>2, <2>3
<1> QED
  BY <1>2, <1>3

(* Whoever a message to a client is carried to, the call below it does not *)
(* mind.                                                                   *)
LEMMA DeeperKeepsNew ==
  ASSUME IInv, Next, Len(stack) > 1, stack # <<>>, stack'[1] = stack[1], Carries(stack[1])
  PROVE  NewSound'
<1>0. /\ TypeOK /\ NewSound /\ stack \in Seq(Frame) /\ Shape /\ clients \in Seq(Client)
      /\ client_ringbuffer \in Seq(Message) /\ Len(stack) \in Nat
  BY DEF IInv, TypeOK
<1>n. Len(stack) # 1
  <2>1. \A n \in Nat : n > 1 => n # 1
    OBVIOUS
  <2> QED
    BY <1>0, <2>1
<1>1. stack[1].pc \in {"loop", "reported"}
  <2>1. 1 \in 1 .. Len(stack)
    BY <1>0
  <2> QED
    BY <1>0, <2>1, NestingIs DEF Carries
<1>2. /\ stack[1].msg.id = logs
      /\ \A j \in 1 .. Len(client_ringbuffer) :
            client_ringbuffer[j].kind = "log" => client_ringbuffer[j].id < logs
      /\ stack[1].pc = "loop" =>
            \A m \in 1 .. Len(clients) : m >= stack[1].i => Before(clients[m], logs)
  BY <1>0 DEF NewSound, Carries
<1>3. logs' = logs
  BY LogsIs DEF dlt_daemon_process_user_message_log, Idle
<1>4. delivered' = delivered
  <2>1. CASE SendToClient
    <3>1. top.msg.kind # "log"
      <4>1. SUFFICES ASSUME top.msg.kind = "log" PROVE FALSE
        OBVIOUS
      <4>2. Forced(top) \/ Len(stack) = 1
        BY <2>1, <4>1, SentIsLater
      <4> QED
        BY <1>n, <4>2, NoFlush
    <3> QED
      BY <2>1, <3>1 DEF SendToClient
  <2>2. CASE ~SendToClient
    BY <2>2, LoudIs, QuietIs
       DEF SendStore, CloseUnregister, RingSent, hist, dlt_daemon_process_client_connect
  <2> QED
    BY <2>1, <2>2
<1>5. \A j \in 1 .. Len(client_ringbuffer') :
         client_ringbuffer'[j].kind = "log" => client_ringbuffer'[j].id < logs
  <2>1. CASE SendStore
    <3>1. /\ client_ringbuffer' = Append(client_ringbuffer, top.msg)
          /\ stack # <<>> /\ top.fn = "client_send" /\ ~top.force /\ top.msg \in Message
      BY <1>0, <2>1, TopSends DEF SendStore
    <3>2. top.msg.kind # "log"
      BY <1>n, <3>1, LogAtBottom
    <3>3. /\ Len(client_ringbuffer') = Len(client_ringbuffer) + 1 /\ Len(client_ringbuffer) \in Nat
          /\ client_ringbuffer'[Len(client_ringbuffer) + 1] = top.msg
          /\ \A i \in 1 .. Len(client_ringbuffer) : client_ringbuffer'[i] = client_ringbuffer[i]
      BY <1>0, <3>1
    <3>4. \A j \in 1 .. Len(client_ringbuffer') :
             j \in 1 .. Len(client_ringbuffer) \/ j = Len(client_ringbuffer) + 1
      BY <3>3
    <3> QED
      BY <1>2, <3>2, <3>3, <3>4
  <2>2. CASE ~SendStore
    <3>1. client_ringbuffer' = client_ringbuffer
      BY <2>2, LoudIs, QuietIs, NoFlush
         DEF SendToClient, CloseUnregister, daemon, dlt_daemon_process_client_connect
    <3> QED
      BY <1>2, <3>1
  <2> QED
    BY <2>1, <2>2
<1>6. stack[1].pc = "loop" =>
         \A m \in 1 .. Len(clients') : m >= stack[1].i => Before(clients'[m], logs)
  <2>1. CASE clients' = clients
    BY <1>2, <2>1
  <2>2. CASE clients' # clients
    <3>1. CloseUnregister
      BY <2>2, LoudIs, QuietIs
         DEF SendToClient, SendStore, RingSent, dlt_daemon_process_client_connect, Idle
    <3>2. PICK p \in 1 .. Len(clients) :
             /\ \A j \in 1 .. p - 1 : clients'[j] = clients[j]
             /\ \A j \in p .. Len(clients) - 1 : clients'[j] = clients[j + 1]
      BY <1>0, <2>2, <3>1, ClientsLeft
    <3>3. Len(clients') = Len(clients) - 1 /\ Len(clients) \in Nat
      BY <1>0, <2>2, <3>1, ClientsLeft
    <3>4. ASSUME stack[1].pc = "loop", NEW m \in 1 .. Len(clients'), m >= stack[1].i
          PROVE  Before(clients'[m], logs)
      <4>0. stack[1].i \in Nat
        <5>1. stack[1] \in Frame /\ stack[1].fn = "client_send"
          BY <1>0 DEF Carries
        <5> QED
          BY <5>1, FrameIs
      <4>1. CASE m < p
        <5>1. m \in 1 .. p - 1 /\ m \in 1 .. Len(clients)
          BY <3>3, <4>1
        <5> QED
          BY <1>2, <3>2, <3>4, <5>1
      <4>2. CASE ~(m < p)
        <5>1. /\ m \in p .. Len(clients) - 1 /\ m + 1 \in 1 .. Len(clients)
              /\ m + 1 >= stack[1].i
          BY <3>3, <3>4, <4>0, <4>2
        <5> QED
          BY <1>2, <3>2, <3>4, <5>1
      <4> QED
        BY <4>1, <4>2
    <3> QED
      BY <3>4
  <2> QED
    BY <2>1, <2>2
<1>7. \A c, n : Before(c, n)' <=> Before(c, n)
  BY <1>4 DEF Before
<1> QED
  BY <1>1, <1>2, <1>3, <1>5, <1>6, <1>7 DEF NewSound

(* The call itself goes on.                                                *)
LEMMA CallKeepsNew ==
  ASSUME IInv, stack # <<>>, Len(stack) = 1, stack[1] = top, Carries(top),
         SendStart \/ SendToClient \/ SendFails \/ SendLoopDone \/ SendReport,
         stack' # <<>>
  PROVE  NewSound'
<1>0. /\ TypeOK /\ NewSound /\ stack \in Seq(Frame) /\ Shape /\ clients \in Seq(Client)
      /\ Len(clients) \in Nat /\ delivered \in [Client -> Seq(Nat)]
  BY DEF IInv, TypeOK
<1>t. top.fn = "client_send" /\ ~top.force /\ top \in Frame /\ top.i \in Nat
  BY <1>0, StackIs, FrameIs DEF Shape, Carries
<1>1. /\ top.msg.id = logs
      /\ \A j \in 1 .. Len(client_ringbuffer) :
            client_ringbuffer[j].kind = "log" => client_ringbuffer[j].id < logs
      /\ top.pc = "start" => \A c \in Range(clients) : Before(c, logs)
      /\ top.pc = "loop" => \A m \in 1 .. Len(clients) : m >= top.i => Before(clients[m], logs)
      /\ top.pc = "store" /\ state # "SEND_DIRECT" => \A c \in Range(clients) : Before(c, logs)
  BY <1>0 DEF NewSound, Carries
<1>2. UNCHANGED <<clients, state, client_ringbuffer, logs>>
  BY DEF SendStart, SendToClient, SendFails, SendLoopDone, SendReport, daemon, hist
<1>r. Range(clients') = Range(clients)
  BY <1>2
<1>i. \A m \in 1 .. Len(clients) : clients[m] \in Range(clients)
  BY <1>0 DEF Range
<1>s. ASSUME NEW f, Sending(f), stack'[1] = f,
             f.pc = "loop" =>
                \A m \in 1 .. Len(clients) : m >= f.i => Before(clients[m], logs)',
             f.pc = "store" /\ state # "SEND_DIRECT" =>
                \A c \in Range(clients) : Before(c, logs)',
             f.pc # "start"
      PROVE  NewSound'
  <2>1. stack'[1].msg.id = logs
    BY <1>1, <1>s DEF Sending
  <2>2. \A j \in 1 .. Len(client_ringbuffer) :
           client_ringbuffer[j].kind = "log" => client_ringbuffer[j].id < logs
    BY <1>1
  <2> QED
    BY <1>2, <1>r, <1>s, <2>1, <2>2 DEF NewSound
<1>b. UNCHANGED delivered => \A c, n : Before(c, n)' <=> Before(c, n)
  BY DEF Before
<1>3. CASE SendStart
  <2>1. top.pc = "start" /\ UNCHANGED delivered
    BY <1>3 DEF SendStart, At, hist
  <2>2. PICK f : Sending(f) /\ Replaces(f) /\ f.pc \in {"loop", "store"}
    BY <1>0, <1>3, SendStartIs
  <2>3. stack'[1] = f
    BY <2>2 DEF Replaces
  <2>4. \A c \in Range(clients) : Before(c, logs)'
    BY <1>1, <1>2, <1>b, <2>1
  <2>5. \A m \in 1 .. Len(clients) : Before(clients[m], logs)'
    BY <1>1, <1>2, <1>b, <1>i, <2>1
  <2> QED
    BY <1>s, <2>2, <2>3, <2>4, <2>5
<1>4. CASE SendToClient
  <2>1. top.pc = "loop"
    BY <1>4 DEF SendToClient, At
  <2>2. PICK f : Sending(f) /\ Replaces(f) /\ f.pc = "loop" /\ f.i = top.i + 1
    BY <1>0, <1>4, SendToClientIs
  <2>3. stack'[1] = f
    BY <2>2 DEF Replaces
  <2>4. ASSUME NEW m \in 1 .. Len(clients), m >= f.i
        PROVE  Before(clients[m], logs)'
    <3>1. m >= top.i /\ m # top.i
      BY <1>t, <2>2, <2>4
    <3>2. Before(clients[m], logs)
      BY <1>1, <2>1, <3>1
    <3>3. top.i \in 1 .. Len(clients)
      BY <1>0, <1>4, DeliveredIs
    <3>4. clients[m] # clients[top.i]
      <4>1. clients \in Seq(Client) /\ IsInjective(clients)
        BY <1>0 DEF TypeOK
      <4> QED
        BY <3>1, <3>3, <4>1 DEF IsInjective
    <3>5. clients[m] \in Client
      BY <1>0
    <3>6. delivered'[clients[m]] = delivered[clients[m]]
      BY <1>0, <1>4, <3>4, <3>5, DeliveredIs
    <3> QED
      BY <1>2, <3>2, <3>6 DEF Before
  <2> QED
    BY <1>s, <2>2, <2>3, <2>4
<1>5. CASE SendFails
  <2>1. top.pc = "loop" /\ UNCHANGED delivered
    BY <1>5 DEF SendFails, At, hist
  <2>2. PICK f : Sending(f) /\ Pushes(f, CloseFrame(clients[top.i])) /\ f.pc = "loop" /\ f.i = top.i + 1
    BY <1>0, <1>5, SendFailsIs
  <2>3. stack'[1] = f
    BY <2>2 DEF Pushes
  <2>4. ASSUME NEW m \in 1 .. Len(clients), m >= f.i
        PROVE  Before(clients[m], logs)'
    <3>1. m >= top.i
      BY <1>t, <2>2, <2>4
    <3> QED
      BY <1>1, <1>2, <1>b, <2>1, <3>1
  <2> QED
    BY <1>s, <2>2, <2>3, <2>4
<1>6. CASE SendLoopDone
  <2>1. top.pc = "loop" /\ UNCHANGED delivered
    BY <1>6 DEF SendLoopDone, At
  <2>2. PICK f : Sending(f) /\ Replaces(f) /\ f.pc = "store"
    BY <1>0, <1>6, <1>t, SendLoopDoneIs
  <2>3. stack'[1] = f
    BY <2>2 DEF Replaces
  <2>4. state = "SEND_DIRECT" \/ clients = <<>>
    <3>1. FrameSound(top)
      BY TopFits
    <3> QED
      BY <1>t, <2>1, <3>1 DEF FrameSound, FrameFits, Direct
  <2>5. clients = <<>> => Range(clients) = {}
    BY DEF Range
  <2> QED
    BY <1>s, <2>2, <2>3, <2>4, <2>5
<1>7. CASE SendReport
  <2>1. ~Pops
    BY <1>0 DEF Pops
  <2>2. PICK f, g : Sending(f) /\ Pushes(f, g) /\ f.pc = "reported"
    BY <1>0, <1>7, <2>1, SendReportIs
  <2>3. stack'[1] = f
    BY <2>2 DEF Pushes
  <2> QED
    BY <1>s, <2>2, <2>3
<1> QED
  BY <1>3, <1>4, <1>5, <1>6, <1>7

(* A handler starts: with a new log message, or with something else.       *)
LEMMA EventNew ==
  ASSUME IInv, Events
  PROVE  NewSound'
<1>0. /\ TypeOK /\ OrderSound /\ logs \in Nat /\ clients \in Seq(Client)
      /\ client_ringbuffer \in Seq(Message)
  BY DEF IInv, TypeOK
<1>1. CASE dlt_daemon_process_user_message_log
  <2>1. stack'[1] = SendFrame(FALSE, LogMsg(logs + 1))
    BY <1>0, <1>1, LogIs
  <2>2. stack'[1].pc = "start" /\ stack'[1].msg.id = logs + 1
    BY <2>1 DEF SendFrame, LogMsg
  <2>3. logs' = logs + 1 /\ UNCHANGED <<clients, client_ringbuffer, delivered>>
    BY <1>1 DEF dlt_daemon_process_user_message_log, daemon
  <2>4. \A j \in 1 .. Len(client_ringbuffer) :
           client_ringbuffer[j].kind = "log" => client_ringbuffer[j].id < logs + 1
    <3>1. ASSUME NEW j \in 1 .. Len(client_ringbuffer), client_ringbuffer[j].kind = "log"
          PROVE  client_ringbuffer[j].id < logs + 1
      <4>1. client_ringbuffer[j].id <= logs /\ client_ringbuffer[j].id \in Nat
        BY <1>0, <3>1, RingIds DEF OrderSound, RingOrdered
      <4> QED
        BY <1>0, <4>1
    <3> QED
      BY <3>1
  <2>5. \A c \in Range(clients) : Before(c, logs + 1)
    BY <1>0 DEF OrderSound, PastSound, Range
  <2>6. Range(clients') = Range(clients) /\ \A c, n : Before(c, n)' <=> Before(c, n)
    BY <2>3 DEF Before
  <2> QED
    BY <2>2, <2>3, <2>4, <2>5, <2>6 DEF NewSound
<1>2. CASE ~dlt_daemon_process_user_message_log
  <2>1. ~Carries(stack'[1])
    <3>1. ASSUME NEW c \in Client, dlt_daemon_process_client_connect(c)
          PROVE  ~Carries(stack'[1])
      BY <3>1, ConnectIs DEF Carries
    <3>2. CASE AppGone \/ \E i \in 1 .. Len(clients) : ClientGone(i)
      BY <1>0, <3>2, GoneIs DEF Carries
    <3>3. ASSUME NEW n \in 1 .. MaxUserOverflow, dlt_daemon_process_user_message_overflow(n)
          PROVE  ~Carries(stack'[1])
      <4>1. stack'[1] = OverflowFrame(n)
        BY <3>3, OverflowIs
      <4>2. OverflowFrame(n).fn = "user_overflow"
        BY DEF OverflowFrame
      <4> QED
        BY <4>1, <4>2 DEF Carries
    <3>4. CASE dlt_daemon_process_one_s_timer
      BY <3>4, OneSecondIs DEF Carries
    <3>5. CASE dlt_daemon_process_sixty_s_timer
      BY <3>5, SixtySecondIs DEF Carries
    <3> QED
      BY <1>2, <3>1, <3>2, <3>3, <3>4, <3>5 DEF Events
  <2> QED
    BY <2>1 DEF NewSound, Carries
<1> QED
  BY <1>1, <1>2

(* The call that carries a new log message, after every step.              *)
LEMMA NewKept ==
  ASSUME IInv, Next
  PROVE  NewSound'
<1>0. /\ TypeOK /\ stack \in Seq(Frame) /\ stack' \in Seq(Frame) /\ StackStep
      /\ StateSound /\ FramesSound
  BY StackSteps DEF IInv, TypeOK
<1>1. CASE Events
  BY <1>1, EventNew
<1>2. CASE stack' = <<>>
  BY <1>2 DEF NewSound
<1>3. CASE stack' # <<>> /\ stack # <<>>
  <2>1. CASE Len(stack) > 1 /\ stack'[1] = stack[1]
    <3>1. CASE Carries(stack[1])
      BY <1>3, <2>1, <3>1, DeeperKeepsNew
    <3>2. CASE ~Carries(stack[1])
      BY <2>1, <3>2 DEF NewSound, Carries
    <3> QED
      BY <3>1, <3>2
  <2>2. ASSUME Len(stack) = 1, stack[1] = top, NEW f, Same(f), stack'[1] = f
        PROVE  NewSound'
    <3>1. CASE Carries(f)
      <4>1. Carries(top)
        BY <2>2, <3>1 DEF Same, Carries
      <4>2. dlt_daemon_client_send
        BY <1>3, <4>1, TopActs DEF Carries
      <4>3. ~SendStore /\ ~SendDiscard /\ ~SendReported
        <5>1. SUFFICES ASSUME SendStore \/ SendDiscard \/ SendReported PROVE FALSE
          OBVIOUS
        <5>2. Pops
          BY <1>0, <5>1, ReturningIs DEF Returning, StateSound
        <5>3. Len(stack') = 0
          BY <2>2, <5>2 DEF Pops
        <5> QED
          BY <1>0, <1>3, <5>3
      <4> QED
        BY <1>3, <2>2, <4>1, <4>2, <4>3, CallKeepsNew DEF dlt_daemon_client_send
    <3>2. CASE ~Carries(f)
      BY <2>2, <3>2 DEF NewSound, Carries
    <3> QED
      BY <3>1, <3>2
  <2> QED
    BY <1>0, <1>3, <2>1, <2>2, BottomIs
<1>4. CASE stack = <<>> /\ ~Events
  <2>1. \A on : dlt_daemon_control_set_timing_packets(on) => stack' = <<>>
    BY <1>4 DEF dlt_daemon_control_set_timing_packets
  <2>2. ~Step
    BY <1>4 DEF Step, dlt_daemon_client_send, SendStart, SendToClient, SendFails, SendLoopDone,
                SendStore, SendDiscard, SendReport, SendReported, dlt_daemon_close_socket,
                CloseUnregister, CloseInfoSent, CloseReturn, dlt_daemon_send_ringbuffer_to_client,
                RingStart, RingSent, ConnectAnnounced, ConnectFlushed, UserOverflowSent,
                OneSecondTime, TimerReturn, Announce, At
  <2> QED
    BY <1>2, <1>4, <2>1, <2>2 DEF Next, Events
<1> QED
  BY <1>1, <1>2, <1>3, <1>4

-----------------------------------------------------------------------------
(* The invariant holds at the start and is kept by every step.             *)
LEMMA InitIsSound ==
  ASSUME Init
  PROVE  IInv
<1> USE DEF Init
<1>1. TypeOK
  <2>1. clients \in Seq(Client) /\ IsInjective(clients) /\ stack \in Seq(Frame)
    BY DEF IsInjective
  <2>2. DaemonMsg \in Message
    BY NewFrames
  <2>3. client_ringbuffer \in Seq(Message) /\ Len(client_ringbuffer) <= RingSize
    BY <2>2, BoundAssumption
  <2>4. /\ state \in {"INIT", "BUFFER", "BUFFER_FULL", "SEND_BUFFER", "SEND_DIRECT"}
        /\ connectionState \in {0, 1} /\ logState \in {0, 1}
        /\ overflow_counter \in Nat /\ timingpackets \in BOOLEAN
        /\ ret \in {ERROR_OK, ERROR_UNKNOWN, ERROR_BUFFER_FULL, ERROR_SEND_FAILED}
        /\ logs \in Nat /\ sixty \in Nat /\ appsGone \in Nat
        /\ discarded \in SUBSET Nat /\ userLost \in Nat /\ reported \in Nat
    OBVIOUS
  <2>5. connected \in SUBSET Client /\ delivered \in [Client -> Seq(Nat)]
    OBVIOUS
  <2> QED
    BY <2>1, <2>3, <2>4, <2>5 DEF TypeOK
<1>2. Shape /\ FramesSound /\ TopSound /\ NewSound
  <2>1. stack = <<>> /\ Len(stack) = 0
    OBVIOUS
  <2> QED
    BY <2>1 DEF Shape, FramesSound, TopSound, NewSound
<1>3. StateSound
  BY DEF StateSound, ERROR_OK, ERROR_UNKNOWN
<1>4. ConnectSound
  BY DEF ConnectSound
<1>5. OrderSound
  <2>1. \A c \in Client : delivered[c] = <<>> /\ Len(delivered[c]) = 0
    OBVIOUS
  <2>2. DeliveredInOrder
    BY <2>1 DEF DeliveredInOrder
  <2>3. PastSound
    <3>1. Range(clients) = {}
      BY DEF Range
    <3> QED
      BY <2>1, <3>1 DEF PastSound, Before
  <2>4. RingOrdered
    <3>1. \A j \in 1 .. Len(client_ringbuffer) : client_ringbuffer[j].kind # "log"
      BY DEF DaemonMsg
    <3> QED
      BY <3>1 DEF RingOrdered
  <2> QED
    BY <2>2, <2>3, <2>4 DEF OrderSound
<1> QED
  BY <1>1, <1>2, <1>3, <1>4, <1>5 DEF IInv

(* Every step keeps the invariant.                                         *)
LEMMA StepIsSound ==
  ASSUME IInv, [Next]_vars
  PROVE  IInv'
<1>1. CASE Next
  BY <1>1, TypeKept, StateKept, ConnectKept, FramesKept, TopKept, OrderKept, NewKept DEF IInv
<1>2. CASE UNCHANGED vars
  <2> USE <1>2 DEF vars
  <2>0. top' = top /\ Range(clients') = Range(clients)
    BY DEF top
  <2>b. \A c, n : Before(c, n)' <=> Before(c, n)
    BY DEF Before
  <2>s. \A c : SentFront(c)' <=> SentFront(c)
    BY <2>0 DEF SentFront
  <2>c. Connecting' <=> Connecting
    BY DEF Connecting
  <2>1. TypeOK'
    BY DEF IInv, TypeOK
  <2>2. Shape' /\ StateSound'
    BY DEF IInv, Shape, StateSound
  <2>3. ConnectSound'
    BY <2>c DEF IInv, ConnectSound
  <2>4. FramesSound' /\ TopSound'
    BY <2>0 DEF IInv, FramesSound, FrameSound, TopSound
  <2>5. OrderSound'
    <3>1. DeliveredInOrder'
      BY DEF IInv, OrderSound, DeliveredInOrder
    <3>2. PastSound'
      BY <2>0, <2>b DEF IInv, OrderSound, PastSound
    <3>3. RingOrdered'
      BY <2>0, <2>b, <2>s DEF IInv, OrderSound, RingOrdered
    <3> QED
      BY <3>1, <3>2, <3>3 DEF OrderSound
  <2>6. NewSound'
    BY <2>0, <2>b DEF IInv, NewSound
  <2> QED
    BY <2>1, <2>2, <2>3, <2>4, <2>5, <2>6 DEF IInv
<1> QED
  BY <1>1, <1>2

(* The calls in progress, the state, the ring buffer and the clients fit   *)
(* together in every state of the daemon.                                  *)
THEOREM InvariantTheorem == Spec => []IInv
<1>1. Init => IInv
  BY InitIsSound
<1>2. IInv /\ [Next]_vars => IInv'
  BY StepIsSound
<1> QED
  BY <1>1, <1>2, PTL DEF Spec

(* Every client gets the log messages in the order in which the            *)
(* applications sent them and none of them twice, although a message is    *)
(* buffered while no client is there, sent again after a failure, and      *)
(* clients come and go while others are served (dlt_daemon_client_send and *)
(* dlt_daemon_send_ringbuffer_to_client).                                  *)
THEOREM DeliveredInOrderTheorem == Spec => []DeliveredInOrder
<1>1. IInv => DeliveredInOrder
  BY DEF IInv, OrderSound
<1> QED
  BY <1>1, InvariantTheorem, PTL

(* Whenever no handler runs: with no client the daemon buffers, with one   *)
(* it is not in state BUFFER and the applications were told of it, and it  *)
(* sends directly only past an empty ring buffer.                          *)
THEOREM StateTheorem == Spec => [](TypeOK /\ StateMatchesClients /\ ClientIsAnnounced)
<1>1. IInv => TypeOK /\ StateMatchesClients /\ ClientIsAnnounced
  <2> SUFFICES ASSUME IInv PROVE TypeOK /\ StateMatchesClients /\ ClientIsAnnounced
    OBVIOUS
  <2>1. TypeOK
    BY DEF IInv
  <2>2. ASSUME stack = <<>>
        PROVE  /\ clients = <<>> => state \in {"BUFFER", "BUFFER_FULL"}
               /\ clients # <<>> => state # "BUFFER"
               /\ state = "SEND_DIRECT" => client_ringbuffer = <<>>
               /\ clients # <<>> => connectionState = 1 /\ logState = 1
    <3>1. ~Connecting
      BY <2>2 DEF Connecting
    <3>2. StateSound /\ ConnectSound
      BY DEF IInv
    <3> QED
      BY <2>1, <3>1, <3>2 DEF StateSound, ConnectSound, TypeOK
  <2> QED
    BY <2>1, <2>2 DEF StateMatchesClients, ClientIsAnnounced, Idle
<1> QED
  BY <1>1, InvariantTheorem, PTL

-----------------------------------------------------------------------------
(* How deep calls nest.                                                    *)
LEMMA FewClients ==
  ASSUME TypeOK
  PROVE  Len(clients) \in Nat /\ Cardinality(Client) \in Nat /\ Len(clients) <= Cardinality(Client)
BY ClientAssumption, InjectiveIsShort DEF TypeOK

DeepEnough(f, k, l) == k + 2 * l <= 2 * Cardinality(Client) + Depth(f)
NestSound == \A k \in 1 .. Len(stack) : DeepEnough(stack[k], k, Len(clients))
ReportSound ==
    \A k \in 1 .. Len(stack) :
        stack[k].fn = "client_send" /\ stack[k].pc = "reported" => stack[k].force
LossSound ==
    /\ client_ringbuffer = <<>> => overflow_counter = 0
    /\ stack # <<>> /\ top.fn = "send_ringbuffer" /\ top.pc = "sent" /\ ret = ERROR_OK
          /\ Len(client_ringbuffer) = 1 => overflow_counter = 0
    /\ stack # <<>> /\ ret # ERROR_OK
          /\ (top.fn = "user_overflow" \/ (top.fn = "client_send" /\ top.pc = "reported"))
          => state = "BUFFER_FULL"

(* The parts of the invariant on nesting.                                  *)
LEMMA DepthParts ==
  /\ DepthSound <=> NestSound /\ ReportSound /\ LossSound
  /\ DepthSound' <=> NestSound' /\ ReportSound' /\ LossSound'
BY DEF DepthSound, NestSound, ReportSound, LossSound, DeepEnough

(* How deep a call may be.                                                 *)
LEMMA DepthIs ==
  ASSUME NEW f
  PROVE  /\ Depth(f) \in 3 .. 5
         /\ f.fn = "client_send" => Depth(f) = 4
         /\ f.fn = "close_socket" /\ f.pc = "start" => Depth(f) = 5
         /\ f.fn = "close_socket" /\ f.pc # "start" => Depth(f) = 3
         /\ f.fn \notin {"client_send", "close_socket"} => Depth(f) = 3
<1>1. CASE f.fn = "client_send"
  BY <1>1 DEF Depth
<1>2. CASE f.fn = "close_socket" /\ f.pc = "start"
  BY <1>2 DEF Depth
<1>3. CASE f.fn # "client_send" /\ ~(f.fn = "close_socket" /\ f.pc = "start")
  BY <1>3 DEF Depth
<1> QED
  BY <1>1, <1>2, <1>3

(* Calls that go on, call or return, with no more clients than before.     *)
LEMMA NestStays ==
  ASSUME TypeOK, TypeOK', NestSound, Len(clients') <= Len(clients),
         \/ Pops
         \/ \E f : Replaces(f) /\ DeepEnough(f, Len(stack), Len(clients'))
         \/ \E f, g : /\ Pushes(f, g) /\ DeepEnough(f, Len(stack), Len(clients'))
                      /\ DeepEnough(g, Len(stack) + 1, Len(clients'))
  PROVE  NestSound'
<1>0. /\ Len(stack) \in Nat /\ Len(clients) \in Nat /\ Len(clients') \in Nat
      /\ Cardinality(Client) \in Nat
  <2>1. stack \in Seq(Frame) /\ clients \in Seq(Client)
    BY DEF TypeOK
  <2>2. clients' \in Seq(Client)
    BY DEF TypeOK
  <2>3. \A S, q : q \in Seq(S) => Len(q) \in Nat
    OBVIOUS
  <2>4. Cardinality(Client) \in Nat
    BY ClientAssumption, FS_CardinalityType
  <2> QED
    BY <2>1, <2>2, <2>3, <2>4
<1>1. ASSUME NEW k \in 1 .. Len(stack)
      PROVE  DeepEnough(stack[k], k, Len(clients'))
  <2>1. k + 2 * Len(clients) <= 2 * Cardinality(Client) + Depth(stack[k])
    BY DEF NestSound, DeepEnough
  <2>2. Depth(stack[k]) \in Nat
    BY DepthIs
  <2>3. k + 2 * Len(clients') <= 2 * Cardinality(Client) + Depth(stack[k])
    <3>1. \A n, l, m, c, d \in Nat : m <= l /\ n + 2 * l <= 2 * c + d => n + 2 * m <= 2 * c + d
      OBVIOUS
    <3>2. k \in Nat
      OBVIOUS
    <3> QED
      BY <1>0, <2>1, <2>2, <3>1, <3>2
  <2> QED
    BY <2>3 DEF DeepEnough
<1>2. SUFFICES ASSUME NEW k \in 1 .. Len(stack')
               PROVE  DeepEnough(stack'[k], k, Len(clients'))
  <2>1. NestSound' <=> \A k \in 1 .. Len(stack') : DeepEnough(stack'[k], k, Len(clients'))
    BY DEF NestSound, DeepEnough, Depth
  <2> QED
    BY <2>1
<1>3. CASE Pops
  <2>1. k \in 1 .. Len(stack) /\ stack'[k] = stack[k]
    BY <1>0, <1>3 DEF Pops
  <2> QED
    BY <1>1, <2>1
<1>4. CASE \E f : Replaces(f) /\ DeepEnough(f, Len(stack), Len(clients'))
  <2>1. PICK f : Replaces(f) /\ DeepEnough(f, Len(stack), Len(clients'))
    BY <1>4
  <2>2. \/ k = Len(stack) /\ stack'[k] = f
        \/ k \in 1 .. Len(stack) /\ stack'[k] = stack[k]
    BY <1>0, <2>1 DEF Replaces
  <2> QED
    BY <1>1, <2>1, <2>2
<1>5. CASE \E f, g : /\ Pushes(f, g) /\ DeepEnough(f, Len(stack), Len(clients'))
                     /\ DeepEnough(g, Len(stack) + 1, Len(clients'))
  <2>1. PICK f, g : /\ Pushes(f, g) /\ DeepEnough(f, Len(stack), Len(clients'))
                    /\ DeepEnough(g, Len(stack) + 1, Len(clients'))
    BY <1>5
  <2>2. \/ k = Len(stack) /\ stack'[k] = f
        \/ k = Len(stack) + 1 /\ stack'[k] = g
        \/ k \in 1 .. Len(stack) /\ stack'[k] = stack[k]
    BY <1>0, <2>1 DEF Pushes
  <2> QED
    BY <1>1, <2>1, <2>2
<1> QED
  BY <1>3, <1>4, <1>5

(* A call that is replaced by one as deep, or calls.                       *)
LEMMA TopIsDeep ==
  ASSUME TypeOK, TypeOK', NestSound, stack # <<>>
  PROVE  /\ \A f : Depth(f) >= Depth(top) => DeepEnough(f, Len(stack), Len(clients))
         /\ \A f : Depth(f) > Depth(top) => DeepEnough(f, Len(stack) + 1, Len(clients))
         /\ \A f : Len(stack) + 1 <= Depth(f) => DeepEnough(f, Len(stack) + 1, Len(clients))
<1>0. /\ Len(stack) \in Nat /\ Len(clients) \in Nat /\ Cardinality(Client) \in Nat
      /\ Len(clients) <= Cardinality(Client) /\ Len(stack) \in 1 .. Len(stack)
  BY FewClients, StackIs DEF TypeOK
<1>1. Len(stack) + 2 * Len(clients) <= 2 * Cardinality(Client) + Depth(top)
  BY <1>0 DEF NestSound, DeepEnough, top
<1>2. Depth(top) \in Nat /\ \A f : Depth(f) \in Nat
  BY DepthIs
<1>3. ASSUME NEW f
      PROVE  /\ Depth(f) >= Depth(top) =>
                   Len(stack) + 2 * Len(clients) <= 2 * Cardinality(Client) + Depth(f)
             /\ Depth(f) > Depth(top) =>
                   (Len(stack) + 1) + 2 * Len(clients) <= 2 * Cardinality(Client) + Depth(f)
             /\ Len(stack) + 1 <= Depth(f) =>
                   (Len(stack) + 1) + 2 * Len(clients) <= 2 * Cardinality(Client) + Depth(f)
  <2>1. \A n, l, c, d, e \in Nat :
           /\ n + 2 * l <= 2 * c + d /\ e >= d => n + 2 * l <= 2 * c + e
           /\ n + 2 * l <= 2 * c + d /\ e > d => (n + 1) + 2 * l <= 2 * c + e
           /\ l <= c /\ n + 1 <= e => (n + 1) + 2 * l <= 2 * c + e
    OBVIOUS
  <2>2. Depth(f) \in Nat
    BY <1>2
  <2> QED
    BY <1>0, <1>1, <1>2, <2>1, <2>2
<1> QED
  BY <1>3 DEF DeepEnough

(* A report of losses is sent in a flush only.                             *)
LEMMA ReportIsForced ==
  ASSUME IInv, DepthSound, SendReport, overflow_counter > 0
  PROVE  Forced(top)
<1>1. stack # <<>> /\ top.fn = "client_send" /\ top.force \in BOOLEAN /\ (top.force \/ ~Buffering)
  <2>1. At("client_send", "store") /\ (top.force \/ ~Buffering)
    BY DEF SendReport
  <2> QED
    BY <2>1, TopSends DEF IInv
<1>2. CASE Buffering
  BY <1>1, <1>2 DEF Forced
<1>3. CASE ~Buffering
  <2>1. state = "SEND_DIRECT"
    BY <1>3 DEF IInv, TypeOK, StateSound, Buffering
  <2>2. client_ringbuffer = <<>>
    BY <2>1 DEF IInv, StateSound
  <2>3. overflow_counter = 0
    BY <2>2, DepthParts DEF LossSound
  <2> QED
    BY <2>3
<1> QED
  BY <1>2, <1>3

(* Calls nest no deeper, whatever is done.                                 *)
LEMMA SendNests ==
  ASSUME IInv, DepthSound, TypeOK',
         SendStart \/ SendToClient \/ SendFails \/ SendLoopDone \/ SendReport
  PROVE  NestSound'
<1>0. TypeOK /\ NestSound /\ stack \in Seq(Frame) /\ Len(clients) \in Nat
  BY DepthParts DEF IInv, TypeOK
<1>1. /\ stack # <<>> /\ top.fn = "client_send" /\ clients' = clients /\ Depth(top) = 4
      /\ Len(stack) \in 1 .. Len(stack) /\ stack[Len(stack)] = top
  <2>1. stack # <<>> /\ top.fn = "client_send" /\ clients' = clients
    BY DEF SendStart, SendToClient, SendFails, SendLoopDone, SendReport, At
  <2> QED
    BY <1>0, <2>1, DepthIs, StackIs DEF top
<1>2. \A f : Sending(f) => Depth(f) = 4 /\ DeepEnough(f, Len(stack), Len(clients))
  <2>1. \A f : Sending(f) => Depth(f) = 4
    BY DepthIs DEF Sending
  <2>2. 4 >= 4
    OBVIOUS
  <2> QED
    BY <1>0, <1>1, <2>1, <2>2, TopIsDeep
<1>3. Len(clients') <= Len(clients) /\ Len(clients') = Len(clients)
  BY <1>0, <1>1
<1>4. CASE Pops \/ \E f : Sending(f) /\ Replaces(f)
  BY <1>0, <1>2, <1>3, <1>4, NestStays
<1>5. CASE SendFails
  <2>1. PICK f : Sending(f) /\ Pushes(f, CloseFrame(clients[top.i]))
    BY <1>0, <1>5, SendFailsIs
  <2>2. Depth(CloseFrame(clients[top.i])) = 5 /\ 5 > 4
    BY DepthIs DEF CloseFrame
  <2>3. DeepEnough(CloseFrame(clients[top.i]), Len(stack) + 1, Len(clients))
    BY <1>0, <1>1, <2>2, TopIsDeep
  <2> QED
    BY <1>0, <1>2, <1>3, <2>1, <2>3, NestStays
<1>6. CASE SendReport
  <2>1. CASE Pops
    BY <1>4, <2>1
  <2>2. CASE ~Pops
    <3>1. /\ overflow_counter > 0
          /\ \E f : /\ Sending(f) /\ Pushes(f, SendFrame(FALSE, OverflowMsg(overflow_counter)))
      BY <1>0, <1>6, <2>2, SendReportIs
    <3>2. PICK f, g : Sending(f) /\ Pushes(f, g) /\ g.fn = "client_send"
      <4>1. SendFrame(FALSE, OverflowMsg(overflow_counter)).fn = "client_send"
        BY DEF SendFrame
      <4> QED
        BY <3>1, <4>1
    <3>3. Forced(top)
      BY <1>1, <1>6, <3>1, ReportIsForced
    <3>4. Len(stack) = 3
      BY <1>1, <3>3, ForcedIs
    <3>5. Depth(g) = 4
      BY <3>2, DepthIs
    <3>6. DeepEnough(g, Len(stack) + 1, Len(clients))
      <4>1. Len(stack) + 1 <= Depth(g)
        BY <3>4, <3>5
      <4> QED
        BY <1>0, <1>1, <4>1, TopIsDeep
    <3> QED
      BY <1>0, <1>2, <1>3, <3>2, <3>6, NestStays
  <2> QED
    BY <2>1, <2>2
<1> QED
  BY <1>0, <1>4, <1>5, <1>6, SendStartIs, SendToClientIs, SendLoopDoneIs

(* With one client less there may be two calls more.                       *)
LEMMA CloseNests ==
  ASSUME IInv, DepthSound, TypeOK', CloseUnregister
  PROVE  NestSound'
<1>0. /\ TypeOK /\ NestSound /\ stack \in Seq(Frame) /\ clients \in Seq(Client)
      /\ Len(clients) \in Nat /\ Cardinality(Client) \in Nat /\ Len(clients) <= Cardinality(Client)
  BY DepthParts, FewClients DEF IInv, TypeOK
<1>1. /\ stack # <<>> /\ top.fn = "close_socket" /\ top.pc = "start" /\ Depth(top) = 5
      /\ Len(stack) \in 1 .. Len(stack) /\ stack[Len(stack)] = top /\ Len(stack) \in Nat
  <2>1. stack # <<>> /\ top.fn = "close_socket" /\ top.pc = "start"
    BY DEF CloseUnregister, At
  <2> QED
    BY <1>0, <2>1, DepthIs, StackIs DEF top
<1>2. PICK f : Pushes(f, SendFrame(FALSE, DaemonMsg)) /\ f.fn = "close_socket" /\ f.pc # "start"
  BY <1>0, CloseCallsIs
<1>3. Depth(f) = 3 /\ Depth(SendFrame(FALSE, DaemonMsg)) = 4
  BY <1>2, DepthIs DEF SendFrame
<1>4. Len(clients') \in Nat /\ (clients' = clients \/ Len(clients') = Len(clients) - 1)
      /\ (clients' = clients => top.sock \notin Range(clients))
  <2>1. clients' \in Seq(Client)
    BY <1>0, ClientsLeft
  <2>2. clients' = clients => top.sock \notin Range(clients)
    <3>1. ASSUME clients' = clients PROVE Len(clients') # Len(clients) - 1
      BY <1>0, <3>1
    <3> QED
      BY <1>0, <3>1, ClientsLeft
  <2> QED
    BY <1>0, <2>1, <2>2, ClientsLeft
<1>5. Len(stack) + 2 * Len(clients) <= 2 * Cardinality(Client) + 5
  BY <1>0, <1>1 DEF NestSound, DeepEnough
<1>6. Len(stack) = 1 \/ Len(clients') = Len(clients) - 1
  <2>1. CASE Len(stack) > 1
    <3>1. TopSound
      BY DEF IInv
    <3>2. top.sock \in Range(clients)
      BY <1>1, <2>1, <3>1 DEF TopSound
    <3> QED
      BY <1>4, <3>2
  <2>2. CASE ~(Len(stack) > 1)
    <3>1. \A n \in Nat : n \in 1 .. n /\ ~(n > 1) => n = 1
      OBVIOUS
    <3>2. Len(stack) = 1
      BY <1>1, <2>2, <3>1
    <3> QED
      BY <3>2
  <2> QED
    BY <2>1, <2>2
<1>7. /\ Len(clients') <= Len(clients)
      /\ Len(stack) + 2 * Len(clients') <= 2 * Cardinality(Client) + 3
      /\ (Len(stack) + 1) + 2 * Len(clients') <= 2 * Cardinality(Client) + 4
  <2>1. \A s, l, m, c \in Nat :
           /\ s + 2 * l <= 2 * c + 5 /\ l <= c /\ (s = 1 \/ m = l - 1) /\ (m = l \/ m = l - 1)
           => m <= l /\ s + 2 * m <= 2 * c + 3 /\ (s + 1) + 2 * m <= 2 * c + 4
    OBVIOUS
  <2>2. Len(clients') = Len(clients) \/ Len(clients') = Len(clients) - 1
    BY <1>4
  <2> QED
    BY <1>0, <1>1, <1>4, <1>5, <1>6, <2>1, <2>2
<1>8. /\ DeepEnough(f, Len(stack), Len(clients'))
      /\ DeepEnough(SendFrame(FALSE, DaemonMsg), Len(stack) + 1, Len(clients'))
  BY <1>3, <1>7 DEF DeepEnough
<1> QED
  BY <1>0, <1>2, <1>7, <1>8, NestStays

(* A call that is not deep makes one that is a little deeper.              *)
LEMMA CallNests ==
  ASSUME IInv, DepthSound, TypeOK', stack # <<>>, clients' = clients,
         \/ Pops
         \/ \E f, g : Pushes(f, g) /\ Depth(f) = 3 /\ Depth(top) = 3 /\ Depth(g) = 4
         \/ \E f, g : Pushes(f, g) /\ Depth(top) = 3 /\ Len(stack) = 1
  PROVE  NestSound'
<1>0. TypeOK /\ NestSound /\ stack \in Seq(Frame) /\ Len(clients) \in Nat
  BY DepthParts DEF IInv, TypeOK
<1>1. Len(clients') <= Len(clients) /\ Len(clients') = Len(clients)
  BY <1>0
<1>2. CASE \E f, g : /\ Pushes(f, g) /\ Depth(f) >= Depth(top)
                     /\ (Depth(g) > Depth(top) \/ Len(stack) = 1)
  <2>1. PICK f, g : /\ Pushes(f, g) /\ Depth(f) >= Depth(top)
                    /\ (Depth(g) > Depth(top) \/ Len(stack) = 1)
    BY <1>2
  <2>2. DeepEnough(f, Len(stack), Len(clients))
    BY <1>0, <2>1, TopIsDeep
  <2>3. Len(stack) = 1 => Len(stack) + 1 <= Depth(g)
    <3>1. Depth(g) \in 3 .. 5
      BY DepthIs
    <3> QED
      BY <3>1
  <2>4. DeepEnough(g, Len(stack) + 1, Len(clients))
    BY <1>0, <2>1, <2>3, TopIsDeep
  <2> QED
    BY <1>0, <1>1, <2>1, <2>2, <2>4, NestStays
<1>3. CASE \E f, g : Pushes(f, g) /\ Depth(f) = 3 /\ Depth(top) = 3 /\ Depth(g) = 4
  <2>1. \A m, n, k : m = 3 /\ n = 3 /\ k = 4 => m >= n /\ k > n
    OBVIOUS
  <2> QED
    BY <1>2, <1>3, <2>1
<1>4. CASE \E f, g : Pushes(f, g) /\ Depth(top) = 3 /\ Len(stack) = 1
  <2>1. \A m \in 3 .. 5 : \A n : n = 3 => m >= n
    OBVIOUS
  <2>2. \A f : Depth(f) \in 3 .. 5
    BY DepthIs
  <2> QED
    BY <1>2, <1>4, <2>1, <2>2
<1> QED
  BY <1>0, <1>1, <1>3, <1>4, NestStays

(* Calls nest no deeper, whatever is done.                                 *)
LEMMA NestKept ==
  ASSUME IInv, DepthSound, Next, TypeOK'
  PROVE  NestSound'
<1>0. /\ TypeOK /\ StateSound /\ NestSound /\ stack \in Seq(Frame) /\ stack' \in Seq(Frame)
      /\ Len(clients) \in Nat /\ Cardinality(Client) \in Nat
  BY DepthParts, FewClients DEF IInv, TypeOK
<1>1. CASE SendStart \/ SendToClient \/ SendFails \/ SendLoopDone \/ SendReport
  BY <1>1, SendNests
<1>2. CASE CloseUnregister
  BY <1>2, CloseNests
<1>d. Depth(RingFrame) = 3 /\ Depth(SendFrame(FALSE, DaemonMsg)) = 4
      /\ \A m : Depth(SendFrame(TRUE, m)) = 4
  BY DepthIs DEF RingFrame, SendFrame
<1>3. CASE Returning
  <2>1. stack # <<>> /\ Pops
    BY <1>0, <1>3, ReturningIs DEF StateSound
  <2>2. clients' = clients
    BY <1>3 DEF Returning, SendStore, SendDiscard, SendReported, CloseReturn, ConnectFlushed,
                UserOverflowSent, TimerReturn
  <2> QED
    BY <2>1, <2>2, CallNests
<1>4. CASE CloseInfoSent
  <2>1. stack # <<>> /\ clients' = clients /\ top.pc = "info"
    BY <1>4 DEF CloseInfoSent, At
  <2>2. PICK f : /\ Pushes(f, SendFrame(FALSE, DaemonMsg))
                 /\ top.fn = "close_socket" /\ f.fn = "close_socket" /\ f.pc # "start"
    BY <1>0, <1>4, CloseCallsIs
  <2>3. Depth(f) = 3 /\ Depth(top) = 3
    BY <2>1, <2>2, DepthIs
  <2> QED
    BY <1>d, <2>1, <2>2, <2>3, CallNests
<1>5. CASE RingStart
  <2>1. stack # <<>> /\ clients' = clients /\ top.fn = "send_ringbuffer"
    BY <1>5 DEF RingStart, At
  <2>2. CASE Pops
    BY <2>1, <2>2, CallNests
  <2>3. CASE ~Pops
    <3>1. PICK f : Pushes(f, SendFrame(TRUE, client_ringbuffer[1])) /\ f.fn = "send_ringbuffer"
      BY <1>0, <1>5, <2>3, RingStartIs
    <3>2. Depth(f) = 3 /\ Depth(top) = 3
      BY <2>1, <3>1, DepthIs
    <3> QED
      BY <1>d, <2>1, <3>1, <3>2, CallNests
  <2> QED
    BY <2>2, <2>3
<1>6. CASE RingSent
  <2>1. stack # <<>> /\ clients' = clients /\ top.fn = "send_ringbuffer" /\ top.pc = "sent"
    BY <1>6 DEF RingSent, At
  <2>2. client_ringbuffer # <<>>
    BY <2>1, TopFits DEF FrameSound, FrameFits
  <2>3. Pops \/ Pushes(top, SendFrame(TRUE, client_ringbuffer[2]))
    BY <1>0, <1>6, <2>2, RingSentIs
  <2>4. Depth(top) = 3
    BY <2>1, DepthIs
  <2> QED
    BY <1>d, <2>1, <2>3, <2>4, CallNests
<1>7. CASE ConnectAnnounced \/ OneSecondTime \/ Announce("client_connect") \/ Announce("sixty_s_timer")
  <2>1. /\ stack # <<>> /\ clients' = clients
        /\ top.fn \in {"client_connect", "one_s_timer", "sixty_s_timer"}
    BY <1>7 DEF ConnectAnnounced, OneSecondTime, Announce, At
  <2>2. Len(stack) = 1 /\ Depth(top) = 3
    BY <2>1, HandlerIs, DepthIs
  <2>3. Pops \/ \E f, g : Pushes(f, g)
    BY <1>0, <1>7, ConnectAnnouncedIs, OneSecondTimeIs, AnnounceIs
  <2> QED
    BY <2>1, <2>2, <2>3, CallNests
<1>8. CASE Events
  <2>1. stack' \in Seq(Frame) /\ Len(stack') \in {1, 2}
    BY <1>0, <1>8, EventsStart DEF Starts
  <2>2. Len(clients') \in Nat /\ Len(clients') <= Cardinality(Client)
    <3>1. clients' \in Seq(Client) /\ IsInjective(clients')
      BY DEF TypeOK
    <3> QED
      BY <3>1, ClientAssumption, InjectiveIsShort
  <2>3. ASSUME NEW k \in 1 .. Len(stack')
        PROVE  DeepEnough(stack'[k], k, Len(clients'))
    <3>1. Depth(stack'[k]) \in 3 .. 5
      BY DepthIs
    <3>2. k \in Nat /\ k <= 2
      <4>1. \A n \in {1, 2} : \A j \in 1 .. n : j \in Nat /\ j <= 2
        OBVIOUS
      <4> QED
        BY <2>1, <4>1
    <3>3. \A n, l, c \in Nat, d \in 3 .. 5 : l <= c /\ n <= 2 => n + 2 * l <= 2 * c + d
      OBVIOUS
    <3> QED
      BY <1>0, <2>2, <3>1, <3>2, <3>3 DEF DeepEnough
  <2>4. NestSound' <=> \A k \in 1 .. Len(stack') : DeepEnough(stack'[k], k, Len(clients'))
    BY DEF NestSound, DeepEnough, Depth
  <2> QED
    BY <2>3, <2>4
<1>9. ASSUME NEW on, dlt_daemon_control_set_timing_packets(on)
      PROVE  NestSound'
  <2>1. stack' = stack /\ clients' = clients
    BY <1>9 DEF dlt_daemon_control_set_timing_packets
  <2> QED
    BY <1>0, <2>1 DEF NestSound, DeepEnough, Depth
<1> QED
  BY <1>1, <1>2, <1>3, <1>4, <1>5, <1>6, <1>7, <1>8, <1>9
     DEF Next, Step, Events, Returning, dlt_daemon_client_send, dlt_daemon_close_socket,
         dlt_daemon_send_ringbuffer_to_client

(* What the innermost call becomes, unless it returns.                     *)
Fresh(f) == f.fn \in {"client_send", "close_socket", "send_ringbuffer"} /\ f.pc \in {"start", "loop", "store"}
ReportFits(f) == f.fn = "client_send" /\ f.pc = "reported" => f.force

(* A call that goes on or is made is not one that waits.                   *)
LEMMA GoesOn ==
  ASSUME IInv, DepthSound, Step
  PROVE  \/ Pops
         \/ \E f : Replaces(f) /\ Fresh(f)
         \/ \E f, g : Pushes(f, g) /\ ReportFits(f) /\ Fresh(g)
<1>0. TypeOK /\ StateSound
  BY DEF IInv
<1>g. /\ Fresh(SendFrame(FALSE, DaemonMsg)) /\ \A m : Fresh(SendFrame(TRUE, m))
      /\ \A n : Fresh(SendFrame(FALSE, OverflowMsg(n)))
      /\ Fresh(RingFrame) /\ \A c : Fresh(CloseFrame(c))
  BY DEF Fresh, SendFrame, RingFrame, CloseFrame
<1>1. CASE Returning
  BY <1>0, <1>1, ReturningIs DEF StateSound
<1>2. CASE SendStart
  <2>1. PICK f : Sending(f) /\ Replaces(f) /\ f.pc \in {"loop", "store"}
    BY <1>0, <1>2, SendStartIs
  <2>2. Fresh(f)
    BY <2>1 DEF Sending, Fresh
  <2> QED
    BY <2>1, <2>2
<1>3. CASE SendToClient
  <2>1. PICK f : Sending(f) /\ Replaces(f) /\ f.pc = "loop"
    BY <1>0, <1>3, SendToClientIs
  <2>2. Fresh(f)
    BY <2>1 DEF Sending, Fresh
  <2> QED
    BY <2>1, <2>2
<1>4. CASE SendLoopDone
  <2>1. Pops \/ \E f : Sending(f) /\ Replaces(f) /\ f.pc = "store"
    BY <1>0, <1>4, SendLoopDoneIs
  <2>2. \A f : Sending(f) /\ f.pc = "store" => Fresh(f)
    BY DEF Sending, Fresh
  <2> QED
    BY <2>1, <2>2
<1>5. CASE SendFails
  <2>1. PICK f : Sending(f) /\ Pushes(f, CloseFrame(clients[top.i])) /\ f.pc = "loop"
    BY <1>0, <1>5, SendFailsIs
  <2>2. ReportFits(f)
    BY <2>1 DEF ReportFits
  <2> QED
    BY <1>g, <2>1, <2>2
<1>6. CASE SendReport
  <2>1. CASE Pops
    BY <2>1
  <2>2. CASE ~Pops
    <3>1. \E f, g : Sending(f) /\ Pushes(f, g) /\ f.fn = "client_send" /\ Fresh(g)
      <4>1. /\ overflow_counter > 0
            /\ \E f : Sending(f) /\ Pushes(f, SendFrame(FALSE, OverflowMsg(overflow_counter)))
        BY <1>0, <1>6, <2>2, SendReportIs
      <4>2. Fresh(SendFrame(FALSE, OverflowMsg(overflow_counter)))
        BY DEF Fresh, SendFrame
      <4>3. \A f : Sending(f) => f.fn = "client_send"
        BY DEF Sending
      <4> QED
        BY <4>1, <4>2, <4>3
    <3>2. Forced(top)
      BY <1>0, <1>6, <2>2, SendReportIs, ReportIsForced
    <3>3. \A f : Sending(f) => ReportFits(f)
      BY <3>2 DEF ReportFits, Sending, Forced
    <3> QED
      BY <3>1, <3>3
  <2> QED
    BY <2>1, <2>2
<1>7. CASE CloseUnregister \/ CloseInfoSent
  <2>1. PICK f : Pushes(f, SendFrame(FALSE, DaemonMsg)) /\ f.fn = "close_socket"
    BY <1>0, <1>7, CloseCallsIs
  <2> QED
    BY <1>g, <2>1 DEF ReportFits
<1>8. CASE RingStart
  <2>1. Pops \/ \E f : Pushes(f, SendFrame(TRUE, client_ringbuffer[1])) /\ f.fn = "send_ringbuffer"
    BY <1>0, <1>8, RingStartIs
  <2> QED
    BY <1>g, <2>1 DEF ReportFits
<1>9. CASE RingSent
  <2>1. stack # <<>> /\ top.fn = "send_ringbuffer" /\ top.pc = "sent"
    BY <1>9 DEF RingSent, At
  <2>2. client_ringbuffer # <<>>
    BY <2>1, TopFits DEF FrameSound, FrameFits
  <2>3. Pops \/ Pushes(top, SendFrame(TRUE, client_ringbuffer[2]))
    BY <1>0, <1>9, <2>2, RingSentIs
  <2> QED
    BY <1>g, <2>1, <2>3 DEF ReportFits
<1>10. CASE ConnectAnnounced
  <2>1. Pops \/ \E f : Pushes(f, RingFrame) /\ f.fn = "client_connect"
    BY <1>0, <1>10, ConnectAnnouncedIs
  <2> QED
    BY <1>g, <2>1 DEF ReportFits
<1>11. CASE OneSecondTime
  <2>1. Pops \/ \E f : Pushes(f, SendFrame(FALSE, DaemonMsg)) /\ f.fn = "one_s_timer"
    BY <1>0, <1>11, OneSecondTimeIs
  <2> QED
    BY <1>g, <2>1 DEF ReportFits
<1>12. CASE Announce("client_connect") \/ Announce("sixty_s_timer")
  <2>1. \E f : Pushes(f, SendFrame(FALSE, DaemonMsg)) /\ f.fn \in {"client_connect", "sixty_s_timer"}
    BY <1>0, <1>12, AnnounceIs
  <2> QED
    BY <1>g, <2>1 DEF ReportFits
<1> QED
  BY <1>1, <1>2, <1>3, <1>4, <1>5, <1>6, <1>7, <1>8, <1>9, <1>10, <1>11, <1>12
     DEF Step, Returning, dlt_daemon_client_send, dlt_daemon_close_socket,
         dlt_daemon_send_ringbuffer_to_client

(* What the call of a handler that starts is.                              *)
LEMMA StartsFresh ==
  ASSUME IInv, Events
  PROVE  /\ Len(stack') \in {1, 2} /\ \A k \in 1 .. Len(stack') : ReportFits(stack'[k])
         /\ top'.fn # "user_overflow" /\ ~(top'.fn = "send_ringbuffer" /\ top'.pc = "sent")
         /\ ~(top'.fn = "client_send" /\ top'.pc = "reported")
<1>0. TypeOK
  BY DEF IInv
<1>1. ASSUME Len(stack') = 1, ReportFits(stack'[1]), stack'[1].fn \notin {"user_overflow", "send_ringbuffer"},
             ~(stack'[1].fn = "client_send" /\ stack'[1].pc = "reported")
      PROVE  /\ Len(stack') \in {1, 2} /\ \A k \in 1 .. Len(stack') : ReportFits(stack'[k])
             /\ top'.fn # "user_overflow" /\ ~(top'.fn = "send_ringbuffer" /\ top'.pc = "sent")
             /\ ~(top'.fn = "client_send" /\ top'.pc = "reported")
  <2>1. top' = stack'[1]
    BY <1>1 DEF top
  <2> QED
    BY <1>1, <2>1
<1>2. ASSUME Len(stack') = 2, stack'[1].fn # "client_send", stack'[2].pc = "start",
             stack'[2].fn \in {"client_send", "send_ringbuffer"}
      PROVE  /\ Len(stack') \in {1, 2} /\ \A k \in 1 .. Len(stack') : ReportFits(stack'[k])
             /\ top'.fn # "user_overflow" /\ ~(top'.fn = "send_ringbuffer" /\ top'.pc = "sent")
             /\ ~(top'.fn = "client_send" /\ top'.pc = "reported")
  <2>1. top' = stack'[2]
    BY <1>2 DEF top
  <2>2. \A k \in 1 .. Len(stack') : ReportFits(stack'[k])
    BY <1>2 DEF ReportFits
  <2> QED
    BY <1>2, <2>1, <2>2
<1>3. ASSUME NEW c \in Client, dlt_daemon_process_client_connect(c)
      PROVE  Len(stack') = 1 /\ stack'[1].fn = "client_connect"
  BY <1>3, ConnectIs
<1>4. CASE AppGone \/ \E i \in 1 .. Len(clients) : ClientGone(i)
  <2>1. Len(stack') = 1 /\ stack'[1].fn = "close_socket"
    BY <1>0, <1>4, GoneIs
  <2> QED
    BY <1>1, <2>1 DEF ReportFits
<1>5. CASE dlt_daemon_process_user_message_log
  <2>1. Len(stack') = 1 /\ stack'[1] = SendFrame(FALSE, LogMsg(logs + 1))
    BY <1>0, <1>5, LogIs
  <2>2. stack'[1].fn = "client_send" /\ stack'[1].pc = "start"
    BY <2>1 DEF SendFrame
  <2> QED
    BY <1>1, <2>1, <2>2 DEF ReportFits
<1>6. ASSUME NEW n \in 1 .. MaxUserOverflow, dlt_daemon_process_user_message_overflow(n)
      PROVE  /\ Len(stack') = 2 /\ stack'[1].fn = "user_overflow" /\ stack'[2].pc = "start"
             /\ stack'[2].fn = "client_send"
  <2>1. /\ Len(stack') = 2 /\ stack'[1] = OverflowFrame(n)
        /\ stack'[2] = SendFrame(FALSE, OverflowMsg(n))
    BY <1>6, OverflowIs
  <2>2. /\ OverflowFrame(n).fn = "user_overflow"
        /\ SendFrame(FALSE, OverflowMsg(n)).pc = "start"
        /\ SendFrame(FALSE, OverflowMsg(n)).fn = "client_send"
    BY DEF SendFrame, OverflowFrame
  <2> QED
    BY <2>1, <2>2
<1>7. CASE dlt_daemon_process_one_s_timer
  <2>1. stack'[1].fn = "one_s_timer" /\ stack'[1].pc = "start"
    BY <1>7, OneSecondIs
  <2>2. CASE Len(stack') = 1
    BY <1>1, <2>1, <2>2 DEF ReportFits
  <2>3. CASE Len(stack') = 2 /\ stack'[2].fn = "send_ringbuffer" /\ stack'[2].pc = "start"
    BY <1>2, <2>1, <2>3
  <2> QED
    BY <1>7, <2>2, <2>3, OneSecondIs
<1>8. CASE dlt_daemon_process_sixty_s_timer
  <2>1. Len(stack') = 1 /\ stack'[1].fn = "sixty_s_timer"
    BY <1>8, SixtySecondIs
  <2> QED
    BY <1>1, <2>1 DEF ReportFits
<1>9. CASE \E c \in Client : dlt_daemon_process_client_connect(c)
  <2>1. Len(stack') = 1 /\ stack'[1].fn = "client_connect"
    BY <1>3, <1>9
  <2> QED
    BY <1>1, <2>1 DEF ReportFits
<1>10. CASE \E n \in 1 .. MaxUserOverflow : dlt_daemon_process_user_message_overflow(n)
  <2>1. /\ Len(stack') = 2 /\ stack'[1].fn = "user_overflow" /\ stack'[2].pc = "start"
        /\ stack'[2].fn = "client_send"
    BY <1>6, <1>10
  <2> QED
    BY <1>2, <2>1
<1> QED
  BY <1>4, <1>5, <1>7, <1>8, <1>9, <1>10 DEF Events

(* Only a flush reports losses, whatever is done.                          *)
LEMMA ReportKept ==
  ASSUME IInv, DepthSound, Next
  PROVE  ReportSound'
<1>0. /\ TypeOK /\ stack \in Seq(Frame) /\ stack' \in Seq(Frame) /\ StackStep
      /\ \A k \in 1 .. Len(stack) : ReportFits(stack[k])
  BY StackSteps, DepthParts DEF IInv, TypeOK, ReportSound, ReportFits
<1>1. SUFFICES ASSUME NEW k \in 1 .. Len(stack')
               PROVE  ReportFits(stack'[k])
  BY DEF ReportSound, ReportFits
<1>n. Len(stack) \in Nat /\ Len(stack') \in Nat
  BY <1>0
<1>2. CASE Events
  BY <1>2, StartsFresh
<1>3. CASE Pops
  <2>1. k \in 1 .. Len(stack) /\ stack'[k] = stack[k]
    BY <1>n, <1>3 DEF Pops
  <2> QED
    BY <1>0, <2>1
<1>4. CASE \E f : Replaces(f) /\ Fresh(f)
  <2>1. PICK f : Replaces(f) /\ Fresh(f)
    BY <1>4
  <2>2. \/ k = Len(stack) /\ stack'[k] = f
        \/ k \in 1 .. Len(stack) /\ stack'[k] = stack[k]
    BY <1>n, <2>1 DEF Replaces
  <2>3. ReportFits(f)
    BY <2>1 DEF Fresh, ReportFits
  <2> QED
    BY <1>0, <2>2, <2>3
<1>5. CASE \E f, g : Pushes(f, g) /\ ReportFits(f) /\ Fresh(g)
  <2>1. PICK f, g : Pushes(f, g) /\ ReportFits(f) /\ Fresh(g)
    BY <1>5
  <2>2. \/ k = Len(stack) /\ stack'[k] = f
        \/ k = Len(stack) + 1 /\ stack'[k] = g
        \/ k \in 1 .. Len(stack) /\ stack'[k] = stack[k]
    BY <1>n, <2>1 DEF Pushes
  <2>3. ReportFits(g)
    BY <2>1 DEF Fresh, ReportFits
  <2> QED
    BY <1>0, <2>1, <2>2, <2>3
<1>6. ASSUME NEW on, dlt_daemon_control_set_timing_packets(on)
      PROVE  ReportFits(stack'[k])
  <2>1. stack' = stack
    BY <1>6 DEF dlt_daemon_control_set_timing_packets
  <2> QED
    BY <1>0, <2>1
<1> QED
  BY <1>2, <1>3, <1>4, <1>5, <1>6, GoesOn DEF Next, Events

(* What a call of dlt_daemon_client_send returns with: unless it failed,   *)
(* one of a flush leaves no losses to report or more than its own message; *)
(* one that is not fails only when the ring buffer is full.                *)
LEMMA SendPops ==
  ASSUME IInv, DepthSound, RingSize >= 2, Next, Pops, stack # <<>>, top.fn = "client_send"
  PROVE  /\ top.force => ret' # ERROR_OK \/ Len(client_ringbuffer') # 1 \/ overflow_counter' = 0
         /\ ~top.force => ret' = ERROR_OK \/ state' = "BUFFER_FULL"
<1>0. /\ TypeOK /\ StateSound /\ LossSound /\ stack \in Seq(Frame) /\ stack' \in Seq(Frame)
      /\ top.force \in BOOLEAN /\ FrameSound(top) /\ overflow_counter \in Nat
  <2>1. stack \in Seq(Frame) /\ top \in Frame /\ overflow_counter \in Nat
    BY StackIs DEF IInv, TypeOK
  <2>2. top.force \in BOOLEAN
    BY <2>1, FrameIs
  <2> QED
    BY <2>1, <2>2, TopFits, StackSteps, DepthParts DEF IInv
<1>1. ~(\E f : Replaces(f)) /\ ~(\E f, g : Pushes(f, g))
  <2>1. Len(stack) \in Nat /\ Len(stack') = Len(stack) - 1
    BY <1>0 DEF Pops
  <2>2. Len(stack') # Len(stack) /\ Len(stack') # Len(stack) + 1
    BY <2>1
  <2> QED
    BY <2>2 DEF Replaces, Pushes
<1>2. dlt_daemon_client_send
  BY TopActs
<1>3. CASE SendStart \/ SendToClient \/ SendFails
  BY <1>0, <1>1, <1>3, SendStartIs, SendToClientIs, SendFailsIs
<1>4. CASE SendLoopDone
  <2>1. top.force /\ ret' = ERROR_SEND_FAILED
    BY <1>0, <1>1, <1>4, SendLoopDoneIs
  <2> QED
    BY <2>1 DEF ERROR_SEND_FAILED, ERROR_OK
<1>5. CASE SendStore
  BY <1>5 DEF SendStore, Return
<1>6. CASE SendDiscard
  BY <1>6 DEF SendDiscard
<1>7. CASE SendReport
  <2>1. (overflow_counter = 0 \/ clients = <<>>) /\ ret' = ERROR_OK /\ overflow_counter' = overflow_counter
    <3>1. overflow_counter' = overflow_counter
      BY <1>7 DEF SendReport, daemon
    <3> QED
      BY <1>0, <1>1, <1>7, <3>1, SendReportIs
  <2>2. top.force => clients # <<>>
    <3>1. top.pc = "store"
      BY <1>7 DEF SendReport, At
    <3> QED
      BY <1>0, <3>1 DEF FrameSound, FrameFits, Forced
  <2> QED
    BY <2>1, <2>2
<1>8. CASE SendReported
  <2>1. /\ ret' = ERROR_OK /\ client_ringbuffer' = client_ringbuffer
        /\ ret = ERROR_OK => overflow_counter' = 0
        /\ top.pc = "reported"
    BY <1>8 DEF SendReported, Return, At
  <2>2. ret # ERROR_OK => Len(client_ringbuffer) = RingSize
    BY <1>0, <2>1 DEF LossSound, StateSound
  <2>3. RingSize # 1
    <3>1. \A n \in Nat : n >= 2 => n # 1
      OBVIOUS
    <3> QED
      BY <3>1, BoundAssumption
  <2> QED
    BY <2>1, <2>2, <2>3
<1> QED
  BY <1>2, <1>3, <1>4, <1>5, <1>6, <1>7, <1>8 DEF dlt_daemon_client_send

(* The other steps leave the number of losses alone.                       *)
LEMMA CounterIs ==
  ASSUME Next, ~SendDiscard, ~SendReported, ~UserOverflowSent
  PROVE  overflow_counter' = overflow_counter
<1> USE DEF daemon
<1>1. CASE dlt_daemon_client_send
  BY <1>1 DEF dlt_daemon_client_send, SendStart, SendToClient, SendFails, SendLoopDone, SendStore, SendReport
<1>2. CASE dlt_daemon_close_socket \/ dlt_daemon_send_ringbuffer_to_client
  BY <1>2 DEF dlt_daemon_close_socket, CloseUnregister, CloseInfoSent, CloseReturn,
              dlt_daemon_send_ringbuffer_to_client, RingStart, RingSent
<1>3. CASE \/ ConnectAnnounced \/ ConnectFlushed \/ OneSecondTime \/ TimerReturn
           \/ Announce("client_connect") \/ Announce("sixty_s_timer")
  BY <1>3 DEF ConnectAnnounced, ConnectFlushed, OneSecondTime, TimerReturn, Announce
<1>4. ASSUME NEW c, dlt_daemon_process_client_connect(c)
      PROVE  overflow_counter' = overflow_counter
  BY <1>4 DEF dlt_daemon_process_client_connect
<1>5. ASSUME NEW i, ClientGone(i)
      PROVE  overflow_counter' = overflow_counter
  BY <1>5 DEF ClientGone
<1>6. ASSUME NEW n, dlt_daemon_process_user_message_overflow(n)
      PROVE  overflow_counter' = overflow_counter
  BY <1>6 DEF dlt_daemon_process_user_message_overflow
<1>7. ASSUME NEW on, dlt_daemon_control_set_timing_packets(on)
      PROVE  overflow_counter' = overflow_counter
  BY <1>7 DEF dlt_daemon_control_set_timing_packets
<1>8. CASE \/ AppGone \/ dlt_daemon_process_user_message_log
           \/ dlt_daemon_process_one_s_timer \/ dlt_daemon_process_sixty_s_timer
  BY <1>8 DEF AppGone, dlt_daemon_process_user_message_log, dlt_daemon_process_one_s_timer,
              dlt_daemon_process_sixty_s_timer
<1> QED
  BY <1>1, <1>2, <1>3, <1>4, <1>5, <1>6, <1>7, <1>8 DEF Next, Step

(* The losses are known, and the ring buffer is not empty, until they are  *)
(* reported.                                                               *)
LEMMA EmptyIsReported ==
  ASSUME IInv, DepthSound, Next
  PROVE  client_ringbuffer' = <<>> => overflow_counter' = 0
<1>0. /\ TypeOK /\ StateSound /\ LossSound /\ client_ringbuffer \in Seq(Message)
      /\ Len(client_ringbuffer) \in Nat /\ RingSize \in Nat \ {0}
  BY DepthParts, BoundAssumption DEF IInv, TypeOK
<1>f. state = "BUFFER_FULL" \/ RingFull => client_ringbuffer # <<>>
  <2>1. state = "BUFFER_FULL" \/ RingFull => Len(client_ringbuffer) >= RingSize
    BY <1>0 DEF StateSound, RingFull
  <2>2. Len(client_ringbuffer) >= RingSize => Len(client_ringbuffer) # 0
    BY <1>0
  <2> QED
    BY <1>0, <2>1, <2>2
<1>1. CASE SendStore
  <2>1. client_ringbuffer' = Append(client_ringbuffer, top.msg)
    BY <1>1 DEF SendStore
  <2>2. Len(client_ringbuffer') = Len(client_ringbuffer) + 1
    BY <1>0, <2>1
  <2> QED
    BY <1>0, <2>2
<1>2. CASE RingSent
  <2>1. stack # <<>> /\ top.fn = "send_ringbuffer" /\ top.pc = "sent" /\ overflow_counter' = overflow_counter
    BY <1>2 DEF RingSent, At
  <2>2. client_ringbuffer # <<>>
    BY <2>1, TopFits DEF FrameSound, FrameFits
  <2>3. CASE ret # ERROR_OK \/ Len(client_ringbuffer) = 1
    BY <1>0, <1>2, <2>1, <2>2, <2>3, RingSentIs DEF LossSound
  <2>4. CASE ret = ERROR_OK /\ Len(client_ringbuffer) # 1
    <3>1. client_ringbuffer' = Tail(client_ringbuffer)
      BY <1>2, <2>4 DEF RingSent
    <3>2. Len(client_ringbuffer') = Len(client_ringbuffer) - 1
      BY <1>0, <2>2, <3>1
    <3>3. Len(client_ringbuffer') # 0
      BY <1>0, <2>4, <3>2
    <3> QED
      BY <3>3
  <2> QED
    BY <2>3, <2>4
<1>3. CASE SendDiscard
  <2>1. client_ringbuffer' = client_ringbuffer /\ (state = "BUFFER_FULL" \/ RingFull)
    BY <1>3 DEF SendDiscard
  <2> QED
    BY <1>f, <2>1
<1>4. CASE SendReported
  <2>1. /\ client_ringbuffer' = client_ringbuffer
        /\ overflow_counter' = IF ret = ERROR_OK THEN 0 ELSE overflow_counter
    BY <1>4 DEF SendReported
  <2> QED
    BY <1>0, <2>1 DEF LossSound
<1>5. CASE UserOverflowSent
  <2>1. /\ client_ringbuffer' = client_ringbuffer
        /\ overflow_counter' = IF ret # ERROR_OK THEN overflow_counter + top.n ELSE overflow_counter
        /\ stack # <<>> /\ top.fn = "user_overflow"
    BY <1>5 DEF UserOverflowSent, At
  <2>2. ret # ERROR_OK => client_ringbuffer # <<>>
    BY <1>0, <1>f, <2>1 DEF LossSound
  <2>3. CASE ret = ERROR_OK
    BY <1>0, <2>1, <2>3 DEF LossSound
  <2> QED
    BY <2>1, <2>2, <2>3
<1>6. CASE ~SendStore /\ ~RingSent /\ ~SendDiscard /\ ~SendReported /\ ~UserOverflowSent
  <2>1. client_ringbuffer' = client_ringbuffer
    BY <1>6, LoudIs, QuietIs DEF SendToClient, CloseUnregister, daemon, dlt_daemon_process_client_connect
  <2>2. overflow_counter' = overflow_counter
    BY <1>6, CounterIs
  <2> QED
    BY <1>0, <2>1, <2>2 DEF LossSound
<1> QED
  BY <1>1, <1>2, <1>3, <1>4, <1>5, <1>6

(* What is known of losses, whatever is done.                              *)
LEMMA LossKept ==
  ASSUME IInv, DepthSound, RingSize >= 2, Next
  PROVE  LossSound'
<1>0. /\ TypeOK /\ stack \in Seq(Frame) /\ stack' \in Seq(Frame) /\ StackStep /\ Shape /\ LossSound
  BY StackSteps, DepthParts DEF IInv, TypeOK
<1> DEFINE Waits == stack' # <<>> /\ top'.fn = "send_ringbuffer" /\ top'.pc = "sent"
           Asks == stack' # <<>> /\ (top'.fn = "user_overflow" \/ (top'.fn = "client_send" /\ top'.pc = "reported"))
           Goal == /\ Waits /\ ret' = ERROR_OK /\ Len(client_ringbuffer') = 1 => overflow_counter' = 0
                   /\ Asks /\ ret' # ERROR_OK => state' = "BUFFER_FULL"
<1> SUFFICES Goal
  BY EmptyIsReported DEF LossSound
<1>1. CASE Pops
  <2>1. CASE stack' = <<>>
    BY <2>1
  <2>2. CASE stack' # <<>>
    <3>1. Len(stack) > 1 /\ top' = stack[Len(stack) - 1] /\ stack # <<>> /\ Len(stack) \in Nat
      BY <1>0, <1>1, <2>2, NewTop DEF Pops
    <3>2. Calls(top', top)
      <4>1. Len(stack) - 1 \in 1 .. Len(stack) - 1
        BY <3>1
      <4>2. Calls(stack[Len(stack) - 1], stack[(Len(stack) - 1) + 1])
        BY <1>0, <4>1 DEF Shape
      <4>3. stack[(Len(stack) - 1) + 1] = top
        BY <3>1 DEF top
      <4> QED
        BY <3>1, <4>2, <4>3
    <3>3. Waits => top.fn = "client_send" /\ top.force
      BY <3>2 DEF Calls
    <3>4. Asks => top.fn = "client_send" /\ ~top.force
      BY <3>2 DEF Calls, Plain
    <3> QED
      BY <1>1, <3>1, <3>3, <3>4, SendPops
  <2> QED
    BY <2>1, <2>2
<1>2. CASE (\E f : Replaces(f) /\ Fresh(f)) \/ (\E f, g : Pushes(f, g) /\ Fresh(g))
  <2>1. Fresh(top')
    BY <1>0, <1>2, NewTop
  <2> QED
    BY <2>1 DEF Fresh
<1>3. CASE Events
  <2>1. ~Waits /\ ~Asks
    BY <1>3, StartsFresh
  <2> QED
    BY <2>1
<1>4. ASSUME NEW on, dlt_daemon_control_set_timing_packets(on)
      PROVE  Goal
  <2>1. stack' = <<>>
    BY <1>4 DEF dlt_daemon_control_set_timing_packets, Idle
  <2> QED
    BY <2>1
<1>5. CASE Step
  BY <1>1, <1>2, <1>5, GoesOn
<1>6. CASE ~Step
  BY <1>3, <1>4, <1>6 DEF Next, Events
<1> QED
  BY <1>5, <1>6

(* Every step keeps the invariant with nesting.                            *)
LEMMA DepthStep ==
  ASSUME DInv, RingSize >= 2, [Next]_vars
  PROVE  DInv'
<1>0. IInv' /\ TypeOK'
  BY StepIsSound DEF DInv, IInv
<1>1. CASE Next
  BY <1>0, <1>1, NestKept, ReportKept, LossKept, DepthParts DEF DInv
<1>2. CASE UNCHANGED vars
  <2>1. /\ stack' = stack /\ clients' = clients /\ client_ringbuffer' = client_ringbuffer
        /\ overflow_counter' = overflow_counter /\ state' = state /\ ret' = ret /\ top' = top
    BY <1>2 DEF vars, top
  <2>2. DepthSound'
    BY <2>1 DEF DInv, DepthSound, Depth
  <2> QED
    BY <1>0, <2>2 DEF DInv
<1> QED
  BY <1>1, <1>2

(* The daemon's state, its list of clients and what the applications were  *)
(* told fit together, and however calls nest that close the client they    *)
(* are sending to (dlt_daemon_client_send and dlt_daemon_close_socket call *)
(* each other), they do so at most twice for each client.                  *)
THEOREM ConsistentTheorem ==
  ASSUME RingSize >= 2
  PROVE  Spec => []Consistent
<1>1. Init => DInv
  <2> SUFFICES ASSUME Init PROVE DInv
    OBVIOUS
  <2>1. IInv
    BY InitIsSound
  <2>2. stack = <<>> /\ Len(stack) = 0 /\ overflow_counter = 0
    BY DEF Init
  <2>3. DepthSound
    BY <2>2 DEF DepthSound
  <2> QED
    BY <2>1, <2>3 DEF DInv
<1>2. DInv /\ [Next]_vars => DInv'
  BY DepthStep
<1>3. DInv => CallsAreBounded
  <2> SUFFICES ASSUME DInv PROVE CallsAreBounded
    OBVIOUS
  <2>0. stack \in Seq(Frame) /\ Len(stack) \in Nat /\ Len(clients) \in Nat /\ Cardinality(Client) \in Nat
    BY FewClients DEF DInv, IInv, TypeOK
  <2>1. CASE stack = <<>>
    BY <2>0, <2>1 DEF CallsAreBounded
  <2>2. CASE stack # <<>>
    <3>1. Len(stack) \in 1 .. Len(stack)
      BY <2>0, <2>2
    <3>2. Len(stack) + 2 * Len(clients) <= 2 * Cardinality(Client) + Depth(stack[Len(stack)])
      BY <3>1 DEF DInv, DepthSound
    <3>3. Depth(stack[Len(stack)]) \in 3 .. 5
      BY DepthIs
    <3>4. \A n, l, c \in Nat, d \in 3 .. 5 : n + 2 * l <= 2 * c + d => n <= 4 + 2 * c + 2
      OBVIOUS
    <3> QED
      BY <2>0, <3>2, <3>3, <3>4 DEF CallsAreBounded
  <2> QED
    BY <2>1, <2>2
<1>4. Spec => []CallsAreBounded
  BY <1>1, <1>2, <1>3, PTL DEF Spec
<1> QED
  BY <1>4, StateTheorem, PTL DEF Consistent
=============================================================================
