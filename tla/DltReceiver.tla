----------------------------- MODULE DltReceiver -----------------------------
(***************************************************************************)
(* Reassembly of messages from a byte stream (dlt_receiver_... in          *)
(* src/shared/dlt_common.c) by the daemon's loop over the messages of      *)
(* applications, dlt_daemon_process_user_messages.  A message arrives in   *)
(* any number of pieces; the bytes left over stay in the receiver until    *)
(* the next piece comes.                                                   *)
(*                                                                         *)
(* All application receivers use one buffer, app_recv_buffer, so a         *)
(* receiver must not count on its bytes staying there:                     *)
(* dlt_receiver_move_to_begin saves them in backup_buf, unless they lie at *)
(* the front of the buffer already.  These another receiver's read may     *)
(* overwrite; what happens to a connection then is arbitrary.              *)
(*                                                                         *)
(* A byte is the pair of its connection and its position in the stream.    *)
(* The daemon has one thread: the handler of one receiver runs at a time.  *)
(***************************************************************************)
EXTENDS Integers, Sequences

CONSTANTS
    Conn,        \* the application connections
    BufSize,     \* size of app_recv_buffer
    Pattern,     \* bytes of DltUserHeader.pattern
    Header,      \* sizeof(DltUserHeader)
    Fixed,       \* Header + sizeof(DltUserControlMsgRegisterApplication)
    DescSize,    \* DLT_DAEMON_DESCSIZE
    StreamSize,  \* bound: length of the stream
    Start,       \* the positions of the stream where a message starts
    Size,        \* the size of the message starting there, user header included
    Kind,        \* the kind of its handler
    Sends,       \* how much of the stream each connection sends
    Junk,        \* a byte never received
    None         \* no receiver

ASSUME ConnAssumption == None \notin Conn /\ Sends \in [Conn -> Start]
ASSUME HeaderAssumption ==
    /\ BufSize \in Nat /\ Pattern \in Nat \ {0} /\ Header \in Nat /\ Fixed \in Nat
    /\ DescSize \in Nat /\ StreamSize \in Nat
    /\ Pattern < Header /\ Header < Fixed

(* The stream is a sequence of whole messages, each fitting in the buffer; *)
(* a registration may go on with a description.                            *)
ASSUME StreamAssumption ==
    /\ Start \subseteq 0 .. StreamSize /\ 0 \in Start /\ StreamSize \in Start
    /\ Size \in [Start -> Nat]
    /\ Kind \in [Start -> {"log", "unregister", "register", "not_sup"}]
    /\ \A s \in Start : /\ Header <= Size[s] /\ Size[s] <= BufSize
                        /\ Kind[s] = "register" => Fixed <= Size[s]
    /\ \A s \in Start \ {StreamSize} :
          /\ s + Size[s] \in Start
          /\ \A t \in Start : t <= s \/ s + Size[s] <= t
    /\ \A s \in Start \ {0} : \E t \in Start : t < s /\ t + Size[t] = s

Byte(c, n) == [conn |-> c, n |-> n]
ASSUME JunkAssumption == Junk \notin [conn : Conn, n : Nat]

VARIABLES
    mem,        \* the contents of app_recv_buffer
    buf,        \* receiver->buf - receiver->buffer
    bytesRcvd,  \* receiver->bytesRcvd
    backup,     \* receiver->backup_buf, <<>> for NULL
    open,       \* the connections not yet closed
    running,    \* the receiver whose handler runs, or None
    ret,        \* what the last handler of each connection answered: "ok" for 0,
                \* -1 is "waits" if it left its message and "failed" if not
    read,       \* history: bytes each connection's reads returned
    overwritten,\* history: the connections whose bytes another's read changed
    handled     \* history: the messages handled of each connection not among
                \* these, each the sequence of its bytes

vars == <<mem, buf, bytesRcvd, backup, open, running, ret, read, handled, overwritten>>

Init ==   \* dlt_receiver_init_global_buffer
    /\ mem = [p \in 0 .. BufSize - 1 |-> Junk]
    /\ buf = [c \in Conn |-> 0]
    /\ bytesRcvd = [c \in Conn |-> 0]
    /\ backup = [c \in Conn |-> <<>>]
    /\ open = Conn
    /\ running = None
    /\ ret = [c \in Conn |-> "ok"]
    /\ read = [c \in Conn |-> 0]
    /\ handled = [c \in Conn |-> <<>>]
    /\ overwritten = {}

(* the byte at distance k from receiver->buf, and the first n of them      *)
At(c, k) == mem[buf[c] + k]
Front(c, n) == [k \in 1 .. n |-> At(c, k - 1)]

-----------------------------------------------------------------------------
(* mutant: the saved bytes are not put back                                *)
Received_NotRestored(c, k) ==
    [p \in 0 .. BufSize - 1 |->
        IF bytesRcvd[c] <= p /\ p < bytesRcvd[c] + k
        THEN Byte(c, read[c] + p - bytesRcvd[c])
        ELSE mem[p]]

(* dlt_receiver_receive: the saved bytes go back to the front of the       *)
(* buffer, and k new ones are read after them.                             *)
Received(c, k) ==
    [p \in 0 .. BufSize - 1 |->
        IF p < bytesRcvd[c] /\ backup[c] # <<>> THEN backup[c][p + 1]
        ELSE IF bytesRcvd[c] <= p /\ p < bytesRcvd[c] + k
             THEN Byte(c, read[c] + p - bytesRcvd[c])
             ELSE mem[p]]

(* The connections whose bytes are only in the buffer, and are changed.    *)
Overwrites(c, k) ==
    {d \in Conn \ {c} : /\ backup[d] = <<>>
                        /\ \E p \in 0 .. bytesRcvd[d] - 1 : Received(c, k)[p] # mem[p]}

dlt_receiver_receive(c, k) ==
    /\ running = None /\ c \in open
    /\ bytesRcvd[c] + k <= BufSize
    /\ read[c] + k <= Sends[c]
    /\ mem' = Received(c, k)
    /\ buf' = [buf EXCEPT ![c] = 0]
    /\ backup' = IF bytesRcvd[c] = 0 THEN backup ELSE [backup EXCEPT ![c] = <<>>]
    /\ bytesRcvd' = [bytesRcvd EXCEPT ![c] = @ + k]
    /\ read' = [read EXCEPT ![c] = @ + k]
    /\ running' = c
    /\ ret' = [ret EXCEPT ![c] = "ok"]
    /\ overwritten' = overwritten \cup Overwrites(c, k)
    /\ UNCHANGED <<open, handled>>

(* It returns nothing, because the peer went or no room is left: the       *)
(* handler closes the socket, and dlt_connection_destroy frees the         *)
(* receiver.  The saved bytes were put back all the same.                  *)
ReceiveNothing(c) ==
    /\ running = None /\ c \in open
    /\ mem' = Received(c, 0)
    /\ open' = open \ {c}
    /\ bytesRcvd' = [bytesRcvd EXCEPT ![c] = 0]
    /\ backup' = [backup EXCEPT ![c] = <<>>]
    /\ overwritten' = overwritten \cup Overwrites(c, 0)
    /\ UNCHANGED <<buf, running, ret, read, handled>>

(* dlt_receiver_remove                                                     *)
dlt_receiver_remove(c, n) ==
    /\ buf' = [buf EXCEPT ![c] = IF n > bytesRcvd[c] THEN @ + bytesRcvd[c] ELSE @ + n]
    /\ bytesRcvd' = [bytesRcvd EXCEPT ![c] = IF n > @ THEN 0 ELSE @ - n]

(* mutant: nothing is saved                                                *)
dlt_receiver_move_to_begin_NoBackup(c) == UNCHANGED backup

(* dlt_receiver_move_to_begin saves the bytes left, unless they lie at the *)
(* front of the buffer already.                                            *)
dlt_receiver_move_to_begin(c) ==
    IF buf[c] # 0 /\ bytesRcvd[c] # 0
    THEN backup' = [backup EXCEPT ![c] = Front(c, bytesRcvd[c])]
    ELSE UNCHANGED backup

-----------------------------------------------------------------------------
(* The loop of dlt_daemon_process_user_messages calls a handler while one  *)
(* answers 0 and a header is left.                                         *)

Loops(c) == ret[c] = "ok" /\ Header <= bytesRcvd[c]

(* dlt_user_check_userheader: the pattern is the same in every message     *)
HeaderAt(c, o) ==
    \A j \in 0 .. Pattern - 1 :
        At(c, o + j) # Junk /\ At(c, o + j).n - j \in Start

(* What was received is a piece of one stream.                             *)
OneStream(c) ==
    \A k \in 0 .. bytesRcvd[c] - 1 : At(c, k) = Byte(At(c, 0).conn, At(c, 0).n + k)

(* The handler of a message of this kind, starting at s, is called.        *)
Calls(c, kind, s) ==
    /\ Loops(c) /\ HeaderAt(c, 0) /\ OneStream(c)
    /\ s = At(c, 0).n /\ Kind[s] = kind

(* It answers r, having taken n bytes and handled these messages.          *)
Takes(c, n, messages, r) ==
    /\ dlt_receiver_remove(c, n)
    /\ handled' = IF c \in overwritten THEN handled ELSE [handled EXCEPT ![c] = @ \o messages]
    /\ ret' = [ret EXCEPT ![c] = r]
    /\ UNCHANGED <<mem, backup, open, running, read, overwritten>>

(* It answers -1, because bytes are missing, and leaves them.              *)
Leaves(c) ==
    /\ ret' = [ret EXCEPT ![c] = "waits"]
    /\ UNCHANGED <<mem, buf, bytesRcvd, backup, open, running, read, handled, overwritten>>

(* mutant: a message that ends with the bytes received waits for more      *)
dlt_daemon_process_user_message_log_Waits(c) ==
    \E s \in Start :
        /\ Calls(c, "log", s)
        /\ \/ bytesRcvd[c] <= Size[s] /\ Leaves(c)
           \/ Size[s] < bytesRcvd[c] /\ Takes(c, Size[s], <<Front(c, Size[s])>>, "ok")

(* A log message; overflow, set_app_ll_ts and marker do the same: once     *)
(* they took their message they answer 0.                                  *)
dlt_daemon_process_user_message_log(c) ==
    \E s \in Start :
        /\ Calls(c, "log", s)
        /\ \/ bytesRcvd[c] < Size[s] /\ Leaves(c)
           \/ Size[s] <= bytesRcvd[c] /\ Takes(c, Size[s], <<Front(c, Size[s])>>, "ok")

(* unregister_application and unregister_context take their message before *)
(* they look into the tables, and answer -1 when those refuse.             *)
dlt_daemon_process_user_message_unregister(c) ==
    \E s \in Start :
        /\ Calls(c, "unregister", s)
        /\ \/ bytesRcvd[c] < Size[s] /\ Leaves(c)
           \/ /\ Size[s] <= bytesRcvd[c]
              /\ \E r \in {"ok", "failed"} : Takes(c, Size[s], <<Front(c, Size[s])>>, r)

(* register_application and register_context wait for the fixed part only. *)
(* The description is read, up to DescSize bytes of it, with buf advanced  *)
(* but bytesRcvd as it was: if even that many were not received it is      *)
(* "Unknown", and its bytes stay; if they seem to be there but are not,    *)
(* removing them drops all, and nothing is registered.  The answer is -1   *)
(* also when the tables refuse.                                            *)
Description(s) == IF Size[s] - Fixed <= DescSize THEN Size[s] - Fixed ELSE DescSize

dlt_daemon_process_user_message_register(c) ==
    \E s \in Start :
        /\ Calls(c, "register", s)
        /\ \/ bytesRcvd[c] < Fixed /\ Leaves(c)
           \/ /\ Fixed <= bytesRcvd[c] /\ bytesRcvd[c] < Description(s)
              /\ \E r \in {"ok", "failed"} : Takes(c, Fixed, <<Front(c, Fixed)>>, r)
           \/ /\ Fixed <= bytesRcvd[c] /\ Description(s) <= bytesRcvd[c]
              /\ bytesRcvd[c] < Fixed + Description(s)
              /\ Takes(c, Fixed + Description(s), <<>>, "failed")
           \/ /\ Fixed + Description(s) <= bytesRcvd[c]
              /\ \E r \in {"ok", "failed"} :
                    Takes(c, Fixed + Description(s), <<Front(c, Fixed + Description(s))>>, r)

(* A type without a handler: its user header is removed, and the answer is *)
(* -1; the search for a header goes over the rest.  The library sends such *)
(* a message, DLT_USER_MESSAGE_LOG_MODE.                                   *)
dlt_daemon_process_user_message_not_sup(c) ==
    \E s \in Start : Calls(c, "not_sup", s) /\ Takes(c, Header, <<>>, "failed")

(* The bytes are those of several streams: any handler, any size.          *)
Garbled(c) ==
    /\ Loops(c) /\ HeaderAt(c, 0) /\ ~OneStream(c)
    /\ \/ Leaves(c)
       \/ \E n \in 1 .. bytesRcvd[c], r \in {"ok", "failed"} : Takes(c, n, <<>>, r)

(* the first header is at distance o                                       *)
FirstHeader(c, o) == HeaderAt(c, o) /\ \A i \in 0 .. o - 1 : ~HeaderAt(c, i)

(* no header at the front: bytes are skipped up to the next one            *)
Resync(c, o) ==
    /\ Loops(c)
    /\ o + Header <= bytesRcvd[c] /\ FirstHeader(c, o)
    /\ Takes(c, o, <<>>, "ok")

(* The search goes one byte too far: a header found there lacks its last   *)
(* byte, and its message type is completed by a stale one.  The handler it *)
(* selects keeps the bytes, or drops them, for a log message after sending *)
(* on what happens to follow in the buffer.                                *)
Stale(c, o) == [k \in 1 .. Header |-> IF k < Header THEN At(c, o + k - 1) ELSE Junk]

HeaderCutOff(c, o) ==
    /\ Loops(c)
    /\ o + Header = bytesRcvd[c] + 1 /\ FirstHeader(c, o)
    /\ \/ Takes(c, o, <<>>, "waits")
       \/ Takes(c, bytesRcvd[c], <<>>, "failed")
       \/ Kind[At(c, o).n] = "log" /\ Takes(c, bytesRcvd[c], <<Stale(c, o)>>, "failed")

(* a handler answered -1, or no header is left                             *)
Finish(c) ==
    /\ \/ ret[c] # "ok"
       \/ bytesRcvd[c] < Header
       \/ \A o \in 0 .. bytesRcvd[c] - Header + 1 : ~HeaderAt(c, o)
    /\ dlt_receiver_move_to_begin(c)
    /\ running' = None
    /\ UNCHANGED <<mem, buf, bytesRcvd, open, ret, read, handled, overwritten>>

dlt_daemon_process_user_messages(c) ==
    /\ running = c
    /\ \/ dlt_daemon_process_user_message_log(c)
       \/ dlt_daemon_process_user_message_unregister(c)
       \/ dlt_daemon_process_user_message_register(c)
       \/ dlt_daemon_process_user_message_not_sup(c)
       \/ Garbled(c)
       \/ \E o \in 1 .. BufSize : Resync(c, o) \/ HeaderCutOff(c, o)
       \/ Finish(c)

Next ==
    \E c \in Conn :
        \/ \E k \in 1 .. BufSize : dlt_receiver_receive(c, k)
        \/ ReceiveNothing(c)
        \/ dlt_daemon_process_user_messages(c)

(* A running handler goes on, and poll keeps reporting a readable socket.  *)
Fairness ==
    /\ WF_vars(\E c \in Conn : dlt_daemon_process_user_messages(c))
    /\ \A c \in Conn : WF_vars(\E k \in 1 .. BufSize : dlt_receiver_receive(c, k))

Spec == Init /\ [][Next]_vars /\ Fairness

-----------------------------------------------------------------------------
Cell == [conn : Conn, n : 0 .. StreamSize - 1] \cup {Junk}

(* The bytes a receiver counts lie inside its buffer, whatever they are,   *)
(* and what is saved in backup_buf is as long as bytesRcvd says.           *)
TypeOK ==
    /\ mem \in [0 .. BufSize - 1 -> Cell]
    /\ buf \in [Conn -> Nat] /\ bytesRcvd \in [Conn -> Nat]
    /\ \A c \in Conn : buf[c] + bytesRcvd[c] <= BufSize
    /\ backup \in [Conn -> Seq(Cell)]
    /\ \A c \in Conn : backup[c] # <<>> => running # c /\ Len(backup[c]) = bytesRcvd[c]
    /\ open \in SUBSET Conn
    /\ running \in Conn \cup {None}
    /\ ret \in [Conn -> {"ok", "waits", "failed"}]
    /\ read \in [Conn -> 0 .. StreamSize]
    /\ handled \in [Conn -> Seq(Seq(Cell))]
    /\ overwritten \in SUBSET Conn

(* The position in its stream up to which a receiver has taken the bytes.  *)
Passed(c) == read[c] - bytesRcvd[c]

(* What an open receiver keeps between two reads are the bytes read last:  *)
(* in backup_buf, or in the buffer, and then at the front of it unless its *)
(* handler runs.                                                           *)
RetainedBy(c) ==
    /\ 0 <= Passed(c)
    /\ \A k \in 0 .. bytesRcvd[c] - 1 :
          Byte(c, Passed(c) + k) = IF backup[c] = <<>> THEN At(c, k) ELSE backup[c][k + 1]
    /\ backup[c] = <<>> /\ running # c /\ bytesRcvd[c] # 0 => buf[c] = 0

(* Only an open connection's handler runs, no receiver counts bytes        *)
(* outside its buffer, and a receiver keeps its bytes, whatever the others *)
(* do, unless one's read fell on them while they were not saved.           *)
Retained ==
    /\ running # None => running \in open
    /\ \A c \in Conn : buf[c] + bytesRcvd[c] <= BufSize
    /\ \A c \in open \ overwritten : RetainedBy(c)

(* Bytes s .. s + n - 1 of a stream, and what a handler may make of the    *)
(* message starting at s: all of it, a registration without description    *)
(* or with its first DescSize bytes, what follows a header cut off.        *)
Part(c, s, n) == [k \in 1 .. n |-> Byte(c, s + k - 1)]

Handling(c, s) ==
    LET lengths == IF Kind[s] = "register" THEN {Fixed, Fixed + Description(s)} ELSE {Size[s]}
        stale   == [k \in 1 .. Header |-> IF k < Header THEN Byte(c, s + k - 1) ELSE Junk]
    IN  {Part(c, s, n) : n \in lengths} \cup (IF Kind[s] = "log" THEN {stale} ELSE {})

Whole(c, s) == \E i \in 1 .. Len(handled[c]) : handled[c][i] = Part(c, s, Size[s])

(* Each message handled is one of the stream, none twice and none before   *)
(* an earlier one.                                                         *)
InOrder(c) ==
    /\ \A i \in 1 .. Len(handled[c]) :
          \E s \in Start \ {StreamSize} :
             Kind[s] # "not_sup" /\ handled[c][i] \in Handling(c, s)
    /\ \A i, j \in 1 .. Len(handled[c]) :
          i < j => handled[c][i][1].n < handled[c][j][1].n

(* A message that was passed and not handled whole has an excuse: it is a  *)
(* registration, its type has no handler, or it follows one not handled    *)
(* whole, over whose rest the search for a header went.                    *)
Excused(c) ==
    \A s \in Start \ {StreamSize} :
        s < Passed(c) /\ ~Whole(c, s) =>
           \/ Kind[s] \in {"register", "not_sup"}
           \/ \E t \in Start : t < s /\ t + Size[t] = s /\ ~Whole(c, t)

(* No message of which all bytes were read waits in the receiver.          *)
NoneLeft(c) ==
    \A s \in Start \ {StreamSize} : Passed(c) <= s => read[c] < s + Size[s]

(* However the bytes of a connection arrive, and whatever the others do:   *)
(* unless its bytes were overwritten, no message is doubled or put         *)
(* together from two, a lost one has one of the excuses above, and one     *)
(* that is complete is handled in the same run of the loop, unless that    *)
(* ends because a handler took its message and answered -1.                *)
HandledIntact ==
    \A c \in Conn \ overwritten :
        /\ InOrder(c)
        /\ c \in open => Excused(c)
        /\ c \in open /\ running # c /\ ret[c] # "failed" => NoneLeft(c)

(* False, with registrations cut in their description, or their last part  *)
(* read for the next header: the comment of the register handler is "We    *)
(* shall not remove data before checking that everything is there".        *)
AllHandledWhole ==
    \A c \in open \ overwritten : \A s \in Start :
        s < Passed(c) => Kind[s] = "not_sup" \/ Whole(c, s)

(* False: an incomplete message at the front of the buffer is not saved.   *)
NeverOverwritten == overwritten = {}

(* False: the loop ends with whole messages left in the receiver after a   *)
(* handler that took its message answered -1; its comment is "look through *)
(* buffer as long as data is in there".                                    *)
NoneLeftBehind ==
    \A c \in open \ overwritten : running # c => NoneLeft(c)

(* Every message sent is eventually passed, if its connection stays open   *)
(* and its bytes are not overwritten, and unless a handler that took its   *)
(* message answered -1 in the last run.                                    *)
EverythingIsHandled ==
    \A c \in Conn :
        <>(\/ c \notin open \/ c \in overwritten
           \/ \A s \in Start : s < Sends[c] => s < Passed(c)
           \/ read[c] = Sends[c] /\ running # c /\ ret[c] = "failed")
==============================================================================
