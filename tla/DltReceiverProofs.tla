-------------------------- MODULE DltReceiverProofs --------------------------
(***************************************************************************)
(* For any number of applications over app_recv_buffer, any buffer size,   *)
(* any cut of the streams into messages of any kinds and of the messages   *)
(* into reads: the receivers stay inside the buffer, keep their bytes      *)
(* unless another's read falls on them while they are not saved, and what  *)
(* dlt_daemon_process_user_messages then handles of a connection are its   *)
(* messages, in order, and all but those with an excuse.                   *)
(*                                                                         *)
(* Type correctness is inductive by itself: it is all that is known of a   *)
(* connection that was overwritten.  The invariant adds, for the others,   *)
(* where the bytes kept are and a ledger of the messages passed.           *)
(***************************************************************************)
EXTENDS DltReceiver, TLAPS

(* The messages handled are among those passed, a whole one to its end,    *)
(* and none that is complete waits where a handler left its message.       *)
Ledger(c) ==
    /\ InOrder(c)
    /\ \A i \in 1 .. Len(handled[c]) : handled[c][i][1].n < Passed(c)
    /\ \A s \in Start \ {StreamSize} : Whole(c, s) => s + Size[s] <= Passed(c)
    /\ c \in open => Excused(c)
    /\ c \in open /\ ret[c] = "waits" => NoneLeft(c)
    /\ c \in open /\ running # c /\ ret[c] # "failed" => NoneLeft(c)

IInv == TypeOK /\ Retained /\ \A c \in Conn \ overwritten : Ledger(c)

-----------------------------------------------------------------------------
(* What concatenation with at most one message does.                       *)
LEMMA Concatenation ==
  ASSUME NEW S, NEW q \in Seq(S), NEW r \in Seq(S)
  PROVE  /\ q \o r \in Seq(S) /\ Len(q \o r) = Len(q) + Len(r)
         /\ \A k \in 1 .. Len(q) : (q \o r)[k] = q[k]
         /\ \A k \in Len(q) + 1 .. Len(q) + Len(r) : (q \o r)[k] = r[k - Len(q)]
  OBVIOUS

(* An empty sequence is the one of length zero.                            *)
LEMMA EmptySequence ==
  /\ Len(<<>>) = 0
  /\ \A S : \A q \in Seq(S) : Len(q) = 0 => q = <<>>
  OBVIOUS

(* A function on 1 .. n is a sequence of length n.                         *)
LEMMA FunctionIsSequence ==
  ASSUME NEW S, NEW n \in Nat, NEW f \in [1 .. n -> S]
  PROVE  f \in Seq(S) /\ Len(f) = n
  OBVIOUS

(* dlt_receiver_remove takes no more than what was received, and keeps the *)
(* bytes counted inside the buffer.                                        *)
LEMMA RemoveInside ==
  ASSUME TypeOK, NEW c \in Conn, NEW n \in Nat, dlt_receiver_remove(c, n)
  PROVE  \E e \in Nat :
            /\ e <= bytesRcvd[c]
            /\ n <= bytesRcvd[c] => e = n
            /\ bytesRcvd[c] < n => e = bytesRcvd[c]
            /\ buf' = [buf EXCEPT ![c] = @ + e]
            /\ bytesRcvd' = [bytesRcvd EXCEPT ![c] = @ - e]
            /\ buf' \in [Conn -> Nat] /\ bytesRcvd' \in [Conn -> Nat]
            /\ \A d \in Conn : buf'[d] + bytesRcvd'[d] <= BufSize
<1>1. /\ buf[c] \in Nat /\ bytesRcvd[c] \in Nat /\ buf[c] + bytesRcvd[c] <= BufSize
      /\ buf \in [Conn -> Nat] /\ bytesRcvd \in [Conn -> Nat]
  BY DEF TypeOK
<1>e. PICK e : e = IF n > bytesRcvd[c] THEN bytesRcvd[c] ELSE n
  OBVIOUS
<1>2. /\ e \in Nat /\ e <= bytesRcvd[c]
      /\ n <= bytesRcvd[c] => e = n
      /\ bytesRcvd[c] < n => e = bytesRcvd[c]
      /\ bytesRcvd[c] - e = IF n > bytesRcvd[c] THEN 0 ELSE bytesRcvd[c] - n
  BY <1>1, <1>e
<1>3. /\ buf' = [buf EXCEPT ![c] = buf[c] + e]
      /\ bytesRcvd' = [bytesRcvd EXCEPT ![c] = bytesRcvd[c] - e]
  <2>1. /\ buf' = [buf EXCEPT ![c] = IF n > bytesRcvd[c] THEN buf[c] + bytesRcvd[c] ELSE buf[c] + n]
        /\ bytesRcvd' = [bytesRcvd EXCEPT ![c] = IF n > bytesRcvd[c] THEN 0 ELSE bytesRcvd[c] - n]
    BY DEF dlt_receiver_remove
  <2>2. buf[c] + e = IF n > bytesRcvd[c] THEN buf[c] + bytesRcvd[c] ELSE buf[c] + n
    BY <1>e
  <2> QED
    BY <2>1, <2>2, <1>2
<1>4. /\ buf[c] + e \in Nat /\ bytesRcvd[c] - e \in Nat
      /\ (buf[c] + e) + (bytesRcvd[c] - e) <= BufSize
  BY <1>1, <1>2, HeaderAssumption
<1>5. /\ buf'[c] = buf[c] + e /\ bytesRcvd'[c] = bytesRcvd[c] - e
      /\ \A d \in Conn : d # c => buf'[d] = buf[d] /\ bytesRcvd'[d] = bytesRcvd[d]
      /\ buf' \in [Conn -> Nat] /\ bytesRcvd' \in [Conn -> Nat]
  BY <1>1, <1>3, <1>4
<1>6. \A d \in Conn : buf'[d] + bytesRcvd'[d] <= BufSize
  <2> SUFFICES ASSUME NEW d \in Conn PROVE buf'[d] + bytesRcvd'[d] <= BufSize
    OBVIOUS
  <2>1. CASE d = c
    BY <2>1, <1>4, <1>5
  <2>2. CASE d # c
    BY <2>2, <1>5 DEF TypeOK
  <2> QED
    BY <2>1, <2>2
<1> QED
  BY <1>2, <1>3, <1>5, <1>6

(* The bytes a receiver counts are cells of the buffer, and the first of   *)
(* them a sequence of cells.                                               *)
LEMMA CountedCells ==
  ASSUME TypeOK, NEW c \in Conn
  PROVE  /\ \A k \in 0 .. bytesRcvd[c] - 1 : At(c, k) \in Cell
         /\ \A n \in Nat : n <= bytesRcvd[c] =>
               Front(c, n) \in Seq(Cell) /\ Len(Front(c, n)) = n
<1>1. /\ buf[c] \in Nat /\ bytesRcvd[c] \in Nat /\ buf[c] + bytesRcvd[c] <= BufSize
      /\ mem \in [0 .. BufSize - 1 -> Cell]
  BY DEF TypeOK
<1>2. ASSUME NEW k \in 0 .. bytesRcvd[c] - 1 PROVE At(c, k) \in Cell
  <2>1. buf[c] + k \in 0 .. BufSize - 1
    BY <1>1, HeaderAssumption
  <2> QED
    BY <1>1, <2>1 DEF At
<1>3. ASSUME NEW n \in Nat, n <= bytesRcvd[c]
      PROVE  Front(c, n) \in Seq(Cell) /\ Len(Front(c, n)) = n
  <2>1. \A k \in 1 .. n : k - 1 \in 0 .. bytesRcvd[c] - 1
    BY <1>1, <1>3
  <2>2. Front(c, n) \in [1 .. n -> Cell]
    BY <1>2, <2>1 DEF Front
  <2> QED
    BY <2>2, FunctionIsSequence
<1> QED
  BY <1>2, <1>3

(* The initial state is type correct: nothing was received.                *)
LEMMA TypeInit == Init => TypeOK
<1> SUFFICES ASSUME Init PROVE TypeOK
  OBVIOUS
<1>1. /\ buf \in [Conn -> Nat] /\ bytesRcvd \in [Conn -> Nat]
      /\ \A c \in Conn : buf[c] + bytesRcvd[c] <= BufSize
      /\ read \in [Conn -> 0 .. StreamSize]
  BY HeaderAssumption DEF Init
<1>2. mem \in [0 .. BufSize - 1 -> Cell]
  BY DEF Init, Cell
<1>3. /\ backup \in [Conn -> Seq(Cell)] /\ handled \in [Conn -> Seq(Seq(Cell))]
      /\ open \in SUBSET Conn /\ running \in Conn \cup {None} /\ overwritten \in SUBSET Conn
      /\ ret \in [Conn -> {"ok", "waits", "failed"}]
      /\ \A c \in Conn : backup[c] = <<>>
  BY DEF Init
<1> QED
  BY <1>1, <1>2, <1>3 DEF TypeOK

(* What a read puts into the buffer are cells, saved or new.               *)
LEMMA ReceivedCells ==
  ASSUME TypeOK, running = None, NEW c \in Conn, NEW k \in Nat,
         bytesRcvd[c] + k <= BufSize, read[c] + k <= StreamSize
  PROVE  Received(c, k) \in [0 .. BufSize - 1 -> Cell]
<1>r. PICK r : r = bytesRcvd[c]
  OBVIOUS
<1>1. /\ r \in Nat /\ read[c] \in Nat /\ read[c] + k <= StreamSize
      /\ mem \in [0 .. BufSize - 1 -> Cell]
      /\ backup[c] \in Seq(Cell) /\ (backup[c] # <<>> => Len(backup[c]) = r)
  <2>1. r \in Nat /\ mem \in [0 .. BufSize - 1 -> Cell] /\ backup[c] \in Seq(Cell)
    BY <1>r DEF TypeOK
  <2>2. read[c] \in Nat
    BY HeaderAssumption DEF TypeOK
  <2>3. backup[c] # <<>> => Len(backup[c]) = r
    BY <1>r DEF TypeOK
  <2> QED
    BY <2>1, <2>2, <2>3
<1> SUFFICES ASSUME NEW p \in 0 .. BufSize - 1
             PROVE  Received(c, k)[p] \in Cell
  BY DEF Received
<1>2. CASE p < r /\ backup[c] # <<>>
  <2>1. p + 1 \in 1 .. Len(backup[c])
    BY <1>1, <1>2
  <2>2. Received(c, k)[p] = backup[c][p + 1]
    BY <1>2, <1>r DEF Received
  <2> QED
    BY <2>1, <2>2, <1>1
<1>3. CASE r <= p /\ p < r + k
  <2>1. ~(p < r)
    BY <1>1, <1>3
  <2>2. Received(c, k)[p] = Byte(c, read[c] + p - r)
    BY <2>1, <1>3, <1>r DEF Received
  <2>3. read[c] + p - r \in 0 .. StreamSize - 1
    BY <1>1, <1>3, HeaderAssumption
  <2> QED
    BY <2>2, <2>3 DEF Byte, Cell
<1>4. CASE ~(p < r /\ backup[c] # <<>>) /\ ~(r <= p /\ p < r + k)
  <2>1. Received(c, k)[p] = mem[p]
    BY <1>4, <1>r DEF Received
  <2> QED
    BY <1>1, <2>1
<1> QED
  BY <1>2, <1>3, <1>4

(* No connection sends more than the stream.                               *)
LEMMA SendsInside ==
  \A c \in Conn : Sends[c] \in Nat /\ Sends[c] <= StreamSize
<1> SUFFICES ASSUME NEW c \in Conn PROVE Sends[c] \in Nat /\ Sends[c] <= StreamSize
  OBVIOUS
<1>1. Sends[c] \in Start
  BY ConnAssumption
<1>2. Sends[c] \in 0 .. StreamSize
  BY <1>1, StreamAssumption
<1> QED
  BY <1>2, HeaderAssumption

(* A read fills cells of the buffer, with bytes saved or new.              *)
LEMMA TypeReceive ==
  ASSUME TypeOK, NEW c \in Conn, NEW k \in 1 .. BufSize, dlt_receiver_receive(c, k)
  PROVE  /\ TypeOK'
         /\ backup'[c] = <<>>
         /\ \A d \in Conn : d # c => backup'[d] = backup[d]
<1>r. PICK r : r = bytesRcvd[c]
  OBVIOUS
<1>1. /\ running = None /\ r \in Nat /\ k \in Nat /\ read[c] \in Nat
      /\ read[c] + k <= StreamSize /\ r + k <= BufSize
      /\ backup[c] \in Seq(Cell) /\ (backup[c] # <<>> => Len(backup[c]) = r)
  <2>1. running = None /\ read[c] + k <= Sends[c] /\ r + k <= BufSize
    BY <1>r DEF dlt_receiver_receive
  <2>2. r \in Nat /\ k \in Nat /\ read[c] \in Nat /\ backup[c] \in Seq(Cell)
    BY <1>r, HeaderAssumption DEF TypeOK
  <2>3. backup[c] # <<>> => Len(backup[c]) = r
    BY <1>r DEF TypeOK
  <2>4. read[c] + k <= StreamSize
    BY <2>1, <2>2, SendsInside, HeaderAssumption
  <2> QED
    BY <2>1, <2>2, <2>3, <2>4
<1>2. /\ mem' = Received(c, k)
      /\ buf' = [buf EXCEPT ![c] = 0]
      /\ bytesRcvd' = [bytesRcvd EXCEPT ![c] = r + k]
      /\ read' = [read EXCEPT ![c] = @ + k]
      /\ ret' = [ret EXCEPT ![c] = "ok"]
      /\ overwritten' = overwritten \cup Overwrites(c, k)
      /\ running' = c /\ open' = open /\ handled' = handled
  BY <1>r DEF dlt_receiver_receive
<1>3. /\ backup'[c] = <<>> /\ backup' \in [Conn -> Seq(Cell)]
      /\ \A d \in Conn : d # c => backup'[d] = backup[d]
  <2>1. r = 0 => backup[c] = <<>>
    BY <1>1, EmptySequence
  <2>2. backup' = IF r = 0 THEN backup ELSE [backup EXCEPT ![c] = <<>>]
    BY <1>r DEF dlt_receiver_receive
  <2> QED
    BY <2>1, <2>2 DEF TypeOK
<1>4. mem' \in [0 .. BufSize - 1 -> Cell]
  BY <1>1, <1>2, <1>r, ReceivedCells
<1>5. /\ buf' \in [Conn -> Nat] /\ bytesRcvd' \in [Conn -> Nat]
      /\ read' \in [Conn -> 0 .. StreamSize]
      /\ \A d \in Conn : buf'[d] + bytesRcvd'[d] <= BufSize
  <2>1. r + k \in Nat /\ 0 + (r + k) <= BufSize /\ read[c] + k \in 0 .. StreamSize
    BY <1>1, HeaderAssumption
  <2> QED
    BY <2>1, <1>2 DEF TypeOK
<1>6. \A d \in Conn : backup'[d] # <<>> => running' # d /\ Len(backup'[d]) = bytesRcvd'[d]
  BY <1>2, <1>3 DEF TypeOK
<1>7. /\ open' \in SUBSET Conn /\ running' \in Conn \cup {None}
      /\ handled' \in [Conn -> Seq(Seq(Cell))] /\ ret' \in [Conn -> {"ok", "waits", "failed"}]
      /\ overwritten' \in SUBSET Conn
  BY <1>2 DEF TypeOK, Overwrites
<1> QED
  BY <1>3, <1>4, <1>5, <1>6, <1>7 DEF TypeOK

(* A connection that is closed counts no bytes.                            *)
LEMMA TypeReceiveNothing ==
  ASSUME TypeOK, NEW c \in Conn, ReceiveNothing(c)
  PROVE  TypeOK'
<1>1. /\ running = None /\ open' = open \ {c} /\ mem' = Received(c, 0)
      /\ UNCHANGED <<buf, running, ret, read, handled>>
      /\ bytesRcvd' = [bytesRcvd EXCEPT ![c] = 0]
      /\ backup' = [backup EXCEPT ![c] = <<>>]
      /\ overwritten' = overwritten \cup Overwrites(c, 0)
  BY DEF ReceiveNothing
<1>2. /\ bytesRcvd' \in [Conn -> Nat]
      /\ \A d \in Conn : buf'[d] + bytesRcvd'[d] <= BufSize
  BY <1>1, HeaderAssumption DEF TypeOK
<1>3. /\ backup' \in [Conn -> Seq(Cell)]
      /\ \A d \in Conn : backup'[d] # <<>> => running' # d /\ Len(backup'[d]) = bytesRcvd'[d]
  <2>1. backup \in [Conn -> Seq(Cell)] /\ bytesRcvd \in [Conn -> Nat] /\ <<>> \in Seq(Cell)
    BY DEF TypeOK
  <2>2. backup' \in [Conn -> Seq(Cell)]
    BY <1>1, <2>1
  <2>3. ASSUME NEW d \in Conn, backup'[d] # <<>>
        PROVE  running' # d /\ Len(backup'[d]) = bytesRcvd'[d]
    <3>1. d # c /\ backup'[d] = backup[d] /\ bytesRcvd'[d] = bytesRcvd[d]
      BY <1>1, <2>1, <2>3
    <3>2. running # d /\ Len(backup[d]) = bytesRcvd[d]
      BY <2>3, <3>1 DEF TypeOK
    <3> QED
      BY <1>1, <3>1, <3>2
  <2> QED
    BY <2>2, <2>3
<1>4. mem' \in [0 .. BufSize - 1 -> Cell]
  <2>1. 0 \in Nat /\ bytesRcvd[c] + 0 <= BufSize /\ read[c] + 0 <= StreamSize
    BY HeaderAssumption DEF TypeOK
  <2> QED
    BY <1>1, <2>1, ReceivedCells
<1>5. overwritten' \in SUBSET Conn
  BY <1>1 DEF TypeOK, Overwrites
<1> QED
  BY <1>1, <1>2, <1>3, <1>4, <1>5 DEF TypeOK

(* A handler of the receiver that runs takes bytes and handles messages.   *)
LEMMA TypeTakes ==
  ASSUME TypeOK, NEW c \in Conn, NEW n \in Nat, running = c,
         NEW messages \in Seq(Seq(Cell)), NEW r \in {"ok", "waits", "failed"},
         Takes(c, n, messages, r)
  PROVE  TypeOK'
<1>0. /\ dlt_receiver_remove(c, n)
      /\ handled' = IF c \in overwritten THEN handled
                    ELSE [handled EXCEPT ![c] = @ \o messages]
      /\ ret' = [ret EXCEPT ![c] = r]
      /\ UNCHANGED <<mem, backup, open, running, read, overwritten>>
  BY DEF Takes
<1>1. PICK e \in Nat :
      /\ bytesRcvd' = [bytesRcvd EXCEPT ![c] = @ - e]
      /\ buf' \in [Conn -> Nat] /\ bytesRcvd' \in [Conn -> Nat]
      /\ \A d \in Conn : buf'[d] + bytesRcvd'[d] <= BufSize
  BY <1>0, RemoveInside
<1>2. handled' \in [Conn -> Seq(Seq(Cell))]
  <2>1. handled[c] \o messages \in Seq(Seq(Cell))
    BY Concatenation DEF TypeOK
  <2> QED
    BY <2>1, <1>0 DEF TypeOK
<1>3. backup[c] = <<>>
  BY DEF TypeOK
<1>4. \A d \in Conn : backup'[d] # <<>> => running' # d /\ Len(backup'[d]) = bytesRcvd'[d]
  BY <1>0, <1>1, <1>3 DEF TypeOK
<1> QED
  BY <1>0, <1>1, <1>2, <1>4 DEF TypeOK

(* A handler that leaves its message answers -1.                           *)
LEMMA TypeLeaves ==
  ASSUME TypeOK, NEW c \in Conn, Leaves(c)
  PROVE  TypeOK'
BY DEF TypeOK, Leaves

(* The sizes of a message, and of what its handlers take, are numbers.     *)
LEMMA Sizes ==
  ASSUME NEW s \in Start
  PROVE  /\ s \in Nat /\ s <= StreamSize
         /\ Size[s] \in Nat /\ Header <= Size[s]
         /\ Kind[s] = "register" =>
               /\ Description(s) \in Nat
               /\ Fixed + Description(s) \in Nat /\ Fixed + Description(s) <= Size[s]
<1>1. /\ s \in Nat /\ s <= StreamSize /\ Size[s] \in Nat /\ Header <= Size[s]
      /\ Kind[s] = "register" => Fixed <= Size[s]
  BY StreamAssumption, HeaderAssumption
<1>2. ASSUME Kind[s] = "register"
      PROVE  /\ Description(s) \in Nat
             /\ Fixed + Description(s) \in Nat /\ Fixed + Description(s) <= Size[s]
  <2>1. Size[s] - Fixed \in Nat /\ DescSize \in Nat /\ Fixed \in Nat
    BY <1>1, <1>2, HeaderAssumption
  <2>2. CASE Size[s] - Fixed <= DescSize
    BY <1>1, <2>1, <2>2 DEF Description
  <2>3. CASE ~(Size[s] - Fixed <= DescSize)
    BY <1>1, <2>1, <2>3 DEF Description
  <2> QED
    BY <2>2, <2>3
<1> QED
  BY <1>1, <1>2

(* No message, or one, of cells is what a handler may append.              *)
LEMMA MessagesType ==
  /\ <<>> \in Seq(Seq(Cell))
  /\ \A m \in Seq(Cell) : <<m>> \in Seq(Seq(Cell))
OBVIOUS

(* Every handler is type correct, whatever the buffer holds.               *)
LEMMA TypeHandlers ==
  ASSUME TypeOK, NEW c \in Conn, running = c,
         \/ dlt_daemon_process_user_message_log(c)
         \/ dlt_daemon_process_user_message_unregister(c)
         \/ dlt_daemon_process_user_message_register(c)
         \/ dlt_daemon_process_user_message_not_sup(c)
         \/ Garbled(c)
  PROVE  TypeOK'
<1> DEFINE answers == {"ok", "waits", "failed"}
<1>1. ASSUME NEW n \in Nat, n <= bytesRcvd[c], NEW r \in {"ok", "failed"},
             Takes(c, n, <<Front(c, n)>>, r)
      PROVE  TypeOK'
  <2>1. <<Front(c, n)>> \in Seq(Seq(Cell)) /\ r \in answers
    BY <1>1, CountedCells, MessagesType
  <2> QED
    BY <1>1, <2>1, TypeTakes
<1>2. ASSUME NEW n \in Nat, NEW r \in {"ok", "failed"}, Takes(c, n, <<>>, r)
      PROVE  TypeOK'
  <2>1. <<>> \in Seq(Seq(Cell)) /\ r \in answers
    BY MessagesType
  <2> QED
    BY <1>2, <2>1, TypeTakes
<1>3. CASE dlt_daemon_process_user_message_log(c)
  <2>1. PICK s \in Start :
           \/ Leaves(c)
           \/ Size[s] <= bytesRcvd[c] /\ Takes(c, Size[s], <<Front(c, Size[s])>>, "ok")
    BY <1>3 DEF dlt_daemon_process_user_message_log
  <2> QED
    BY <2>1, <1>1, Sizes, TypeLeaves
<1>4. CASE dlt_daemon_process_user_message_unregister(c)
  <2>1. PICK s \in Start :
           \/ Leaves(c)
           \/ /\ Size[s] <= bytesRcvd[c]
              /\ \E r \in {"ok", "failed"} : Takes(c, Size[s], <<Front(c, Size[s])>>, r)
    BY <1>4 DEF dlt_daemon_process_user_message_unregister
  <2> QED
    BY <2>1, <1>1, Sizes, TypeLeaves
<1>5. CASE dlt_daemon_process_user_message_register(c)
  <2>1. PICK s \in Start :
           /\ Kind[s] = "register"
           /\ \/ Leaves(c)
              \/ /\ Fixed <= bytesRcvd[c]
                 /\ \E r \in {"ok", "failed"} : Takes(c, Fixed, <<Front(c, Fixed)>>, r)
              \/ Takes(c, Fixed + Description(s), <<>>, "failed")
              \/ /\ Fixed + Description(s) <= bytesRcvd[c]
                 /\ \E r \in {"ok", "failed"} :
                       Takes(c, Fixed + Description(s), <<Front(c, Fixed + Description(s))>>, r)
    BY <1>5 DEF dlt_daemon_process_user_message_register, Calls
  <2>2. Fixed \in Nat /\ Fixed + Description(s) \in Nat
    BY <2>1, Sizes, HeaderAssumption
  <2> QED
    BY <2>1, <2>2, <1>1, <1>2, TypeLeaves
<1>6. CASE dlt_daemon_process_user_message_not_sup(c)
  BY <1>6, <1>2, HeaderAssumption DEF dlt_daemon_process_user_message_not_sup
<1>7. CASE Garbled(c)
  <2>1. \A n \in 1 .. bytesRcvd[c] : n \in Nat
    OBVIOUS
  <2> QED
    BY <1>7, <2>1, <1>2, TypeLeaves DEF Garbled
<1> QED
  BY <1>3, <1>4, <1>5, <1>6, <1>7

(* The loop that searches for a header is type correct.                    *)
LEMMA TypeSearch ==
  ASSUME TypeOK, NEW c \in Conn, running = c, NEW o \in 1 .. BufSize,
         Resync(c, o) \/ HeaderCutOff(c, o)
  PROVE  TypeOK'
<1>1. o \in Nat /\ bytesRcvd[c] \in Nat
  BY HeaderAssumption DEF TypeOK
<1>2. CASE Resync(c, o)
  BY <1>1, <1>2, MessagesType, TypeTakes DEF Resync
<1>3. CASE HeaderCutOff(c, o)
  <2>1. CASE Takes(c, o, <<>>, "waits")
    BY <1>1, <2>1, MessagesType, TypeTakes
  <2>2. CASE Takes(c, bytesRcvd[c], <<>>, "failed")
    BY <1>1, <2>2, MessagesType, TypeTakes
  <2>3. CASE Takes(c, bytesRcvd[c], <<Stale(c, o)>>, "failed")
    <3>1. o + Header = bytesRcvd[c] + 1
      BY <1>3 DEF HeaderCutOff
    <3>2. \A k \in 1 .. Header : k < Header => o + k - 1 \in 0 .. bytesRcvd[c] - 1
      BY <3>1, <1>1, HeaderAssumption
    <3>3. Stale(c, o) \in [1 .. Header -> Cell]
      BY <3>2, CountedCells DEF Stale, Cell
    <3>4. Stale(c, o) \in Seq(Cell)
      BY <3>3, HeaderAssumption, FunctionIsSequence
    <3> QED
      BY <1>1, <2>3, <3>4, MessagesType, TypeTakes
  <2> QED
    BY <2>1, <2>2, <2>3, <1>3 DEF HeaderCutOff
<1> QED
  BY <1>2, <1>3

(* The handler that ends saves cells of the buffer.                        *)
LEMMA TypeFinish ==
  ASSUME TypeOK, NEW c \in Conn, running = c, Finish(c)
  PROVE  /\ TypeOK'
         /\ \A d \in Conn : d # c => backup'[d] = backup[d]
<1>1. /\ running' = None /\ c # None
      /\ UNCHANGED <<mem, buf, bytesRcvd, open, ret, read, handled, overwritten>>
      /\ dlt_receiver_move_to_begin(c)
  BY ConnAssumption DEF Finish
<1>2. Front(c, bytesRcvd[c]) \in Seq(Cell) /\ Len(Front(c, bytesRcvd[c])) = bytesRcvd[c]
  <2>1. bytesRcvd[c] \in Nat /\ bytesRcvd[c] <= bytesRcvd[c]
    BY DEF TypeOK
  <2> QED
    BY <2>1, CountedCells
<1>3. backup' = backup \/ backup' = [backup EXCEPT ![c] = Front(c, bytesRcvd[c])]
  BY <1>1 DEF dlt_receiver_move_to_begin
<1>4. backup[c] = <<>>
  BY DEF TypeOK
<1>5. /\ backup' \in [Conn -> Seq(Cell)]
      /\ \A d \in Conn : d # c => backup'[d] = backup[d]
      /\ backup'[c] # <<>> => Len(backup'[c]) = bytesRcvd[c]
  BY <1>2, <1>3, <1>4 DEF TypeOK
<1>6. \A d \in Conn : backup'[d] # <<>> => running' # d /\ Len(backup'[d]) = bytesRcvd'[d]
  BY <1>1, <1>5, ConnAssumption DEF TypeOK
<1> QED
  BY <1>1, <1>5, <1>6 DEF TypeOK

(* Every step of every receiver is type correct.                           *)
LEMMA TypeStep == TypeOK /\ [Next]_vars => TypeOK'
<1> SUFFICES ASSUME TypeOK, [Next]_vars PROVE TypeOK'
  OBVIOUS
<1>1. CASE UNCHANGED vars
  BY <1>1 DEF vars, TypeOK
<1>2. ASSUME NEW c \in Conn, NEW k \in 1 .. BufSize, dlt_receiver_receive(c, k)
      PROVE  TypeOK'
  BY <1>2, TypeReceive
<1>3. ASSUME NEW c \in Conn, ReceiveNothing(c) PROVE TypeOK'
  BY <1>3, TypeReceiveNothing
<1>4. ASSUME NEW c \in Conn, dlt_daemon_process_user_messages(c) PROVE TypeOK'
  BY <1>4, TypeHandlers, TypeSearch, TypeFinish DEF dlt_daemon_process_user_messages
<1> QED
  BY <1>1, <1>2, <1>3, <1>4 DEF Next

(* The bytes every receiver counts lie inside the buffer, and what is      *)
(* saved in backup_buf is as long as bytesRcvd says, also for connections  *)
(* whose bytes were overwritten (dlt_receiver_receive,                     *)
(* dlt_receiver_remove, dlt_receiver_move_to_begin).                       *)
THEOREM TypeTheorem == Spec => []TypeOK
BY TypeInit, TypeStep, PTL DEF Spec

-----------------------------------------------------------------------------
(* The initial state satisfies the invariant: nothing was received.        *)
LEMMA InitInvariant == Init => IInv
<1> SUFFICES ASSUME Init PROVE IInv
  OBVIOUS
<1>1. TypeOK
  BY TypeInit
<1>2. \A c \in Conn : /\ handled[c] = <<>> /\ bytesRcvd[c] = 0 /\ buf[c] = 0 /\ read[c] = 0
                      /\ Passed(c) = 0
  <2>1. \A c \in Conn : handled[c] = <<>> /\ bytesRcvd[c] = 0 /\ buf[c] = 0 /\ read[c] = 0
    BY DEF Init
  <2>2. 0 - 0 = 0
    OBVIOUS
  <2> QED
    BY <2>1, <2>2 DEF Passed
<1>3. Retained
  BY <1>1, <1>2 DEF Init, Retained, RetainedBy, TypeOK
<1>4. ASSUME NEW c \in Conn PROVE Ledger(c)
  <2>1. Len(handled[c]) = 0
    BY <1>2
  <2>2. InOrder(c)
    BY <2>1 DEF InOrder
  <2>3. \A s \in Start : ~Whole(c, s)
    BY <2>1 DEF Whole
  <2>4. Excused(c)
    BY <1>2, Sizes DEF Excused
  <2>5. NoneLeft(c)
    <3>1. \A s \in Start : 0 < s + Size[s]
      BY Sizes, HeaderAssumption
    <3> QED
      BY <3>1, <1>2 DEF NoneLeft
  <2> QED
    BY <2>1, <2>2, <2>3, <2>4, <2>5 DEF Ledger
<1> QED
  BY <1>1, <1>3, <1>4 DEF IInv

(* Where the handler of a connection runs whose bytes were not             *)
(* overwritten, they stand from receiver->buf on.                          *)
LEMMA FrontOfBuffer ==
  ASSUME IInv, NEW c \in Conn \ overwritten, running = c
  PROVE  /\ c \in Conn /\ c \in open /\ RetainedBy(c) /\ Ledger(c) /\ backup[c] = <<>>
         /\ bytesRcvd[c] \in Nat /\ Passed(c) \in Nat
         /\ read[c] = Passed(c) + bytesRcvd[c] /\ read[c] <= StreamSize
         /\ \A k \in 0 .. bytesRcvd[c] - 1 : At(c, k) = Byte(c, Passed(c) + k)
<1>1. c \in Conn /\ c \in open /\ RetainedBy(c) /\ Ledger(c) /\ backup[c] = <<>>
  BY ConnAssumption DEF IInv, Retained, TypeOK
<1>2. bytesRcvd[c] \in Nat /\ read[c] \in Nat /\ read[c] <= StreamSize
  BY HeaderAssumption DEF IInv, TypeOK
<1>3. Passed(c) \in Nat /\ read[c] = Passed(c) + bytesRcvd[c]
  BY <1>1, <1>2 DEF RetainedBy, Passed
<1>4. \A k \in 0 .. bytesRcvd[c] - 1 : At(c, k) = Byte(c, Passed(c) + k)
  BY <1>1 DEF RetainedBy
<1> QED
  BY <1>1, <1>2, <1>3, <1>4

(* There, a header is found exactly where a message starts.                *)
LEMMA Headers ==
  ASSUME IInv, NEW c \in Conn \ overwritten, running = c,
         NEW i \in Nat, i + Header <= bytesRcvd[c] + 1
  PROVE  /\ HeaderAt(c, i) <=> Passed(c) + i \in Start
         /\ HeaderAt(c, i) => /\ Passed(c) + i \in Start \ {StreamSize}
                              /\ At(c, i).n = Passed(c) + i
<1>p. PICK p : p = Passed(c)
  OBVIOUS
<1>1. /\ bytesRcvd[c] \in Nat /\ p \in Nat /\ p + bytesRcvd[c] <= StreamSize
      /\ \A k \in 0 .. bytesRcvd[c] - 1 : At(c, k) = Byte(c, p + k)
      /\ Pattern \in Nat \ {0} /\ Header \in Nat /\ Pattern < Header
  BY <1>p, FrontOfBuffer, HeaderAssumption
<1>2. ASSUME NEW j \in 0 .. Pattern - 1
      PROVE  At(c, i + j) # Junk /\ At(c, i + j).n - j = p + i
  <2>1. i + j \in 0 .. bytesRcvd[c] - 1
    BY <1>1
  <2>2. At(c, i + j) = Byte(c, p + (i + j))
    BY <1>1, <2>1
  <2>3. p + (i + j) \in Nat /\ (p + (i + j)) - j = p + i
    BY <1>1
  <2> QED
    BY <2>2, <2>3, JunkAssumption DEF Byte
<1>3. HeaderAt(c, i) <=> p + i \in Start
  <2>1. 0 \in 0 .. Pattern - 1
    BY <1>1
  <2> QED
    BY <1>2, <2>1 DEF HeaderAt
<1>4. At(c, i).n = p + i
  <2>1. 0 \in 0 .. Pattern - 1 /\ i + 0 = i /\ i \in 0 .. bytesRcvd[c] - 1
    BY <1>1
  <2>2. At(c, i) = Byte(c, p + i)
    BY <1>1, <2>1
  <2> QED
    BY <2>2 DEF Byte
<1>5. p + i # StreamSize
  BY <1>1
<1> QED
  BY <1>3, <1>4, <1>5, <1>p

(* So a handler is called for the message that starts where the ones       *)
(* passed end, and the first bytes are its bytes.                          *)
LEMMA CalledForFront ==
  ASSUME IInv, NEW c \in Conn \ overwritten, running = c
  PROVE  /\ \A kind, s : Calls(c, kind, s) =>
               /\ s = Passed(c) /\ s \in Start \ {StreamSize}
               /\ Kind[s] = kind /\ Header <= bytesRcvd[c]
         /\ ~Garbled(c)
         /\ \A n \in Nat : n <= bytesRcvd[c] => Front(c, n) = Part(c, Passed(c), n)
<1>p. PICK p : p = Passed(c)
  OBVIOUS
<1>1. /\ bytesRcvd[c] \in Nat /\ p \in Nat /\ Header \in Nat /\ 1 < Header
      /\ \A k \in 0 .. bytesRcvd[c] - 1 : At(c, k) = Byte(c, p + k)
  BY <1>p, FrontOfBuffer, HeaderAssumption
<1>2. ASSUME Header <= bytesRcvd[c], HeaderAt(c, 0)
      PROVE  p \in Start \ {StreamSize} /\ At(c, 0).n = p
  <2>1. 0 \in Nat /\ 0 + Header <= bytesRcvd[c] + 1 /\ p + 0 = p
    BY <1>1, <1>2
  <2> QED
    BY <2>1, <1>2, <1>p, Headers
<1>3. ASSUME Header <= bytesRcvd[c] PROVE OneStream(c)
  <2>1. At(c, 0) = Byte(c, p)
    <3>1. 0 \in 0 .. bytesRcvd[c] - 1 /\ p + 0 = p
      BY <1>1, <1>3
    <3> QED
      BY <3>1, <1>1
  <2> QED
    BY <1>1, <2>1 DEF OneStream, Byte
<1>4. ASSUME NEW n \in Nat, n <= bytesRcvd[c] PROVE Front(c, n) = Part(c, p, n)
  <2>1. ASSUME NEW k \in 1 .. n PROVE At(c, k - 1) = Byte(c, p + k - 1)
    <3>1. k - 1 \in 0 .. bytesRcvd[c] - 1 /\ p + (k - 1) = p + k - 1
      BY <1>1, <1>4
    <3> QED
      BY <3>1, <1>1
  <2> QED
    BY <2>1 DEF Front, Part
<1> QED
  BY <1>2, <1>3, <1>4, <1>p DEF Calls, Garbled, Loops

(* A piece of a stream is as long as it says, and holds received bytes.    *)
LEMMA Parts ==
  ASSUME NEW c \in Conn, NEW s \in Nat, NEW n \in Nat
  PROVE  /\ Len(Part(c, s, n)) = n
         /\ \A k \in 1 .. n : Part(c, s, n)[k] # Junk
         /\ 1 <= n => Part(c, s, n)[1].n = s
<1>1. \A k \in 1 .. n : Part(c, s, n)[k] = Byte(c, s + k - 1) /\ s + k - 1 \in Nat
  BY DEF Part
<1>2. ASSUME NEW k \in 1 .. n PROVE Part(c, s, n)[k] # Junk
  <2>1. PICK b : b = s + k - 1
    OBVIOUS
  <2>2. Part(c, s, n)[k] = Byte(c, b) /\ b \in Nat
    BY <1>1, <2>1
  <2>3. Byte(c, b) \in [conn : Conn, n : Nat]
    BY <2>2 DEF Byte
  <2> QED
    BY <2>2, <2>3, JunkAssumption
<1>3. Len(Part(c, s, n)) = n
  BY DEF Part
<1>4. 1 <= n => Part(c, s, n)[1].n = s
  <2>1. 1 <= n => 1 \in 1 .. n /\ s + 1 - 1 = s
    OBVIOUS
  <2>2. 1 <= n => Part(c, s, n)[1] = Byte(c, s)
    BY <2>1, <1>1
  <2> QED
    BY <2>2 DEF Byte
<1> QED
  BY <1>2, <1>3, <1>4

(* What a handler makes of a message starts with the message's first byte. *)
LEMMA HandlingStarts ==
  ASSUME NEW c \in Conn, NEW s \in Start, NEW m \in Handling(c, s)
  PROVE  /\ m[1].n = s
         /\ \A t \in Start : m = Part(c, t, Size[t]) => t = s
<1>1. /\ s \in Nat /\ Size[s] \in Nat /\ 1 <= Size[s] /\ Fixed \in Nat /\ 1 <= Fixed
      /\ Header \in Nat /\ 1 < Header
      /\ Kind[s] = "register" => Fixed + Description(s) \in Nat /\ 1 <= Fixed + Description(s)
  BY Sizes, HeaderAssumption
<1>2. m[1].n = s
  <2>1. ASSUME NEW n \in Nat, 1 <= n, m = Part(c, s, n) PROVE m[1].n = s
    BY <2>1, <1>1, Parts
  <2>2. CASE m = [k \in 1 .. Header |-> IF k < Header THEN Byte(c, s + k - 1) ELSE Junk]
    <3>1. 1 \in 1 .. Header /\ s + 1 - 1 = s
      BY <1>1
    <3>2. m[1] = Byte(c, s)
      BY <3>1, <2>2, <1>1
    <3> QED
      BY <3>2 DEF Byte
  <2> QED
    BY <2>1, <2>2, <1>1 DEF Handling
<1>3. ASSUME NEW t \in Start, m = Part(c, t, Size[t]) PROVE t = s
  <2>1. t \in Nat /\ Size[t] \in Nat /\ 1 <= Size[t]
    BY Sizes, HeaderAssumption
  <2> QED
    BY <2>1, <1>2, <1>3, Parts
<1> QED
  BY <1>2, <1>3

(* Removing n bytes moves the front of the buffer by n.                    *)
LEMMA BufferAt ==
  ASSUME NEW c \in Conn, NEW n \in Nat, NEW k \in Int,
         buf \in [Conn -> Nat], mem' = mem, buf' = [buf EXCEPT ![c] = @ + n]
  PROVE  At(c, k)' = At(c, k + n)
<1>1. buf'[c] + k = buf[c] + (k + n)
  OBVIOUS
<1> QED
  BY <1>1 DEF At

(* A handler took e bytes and answered r, having handled these messages.   *)
Took(c, e, messages, r) ==
    /\ buf' = [buf EXCEPT ![c] = @ + e]
    /\ bytesRcvd' = [bytesRcvd EXCEPT ![c] = @ - e]
    /\ handled' = [handled EXCEPT ![c] = @ \o messages]
    /\ ret' = [ret EXCEPT ![c] = r]
    /\ UNCHANGED <<mem, backup, open, running, read, overwritten>>

(* Each answer of a handler is of this form.                               *)
LEMMA TakesTook ==
  ASSUME IInv, NEW c \in Conn \ overwritten
  PROVE  /\ \A messages, r : \A n \in Nat :
               Takes(c, n, messages, r) /\ n <= bytesRcvd[c] => Took(c, n, messages, r)
         /\ \A messages, r : \A n \in Nat :
               Takes(c, n, messages, r) /\ bytesRcvd[c] < n => Took(c, bytesRcvd[c], messages, r)
         /\ Leaves(c) => Took(c, 0, <<>>, "waits")
<1>1. ASSUME NEW n \in Nat, NEW messages, NEW r, Takes(c, n, messages, r)
      PROVE  /\ n <= bytesRcvd[c] => Took(c, n, messages, r)
             /\ bytesRcvd[c] < n => Took(c, bytesRcvd[c], messages, r)
  <2>1. dlt_receiver_remove(c, n) /\ c \in Conn /\ c \notin overwritten /\ TypeOK
    BY <1>1 DEF Takes, IInv
  <2>2. PICK e \in Nat :
           /\ n <= bytesRcvd[c] => e = n
           /\ bytesRcvd[c] < n => e = bytesRcvd[c]
           /\ buf' = [buf EXCEPT ![c] = @ + e]
           /\ bytesRcvd' = [bytesRcvd EXCEPT ![c] = @ - e]
    BY <2>1, RemoveInside
  <2>3. Took(c, e, messages, r)
    BY <2>1, <2>2, <1>1 DEF Takes, Took
  <2> QED
    BY <2>2, <2>3
<1>2. ASSUME Leaves(c) PROVE Took(c, 0, <<>>, "waits")
  <2>1. /\ buf \in [Conn -> Nat] /\ bytesRcvd \in [Conn -> Nat] /\ c \in Conn
        /\ handled \in [Conn -> Seq(Seq(Cell))] /\ handled[c] \in Seq(Seq(Cell))
    BY DEF IInv, TypeOK
  <2>2. buf[c] + 0 = buf[c] /\ bytesRcvd[c] - 0 = bytesRcvd[c]
    BY <2>1
  <2>3. handled[c] \o <<>> = handled[c]
    BY <2>1
  <2>4. /\ buf = [buf EXCEPT ![c] = buf[c]]
        /\ bytesRcvd = [bytesRcvd EXCEPT ![c] = bytesRcvd[c]]
        /\ handled = [handled EXCEPT ![c] = handled[c]]
    BY <2>1
  <2> QED
    BY <2>2, <2>3, <2>4, <1>2 DEF Leaves, Took
<1> QED
  BY <1>1, <1>2

(* What a handler appends: nothing, or one message that starts among the   *)
(* bytes taken, and ends there if it is whole.                             *)
Appends(c, e, messages) ==
    \/ messages = <<>>
    \/ \E s \in Start \ {StreamSize} : \E m \in Handling(c, s) :
          /\ messages = <<m>> /\ Kind[s] # "not_sup"
          /\ Passed(c) <= s /\ s < Passed(c) + e
          /\ m = Part(c, s, Size[s]) => s + Size[s] <= Passed(c) + e

(* The messages that start among the bytes taken are handled whole, or     *)
(* excused: by their kind, or by an earlier one before these bytes.        *)
Excuses(c, e, messages) ==
    \A s \in Start \ {StreamSize} :
        Passed(c) <= s /\ s < Passed(c) + e =>
           \/ Kind[s] \in {"register", "not_sup"}
           \/ messages = <<Part(c, s, Size[s])>>
           \/ \E t \in Start : t < Passed(c) /\ t < s /\ t + Size[t] = s /\ ~Whole(c, t)

(* A step that takes e bytes so keeps the ledger, and the bytes left are   *)
(* those that follow.                                                      *)
LEMMA OwnTook ==
  ASSUME IInv, NEW c \in Conn \ overwritten, running = c,
         NEW e \in Nat, e <= bytesRcvd[c], NEW messages \in Seq(Seq(Cell)), NEW r,
         Took(c, e, messages, r), Appends(c, e, messages), Excuses(c, e, messages),
         r = "waits" => \A s \in Start \ {StreamSize} :
                           Passed(c) + e <= s => read[c] < s + Size[s]
  PROVE  RetainedBy(c)' /\ Ledger(c)'
<1>p. PICK p : p = Passed(c)
  OBVIOUS
<1>B. PICK B : B = bytesRcvd[c]
  OBVIOUS
<1>L. PICK L : L = Len(handled[c])
  OBVIOUS
<1>1. /\ c \in Conn /\ c \in open /\ Ledger(c) /\ backup[c] = <<>>
      /\ B \in Nat /\ p \in Nat /\ read[c] = p + B /\ e <= B
      /\ \A k \in 0 .. B - 1 : At(c, k) = Byte(c, p + k)
  BY <1>p, <1>B, FrontOfBuffer
<1>2. /\ bytesRcvd'[c] = B - e /\ read'[c] = read[c] /\ Passed(c)' = p + e
      /\ backup'[c] = <<>> /\ running' = c /\ open' = open /\ ret'[c] = r
      /\ handled'[c] = handled[c] \o messages /\ handled[c] \in Seq(Seq(Cell))
  <2>1. /\ bytesRcvd'[c] = B - e /\ read' = read /\ backup'[c] = <<>> /\ running' = c
        /\ open' = open /\ ret'[c] = r
        /\ handled'[c] = handled[c] \o messages /\ handled[c] \in Seq(Seq(Cell))
    BY <1>1, <1>B DEF Took, IInv, TypeOK
  <2>2. read[c] - (B - e) = p + e
    BY <1>1
  <2> QED
    BY <2>1, <2>2 DEF Passed
<1>3. /\ L \in Nat
      /\ \A k \in 1 .. L : handled'[c][k] = handled[c][k]
      /\ messages = <<>> => Len(handled'[c]) = L
      /\ \A m : messages = <<m>> => Len(handled'[c]) = L + 1 /\ handled'[c][L + 1] = m
  <2>1. /\ Len(handled'[c]) = L + Len(messages) /\ L \in Nat
        /\ \A k \in 1 .. L : handled'[c][k] = handled[c][k]
        /\ \A k \in L + 1 .. L + Len(messages) : handled'[c][k] = messages[k - L]
    BY <1>2, <1>L, Concatenation
  <2>2. messages = <<>> => Len(handled'[c]) = L
    BY <2>1
  <2>3. ASSUME NEW m, messages = <<m>>
        PROVE  Len(handled'[c]) = L + 1 /\ handled'[c][L + 1] = m
    <3>1. Len(messages) = 1 /\ messages[1] = m
      BY <2>3
    <3>2. L + 1 \in L + 1 .. L + Len(messages) /\ (L + 1) - L = 1
      BY <3>1, <2>1
    <3> QED
      BY <3>1, <3>2, <2>1
  <2> QED
    BY <2>1, <2>2, <2>3
<1>4. \/ messages = <<>>
      \/ \E s \in Start \ {StreamSize} : \E m \in Handling(c, s) :
            /\ messages = <<m>> /\ Kind[s] # "not_sup" /\ m[1].n = s
            /\ p <= s /\ s < p + e
            /\ \A t \in Start : m = Part(c, t, Size[t]) => t = s /\ s + Size[s] <= p + e
  BY <1>1, <1>p, HandlingStarts DEF Appends
<1>5. \A i \in 1 .. L :
         /\ \E s \in Start \ {StreamSize} :
               Kind[s] # "not_sup" /\ handled[c][i] \in Handling(c, s)
         /\ handled[c][i][1].n \in Nat /\ handled[c][i][1].n < p
  <2> SUFFICES ASSUME NEW i \in 1 .. L
               PROVE  /\ \E s \in Start \ {StreamSize} :
                            Kind[s] # "not_sup" /\ handled[c][i] \in Handling(c, s)
                      /\ handled[c][i][1].n \in Nat /\ handled[c][i][1].n < p
    OBVIOUS
  <2>1. PICK s \in Start \ {StreamSize} :
           Kind[s] # "not_sup" /\ handled[c][i] \in Handling(c, s)
    BY <1>1, <1>L DEF Ledger, InOrder
  <2>2. handled[c][i][1].n = s
    BY <1>1, <2>1, HandlingStarts
  <2>3. handled[c][i][1].n < p
    BY <1>1, <1>L, <1>p DEF Ledger
  <2> QED
    BY <2>1, <2>2, <2>3, Sizes
<1>6. InOrder(c)' /\ \A i \in 1 .. Len(handled'[c]) : handled'[c][i][1].n < p + e
  <2>1. CASE messages = <<>>
    <3>1. Len(handled'[c]) = L /\ \A i \in 1 .. L : handled'[c][i] = handled[c][i]
      BY <2>1, <1>3
    <3>2. \A i \in 1 .. L : handled[c][i][1].n < p + e
      BY <1>1, <1>5
    <3>3. \A i, j \in 1 .. L : i < j => handled[c][i][1].n < handled[c][j][1].n
      BY <1>1, <1>L DEF Ledger, InOrder
    <3> QED
      BY <3>1, <3>2, <3>3, <1>5 DEF InOrder, Handling
  <2>2. ASSUME NEW s \in Start \ {StreamSize}, NEW m \in Handling(c, s), messages = <<m>>,
               Kind[s] # "not_sup", m[1].n = s, p <= s, s < p + e
        PROVE  InOrder(c)' /\ \A i \in 1 .. Len(handled'[c]) : handled'[c][i][1].n < p + e
    <3>1. /\ Len(handled'[c]) = L + 1 /\ handled'[c][L + 1] = m /\ s \in Nat
          /\ \A i \in 1 .. L : handled'[c][i] = handled[c][i]
      BY <2>2, <1>3, Sizes
    <3>2. \A i \in 1 .. L + 1 : i \in 1 .. L \/ i = L + 1
      BY <1>3
    <3>3. \A i \in 1 .. L : handled[c][i][1].n < s /\ handled[c][i][1].n < p + e
      BY <1>1, <1>5, <2>2, <3>1
    <3>4. ASSUME NEW i \in 1 .. L + 1, NEW j \in 1 .. L + 1, i < j
          PROVE  handled'[c][i][1].n < handled'[c][j][1].n
      <4>1. CASE j \in 1 .. L
        <5>1. i \in 1 .. L
          BY <4>1, <3>4, <1>3
        <5>2. handled[c][i][1].n < handled[c][j][1].n
          BY <5>1, <4>1, <3>4, <1>1, <1>L DEF Ledger, InOrder
        <5> QED
          BY <5>1, <5>2, <4>1, <3>1
      <4>2. CASE j = L + 1
        <5>1. i \in 1 .. L
          BY <4>2, <3>4, <1>3
        <5> QED
          BY <5>1, <4>2, <3>1, <3>3, <2>2
      <4> QED
        BY <4>1, <4>2, <3>2
    <3>5. \A i \in 1 .. L + 1 :
             /\ \E t \in Start \ {StreamSize} :
                   Kind[t] # "not_sup" /\ handled'[c][i] \in Handling(c, t)
             /\ handled'[c][i][1].n < p + e
      BY <2>2, <3>1, <3>2, <3>3, <1>5
    <3> QED
      BY <3>1, <3>4, <3>5 DEF InOrder, Handling
  <2> QED
    BY <2>1, <2>2, <1>4
<1>7. \A s \in Start : Whole(c, s)' <=> Whole(c, s) \/ messages = <<Part(c, s, Size[s])>>
  <2> SUFFICES ASSUME NEW s \in Start
               PROVE  Whole(c, s)' <=> Whole(c, s) \/ messages = <<Part(c, s, Size[s])>>
    OBVIOUS
  <2>1. Whole(c, s)' <=> \E i \in 1 .. Len(handled'[c]) : handled'[c][i] = Part(c, s, Size[s])
    BY DEF Whole, Part
  <2>2. Whole(c, s) <=> \E i \in 1 .. L : handled'[c][i] = Part(c, s, Size[s])
    BY <1>3, <1>L DEF Whole
  <2>3. CASE messages = <<>>
    <3>1. messages # <<Part(c, s, Size[s])>>
      BY <2>3
    <3> QED
      BY <3>1, <2>1, <2>2, <2>3, <1>3
  <2>4. ASSUME NEW m, messages = <<m>>
        PROVE  Whole(c, s)' <=> Whole(c, s) \/ messages = <<Part(c, s, Size[s])>>
    <3>1. \A i \in 1 .. L + 1 : i \in 1 .. L \/ i = L + 1
      BY <1>3
    <3>2. \A i \in 1 .. L : i \in 1 .. L + 1
      BY <1>3
    <3>3. L + 1 \in 1 .. L + 1
      BY <1>3
    <3>4. Len(handled'[c]) = L + 1 /\ handled'[c][L + 1] = m
      BY <2>4, <1>3
    <3>5. m = Part(c, s, Size[s]) <=> messages = <<Part(c, s, Size[s])>>
      <4>1. messages[1] = m
        BY <2>4
      <4>2. messages = <<Part(c, s, Size[s])>> => messages[1] = Part(c, s, Size[s])
        OBVIOUS
      <4> QED
        BY <4>1, <4>2, <2>4
    <3> QED
      BY <3>1, <3>2, <3>3, <3>4, <3>5, <2>1, <2>2
  <2> QED
    BY <2>3, <2>4, <1>4
<1>8. \A t \in Start : messages = <<Part(c, t, Size[t])>> => p <= t /\ t + Size[t] <= p + e
  <2> SUFFICES ASSUME NEW t \in Start, messages = <<Part(c, t, Size[t])>>
               PROVE  p <= t /\ t + Size[t] <= p + e
    OBVIOUS
  <2>1. messages # <<>> /\ messages[1] = Part(c, t, Size[t])
    OBVIOUS
  <2>2. PICK s \in Start : \E m \in Handling(c, s) :
           /\ messages = <<m>> /\ p <= s
           /\ m = Part(c, t, Size[t]) => t = s /\ s + Size[s] <= p + e
    BY <2>1, <1>4
  <2>3. \A m : messages = <<m>> => m = messages[1]
    OBVIOUS
  <2> QED
    BY <2>1, <2>2, <2>3
<1>9. \A s \in Start \ {StreamSize} : Whole(c, s)' => s + Size[s] <= p + e
  <2>1. \A s \in Start \ {StreamSize} : Whole(c, s) => s + Size[s] <= p + e
    <3>1. \A s \in Start \ {StreamSize} : Whole(c, s) => s + Size[s] <= p
      BY <1>1, <1>p DEF Ledger
    <3>2. \A s \in Start : s + Size[s] \in Nat
      BY Sizes
    <3> QED
      BY <3>1, <3>2, <1>1
  <2> QED
    BY <2>1, <1>7, <1>8
<1>10. Excused(c)'
  <2> SUFFICES ASSUME NEW s \in Start \ {StreamSize}, s < p + e, ~Whole(c, s)'
               PROVE  \/ Kind[s] \in {"register", "not_sup"}
                      \/ \E t \in Start : t < s /\ t + Size[t] = s /\ ~Whole(c, t)'
    BY <1>2 DEF Excused
  <2>1. ~Whole(c, s) /\ messages # <<Part(c, s, Size[s])>> /\ s \in Nat
    BY <1>7, Sizes
  <2>2. \A t \in Start : t < p /\ ~Whole(c, t) => ~Whole(c, t)'
    <3>1. \A t \in Start : t \in Nat
      BY Sizes
    <3> QED
      BY <3>1, <1>1, <1>7, <1>8
  <2>3. CASE s < p
    <3>1. \/ Kind[s] \in {"register", "not_sup"}
          \/ \E t \in Start : t < s /\ t + Size[t] = s /\ ~Whole(c, t)
      BY <2>1, <2>3, <1>1, <1>p DEF Ledger, Excused
    <3>2. \A t \in Start : t < s => t < p
      BY <2>1, <2>3, <1>1, Sizes
    <3> QED
      BY <3>1, <3>2, <2>2
  <2>4. CASE p <= s
    BY <2>1, <2>2, <2>4, <1>p DEF Excuses
  <2> QED
    BY <2>1, <2>3, <2>4, <1>1
<1>11. r = "waits" => NoneLeft(c)'
  <2>1. \A s \in Start \ {StreamSize} :
           r = "waits" /\ p + e <= s => read'[c] < s + Size[s]
    BY <1>2, <1>p
  <2> QED
    BY <2>1, <1>2 DEF NoneLeft
<1>12. Ledger(c)'
  BY <1>2, <1>6, <1>9, <1>10, <1>11 DEF Ledger
<1>13. RetainedBy(c)'
  <2>1. \A k \in 0 .. bytesRcvd'[c] - 1 : At(c, k)' = Byte(c, (p + e) + k)
    <3> SUFFICES ASSUME NEW k \in 0 .. bytesRcvd'[c] - 1
                 PROVE  At(c, k)' = Byte(c, (p + e) + k)
      OBVIOUS
    <3>1. At(c, k)' = At(c, k + e)
      <4>1. /\ buf \in [Conn -> Nat] /\ mem' = mem /\ k \in Int
            /\ buf' = [buf EXCEPT ![c] = @ + e]
        BY DEF IInv, TypeOK, Took
      <4> QED
        BY <4>1, <1>1, BufferAt
    <3>2. k + e \in 0 .. B - 1 /\ p + (k + e) = (p + e) + k
      BY <1>1, <1>2
    <3> QED
      BY <3>1, <3>2, <1>1
  <2>2. 0 <= p + e
    BY <1>1
  <2> QED
    BY <2>1, <2>2, <1>2 DEF RetainedBy
<1> QED
  BY <1>12, <1>13

(* No message starts inside another.                                       *)
LEMMA NoStartInside ==
  ASSUME NEW s \in Start \ {StreamSize}, NEW t \in Start, s < t
  PROVE  s + Size[s] <= t
BY Sizes, StreamAssumption

(* The handler of the message in front takes no more than its bytes.       *)
LEMMA FrontExcuses ==
  ASSUME NEW c, NEW e \in Nat, NEW messages, Passed(c) \in Start \ {StreamSize},
         e <= Size[Passed(c)],
         \/ Kind[Passed(c)] \in {"register", "not_sup"}
         \/ messages = <<Part(c, Passed(c), Size[Passed(c)])>>
  PROVE  Excuses(c, e, messages)
<1>p. PICK p : p = Passed(c)
  OBVIOUS
<1> SUFFICES ASSUME NEW t \in Start \ {StreamSize}, p <= t, t < p + e
             PROVE  t = p
  BY <1>p DEF Excuses
<1>1. p \in Start \ {StreamSize} /\ p \in Nat /\ t \in Nat /\ Size[p] \in Nat /\ e <= Size[p]
  BY <1>p, Sizes
<1>2. p < t => p + Size[p] <= t
  BY <1>1, NoStartInside
<1> QED
  BY <1>1, <1>2

(* A message of which bytes are missing leaves none complete behind it.    *)
LEMMA Waiting ==
  ASSUME NEW s \in Start \ {StreamSize}, NEW n \in Nat, n < s + Size[s]
  PROVE  \A t \in Start \ {StreamSize} : s <= t => n < t + Size[t]
<1> SUFFICES ASSUME NEW t \in Start \ {StreamSize}, s <= t PROVE n < t + Size[t]
  OBVIOUS
<1>1. s \in Nat /\ t \in Nat /\ Size[s] \in Nat /\ Size[t] \in Nat
  BY Sizes
<1>2. CASE t = s
  BY <1>2
<1>3. CASE s < t
  BY <1>1, <1>3, NoStartInside
<1> QED
  BY <1>1, <1>2, <1>3

(* A handler that leaves the message in front, because bytes are missing.  *)
LEMMA OwnLeaves ==
  ASSUME IInv, NEW c \in Conn \ overwritten, running = c,
         Passed(c) \in Start \ {StreamSize}, bytesRcvd[c] < Size[Passed(c)], Leaves(c)
  PROVE  RetainedBy(c)' /\ Ledger(c)'
<1>p. PICK p : p = Passed(c)
  OBVIOUS
<1>1. /\ p \in Start \ {StreamSize} /\ bytesRcvd[c] < Size[p] /\ p \in Nat /\ Size[p] \in Nat
      /\ bytesRcvd[c] \in Nat /\ read[c] = p + bytesRcvd[c] /\ c \in Conn
  BY <1>p, FrontOfBuffer, Sizes
<1>2. Took(c, 0, <<>>, "waits")
  BY TakesTook
<1>3. Appends(c, 0, <<>>) /\ Excuses(c, 0, <<>>)
  <2>1. \A s \in Start : ~(p <= s /\ s < p + 0)
    BY <1>1, Sizes
  <2> QED
    BY <2>1, <1>p DEF Appends, Excuses
<1>4. \A s \in Start \ {StreamSize} : p + 0 <= s => read[c] < s + Size[s]
  BY <1>1, Waiting
<1>5. 0 \in Nat /\ 0 <= bytesRcvd[c] /\ <<>> \in Seq(Seq(Cell))
  BY <1>1, MessagesType
<1> QED
  BY <1>2, <1>3, <1>4, <1>5, <1>p, OwnTook

(* A handler that takes bytes of the message in front and handles its      *)
(* first bytes: all, if it may not handle it in part.                      *)
LEMMA OwnHandles ==
  ASSUME IInv, NEW c \in Conn \ overwritten, running = c,
         Passed(c) \in Start \ {StreamSize},
         NEW n \in Nat, n <= bytesRcvd[c], n <= Size[Passed(c)], 1 <= n,
         Kind[Passed(c)] # "not_sup",
         Part(c, Passed(c), n) \in Handling(c, Passed(c)),
         n = Size[Passed(c)] \/ Kind[Passed(c)] = "register",
         NEW r \in {"ok", "failed"}, Takes(c, n, <<Front(c, n)>>, r)
  PROVE  RetainedBy(c)' /\ Ledger(c)'
<1>p. PICK p : p = Passed(c)
  OBVIOUS
<1>1. /\ p \in Start \ {StreamSize} /\ p \in Nat /\ Size[p] \in Nat /\ c \in Conn
      /\ bytesRcvd[c] \in Nat
  BY <1>p, FrontOfBuffer, Sizes
<1>2. Took(c, n, <<Front(c, n)>>, r)
  BY TakesTook
<1>3. Front(c, n) = Part(c, p, n) /\ <<Front(c, n)>> \in Seq(Seq(Cell))
  BY <1>p, <1>1, CalledForFront, CountedCells, MessagesType DEF IInv
<1>4. Appends(c, n, <<Front(c, n)>>)
  <2>1. Part(c, p, n) = Part(c, p, Size[p]) => n = Size[p]
    BY <1>1, Parts
  <2>2. p <= p /\ p < p + n /\ (n = Size[p] => p + Size[p] <= p + n)
    BY <1>1
  <2> QED
    BY <1>1, <1>3, <2>1, <2>2, <1>p DEF Appends
<1>5. Excuses(c, n, <<Front(c, n)>>)
  BY <1>1, <1>3, <1>p, FrontExcuses
<1> QED
  BY <1>2, <1>3, <1>4, <1>5, OwnTook

(* A handler that takes bytes of the message in front and handles nothing, *)
(* of a registration or a type without a handler.                          *)
LEMMA OwnDrops ==
  ASSUME IInv, NEW c \in Conn \ overwritten, running = c,
         Passed(c) \in Start \ {StreamSize},
         NEW e \in Nat, e <= bytesRcvd[c], e <= Size[Passed(c)],
         Kind[Passed(c)] \in {"register", "not_sup"}, Took(c, e, <<>>, "failed")
  PROVE  RetainedBy(c)' /\ Ledger(c)'
<1>1. Appends(c, e, <<>>) /\ Excuses(c, e, <<>>)
  BY FrontExcuses DEF Appends
<1> QED
  BY <1>1, MessagesType, OwnTook

(* The handlers of log messages and of those that unregister.              *)
LEMMA OwnLogOrUnregister ==
  ASSUME IInv, NEW c \in Conn \ overwritten, running = c,
         \/ dlt_daemon_process_user_message_log(c)
         \/ dlt_daemon_process_user_message_unregister(c)
  PROVE  RetainedBy(c)' /\ Ledger(c)'
<1>1. PICK s \in Start :
         /\ Calls(c, "log", s) \/ Calls(c, "unregister", s)
         /\ \/ bytesRcvd[c] < Size[s] /\ Leaves(c)
            \/ /\ Size[s] <= bytesRcvd[c]
               /\ \E r \in {"ok", "failed"} : Takes(c, Size[s], <<Front(c, Size[s])>>, r)
  BY DEF dlt_daemon_process_user_message_log, dlt_daemon_process_user_message_unregister
<1>2. s = Passed(c) /\ s \in Start \ {StreamSize} /\ Kind[s] \in {"log", "unregister"}
  BY <1>1, CalledForFront
<1>3. Size[s] \in Nat /\ 1 <= Size[s] /\ Part(c, s, Size[s]) \in Handling(c, s)
  BY <1>2, Sizes, HeaderAssumption DEF Handling
<1>4. CASE bytesRcvd[c] < Size[s] /\ Leaves(c)
  BY <1>2, <1>4, OwnLeaves
<1>5. ASSUME Size[s] <= bytesRcvd[c], NEW r \in {"ok", "failed"},
             Takes(c, Size[s], <<Front(c, Size[s])>>, r)
      PROVE  RetainedBy(c)' /\ Ledger(c)'
  BY <1>2, <1>3, <1>5, OwnHandles
<1> QED
  BY <1>1, <1>4, <1>5

(* The handlers of registrations and of types without one.                 *)
LEMMA OwnRegisterOrNotSup ==
  ASSUME IInv, NEW c \in Conn \ overwritten, running = c,
         \/ dlt_daemon_process_user_message_register(c)
         \/ dlt_daemon_process_user_message_not_sup(c)
  PROVE  RetainedBy(c)' /\ Ledger(c)'
<1>B. bytesRcvd[c] \in Nat /\ c \in Conn
  BY FrontOfBuffer
<1>1. CASE dlt_daemon_process_user_message_register(c)
  <2>1. PICK s \in Start :
           /\ Calls(c, "register", s)
           /\ \/ bytesRcvd[c] < Fixed /\ Leaves(c)
              \/ /\ Fixed <= bytesRcvd[c]
                 /\ \E r \in {"ok", "failed"} : Takes(c, Fixed, <<Front(c, Fixed)>>, r)
              \/ /\ bytesRcvd[c] < Fixed + Description(s)
                 /\ Takes(c, Fixed + Description(s), <<>>, "failed")
              \/ /\ Fixed + Description(s) <= bytesRcvd[c]
                 /\ \E r \in {"ok", "failed"} :
                       Takes(c, Fixed + Description(s), <<Front(c, Fixed + Description(s))>>, r)
    BY <1>1 DEF dlt_daemon_process_user_message_register
  <2>2. s = Passed(c) /\ s \in Start \ {StreamSize} /\ Kind[s] = "register"
    BY <2>1, CalledForFront
  <2>3. /\ Fixed \in Nat /\ 1 <= Fixed /\ Fixed + Description(s) \in Nat
        /\ 1 <= Fixed + Description(s) /\ Fixed + Description(s) <= Size[s]
        /\ Fixed <= Size[s] /\ Size[s] \in Nat
    <3>1. /\ Fixed \in Nat /\ 1 <= Fixed /\ Description(s) \in Nat /\ Size[s] \in Nat
          /\ Fixed + Description(s) \in Nat /\ Fixed + Description(s) <= Size[s]
      BY <2>2, Sizes, HeaderAssumption
    <3> QED
      BY <3>1
  <2>4. /\ Part(c, s, Fixed) \in Handling(c, s)
        /\ Part(c, s, Fixed + Description(s)) \in Handling(c, s)
    BY <2>2 DEF Handling
  <2>5. CASE bytesRcvd[c] < Fixed /\ Leaves(c)
    <3>1. bytesRcvd[c] < Size[s]
      BY <2>3, <2>5, <1>B
    <3> QED
      BY <2>2, <2>5, <3>1, OwnLeaves
  <2>6. ASSUME NEW n \in {Fixed, Fixed + Description(s)}, n <= bytesRcvd[c],
               NEW r \in {"ok", "failed"}, Takes(c, n, <<Front(c, n)>>, r)
        PROVE  RetainedBy(c)' /\ Ledger(c)'
    <3>1. n \in Nat /\ 1 <= n /\ n <= Size[s] /\ Part(c, s, n) \in Handling(c, s)
      BY <2>3, <2>4, <2>6
    <3> QED
      BY <2>2, <2>6, <3>1, OwnHandles
  <2>7. CASE /\ bytesRcvd[c] < Fixed + Description(s)
             /\ Takes(c, Fixed + Description(s), <<>>, "failed")
    <3>1. Took(c, bytesRcvd[c], <<>>, "failed")
      BY <2>3, <2>7, TakesTook
    <3>2. bytesRcvd[c] <= bytesRcvd[c] /\ bytesRcvd[c] <= Size[s]
      BY <2>3, <2>7, <1>B
    <3> QED
      BY <2>2, <3>1, <3>2, <1>B, OwnDrops
  <2> QED
    BY <2>1, <2>5, <2>6, <2>7
<1>2. CASE dlt_daemon_process_user_message_not_sup(c)
  <2>1. PICK s \in Start : Calls(c, "not_sup", s) /\ Takes(c, Header, <<>>, "failed")
    BY <1>2 DEF dlt_daemon_process_user_message_not_sup
  <2>2. /\ s = Passed(c) /\ s \in Start \ {StreamSize} /\ Kind[s] = "not_sup"
        /\ Header <= bytesRcvd[c]
    BY <2>1, CalledForFront
  <2>3. Header \in Nat /\ Header <= Size[s]
    BY <2>2, Sizes, HeaderAssumption
  <2>4. Took(c, Header, <<>>, "failed")
    BY <2>1, <2>2, <2>3, TakesTook
  <2> QED
    BY <2>2, <2>3, <2>4, OwnDrops
<1> QED
  BY <1>1, <1>2

(* Bytes are skipped: no message starts among them.                        *)
LEMMA OwnResync ==
  ASSUME IInv, NEW c \in Conn \ overwritten, running = c, NEW o \in 1 .. BufSize, Resync(c, o)
  PROVE  RetainedBy(c)' /\ Ledger(c)'
<1>p. PICK p : p = Passed(c)
  OBVIOUS
<1>1. /\ o + Header <= bytesRcvd[c] /\ FirstHeader(c, o) /\ Takes(c, o, <<>>, "ok")
      /\ o \in Nat /\ bytesRcvd[c] \in Nat /\ Header \in Nat /\ o <= bytesRcvd[c] /\ p \in Nat
  <2>1. o + Header <= bytesRcvd[c] /\ FirstHeader(c, o) /\ Takes(c, o, <<>>, "ok")
    BY DEF Resync
  <2>2. o \in Nat /\ bytesRcvd[c] \in Nat /\ Header \in Nat /\ p \in Nat
    BY <1>p, FrontOfBuffer, HeaderAssumption
  <2> QED
    BY <2>1, <2>2
<1>2. Took(c, o, <<>>, "ok")
  BY <1>1, TakesTook
<1>3. \A t \in Start : ~(p <= t /\ t < p + o)
  <2> SUFFICES ASSUME NEW t \in Start, p <= t, t < p + o PROVE FALSE
    OBVIOUS
  <2>1. t \in Nat
    BY Sizes
  <2>2. t - p \in 0 .. o - 1 /\ t - p \in Nat /\ (t - p) + Header <= bytesRcvd[c] + 1
        /\ p + (t - p) = t
    BY <1>1, <2>1
  <2>3. HeaderAt(c, t - p)
    BY <2>2, <1>p, Headers
  <2> QED
    BY <2>2, <2>3, <1>1 DEF FirstHeader
<1>4. Appends(c, o, <<>>) /\ Excuses(c, o, <<>>)
  BY <1>3, <1>p DEF Appends, Excuses
<1> QED
  BY <1>1, <1>2, <1>4, MessagesType, OwnTook

(* What is said of the messages handled and passed depends on them only.   *)
LEMMA SameHandled ==
  ASSUME NEW c, handled'[c] = handled[c]
  PROVE  /\ InOrder(c)' <=> InOrder(c)
         /\ \A s : Whole(c, s)' <=> Whole(c, s)
         /\ Passed(c)' = Passed(c) => (Excused(c)' <=> Excused(c))
         /\ Passed(c)' = Passed(c) /\ read'[c] = read[c] => (NoneLeft(c)' <=> NoneLeft(c))
<1>1. InOrder(c)' <=> InOrder(c)
  BY DEF InOrder, Handling, Part
<1>2. \A s : Whole(c, s)' <=> Whole(c, s)
  BY DEF Whole, Part
<1>3. Passed(c)' = Passed(c) => (Excused(c)' <=> Excused(c))
  BY <1>2 DEF Excused
<1>4. Passed(c)' = Passed(c) /\ read'[c] = read[c] => (NoneLeft(c)' <=> NoneLeft(c))
  BY DEF NoneLeft
<1> QED
  BY <1>1, <1>2, <1>3, <1>4

(* A header without its last byte: the message before it was not handled   *)
(* whole, or the search would not have begun before its end.               *)
LEMMA OwnHeaderCutOff ==
  ASSUME IInv, NEW c \in Conn \ overwritten, running = c, NEW o \in 1 .. BufSize,
         HeaderCutOff(c, o)
  PROVE  RetainedBy(c)' /\ Ledger(c)'
<1>p. PICK p : p = Passed(c)
  OBVIOUS
<1>B. PICK B : B = bytesRcvd[c]
  OBVIOUS
<1>s. PICK s : s = p + o
  OBVIOUS
<1>1. /\ o + Header = B + 1 /\ FirstHeader(c, o) /\ c \in Conn /\ Ledger(c)
      /\ \/ Takes(c, o, <<>>, "waits")
         \/ Takes(c, B, <<>>, "failed")
         \/ Kind[At(c, o).n] = "log" /\ Takes(c, B, <<Stale(c, o)>>, "failed")
  BY <1>B, FrontOfBuffer DEF HeaderCutOff
<1>2. /\ o \in Nat /\ 1 <= o /\ B \in Nat /\ Header \in Nat /\ 1 < Header
      /\ p \in Nat /\ read[c] = p + B
      /\ \A k \in 0 .. B - 1 : At(c, k) = Byte(c, p + k)
  BY <1>p, <1>B, FrontOfBuffer, HeaderAssumption
<1>3. s \in Start \ {StreamSize} /\ At(c, o).n = s
  <2>1. HeaderAt(c, o) /\ o + Header <= B + 1
    BY <1>1, <1>2 DEF FirstHeader
  <2> QED
    BY <2>1, <1>2, <1>p, <1>B, <1>s, Headers
<1>4. /\ s \in Nat /\ Size[s] \in Nat /\ Header <= Size[s] /\ p < s /\ s < p + B
      /\ p + B < s + Size[s]
  <2>1. s \in Nat /\ Size[s] \in Nat /\ Header <= Size[s]
    BY <1>3, Sizes
  <2> QED
    BY <2>1, <1>1, <1>2, <1>s
<1>5. \A t \in Start : ~(p <= t /\ t < s)
  <2> SUFFICES ASSUME NEW t \in Start, p <= t, t < s PROVE FALSE
    OBVIOUS
  <2>1. t \in Nat
    BY Sizes
  <2>2. t - p \in 0 .. o - 1 /\ t - p \in Nat /\ (t - p) + Header <= B + 1 /\ p + (t - p) = t
    BY <1>1, <1>2, <1>s, <2>1
  <2>3. HeaderAt(c, t - p)
    BY <2>2, <1>p, <1>B, Headers
  <2> QED
    BY <2>2, <2>3, <1>1 DEF FirstHeader
<1>6. \A t \in Start \ {StreamSize} : p <= t /\ t < p + B => t = s
  <2> SUFFICES ASSUME NEW t \in Start \ {StreamSize}, p <= t, t < p + B, s < t PROVE FALSE
    BY <1>4, <1>5, Sizes
  <2>1. s + Size[s] <= t /\ t \in Nat
    BY <1>3, NoStartInside, Sizes
  <2> QED
    BY <2>1, <1>2, <1>4
<1>7. PICK t \in Start : t < s /\ t + Size[t] = s
  BY <1>3, <1>2, <1>4, StreamAssumption
<1>8. t < p /\ ~Whole(c, t)
  <2>1. t \in Nat /\ t # StreamSize /\ Size[t] \in Nat
    BY <1>3, <1>4, <1>7, Sizes
  <2>2. t < p
    BY <1>2, <1>5, <1>7, <2>1
  <2>3. Whole(c, t) => t + Size[t] <= p
    BY <1>1, <1>p, <2>1 DEF Ledger
  <2> QED
    BY <2>2, <2>3, <1>2, <1>4, <1>7
<1>9. CASE Takes(c, o, <<>>, "waits")
  <2>1. Took(c, o, <<>>, "waits") /\ o <= B
    BY <1>1, <1>2, <1>9, <1>B, TakesTook
  <2>2. Appends(c, o, <<>>) /\ Excuses(c, o, <<>>)
    BY <1>5, <1>p, <1>s DEF Appends, Excuses
  <2>3. \A u \in Start \ {StreamSize} : p + o <= u => read[c] < u + Size[u]
    BY <1>2, <1>3, <1>4, <1>s, Waiting
  <2> QED
    BY <2>1, <2>2, <2>3, <1>2, <1>p, <1>B, MessagesType, OwnTook
<1>10. \A messages : Excuses(c, B, messages)
  BY <1>6, <1>7, <1>8, <1>p DEF Excuses
<1>11. CASE Takes(c, B, <<>>, "failed")
  <2>1. Took(c, B, <<>>, "failed") /\ B <= bytesRcvd[c]
    BY <1>2, <1>11, <1>B, TakesTook
  <2>2. Appends(c, B, <<>>)
    BY DEF Appends
  <2> QED
    BY <2>1, <2>2, <1>2, <1>10, <1>B, MessagesType, OwnTook
<1>12. CASE Kind[At(c, o).n] = "log" /\ Takes(c, B, <<Stale(c, o)>>, "failed")
  <2>1. Took(c, B, <<Stale(c, o)>>, "failed") /\ B <= bytesRcvd[c] /\ Kind[s] = "log"
    BY <1>2, <1>3, <1>12, <1>B, TakesTook
  <2>2. Stale(c, o) = [k \in 1 .. Header |-> IF k < Header THEN Byte(c, s + k - 1) ELSE Junk]
    <3>1. ASSUME NEW k \in 1 .. Header, k < Header
          PROVE  At(c, o + k - 1) = Byte(c, s + k - 1)
      <4>1. o + k - 1 \in 0 .. B - 1 /\ p + (o + k - 1) = s + k - 1
        BY <1>1, <1>2, <1>s, <3>1
      <4> QED
        BY <4>1, <1>2
    <3> QED
      BY <3>1 DEF Stale
  <2>3. Stale(c, o) \in Handling(c, s)
    BY <2>1, <2>2 DEF Handling
  <2>4. Stale(c, o) # Part(c, s, Size[s])
    <3>1. Header \in 1 .. Header /\ Header \in 1 .. Size[s] /\ ~(Header < Header)
      BY <1>2, <1>4
    <3>2. Stale(c, o)[Header] = Junk
      BY <2>2, <3>1
    <3>3. Part(c, s, Size[s])[Header] # Junk
      BY <1>1, <1>4, <3>1, Parts
    <3> QED
      BY <3>2, <3>3
  <2>5. Appends(c, B, <<Stale(c, o)>>)
    <3>1. p <= s
      BY <1>2, <1>4
    <3> QED
      BY <2>1, <2>3, <2>4, <3>1, <1>3, <1>4, <1>p DEF Appends
  <2>6. <<Stale(c, o)>> \in Seq(Seq(Cell))
    <3>1. \A k \in 1 .. Header : k < Header => o + k - 1 \in 0 .. bytesRcvd[c] - 1
      BY <1>1, <1>2, <1>B
    <3>2. Stale(c, o) \in [1 .. Header -> Cell]
      BY <3>1, <1>1, CountedCells DEF Stale, Cell, IInv
    <3> QED
      BY <3>2, <1>2, FunctionIsSequence, MessagesType
  <2> QED
    BY <2>1, <2>5, <2>6, <1>2, <1>10, <1>B, OwnTook
<1> QED
  BY <1>1, <1>9, <1>11, <1>12

(* The handler that ends: what is left is at the front of the buffer, or   *)
(* saved, and if the loop was not ended by a handler, nothing is complete. *)
LEMMA OwnFinish ==
  ASSUME IInv, NEW c \in Conn \ overwritten, running = c, Finish(c)
  PROVE  RetainedBy(c)' /\ Ledger(c)'
<1>r. PICK r : r = bytesRcvd[c]
  OBVIOUS
<1>p. PICK p : p = Passed(c)
  OBVIOUS
<1>1. /\ running' = None /\ c # None /\ c \in Conn
      /\ UNCHANGED <<mem, buf, bytesRcvd, open, ret, read, handled, overwritten>>
      /\ dlt_receiver_move_to_begin(c)
  BY ConnAssumption DEF Finish
<1>2. /\ p \in Nat /\ read[c] = p + r /\ backup[c] = <<>> /\ r \in Nat
      /\ Ledger(c) /\ c \in open
      /\ \A k \in 0 .. r - 1 : At(c, k) = Byte(c, p + k)
  BY <1>r, <1>p, FrontOfBuffer
<1>3. \/ backup' = backup /\ (buf[c] = 0 \/ r = 0)
      \/ r # 0 /\ backup' = [backup EXCEPT ![c] = Front(c, r)]
  BY <1>1, <1>r DEF dlt_receiver_move_to_begin
<1>4. (\A k : At(c, k)' = At(c, k)) /\ Passed(c)' = p
  BY <1>1, <1>p DEF At, Passed
<1>5. /\ \A k \in 0 .. r - 1 :
            Byte(c, p + k) = IF backup'[c] = <<>> THEN At(c, k)' ELSE backup'[c][k + 1]
      /\ backup'[c] = <<>> /\ r # 0 => buf[c] = 0
  <2>1. CASE backup' = backup /\ (buf[c] = 0 \/ r = 0)
    BY <1>2, <1>4, <2>1
  <2>2. CASE r # 0 /\ backup' = [backup EXCEPT ![c] = Front(c, r)]
    <3>1. backup'[c] = Front(c, r)
      BY <1>1, <2>2 DEF IInv, TypeOK
    <3>2. \A k \in 0 .. r - 1 : backup'[c][k + 1] = At(c, k)
      <4>1. \A k \in 0 .. r - 1 : k + 1 \in 1 .. r /\ (k + 1) - 1 = k
        BY <1>2
      <4> QED
        BY <3>1, <4>1 DEF Front
    <3>3. backup'[c] # <<>>
      <4>1. 1 \in DOMAIN backup'[c]
        BY <3>1, <1>2, <2>2 DEF Front
      <4> QED
        BY <4>1
    <3> QED
      BY <3>2, <3>3, <1>2
  <2> QED
    BY <1>3, <2>1, <2>2
<1>6. RetainedBy(c)'
  <2>1. 0 <= p
    BY <1>2
  <2> QED
    BY <2>1, <1>1, <1>4, <1>5, <1>r DEF RetainedBy
<1>7. ret[c] # "failed" => NoneLeft(c)
  <2>1. ret[c] = "waits" => NoneLeft(c)
    BY <1>2 DEF Ledger
  <2>2. ASSUME ret[c] = "ok" PROVE NoneLeft(c)
    <3> SUFFICES ASSUME NEW s \in Start \ {StreamSize}, p <= s, ~(read[c] < s + Size[s])
                 PROVE  FALSE
      BY <1>p DEF NoneLeft
    <3>1. s \in Nat /\ Size[s] \in Nat /\ Header <= Size[s] /\ Header \in Nat
      BY Sizes, HeaderAssumption
    <3>2. /\ s - p \in Nat /\ (s - p) + Header <= r /\ (s - p) + Header <= r + 1
          /\ Header <= r /\ p + (s - p) = s /\ s - p \in 0 .. r - Header + 1
      BY <3>1, <1>2
    <3>3. HeaderAt(c, s - p)
      BY <3>2, <1>p, <1>r, Headers
    <3>4. r < Header \/ \A o \in 0 .. r - Header + 1 : ~HeaderAt(c, o)
      BY <2>2, <1>r DEF Finish
    <3> QED
      BY <3>1, <3>2, <3>3, <3>4, <1>2
  <2>3. ret[c] \in {"ok", "waits", "failed"}
    BY <1>1 DEF IInv, TypeOK
  <2> QED
    BY <2>1, <2>2, <2>3
<1>8. Ledger(c)'
  <2>1. /\ InOrder(c)' /\ Excused(c)' /\ (NoneLeft(c) => NoneLeft(c)')
        /\ \A s \in Start : Whole(c, s)' <=> Whole(c, s)
    <3>1. handled'[c] = handled[c] /\ read'[c] = read[c] /\ Passed(c)' = Passed(c)
      BY <1>1, <1>4, <1>p
    <3>2. InOrder(c) /\ Excused(c)
      BY <1>2 DEF Ledger
    <3> QED
      BY <3>1, <3>2, SameHandled
  <2> QED
    BY <2>1, <1>1, <1>2, <1>4, <1>7, <1>p DEF Ledger
<1> QED
  BY <1>6, <1>8

(* New bytes are put after those kept.                                     *)
LEMMA OwnReceive ==
  ASSUME IInv, NEW c \in Conn \ overwritten, NEW k \in 1 .. BufSize, dlt_receiver_receive(c, k)
  PROVE  RetainedBy(c)' /\ Ledger(c)'
<1>s. PICK s : s = Passed(c)
  OBVIOUS
<1>r. PICK r : r = bytesRcvd[c]
  OBVIOUS
<1>1. /\ c \in open /\ c \in Conn /\ RetainedBy(c) /\ Ledger(c) /\ running = None /\ c # None
      /\ r \in Nat /\ k \in Nat /\ s \in Nat /\ read[c] = s + r
      /\ r + k <= BufSize
  <2>1. c \in open /\ running = None /\ r + k <= BufSize
    BY <1>r DEF dlt_receiver_receive
  <2>2. RetainedBy(c) /\ Ledger(c) /\ c \in Conn /\ c # None
    BY <2>1, ConnAssumption DEF IInv, Retained
  <2>3. r \in Nat /\ k \in Nat /\ read[c] \in Nat
    BY <1>r, HeaderAssumption DEF IInv, TypeOK
  <2>4. s \in Nat /\ read[c] = s + r
    BY <2>2, <2>3, <1>s, <1>r DEF RetainedBy, Passed
  <2> QED
    BY <2>1, <2>2, <2>3, <2>4
<1>2. /\ mem' = Received(c, k)
      /\ buf' = [buf EXCEPT ![c] = 0]
      /\ bytesRcvd' = [bytesRcvd EXCEPT ![c] = r + k]
      /\ read' = [read EXCEPT ![c] = (s + r) + k]
      /\ ret' = [ret EXCEPT ![c] = "ok"]
      /\ running' = c /\ open' = open /\ handled' = handled
  BY <1>1, <1>r DEF dlt_receiver_receive
<1>3. backup'[c] = <<>>
  BY <1>1, TypeReceive DEF IInv
<1>4. \A p \in 0 .. r - 1 :
         (IF backup[c] # <<>> THEN backup[c][p + 1] ELSE mem[p]) = Byte(c, s + p)
  <2>1. \A p \in 0 .. r - 1 :
           Byte(c, s + p) = IF backup[c] = <<>> THEN At(c, p) ELSE backup[c][p + 1]
    BY <1>1, <1>s, <1>r DEF RetainedBy
  <2>2. backup[c] = <<>> /\ r # 0 => buf[c] = 0
    BY <1>1, <1>r DEF RetainedBy
  <2>3. backup[c] = <<>> => \A p \in 0 .. r - 1 : At(c, p) = mem[p]
    BY <2>2, <1>1 DEF At
  <2> QED
    BY <2>1, <2>3
<1>5. \A p \in 0 .. (r + k) - 1 : Received(c, k)[p] = Byte(c, s + p)
  <2> SUFFICES ASSUME NEW p \in 0 .. (r + k) - 1
               PROVE  Received(c, k)[p] = Byte(c, s + p)
    OBVIOUS
  <2>1. p \in 0 .. BufSize - 1
    BY <1>1, HeaderAssumption
  <2>2. Received(c, k)[p] = IF p < r /\ backup[c] # <<>> THEN backup[c][p + 1]
                            ELSE IF r <= p /\ p < r + k
                                 THEN Byte(c, (s + r) + p - r)
                                 ELSE mem[p]
    BY <2>1, <1>1, <1>r DEF Received
  <2>3. CASE p < r
    <3>1. p \in 0 .. r - 1 /\ ~(r <= p)
      BY <2>3, <1>1
    <3> QED
      BY <3>1, <2>2, <2>3, <1>4
  <2>4. CASE r <= p
    <3>1. ~(p < r) /\ p < r + k /\ (s + r) + p - r = s + p
      BY <2>4, <1>1
    <3> QED
      BY <3>1, <2>2, <2>4
  <2> QED
    BY <2>3, <2>4, <1>1
<1>6. /\ handled'[c] = handled[c] /\ bytesRcvd'[c] = r + k /\ read'[c] = (s + r) + k
      /\ buf'[c] = 0 /\ ret'[c] = "ok" /\ Passed(c)' = s
  <2>1. /\ handled'[c] = handled[c] /\ bytesRcvd'[c] = r + k /\ read'[c] = (s + r) + k
        /\ buf'[c] = 0 /\ ret'[c] = "ok"
    BY <1>2, <1>1 DEF IInv, TypeOK
  <2>2. ((s + r) + k) - (r + k) = s
    BY <1>1
  <2> QED
    BY <2>1, <2>2 DEF Passed
<1>7. RetainedBy(c)'
  <2>1. \A p \in 0 .. (r + k) - 1 : At(c, p)' = Received(c, k)[p]
    BY <1>2, <1>6, <1>1 DEF At
  <2>2. 0 <= s
    BY <1>1
  <2> QED
    BY <2>1, <2>2, <1>2, <1>3, <1>5, <1>6 DEF RetainedBy
<1>8. Ledger(c)'
  <2>1. /\ InOrder(c)' /\ Excused(c)'
        /\ \A s1 \in Start : Whole(c, s1)' <=> Whole(c, s1)
    <3>1. InOrder(c) /\ Excused(c) /\ Passed(c)' = Passed(c)
      BY <1>1, <1>6, <1>s DEF Ledger
    <3> QED
      BY <3>1, <1>6, SameHandled
  <2> QED
    BY <2>1, <1>1, <1>2, <1>6, <1>s DEF Ledger
<1> QED
  BY <1>7, <1>8

(* A connection that is closed keeps its ledger.                           *)
LEMMA OwnReceiveNothing ==
  ASSUME IInv, NEW c \in Conn \ overwritten, ReceiveNothing(c)
  PROVE  c \notin open' /\ Ledger(c)'
<1>1. /\ Ledger(c) /\ c \in Conn /\ c \notin open' /\ handled' = handled /\ read' = read
      /\ bytesRcvd'[c] = 0
  BY DEF ReceiveNothing, IInv, TypeOK
<1>2. read[c] \in Nat /\ bytesRcvd[c] \in Nat
  BY HeaderAssumption DEF IInv, TypeOK
<1>p. PICK p : p = Passed(c)
  OBVIOUS
<1>3. Passed(c)' = read[c] /\ p <= read[c] /\ p \in Int
  BY <1>1, <1>2, <1>p DEF Passed
<1>4. InOrder(c)' /\ \A s \in Start : Whole(c, s)' <=> Whole(c, s)
  BY <1>1, SameHandled DEF Ledger
<1>5. \A i \in 1 .. Len(handled[c]) : handled[c][i][1].n < read[c]
  <2> SUFFICES ASSUME NEW i \in 1 .. Len(handled[c]) PROVE handled[c][i][1].n < read[c]
    OBVIOUS
  <2>1. PICK s \in Start : handled[c][i] \in Handling(c, s)
    BY <1>1 DEF Ledger, InOrder
  <2>2. handled[c][i][1].n = s /\ s \in Nat
    BY <2>1, <1>1, HandlingStarts, Sizes
  <2>3. handled[c][i][1].n < p
    BY <1>1, <1>p DEF Ledger
  <2> QED
    BY <2>2, <2>3, <1>2, <1>3
<1>6. \A s \in Start \ {StreamSize} : Whole(c, s) => s + Size[s] <= read[c]
  <2>1. \A s \in Start \ {StreamSize} : Whole(c, s) => s + Size[s] <= p
    BY <1>1, <1>p DEF Ledger
  <2>2. \A s \in Start : s + Size[s] \in Nat
    BY Sizes
  <2> QED
    BY <2>1, <2>2, <1>2, <1>3
<1> QED
  BY <1>1, <1>3, <1>4, <1>5, <1>6 DEF Ledger

(* A step of a connection: a read, its end, or a round of its handler.     *)
StepOf(c) ==
    \/ \E k \in 1 .. BufSize : dlt_receiver_receive(c, k)
    \/ ReceiveNothing(c)
    \/ dlt_daemon_process_user_messages(c)

(* A step of a connection keeps its bytes and its ledger.                  *)
LEMMA OwnStep ==
  ASSUME IInv, NEW c \in Conn \ overwritten, StepOf(c)
  PROVE  (c \in open' => RetainedBy(c)') /\ Ledger(c)'
<1>1. ASSUME NEW k \in 1 .. BufSize, dlt_receiver_receive(c, k)
      PROVE  RetainedBy(c)' /\ Ledger(c)'
  BY <1>1, OwnReceive
<1>2. CASE ReceiveNothing(c)
  BY <1>2, OwnReceiveNothing
<1>3. CASE dlt_daemon_process_user_messages(c)
  <2>1. /\ running = c
        /\ \/ dlt_daemon_process_user_message_log(c)
           \/ dlt_daemon_process_user_message_unregister(c)
           \/ dlt_daemon_process_user_message_register(c)
           \/ dlt_daemon_process_user_message_not_sup(c)
           \/ \E o \in 1 .. BufSize : Resync(c, o) \/ HeaderCutOff(c, o)
           \/ Finish(c)
    BY <1>3, CalledForFront DEF dlt_daemon_process_user_messages
  <2> QED
    BY <2>1, OwnLogOrUnregister, OwnRegisterOrNotSup, OwnResync, OwnHeaderCutOff, OwnFinish
<1> QED
  BY <1>1, <1>2, <1>3 DEF StepOf

(* A step of another connection leaves the variables of c alone, and what  *)
(* it keeps only in the buffer, unless c is overwritten.                   *)
LEMMA StepOfAnother ==
  ASSUME IInv, NEW c \in Conn, c \notin overwritten', NEW d \in Conn, d # c, StepOf(d)
  PROVE  /\ c \notin overwritten
         /\ handled'[c] = handled[c] /\ buf'[c] = buf[c] /\ bytesRcvd'[c] = bytesRcvd[c]
         /\ backup'[c] = backup[c] /\ read'[c] = read[c] /\ ret'[c] = ret[c]
         /\ backup[c] = <<>> => \A p \in 0 .. bytesRcvd[c] - 1 : mem'[p] = mem[p]
         /\ running # c /\ running' # c
         /\ c \in open' <=> c \in open
<1>0. c # None /\ d # None /\ TypeOK
  BY ConnAssumption DEF IInv
<1>1. ASSUME NEW k \in Nat, mem' = Received(d, k), overwritten' = overwritten \cup Overwrites(d, k)
      PROVE  /\ c \notin overwritten
             /\ backup[c] = <<>> => \A p \in 0 .. bytesRcvd[c] - 1 : mem'[p] = mem[p]
  BY <1>1 DEF Overwrites
<1>2. ASSUME NEW k \in 1 .. BufSize, dlt_receiver_receive(d, k)
      PROVE  /\ c \notin overwritten
             /\ handled'[c] = handled[c] /\ buf'[c] = buf[c] /\ bytesRcvd'[c] = bytesRcvd[c]
             /\ backup'[c] = backup[c] /\ read'[c] = read[c] /\ ret'[c] = ret[c]
             /\ backup[c] = <<>> => \A p \in 0 .. bytesRcvd[c] - 1 : mem'[p] = mem[p]
             /\ running # c /\ running' # c /\ open' = open
  <2>1. backup'[c] = backup[c]
    BY <1>0, <1>2, TypeReceive
  <2>2. /\ mem' = Received(d, k) /\ overwritten' = overwritten \cup Overwrites(d, k)
        /\ buf' = [buf EXCEPT ![d] = 0]
        /\ bytesRcvd' = [bytesRcvd EXCEPT ![d] = @ + k]
        /\ read' = [read EXCEPT ![d] = @ + k]
        /\ ret' = [ret EXCEPT ![d] = "ok"]
        /\ running = None /\ running' = d /\ UNCHANGED <<open, handled>>
    BY <1>2 DEF dlt_receiver_receive
  <2>3. k \in Nat
    BY HeaderAssumption
  <2> QED
    BY <1>0, <1>1, <2>1, <2>2, <2>3 DEF TypeOK
<1>3. CASE ReceiveNothing(d)
  <2>1. /\ mem' = Received(d, 0) /\ overwritten' = overwritten \cup Overwrites(d, 0)
        /\ bytesRcvd' = [bytesRcvd EXCEPT ![d] = 0]
        /\ backup' = [backup EXCEPT ![d] = <<>>]
        /\ open' = open \ {d} /\ running = None
        /\ UNCHANGED <<buf, running, ret, read, handled>>
    BY <1>3 DEF ReceiveNothing
  <2> QED
    BY <1>0, <1>1, <2>1 DEF TypeOK
<1>4. ASSUME NEW n, NEW messages, NEW r, Takes(d, n, messages, r), running = d
      PROVE  /\ handled'[c] = handled[c] /\ buf'[c] = buf[c] /\ bytesRcvd'[c] = bytesRcvd[c]
             /\ ret'[c] = ret[c]
             /\ UNCHANGED <<mem, backup, open, running, read, overwritten>>
  BY <1>0, <1>4 DEF Takes, dlt_receiver_remove, TypeOK
<1>5. CASE dlt_daemon_process_user_messages(d) /\ ~Finish(d)
  <2>1. /\ running = d
        /\ Leaves(d) \/ \E n, messages, r : Takes(d, n, messages, r)
    <3>1. /\ running = d
          /\ \/ dlt_daemon_process_user_message_log(d)
             \/ dlt_daemon_process_user_message_unregister(d)
             \/ dlt_daemon_process_user_message_register(d)
             \/ dlt_daemon_process_user_message_not_sup(d)
             \/ Garbled(d)
             \/ \E o \in 1 .. BufSize : Resync(d, o) \/ HeaderCutOff(d, o)
      BY <1>5 DEF dlt_daemon_process_user_messages
    <3>2. dlt_daemon_process_user_message_log(d) =>
             Leaves(d) \/ \E n, messages, r : Takes(d, n, messages, r)
      BY DEF dlt_daemon_process_user_message_log
    <3>3. dlt_daemon_process_user_message_unregister(d) =>
             Leaves(d) \/ \E n, messages, r : Takes(d, n, messages, r)
      BY DEF dlt_daemon_process_user_message_unregister
    <3>4. dlt_daemon_process_user_message_register(d) =>
             Leaves(d) \/ \E n, messages, r : Takes(d, n, messages, r)
      BY DEF dlt_daemon_process_user_message_register
    <3>5. dlt_daemon_process_user_message_not_sup(d) =>
             \E n, messages, r : Takes(d, n, messages, r)
      BY DEF dlt_daemon_process_user_message_not_sup
    <3>6. Garbled(d) => Leaves(d) \/ \E n, messages, r : Takes(d, n, messages, r)
      BY DEF Garbled
    <3>7. \A o : Resync(d, o) \/ HeaderCutOff(d, o) =>
             \E n, messages, r : Takes(d, n, messages, r)
      BY DEF Resync, HeaderCutOff
    <3> QED
      BY <3>1, <3>2, <3>3, <3>4, <3>5, <3>6, <3>7
  <2>2. CASE Leaves(d)
    BY <1>0, <2>1, <2>2 DEF Leaves, TypeOK
  <2>3. CASE \E n, messages, r : Takes(d, n, messages, r)
    BY <1>0, <1>4, <2>1, <2>3
  <2> QED
    BY <2>1, <2>2, <2>3
<1>6. CASE dlt_daemon_process_user_messages(d) /\ Finish(d)
  <2>1. running = d /\ backup'[c] = backup[c]
    BY <1>0, <1>6, TypeFinish DEF dlt_daemon_process_user_messages
  <2> QED
    BY <1>0, <1>6, <2>1 DEF Finish
<1> QED
  BY <1>2, <1>3, <1>5, <1>6 DEF StepOf

(* So what a connection keeps outlives the steps of the others.            *)
LEMMA KeptByOthers ==
  ASSUME IInv, NEW c \in Conn, c \notin overwritten', NEW d \in Conn, d # c, StepOf(d)
  PROVE  (c \in open' => RetainedBy(c)') /\ Ledger(c)'
<1>1. /\ c \notin overwritten
      /\ handled'[c] = handled[c] /\ buf'[c] = buf[c] /\ bytesRcvd'[c] = bytesRcvd[c]
      /\ backup'[c] = backup[c] /\ read'[c] = read[c] /\ ret'[c] = ret[c]
      /\ backup[c] = <<>> => \A p \in 0 .. bytesRcvd[c] - 1 : mem'[p] = mem[p]
      /\ running # c /\ running' # c
      /\ c \in open' <=> c \in open
  BY StepOfAnother
<1>2. Passed(c)' = Passed(c)
  BY <1>1 DEF Passed
<1>3. Ledger(c)'
  <2>1. Ledger(c)
    BY <1>1 DEF IInv
  <2>2. /\ InOrder(c)' <=> InOrder(c)
        /\ \A s : Whole(c, s)' <=> Whole(c, s)
        /\ Excused(c)' <=> Excused(c)
        /\ NoneLeft(c)' <=> NoneLeft(c)
    BY <1>1, <1>2, SameHandled
  <2> QED
    BY <1>1, <1>2, <2>1, <2>2 DEF Ledger
<1>4. ASSUME c \in open' PROVE RetainedBy(c)'
  <2>1. RetainedBy(c) /\ bytesRcvd[c] \in Nat
    BY <1>1, <1>4 DEF IInv, Retained, TypeOK
  <2>2. backup[c] = <<>> => \A k \in 0 .. bytesRcvd[c] - 1 : At(c, k)' = At(c, k)
    <3> SUFFICES ASSUME backup[c] = <<>>, NEW k \in 0 .. bytesRcvd[c] - 1
                 PROVE  At(c, k)' = At(c, k)
      OBVIOUS
    <3>1. buf[c] = 0
      BY <2>1, <1>1 DEF RetainedBy
    <3>2. 0 + k = k
      OBVIOUS
    <3> QED
      BY <3>1, <3>2, <1>1 DEF At
  <2> QED
    BY <1>1, <1>2, <2>1, <2>2 DEF RetainedBy
<1> QED
  BY <1>3, <1>4

(* Only the handler of an open connection runs.                            *)
LEMMA RunningIsOpen ==
  ASSUME IInv, NEW c \in Conn, StepOf(c)
  PROVE  /\ running' # None => running' \in open'
         /\ overwritten \subseteq overwritten'
<1>1. running # None => running \in open
  BY DEF IInv, Retained
<1>2. ASSUME NEW n, NEW messages, NEW r, Takes(c, n, messages, r)
      PROVE  UNCHANGED <<running, open, overwritten>>
  BY <1>2 DEF Takes
<1>3. Leaves(c) => UNCHANGED <<running, open, overwritten>>
  BY DEF Leaves
<1>4. CASE dlt_daemon_process_user_messages(c)
  <2>1. \/ UNCHANGED <<running, open, overwritten>>
        \/ Finish(c)
    BY <1>2, <1>3, <1>4 DEF dlt_daemon_process_user_messages,
       dlt_daemon_process_user_message_log, dlt_daemon_process_user_message_unregister,
       dlt_daemon_process_user_message_register, dlt_daemon_process_user_message_not_sup,
       Garbled, Resync, HeaderCutOff
  <2> QED
    BY <1>1, <2>1 DEF Finish
<1>5. CASE ReceiveNothing(c)
  BY <1>1, <1>5 DEF ReceiveNothing
<1>6. ASSUME NEW k \in 1 .. BufSize, dlt_receiver_receive(c, k)
      PROVE  /\ running' # None => running' \in open'
             /\ overwritten \subseteq overwritten'
  BY <1>6 DEF dlt_receiver_receive
<1> QED
  BY <1>4, <1>5, <1>6 DEF StepOf

(* Every step preserves the invariant.                                     *)
LEMMA InvariantStep == IInv /\ [Next]_vars => IInv'
<1> SUFFICES ASSUME IInv, [Next]_vars PROVE IInv'
  OBVIOUS
<1>1. TypeOK'
  BY TypeStep DEF IInv
<1>2. CASE UNCHANGED vars
  <2>1. \A c \in Conn \ overwritten' : Ledger(c)'
    <3> SUFFICES ASSUME NEW c \in Conn \ overwritten' PROVE Ledger(c)'
      OBVIOUS
    <3>1. /\ c \in Conn \ overwritten /\ handled' = handled /\ read' = read /\ open' = open
          /\ running' = running /\ ret' = ret /\ bytesRcvd' = bytesRcvd
      BY <1>2 DEF vars
    <3>2. Ledger(c) /\ Passed(c)' = Passed(c)
      BY <3>1 DEF IInv, Passed
    <3>3. /\ InOrder(c)' <=> InOrder(c)
          /\ \A s : Whole(c, s)' <=> Whole(c, s)
          /\ Excused(c)' <=> Excused(c)
          /\ NoneLeft(c)' <=> NoneLeft(c)
      BY <3>1, <3>2, SameHandled
    <3> QED
      BY <3>1, <3>2, <3>3 DEF Ledger
  <2>2. Retained'
    BY <1>2 DEF vars, IInv, Retained, RetainedBy, At, Passed
  <2> QED
    BY <1>1, <2>1, <2>2 DEF IInv
<1>3. ASSUME NEW c \in Conn, StepOf(c) PROVE IInv'
  <2>1. \A d \in Conn \ overwritten' : (d \in open' => RetainedBy(d)') /\ Ledger(d)'
    <3> SUFFICES ASSUME NEW d \in Conn \ overwritten'
                 PROVE  (d \in open' => RetainedBy(d)') /\ Ledger(d)'
      OBVIOUS
    <3>1. CASE d = c
      BY <1>3, <3>1, OwnStep, RunningIsOpen
    <3>2. CASE d # c
      BY <1>3, <3>2, KeptByOthers
    <3> QED
      BY <3>1, <3>2
  <2>2. \A d \in Conn : (buf[d] + bytesRcvd[d] <= BufSize)'
    BY <1>1 DEF TypeOK
  <2>3. open' \subseteq Conn
    BY <1>1 DEF TypeOK
  <2> QED
    BY <1>1, <1>3, <2>1, <2>2, <2>3, RunningIsOpen DEF IInv, Retained
<1> QED
  BY <1>2, <1>3 DEF Next, StepOf

-----------------------------------------------------------------------------
(* Only an open connection's handler runs, no receiver counts bytes        *)
(* outside the buffer, and an open receiver keeps the bytes it read last,  *)
(* whatever the others do, unless one's read fell on them while they lay   *)
(* at the front of app_recv_buffer only (dlt_receiver_receive,             *)
(* dlt_receiver_move_to_begin).                                            *)
THEOREM RetainedTheorem == Spec => []Retained
<1>1. IInv => Retained
  BY DEF IInv
<1> QED
  BY InitInvariant, InvariantStep, <1>1, PTL DEF Spec

(* What dlt_daemon_process_user_messages handles of a connection that was  *)
(* not overwritten are its messages, in order and none twice; one is lost  *)
(* only as a registration, a type without a handler, or behind one not     *)
(* handled whole; and a complete one is left only if a handler that took   *)
(* its message answered -1.                                                *)
THEOREM HandledIntactTheorem == Spec => []HandledIntact
<1>1. IInv => HandledIntact
  BY DEF IInv, Ledger, HandledIntact
<1> QED
  BY InitInvariant, InvariantStep, <1>1, PTL DEF Spec
==============================================================================
