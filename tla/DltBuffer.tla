------------------------------ MODULE DltBuffer ------------------------------
(***************************************************************************)
(* The ring buffer of src/shared/dlt_common.c (dlt_buffer_...): a byte ring*)
(* that holds blocks (block header + payload), grows by step_size up to    *)
(* max_size when a block does not fit, and shrinks back to min_size when   *)
(* its last block is deleted.  The user library queues messages in it      *)
(* while the daemon is away (startup_buffer), the daemon while no client   *)
(* is connected (client_ringbuffer).                                       *)
(*                                                                         *)
(* Memory is modelled cell by cell: a cell is one byte, and holds either   *)
(* byte number off of the block of message msg (the bytes below BlockHead  *)
(* are the block header), the zero of a memset, or what malloc returned.   *)
(* All callers hold a lock around a call, so a call is one action, except  *)
(* dlt_buffer_push3, whose growing loop is one action per iteration.       *)
(***************************************************************************)
EXTENDS Integers, Sequences

CONSTANTS
    Msg,         \* the messages callers push
    Parts,       \* the sizes size1, size2, size3 of the parts of each message
    BufferHead,  \* sizeof(DltBufferHead)
    BlockHead,   \* sizeof(DltBufferBlockHead)
    min_size, max_size, step_size,
    Zero,        \* a cell cleared by memset
    Junk,        \* a cell of a fresh malloc, never written
    NoMsg

(* push3's size1 + size2 + size3: head.size of the block                   *)
Length(m) == Parts[m][1] + Parts[m][2] + Parts[m][3]

(* the bytes a message needs: sizeof(DltBufferBlockHead) + size1 + size2 + size3 *)
Need(m) == BlockHead + Length(m)

ASSUME PartsAssumption == Parts \in [Msg -> Nat \X Nat \X Nat]
ASSUME HeadAssumption == BufferHead \in Nat \ {0} /\ BlockHead \in Nat \ {0}

(* dlt_buffer_init_dynamic refuses other parameters; a static buffer has   *)
(* step_size = 0.                                                          *)
ASSUME SizeAssumption ==
    /\ min_size \in Nat /\ max_size \in Nat /\ step_size \in Nat
    /\ BufferHead < min_size /\ min_size <= max_size /\ step_size <= max_size

(* Every message fits in an empty ring of the smallest size, so that an    *)
(* empty ring is never grown (see dlt_buffer_increase_size).               *)
MessagesFit == \A m \in Msg : Need(m) <= min_size - BufferHead

ASSUME ValueAssumption ==
    /\ NoMsg \notin Msg
    /\ Zero \notin [msg : Msg, off : Nat]
    /\ Junk \notin [msg : Msg, off : Nat]

VARIABLES
    size,        \* buf->size: bytes of the ring, DltBufferHead excluded
    mem,         \* buf->mem
    write, read, count,   \* the DltBufferHead in front of the ring
    pending,     \* the message of the dlt_buffer_push3 in progress, or NoMsg
    out,         \* the result of the last call that returned
    queue,       \* history: the messages accepted and not yet deleted
    at,          \* history: distance of each block from the read pointer
    used         \* history: bytes of the queued blocks

buf == <<size, mem, write, read, count>>
hist == <<queue, at, used>>
vars == <<size, mem, write, read, count, pending, out, queue, at, used>>

OK == [res |-> "ok"]
ERROR == [res |-> "error"]
Data(d) == [res |-> "data", data |-> d]

Cells(n, c) == [p \in 0 .. n - 1 |-> c]
Block(m, k) == [msg |-> m, off |-> k]

(* The payload of m, as the reader must see it.                            *)
Payload(m) == [k \in 1 .. Length(m) |-> Block(m, BlockHead + k - 1)]

-----------------------------------------------------------------------------
(* Pointer arithmetic.  A pointer that reaches the end of the ring stays   *)
(* at size; it wraps when the next byte is touched.                        *)

Advance(sz, ptr, n) == IF ptr + n <= sz THEN ptr + n ELSE ptr + n - sz

(* the cell at distance k from the pointer ptr                             *)
CellAt(sz, ptr, k) == IF ptr + k < sz THEN ptr + k ELSE ptr + k - sz

(* the distance from the pointer ptr to cell p                             *)
Distance(sz, ptr, p) == IF ptr <= p THEN p - ptr ELSE p + sz - ptr

(* dlt_buffer_write_block: n bytes of m, from its byte number k, at w      *)
dlt_buffer_write_block(b, m, k, n) ==
    IF n <= size
    THEN [mem |-> [p \in 0 .. size - 1 |->
                      IF Distance(size, b.write, p) < n
                      THEN Block(m, k + Distance(size, b.write, p))
                      ELSE b.mem[p]],
          write |-> Advance(size, b.write, n)]
    ELSE b

(* dlt_buffer_read_block: the n bytes at distance 0 .. n-1 from r          *)
dlt_buffer_read_block(r, n) == [k \in 1 .. n |-> mem[CellAt(size, r, k - 1)]]

(* mutant: a full ring counts as empty                                     *)
FreeSize_FullIsEmpty == IF read > write THEN read - write ELSE size - write + read

FreeSize ==
    IF read > write THEN read - write
    ELSE IF count # 0 /\ write = read THEN 0
    ELSE size - write + read

UsedSize == IF write > read THEN write - read ELSE size - read + write

(* mutant: nothing is copied from a full ring                              *)
CopySize_FullIsEmpty == IF read <= write THEN write - read ELSE size + write - read

(* the bytes dlt_buffer_increase_size copies: an empty ring counts as full *)
CopySize == IF read < write THEN write - read ELSE size + write - read

PointersOutOfRange == read > size \/ write > size

(* dlt_buffer_reset                                                        *)
dlt_buffer_reset ==
    /\ write' = 0 /\ read' = 0 /\ count' = 0
    /\ mem' = Cells(size, Zero)
    /\ size' = size
    /\ UNCHANGED hist

(* dlt_buffer_minimize_size: malloc may fail, and nothing changes then.  r *)
(* is the read pointer left by the deletion.                               *)
dlt_buffer_minimize_size(mallocs, r) ==
    IF size + BufferHead = min_size \/ ~mallocs
    THEN /\ read' = r
         /\ UNCHANGED <<size, mem, write>>
    ELSE /\ size' = min_size - BufferHead
         /\ mem' = Cells(min_size - BufferHead, Zero)
         /\ write' = 0 /\ read' = 0

-----------------------------------------------------------------------------
(* dlt_buffer_init_dynamic, dlt_buffer_init_static_server                  *)
Init ==
    /\ size = min_size - BufferHead
    /\ mem = Cells(min_size - BufferHead, Zero)
    /\ write = 0 /\ read = 0 /\ count = 0
    /\ pending = NoMsg
    /\ out = OK
    /\ queue = <<>> /\ at = <<>> /\ used = 0

(* dlt_buffer_push3 up to its loop                                         *)
dlt_buffer_push3(m) ==
    /\ pending = NoMsg
    /\ IF PointersOutOfRange
       THEN dlt_buffer_reset /\ out' = ERROR /\ pending' = NoMsg
       ELSE pending' = m /\ UNCHANGED <<buf, hist, out>>

(* mutant: the bytes are copied from the start of the ring                 *)
dlt_buffer_increase_size_CopiesFlat ==
    /\ pending # NoMsg
    /\ FreeSize < Need(pending)
    /\ step_size # 0
    /\ size + BufferHead + step_size <= max_size
    /\ size' = size + step_size
    /\ mem' = [p \in 0 .. size + step_size - 1 |->
                 IF p < CopySize /\ p < size THEN mem[p] ELSE Junk]
    /\ read' = 0
    /\ write' = CopySize
    /\ UNCHANGED <<count, pending, out, hist>>

(* One iteration of the loop: dlt_buffer_increase_size succeeds.           *)
dlt_buffer_increase_size ==
    /\ pending # NoMsg
    /\ FreeSize < Need(pending)
    /\ step_size # 0
    /\ size + BufferHead + step_size <= max_size
    /\ size' = size + step_size
    /\ mem' = [p \in 0 .. size + step_size - 1 |->
                 IF p < CopySize THEN mem[CellAt(size, read, p)] ELSE Junk]
    /\ read' = 0
    /\ write' = CopySize
    /\ UNCHANGED <<count, pending, out, hist>>

(* dlt_buffer_increase_size fails: no step, max_size reached, or malloc.   *)
PushFull ==
    /\ pending # NoMsg
    /\ FreeSize < Need(pending)
    /\ pending' = NoMsg
    /\ out' = ERROR
    /\ UNCHANGED <<buf, hist>>

(* The block is written: header, then each part.                           *)
Written(m) ==
    LET b0 == [mem |-> mem, write |-> write]
        b1 == dlt_buffer_write_block(b0, m, 0, BlockHead)
        b2 == dlt_buffer_write_block(b1, m, BlockHead, Parts[m][1])
        b3 == dlt_buffer_write_block(b2, m, BlockHead + Parts[m][1], Parts[m][2])
    IN  dlt_buffer_write_block(b3, m, BlockHead + Parts[m][1] + Parts[m][2], Parts[m][3])

PushWrite ==
    /\ pending # NoMsg
    /\ FreeSize >= Need(pending)
    /\ mem' = Written(pending).mem
    /\ write' = Written(pending).write
    /\ count' = count + 1
    /\ pending' = NoMsg
    /\ out' = OK
    /\ queue' = Append(queue, pending)
    /\ at' = Append(at, used)
    /\ used' = used + Need(pending)
    /\ UNCHANGED <<size, read>>

-----------------------------------------------------------------------------
(* dlt_buffer_get                                                          *)

HeadCell(j) == mem[CellAt(size, read, j)]
HeadValid == \A j \in 0 .. BlockHead - 1 : HeadCell(j) \in [msg : Msg, off : {j}]
HeadSize == Length(HeadCell(BlockHead - 1).msg)

(* dlt_buffer_get finds the ring corrupt and resets it                     *)
Corrupt ==
    \/ PointersOutOfRange \/ count < 0
    \/ count = 0 /\ write # read
    \/ /\ count > 0
       /\ \/ UsedSize < BlockHead
          \/ ~HeadValid
          \/ UsedSize < BlockHead + HeadSize

Result == Data(dlt_buffer_read_block(Advance(size, read, BlockHead), HeadSize))

(* the delete branch: the read pointer passes the block, and deleting the  *)
(* last block minimizes the ring                                           *)
Delete ==
    LET r == Advance(size, Advance(size, read, BlockHead), HeadSize)
    IN  /\ count' = count - 1
        /\ IF count = 1
           THEN \E mallocs \in BOOLEAN : dlt_buffer_minimize_size(mallocs, r)
           ELSE read' = r /\ UNCHANGED <<size, mem, write>>
        /\ queue' = Tail(queue)
        /\ at' = [i \in 1 .. Len(at) - 1 |-> at[i + 1] - Need(queue[1])]
        /\ used' = used - Need(queue[1])

(* no block to read: the ring is empty, or corrupt and reset               *)
GetFails ==
    /\ count = 0 \/ Corrupt
    /\ IF Corrupt THEN dlt_buffer_reset ELSE UNCHANGED <<buf, hist>>
    /\ out' = ERROR

GetSucceeds == count # 0 /\ ~Corrupt

(* dlt_buffer_get(buf, data, max_size, 1)                                  *)
dlt_buffer_pull ==
    /\ pending = NoMsg
    /\ GetFails \/ (GetSucceeds /\ out' = Result /\ Delete)
    /\ UNCHANGED pending

(* dlt_buffer_get(buf, data, max_size, 0)                                  *)
dlt_buffer_copy ==
    /\ pending = NoMsg
    /\ GetFails \/ (GetSucceeds /\ out' = Result /\ UNCHANGED <<buf, hist>>)
    /\ UNCHANGED pending

(* dlt_buffer_get(buf, 0, 0, 1)                                            *)
dlt_buffer_remove ==
    /\ pending = NoMsg
    /\ GetFails \/ (GetSucceeds /\ out' = OK /\ Delete)
    /\ UNCHANGED pending

Next ==
    \/ \E m \in Msg : dlt_buffer_push3(m)
    \/ dlt_buffer_increase_size
    \/ PushFull
    \/ PushWrite
    \/ dlt_buffer_pull
    \/ dlt_buffer_copy
    \/ dlt_buffer_remove

Spec == Init /\ [][Next]_vars

-----------------------------------------------------------------------------
TypeOK ==
    /\ size \in Nat /\ min_size - BufferHead <= size /\ size <= max_size - BufferHead
    /\ mem \in [0 .. size - 1 -> [msg : Msg, off : Nat] \cup {Zero, Junk}]
    /\ read \in 0 .. size /\ write \in 0 .. size
    /\ count \in Nat
    /\ pending \in Msg \cup {NoMsg}
    /\ queue \in Seq(Msg) /\ at \in Seq(Nat)
    /\ used \in Nat

(* The blocks of the queued messages lie back to back from the read        *)
(* pointer, and end at the write pointer: together with the two values     *)
(* (full or empty) of read = write this is what FreeSize, UsedSize and     *)
(* dlt_buffer_increase_size rely on.                                       *)
Chained ==
    /\ Len(queue) = count /\ Len(at) = count
    /\ count = 0 => used = 0
    /\ count > 0 => at[1] = 0 /\ at[count] + Need(queue[count]) = used
    /\ \A i \in 1 .. count : at[i] + Need(queue[i]) <= used
    /\ \A i, j \in 1 .. count : i < j => at[i] + Need(queue[i]) <= at[j]
    /\ \A i \in 1 .. count - 1 : at[i + 1] = at[i] + Need(queue[i])

Pointers == used <= size /\ write = Advance(size, read, used)

(* Every byte of every queued message is where the reader will look for it,*)
(* whatever wraps, growths and shrinks happened in between.                *)
Stored ==
    \A i \in 1 .. count : \A k \in 0 .. Need(queue[i]) - 1 :
        mem[CellAt(size, read, at[i] + k)] = Block(queue[i], k)

Layout == Chained /\ Pointers /\ Stored

(* dlt_buffer_get never finds the ring corrupt, so no queued message is    *)
(* dropped by a reset.                                                     *)
NeverCorrupt == pending = NoMsg => ~Corrupt

(* "Write one entry to the ringbuffer ... negative value if there was an   *)
(* error" (dlt_buffer_push, dlt_common.h): while a message that was        *)
(* accepted is queued, dlt_buffer_get does not find the ring corrupt.      *)
AcceptedIsReadable == pending = NoMsg /\ queue # <<>> => ~Corrupt

(* The bounded FIFO queue of DltFifo: whatever wraps and growths happen,   *)
(* messages come out whole, once, in the order they were accepted, and one *)
(* is refused only when it does not fit beside the others in the smallest  *)
(* ring.                                                                   *)
Fifo == INSTANCE DltFifo WITH
    Content <- Payload, Floor <- min_size - BufferHead, Ceiling <- max_size - BufferHead

FifoSpec == Fifo!Spec
==============================================================================
