------------------------------- MODULE DltFifo -------------------------------
(***************************************************************************)
(* What a DltBuffer promises its users (the user library's startup buffer  *)
(* and the daemon's client ring buffer): a bounded FIFO queue of whole     *)
(* messages.  A message is queued entirely or refused, what is read is the *)
(* oldest queued message byte for byte, and nothing else ever leaves the   *)
(* queue.                                                                  *)
(***************************************************************************)
EXTENDS Naturals, Sequences

CONSTANTS
    Msg,          \* the messages
    Need(_),      \* bytes a message occupies in the buffer, block header included
    Content(_),   \* the bytes of a message
    Floor,        \* a message is never refused while it fits in this many bytes
    Ceiling       \* bytes the buffer can never exceed

VARIABLES
    queue,        \* the messages queued, oldest first
    used,         \* bytes they occupy
    out           \* the result of the last call

vars == <<queue, used, out>>

OK == [res |-> "ok"]
ERROR == [res |-> "error"]

Init == queue = <<>> /\ used = 0 /\ out = OK

Push(m) ==
    /\ used + Need(m) <= Ceiling
    /\ queue' = Append(queue, m)
    /\ used' = used + Need(m)
    /\ out' = OK

Refuse(m) ==
    /\ used + Need(m) > Floor
    /\ out' = ERROR
    /\ UNCHANGED <<queue, used>>

Pull ==
    /\ queue # <<>>
    /\ out' = [res |-> "data", data |-> Content(Head(queue))]
    /\ queue' = Tail(queue)
    /\ used' = used - Need(Head(queue))

Copy ==
    /\ queue # <<>>
    /\ out' = [res |-> "data", data |-> Content(Head(queue))]
    /\ UNCHANGED <<queue, used>>

Remove ==
    /\ queue # <<>>
    /\ out' = OK
    /\ queue' = Tail(queue)
    /\ used' = used - Need(Head(queue))

Empty ==
    /\ queue = <<>>
    /\ out' = ERROR
    /\ UNCHANGED <<queue, used>>

Next ==
    \/ \E m \in Msg : Push(m) \/ Refuse(m)
    \/ Pull
    \/ Copy
    \/ Remove
    \/ Empty

Spec == Init /\ [][Next]_vars
==============================================================================
