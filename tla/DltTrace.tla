------------------------------ MODULE DltTrace ------------------------------
(***************************************************************************)
(* Network traces of the user library (dlt_user.c): a trace that does not  *)
(* fit a message is sent in segments.  The calling thread sends the start  *)
(* and puts the data into a message queue; one thread of the library takes *)
(* it out, sends the segments and the end, and frees it.                   *)
(*                                                                         *)
(* Lengths are octets.  What the library does with a message it has built  *)
(* is in DltUser; here it reaches the daemon, or the ring buffer while the *)
(* daemon is away, or finds the ring buffer full.                          *)
(***************************************************************************)
EXTENDS Integers, Sequences, FiniteSets

CONSTANTS
    Tracers,            \* threads that trace
    TraceIds,           \* values of the microseconds that serve as stream handle
    Payloads,           \* lengths that are traced
    HeaderLength,
    LogLength,          \* dlt_user.log_buf_len
    SegmentSize,        \* DLT_MAX_TRACE_SEGMENT_SIZE
    QueueSize,          \* mq_maxmsg
    RingSize,           \* messages that fit the ring buffer
    MaxTraces,          \* bound: calls
    MaxSwitches         \* bound: changes of the trace status, and of the daemon

ASSUME TraceAssumption ==
    /\ Payloads \subseteq Nat \ {0} /\ HeaderLength \in Nat /\ LogLength \in Nat
    /\ SegmentSize \in Nat \ {0} /\ QueueSize \in Nat \ {0} /\ RingSize \in Nat
    /\ MaxTraces \in Nat /\ MaxSwitches \in Nat

VARIABLES
    jobs,       \* s_segmented_data: [id, payload, gap, frees], gap: a segment was not sent
    tracer,     \* per thread: the job it is about to queue, 0 if none
    mq,         \* the message queue
    segmenter,  \* its thread: [job, offset, sequence, step]
    wire,       \* network trace messages in the order they were taken
    ring,       \* messages in the ring buffer
    daemonIs,   \* "there" or "away"
    traceOn,    \* the context's trace status
    switches

nwVars == <<jobs, tracer, mq, segmenter, wire, ring, daemonIs, traceOn, switches>>

TypeInfoSize == 4
StringNeeds == TypeInfoSize + 2 + 5     \* "NWST", "NWCH", "NWEN", "NWTR" with their zero
NumberNeeds(w) == TypeInfoSize + w
RawNeeds(n) == TypeInfoSize + 2 + n

(***************************************************************************)
(* dlt_user_log_send_log: "ok" or "full".                                  *)
(***************************************************************************)
Sending == IF daemonIs = "there" \/ ring < RingSize THEN "ok" ELSE "full"

Sends(e) ==
    IF Sending = "full" THEN UNCHANGED <<wire, ring>>
    ELSE /\ wire' = Append(wire, e)
         /\ ring' = IF daemonIs = "there" THEN 0 ELSE ring + 1

(* Less than half of the ring is free. *)
check_buffer == RingSize - ring >= RingSize \div 2

(***************************************************************************)
(* Sizes.                                                                  *)
(***************************************************************************)
SegmentCount(payload) ==
    payload \div SegmentSize + IF payload % SegmentSize = 0 THEN 0 ELSE 1

StartFits ==
    StringNeeds + NumberNeeds(4) + RawNeeds(HeaderLength) + NumberNeeds(4)
        + NumberNeeds(2) + NumberNeeds(2) <= LogLength

SegmentFits(n) == StringNeeds + NumberNeeds(4) + NumberNeeds(2) + RawNeeds(n) <= LogLength

TooLong(payload) == HeaderLength + payload + 2 > LogLength

TruncatedLength == LogLength - (StringNeeds + RawNeeds(HeaderLength) + NumberNeeds(4)) - 2 - TypeInfoSize

(* What one message takes of a payload; 0: it is refused. *)
PlainLength(payload) ==
    IF TooLong(payload)
    THEN IF TruncatedLength >= 0 THEN TruncatedLength ELSE 0
    ELSE IF RawNeeds(HeaderLength) + RawNeeds(payload) <= LogLength THEN payload ELSE 0

(***************************************************************************)
(* The calling threads.                                                    *)
(***************************************************************************)
Fresh(t) == tracer[t] = 0 /\ Len(jobs) < MaxTraces

(* One message, truncated if need be; a job records that it was asked for. *)
dlt_user_trace_network_truncated(t, payload) ==
    /\ Fresh(t)
    /\ LET n == PlainLength(payload)
           sent == traceOn /\ n > 0
       IN  /\ IF sent THEN Sends([is |-> "plain", of |-> payload, length |-> n])
              ELSE UNCHANGED <<wire, ring>>
           /\ jobs' = Append(jobs, [id |-> 0, payload |-> payload, gap |-> FALSE, frees |-> 1])
    /\ UNCHANGED <<tracer, mq, segmenter, daemonIs, traceOn, switches>>

(* Copies the data and sends the start.  Without tracing the start counts  *)
(* as sent, and the handle is whatever the memory held.                    *)
dlt_user_trace_network_segmented_start(t, payload) ==
    /\ Fresh(t)
    /\ \E id \in TraceIds :
          LET failed == traceOn /\ (~StartFits \/ Sending = "full")
          IN  /\ IF traceOn /\ StartFits
                 THEN Sends([is |-> "start", id |-> id, payload |-> payload,
                             count |-> SegmentCount(payload)])
                 ELSE UNCHANGED <<wire, ring>>
              /\ jobs' = Append(jobs, [id |-> id, payload |-> payload, gap |-> ~traceOn,
                                       frees |-> IF failed THEN 1 ELSE 0])
              /\ tracer' = IF failed THEN tracer ELSE [tracer EXCEPT ![t] = Len(jobs) + 1]
    /\ UNCHANGED <<mq, segmenter, daemonIs, traceOn, switches>>

(* As one message if the payload seems to fit one. *)
dlt_user_trace_network_segmented(t) ==
    \E p \in Payloads :
        IF HeaderLength + p + 2 < LogLength
        THEN dlt_user_trace_network_truncated(t, p)
        ELSE dlt_user_trace_network_segmented_start(t, p)

dlt_user_trace_network(t) == \E p \in Payloads : TooLong(p) /\ dlt_user_trace_network_truncated(t, p)

(* mutant: the data stays allocated when the queue is full *)
QueuesTrace_Leaks(t) ==
    /\ tracer[t] # 0 /\ tracer' = [tracer EXCEPT ![t] = 0]
    /\ mq' = IF Len(mq) < QueueSize THEN Append(mq, tracer[t]) ELSE mq
    /\ UNCHANGED <<jobs, segmenter, wire, ring, daemonIs, traceOn, switches>>
(* dlt_init_message_queue and mq_send; the queue does not block. *)
QueuesTrace(t) ==
    /\ tracer[t] # 0 /\ tracer' = [tracer EXCEPT ![t] = 0]
    /\ IF Len(mq) < QueueSize
       THEN mq' = Append(mq, tracer[t]) /\ UNCHANGED jobs
       ELSE jobs' = [jobs EXCEPT ![tracer[t]].frees = @ + 1] /\ UNCHANGED mq
    /\ UNCHANGED <<segmenter, wire, ring, daemonIs, traceOn, switches>>

(* The queue cannot be created. *)
QueueFails(t) ==
    /\ tracer[t] # 0 /\ mq = <<>> /\ segmenter.step = "idle"
    /\ tracer' = [tracer EXCEPT ![t] = 0]
    /\ jobs' = [jobs EXCEPT ![tracer[t]].frees = @ + 1]
    /\ UNCHANGED <<mq, segmenter, wire, ring, daemonIs, traceOn, switches>>

(***************************************************************************)
(* The thread that sends segments.                                         *)
(***************************************************************************)
NoSegment == [job |-> 0, offset |-> 0, sequence |-> 0, step |-> "idle"]

dlt_user_trace_network_segmented_thread ==
    /\ segmenter.step = "idle" /\ mq # <<>>
    /\ segmenter' = [NoSegment EXCEPT !.job = Head(mq), !.step = "segment"]
    /\ mq' = Tail(mq)
    /\ UNCHANGED <<jobs, tracer, wire, ring, daemonIs, traceOn, switches>>

NextLength ==
    LET left == jobs[segmenter.job].payload - segmenter.offset
    IN  IF left < SegmentSize THEN left ELSE SegmentSize

(* While the ring buffer is more than half full it waits, and resends. *)
SegmenterWaits ==
    /\ segmenter.step = "segment" /\ NextLength > 0 /\ ~check_buffer
    /\ daemonIs = "there" /\ ring > 0
    /\ ring' = 0
    /\ UNCHANGED <<jobs, tracer, mq, segmenter, wire, daemonIs, traceOn, switches>>

(* Then it sends; others may fill the ring buffer in between. *)
SegmenterChecks ==
    /\ segmenter.step = "segment" /\ NextLength > 0 /\ check_buffer
    /\ segmenter' = [segmenter EXCEPT !.step = "send"]
    /\ UNCHANGED <<jobs, tracer, mq, wire, ring, daemonIs, traceOn, switches>>

(* mutant: a segment that was not sent is tried no more, but the next one is *)
SegmenterSends_GoesOn ==
    /\ segmenter.step = "send"
    /\ LET j == segmenter.job
           failed == traceOn /\ (~SegmentFits(NextLength) \/ Sending = "full")
       IN  /\ IF traceOn /\ SegmentFits(NextLength)
              THEN Sends([is |-> "segment", id |-> jobs[j].id, sequence |-> segmenter.sequence,
                          offset |-> segmenter.offset, length |-> SegmentSize])
              ELSE UNCHANGED <<wire, ring>>
           /\ jobs' = [jobs EXCEPT ![j].gap = @ \/ ~traceOn \/ failed]
           /\ segmenter' = [segmenter EXCEPT !.sequence = @ + 1, !.offset = @ + NextLength,
                                                !.step = "segment"]
    /\ UNCHANGED <<tracer, mq, daemonIs, traceOn, switches>>
(* A segment that cannot be sent ends the loop; one that is not traced is  *)
(* passed over.                                                            *)
SegmenterSends ==
    /\ segmenter.step = "send"
    /\ LET j == segmenter.job
           failed == traceOn /\ (~SegmentFits(NextLength) \/ Sending = "full")
       IN  /\ IF traceOn /\ SegmentFits(NextLength)
              THEN Sends([is |-> "segment", id |-> jobs[j].id, sequence |-> segmenter.sequence,
                          offset |-> segmenter.offset, length |-> NextLength])
              ELSE UNCHANGED <<wire, ring>>
           /\ jobs' = [jobs EXCEPT ![j].gap = @ \/ ~traceOn \/ failed]
           /\ segmenter' = IF failed THEN [segmenter EXCEPT !.step = "end"]
                           ELSE [segmenter EXCEPT !.sequence = @ + 1, !.offset = @ + NextLength,
                                                  !.step = "segment"]
    /\ UNCHANGED <<tracer, mq, daemonIs, traceOn, switches>>

SegmentsDone ==
    /\ segmenter.step = "segment" /\ NextLength = 0
    /\ segmenter' = [segmenter EXCEPT !.step = "end"]
    /\ UNCHANGED <<jobs, tracer, mq, wire, ring, daemonIs, traceOn, switches>>

(* The end is sent after segments that were given up, too. *)
dlt_user_trace_network_segmented_end ==
    /\ segmenter.step = "end"
    /\ IF traceOn THEN Sends([is |-> "end", id |-> jobs[segmenter.job].id])
       ELSE UNCHANGED <<wire, ring>>
    /\ jobs' = [jobs EXCEPT ![segmenter.job].frees = @ + 1]
    /\ segmenter' = NoSegment
    /\ UNCHANGED <<tracer, mq, daemonIs, traceOn, switches>>

(***************************************************************************)
(* The surroundings.                                                       *)
(***************************************************************************)
DaemonLeaves ==
    /\ daemonIs = "there" /\ switches < MaxSwitches
    /\ daemonIs' = "away" /\ switches' = switches + 1
    /\ UNCHANGED <<jobs, tracer, mq, segmenter, wire, ring, traceOn>>

DaemonReturns ==
    /\ daemonIs = "away" /\ daemonIs' = "there"
    /\ UNCHANGED <<jobs, tracer, mq, segmenter, wire, ring, traceOn, switches>>

StatusChanges ==
    /\ switches < MaxSwitches
    /\ traceOn' = ~traceOn /\ switches' = switches + 1
    /\ UNCHANGED <<jobs, tracer, mq, segmenter, wire, ring, daemonIs>>

TraceInitial ==
    /\ jobs = <<>> /\ tracer = [t \in Tracers |-> 0] /\ mq = <<>>
    /\ segmenter = NoSegment /\ wire = <<>> /\ ring = 0
    /\ daemonIs = "there" /\ traceOn \in BOOLEAN /\ switches = 0

Segmenter ==
    \/ dlt_user_trace_network_segmented_thread \/ SegmenterWaits \/ SegmenterChecks \/ SegmenterSends
    \/ SegmentsDone \/ dlt_user_trace_network_segmented_end

TracersNext ==
    \/ \E t \in Tracers : \/ dlt_user_trace_network_segmented(t) \/ dlt_user_trace_network(t)
                          \/ QueuesTrace(t) \/ QueueFails(t)
    \/ Segmenter \/ DaemonLeaves \/ DaemonReturns \/ StatusChanges

(* The threads run, and a daemon that left comes back. *)
TracersFairness ==
    /\ WF_nwVars(Segmenter) /\ WF_nwVars(DaemonReturns)
    /\ \A t \in Tracers : WF_nwVars(QueuesTrace(t))

(***************************************************************************)
(* Properties.                                                             *)
(***************************************************************************)
JobsWith(id) == {j \in DOMAIN jobs : jobs[j].id = id}
Pieces(id) == SelectSeq(wire, LAMBDA e : e.is = "segment" /\ e.id = id)
Sent(what, id) == \E k \in DOMAIN wire : wire[k].is = what /\ wire[k].id = id

(* A trace whose stream handle no other trace has can be put together from *)
(* what was sent, whatever other threads trace meanwhile, whether the      *)
(* daemon goes or tracing is switched: its segments come in order, fit the *)
(* payload and are no more than announced; as many as announced are the    *)
(* whole payload, and without a failure or a switch they are all there     *)
(* before the end.  Its data is freed once.                                *)
TraceReassembles ==
    /\ \A j \in DOMAIN jobs : jobs[j].frees <= 1
    /\ \A id \in TraceIds : Cardinality(JobsWith(id)) = 1 =>
        LET j == CHOOSE k \in JobsWith(id) : TRUE
            p == Pieces(id)
            whole == /\ p # <<>> /\ p[1].offset = 0
                     /\ \A k \in 1..(Len(p) - 1) : p[k + 1].offset = p[k].offset + p[k].length
                     /\ p[Len(p)].offset + p[Len(p)].length = jobs[j].payload
        IN  /\ \A k \in 1..(Len(p) - 1) : p[k].sequence < p[k + 1].sequence
            /\ \A k \in DOMAIN p : p[k].offset + p[k].length <= jobs[j].payload
            /\ \A k \in DOMAIN wire : wire[k].is = "start" /\ wire[k].id = id =>
                  /\ Len(p) <= wire[k].count
                  /\ Len(p) = wire[k].count => whole
                  /\ Sent("end", id) /\ ~jobs[j].gap => Len(p) = wire[k].count

(* Every trace is in the end done with: queued data is taken out, sent or  *)
(* given up, and freed, also when the daemon was away meanwhile.           *)
TracesEnd ==
    \A j \in 1..MaxTraces :
        (j \in DOMAIN jobs) ~> (j \in DOMAIN jobs /\ jobs[j].frees = 1)
=============================================================================
