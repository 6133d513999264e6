------------------------------- MODULE DltUser -------------------------------
(***************************************************************************)
(* The application side of the FIFO: threads that log, the housekeeper     *)
(* thread and the thread that registers the application and exits, over    *)
(* the shared dlt_user (src/lib/dlt_user.c, src/shared/dlt_user_shared.c). *)
(*                                                                         *)
(* A step is one access to state another thread may touch: the flag        *)
(* dlt_user_initialised, the log handle, the application id, the overflow  *)
(* counter, the semaphore with what it protects, or one system call.  The  *)
(* sections that hold the semaphore over accesses to the startup buffer    *)
(* alone are one step; dlt_user_log_resend_buffer holds it over writev and *)
(* over changes of the handle, and is split.                               *)
(*                                                                         *)
(* The daemon (external) reads the FIFO in order; it may crash, losing the *)
(* FIFO with its contents, and restart.  A descriptor names the FIFO of    *)
(* one run of the daemon.  The build is the default one: FIFO IPC, no      *)
(* shared memory, no network trace; messages have one size.                *)
(***************************************************************************)
EXTENDS Integers, Sequences, FiniteSets, SequencesExt

CONSTANTS
    Logger,     \* threads that log
    MaxLog,     \* bound: messages each of them logs
    PipeSize,   \* messages the FIFO of the daemon holds
    RingMin, RingMax,   \* size of the startup buffer, in messages
    MaxCrash,   \* bound: crashes of the daemon
    Fds,        \* file descriptors, a set of positive numbers
    Scenarios,  \* subset of Scenario, from which the initial state picks one
    MaxTries    \* bound: rounds of the exit handler before its timeout

VARIABLES
    scenario,
    initialised,      \* dlt_user_initialised
    freeing,          \* dlt_user_freeing
    ready,            \* dlt_init has created the semaphore, the buffer and the connection
    dlt_log_handle, appID,
    contexts,         \* the context is in dlt_ll_ts
    startup_buffer, buffer_size, overflow_counter,
    dlt_mutex,        \* value of the semaphore
    stack, ret,       \* per thread: calls in progress, value last returned
    logged,           \* per logger: number of messages logged so far
    fds,              \* per descriptor: the run of the daemon it leads to, or CLOSED
    daemon,           \* its run while it is up, or DOWN
    crashes,
    pipe,             \* messages in the FIFO
    knows,            \* registrations the daemon has read
    received,         \* history: what daemons read
    lost,             \* history: messages lost with the FIFO or at exit
    dropped,          \* history: log messages refused by the full buffer
    reported,         \* history: losses written to the daemon
    refused,          \* history: a registration was refused by the full buffer
    skipped,          \* history: log messages sent without a resend before
    exitReport        \* the number of lost messages the exit handler logs, or NONE

shared == <<initialised, freeing, ready, dlt_log_handle, appID, contexts,
            startup_buffer, buffer_size, overflow_counter, dlt_mutex>>
threads == <<stack, ret, logged>>
world == <<fds, daemon, crashes, pipe, knows>>
hist == <<received, lost, dropped, reported, refused, skipped, exitReport>>
vars == <<scenario, shared, threads, world, hist>>

(* start: a process that begins, one that is registered and connected, or  *)
(* one that has logged a message since the daemon crashed;                 *)
(* lazy: loggers may call dlt_init at the same time as main; exits: main   *)
(* exits once they are done; limit: messages each logger logs; crashes:    *)
(* how often the daemon does; ring: messages the startup buffer can grow to*)
Scenario == [start : {"fresh", "registered", "orphan"}, lazy : BOOLEAN, exits : BOOLEAN,
             limit : [Logger -> 0..MaxLog], crashes : 0..MaxCrash, ring : RingMin..RingMax]

(* DltReturnValue                                                          *)
OK == 0
ERROR == -1
PIPE_ERROR == -2
PIPE_FULL == -3
BUFFER_FULL == -4

NONE == -1     \* DLT_FD_INIT
CLOSED == 0
DOWN == 0

housekeeper == "housekeeper"
main == "main"
Thread == Logger \cup {housekeeper, main}

(* The startup buffer holds a message, descriptors 1 and up can be open,    *)
(* and what threads logged before fits in the buffer as it is.             *)
ASSUME UserAssumption ==
    /\ IsFiniteSet(Logger) /\ housekeeper \notin Logger /\ main \notin Logger
    /\ MaxLog \in Nat /\ PipeSize \in Nat /\ MaxCrash \in Nat /\ MaxTries \in Nat
    /\ RingMin \in Nat \ {0} /\ RingMax \in Nat
    /\ Fds \subseteq Nat \ {0} /\ Fds # {}
    /\ Scenarios \subseteq Scenario
    /\ \A s \in Scenarios :
          s.start = "orphan" => Cardinality({t \in Logger : s.limit[t] > 0}) <= RingMin

LogMsg(t, n) == [kind |-> "log", from |-> t, id |-> n]
OverflowMsg(n) == [kind |-> "overflow", from |-> main, id |-> n]
AppMsg == [kind |-> "app", from |-> main, id |-> 0]
ContextMsg == [kind |-> "context", from |-> main, id |-> 0]
UnregisterMsg == [kind |-> "unapp", from |-> main, id |-> 0]

(* A call in progress: function, position, message, descriptor read from   *)
(* the handle, a count, and the value of dlt_user_log_out3.                *)
Frame(fn, m) == [fn |-> fn, pc |-> "start", m |-> m, fd |-> NONE, n |-> 0, res |-> OK]

top(t) == stack[t][Len(stack[t])]
At(t, fn, pc) == stack[t] # <<>> /\ top(t).fn = fn /\ top(t).pc = pc
Goto(t, f) == stack' = [stack EXCEPT ![t][Len(stack[t])] = f]
GotoPc(t, pc) == Goto(t, [top(t) EXCEPT !.pc = pc])
Call(t, pc, f) == stack' = [stack EXCEPT ![t] = Append([@ EXCEPT ![Len(@)].pc = pc], f)]
(* the positions at which a caller looks at the value returned             *)
Awaited == {"out", "handled", "application", "context", "registered", "flushed", "blown_out"}
Return(t, r) ==
    LET n == Len(stack[t]) IN
    /\ stack' = [stack EXCEPT ![t] = Front(@)]
    /\ ret' = [ret EXCEPT ![t] = IF n > 1 /\ stack[t][n - 1].pc \in Awaited THEN r ELSE OK]
(* a call whose result is the caller's own                                 *)
TailCall(t, f) == Goto(t, f) /\ UNCHANGED ret
Idle(t) == stack[t] = <<>>

-----------------------------------------------------------------------------
(* Writing to the daemon: the result of writev on descriptor fd            *)
Out3(fd) ==
    IF fd = NONE THEN ERROR
    ELSE IF fds[fd] = CLOSED \/ fds[fd] # daemon THEN PIPE_ERROR   \* EBADF, EPIPE
    ELSE IF Len(pipe) >= PipeSize THEN PIPE_FULL                   \* EAGAIN
    ELSE OK

Out2(fd) == IF Out3(fd) = OK THEN OK ELSE ERROR

Write(fd, m, r) == pipe' = IF r = OK THEN Append(pipe, m) ELSE pipe

(* close(dlt_user.dlt_log_handle)                                          *)
Close(fd) == fds' = IF fd \in DOMAIN fds THEN [fds EXCEPT ![fd] = CLOSED] ELSE fds

-----------------------------------------------------------------------------
(* dlt_user_log_out_error_handling: two sections, of which the first asks  *)
(* whether the buffer may still grow and the second stores the message.    *)
(* The result is the answer of the first unless the second fails.          *)

RingFull == Len(startup_buffer) >= scenario.ring

ErrorCheck(t) ==
    /\ At(t, "error_handling", "start") /\ dlt_mutex > 0
    /\ Goto(t, [top(t) EXCEPT !.pc = "push", !.res = IF buffer_size + 1 > scenario.ring THEN ERROR ELSE OK])
    /\ UNCHANGED <<shared, ret, logged, world, hist>>

ErrorPush(t) ==
    /\ At(t, "error_handling", "push") /\ dlt_mutex > 0
    /\ LET m == top(t).m IN
       IF RingFull
       THEN /\ Return(t, BUFFER_FULL)
            /\ dropped' = IF m.kind = "log" THEN dropped \cup {m} ELSE dropped
            /\ refused' = (refused \/ m.kind \in {"app", "context"})
            /\ UNCHANGED <<startup_buffer, buffer_size>>
       ELSE /\ startup_buffer' = Append(startup_buffer, m)
            /\ buffer_size' = IF Len(startup_buffer) = buffer_size THEN buffer_size + 1 ELSE buffer_size
            /\ Return(t, top(t).res)
            /\ UNCHANGED <<dropped, refused>>
    /\ UNCHANGED <<initialised, freeing, ready, dlt_log_handle, appID, contexts, overflow_counter,
                   dlt_mutex, logged, world, received, lost, reported, skipped, exitReport>>

dlt_user_log_out_error_handling(t) == ErrorCheck(t) \/ ErrorPush(t)

-----------------------------------------------------------------------------
(* dlt_user_log_resend_buffer                                              *)
ResendNext(t, n) ==
    IF n = 0 THEN Return(t, OK)
    ELSE Goto(t, [top(t) EXCEPT !.pc = "loop", !.fd = NONE, !.n = n]) /\ UNCHANGED ret

ResendStart(t) ==
    /\ At(t, "resend_buffer", "start") /\ dlt_mutex > 0
    /\ IF appID THEN ResendNext(t, Len(startup_buffer)) ELSE Return(t, OK)
    /\ UNCHANGED <<shared, logged, world, hist>>

ResendLoop(t) ==
    /\ At(t, "resend_buffer", "loop") /\ dlt_mutex > 0
    /\ IF startup_buffer = <<>>      \* another thread sent it meanwhile
       THEN ResendNext(t, top(t).n - 1) /\ UNCHANGED dlt_mutex
       ELSE /\ Goto(t, [top(t) EXCEPT !.pc = "write", !.fd = dlt_log_handle])
            /\ dlt_mutex' = dlt_mutex - 1
            /\ UNCHANGED ret
    /\ UNCHANGED <<initialised, freeing, ready, dlt_log_handle, appID, contexts, startup_buffer,
                   buffer_size, overflow_counter, logged, world, hist>>

(* dlt_buffer_remove; an emptied buffer shrinks to its minimal size        *)
RemoveSent(r) ==
    IF r = OK
    THEN /\ startup_buffer' = Tail(startup_buffer)
         /\ buffer_size' = IF Len(startup_buffer) = 1 THEN RingMin ELSE buffer_size
    ELSE UNCHANGED <<startup_buffer, buffer_size>>

ResendWrite(t) ==
    /\ At(t, "resend_buffer", "write")
    /\ LET r == Out3(top(t).fd) IN
       /\ Write(top(t).fd, Head(startup_buffer), r)
       /\ RemoveSent(r)
       /\ IF r = PIPE_ERROR
          THEN GotoPc(t, "close") /\ UNCHANGED <<ret, dlt_mutex>>
          ELSE /\ dlt_mutex' = dlt_mutex + 1
               /\ IF r = OK THEN ResendNext(t, top(t).n - 1) ELSE Return(t, r)
    /\ UNCHANGED <<initialised, freeing, ready, dlt_log_handle, appID, contexts, overflow_counter, logged,
                   fds, daemon, crashes, knows, hist>>

ResendClose(t) ==
    /\ At(t, "resend_buffer", "close")
    /\ Close(dlt_log_handle)
    /\ GotoPc(t, "closed")
    /\ UNCHANGED <<shared, ret, logged, daemon, crashes, pipe, knows, hist>>

ResendClosed(t) ==
    /\ At(t, "resend_buffer", "closed")
    /\ dlt_log_handle' = NONE
    /\ dlt_mutex' = dlt_mutex + 1
    /\ Return(t, PIPE_ERROR)
    /\ UNCHANGED <<initialised, freeing, ready, appID, contexts, startup_buffer, buffer_size,
                   overflow_counter, logged, world, hist>>

dlt_user_log_resend_buffer(t) ==
    ResendStart(t) \/ ResendLoop(t) \/ ResendWrite(t) \/ ResendClose(t) \/ ResendClosed(t)

-----------------------------------------------------------------------------
(* dlt_user_log_send_register_application, ..._send_register_context and   *)
(* ..._send_unregister_application: the message in the frame tells which.  *)
RegisterStart(t) ==
    /\ At(t, "send_register", "start")
    /\ IF appID
       THEN Goto(t, [top(t) EXCEPT !.pc = "write", !.fd = dlt_log_handle]) /\ UNCHANGED ret
       ELSE IF top(t).m.kind = "context"
            THEN TailCall(t, Frame("error_handling", ContextMsg))
            ELSE Return(t, ERROR)
    /\ UNCHANGED <<shared, logged, world, hist>>

(* mutant: a registration that cannot be written is forgotten              *)
RegisterWrite_Forgets(t) ==
    /\ At(t, "send_register", "write")
    /\ Write(top(t).fd, top(t).m, Out3(top(t).fd))
    /\ Return(t, OK)
    /\ UNCHANGED <<shared, logged, fds, daemon, crashes, knows, hist>>

RegisterWrite(t) ==
    /\ At(t, "send_register", "write")
    /\ LET r == IF top(t).m.kind = "unapp" THEN Out2(top(t).fd) ELSE Out3(top(t).fd) IN
       /\ Write(top(t).fd, top(t).m, r)
       /\ IF r = OK THEN Return(t, OK)
          ELSE TailCall(t, Frame("error_handling", top(t).m))
    /\ UNCHANGED <<shared, logged, fds, daemon, crashes, knows, hist>>

dlt_user_log_send_register(t) == RegisterStart(t) \/ RegisterWrite(t)

-----------------------------------------------------------------------------
(* dlt_user_log_reattach_to_daemon                                         *)
(* called at pc, it returns at once while the handle is open               *)
CallReattach(t, pc) ==
    IF dlt_log_handle # NONE THEN GotoPc(t, pc) ELSE Call(t, pc, Frame("reattach", AppMsg))

(* dlt_user.dlt_log_handle = DLT_FD_INIT, then open                        *)
ReattachOpen(t) ==
    /\ At(t, "reattach", "start")
    /\ dlt_log_handle' = NONE
    /\ LET free == {f \in Fds : fds[f] = CLOSED} IN
       IF daemon # DOWN /\ free # {}
       THEN LET f == CHOOSE f \in free : \A g \in free : f <= g IN
            /\ fds' = [fds EXCEPT ![f] = daemon]
            /\ Goto(t, [top(t) EXCEPT !.pc = "opened", !.fd = f])
            /\ UNCHANGED ret
       ELSE Return(t, OK) /\ UNCHANGED fds
    /\ UNCHANGED <<initialised, freeing, ready, appID, contexts, startup_buffer, buffer_size,
                   overflow_counter, dlt_mutex, logged, daemon, crashes, pipe, knows, hist>>

ReattachOpened(t) ==
    /\ At(t, "reattach", "opened")
    /\ dlt_log_handle' = top(t).fd
    /\ stack' = [stack EXCEPT ![t] = Front(@) \o
            <<[Frame("reattach", AppMsg) EXCEPT !.pc = "application"], Frame("send_register", AppMsg)>>]
    /\ UNCHANGED <<initialised, freeing, ready, appID, contexts, startup_buffer, buffer_size,
                   overflow_counter, dlt_mutex, ret, logged, world, hist>>

(* The application is re-registered, now the contexts, the list of them    *)
(* read with the semaphore, each sent without it                           *)
ReattachContexts(t) ==
    /\ At(t, "reattach", "application")
    /\ IF ret[t] < ERROR
       THEN Return(t, OK)
       ELSE /\ dlt_mutex > 0
            /\ IF appID /\ contexts
               THEN Call(t, "context", Frame("send_register", ContextMsg)) /\ UNCHANGED ret
               ELSE Return(t, OK)
    /\ UNCHANGED <<shared, logged, world, hist>>

ReattachResend(t) ==
    /\ At(t, "reattach", "context")
    /\ IF ret[t] < ERROR
       THEN Return(t, OK)
       ELSE TailCall(t, Frame("resend_buffer", ContextMsg))
    /\ UNCHANGED <<shared, logged, world, hist>>

dlt_user_log_reattach_to_daemon(t) ==
    \/ ReattachOpen(t) \/ ReattachOpened(t)
    \/ ReattachContexts(t) \/ ReattachResend(t)

-----------------------------------------------------------------------------
(* dlt_user_log_send_overflow with the reset its callers do after it: the  *)
(* counter is read, reported, and cleared without the semaphore.           *)
OverflowRead(t) ==
    /\ At(t, "send_overflow", "start")
    /\ Goto(t, [top(t) EXCEPT !.pc = "write", !.fd = dlt_log_handle, !.n = overflow_counter])
    /\ UNCHANGED <<shared, ret, logged, world, hist>>

OverflowWrite(t) ==
    /\ At(t, "send_overflow", "write")
    /\ LET r == Out2(top(t).fd) IN
       /\ Write(top(t).fd, OverflowMsg(top(t).n), r)
       /\ reported' = IF r = OK THEN reported + top(t).n ELSE reported
       /\ IF r = OK THEN GotoPc(t, "reset") /\ UNCHANGED ret ELSE Return(t, r)
    /\ UNCHANGED <<shared, logged, fds, daemon, crashes, knows,
                   received, lost, dropped, refused, skipped, exitReport>>

OverflowReset(t) ==
    /\ At(t, "send_overflow", "reset")
    /\ overflow_counter' = 0
    /\ Return(t, OK)
    /\ UNCHANGED <<initialised, freeing, ready, dlt_log_handle, appID, contexts, startup_buffer, buffer_size,
                   dlt_mutex, logged, world, hist>>

dlt_user_log_send_overflow(t) == OverflowRead(t) \/ OverflowWrite(t) \/ OverflowReset(t)

-----------------------------------------------------------------------------
(* dlt_user_log_send_log                                                   *)
LogReattach(t) ==
    /\ At(t, "send_log", "start")
    /\ CallReattach(t, "overflow")
    /\ UNCHANGED <<shared, ret, logged, world, hist>>

LogOverflow(t) ==
    /\ At(t, "send_log", "overflow")
    /\ IF overflow_counter > 0
       THEN Call(t, "resend", Frame("send_overflow", top(t).m))
       ELSE GotoPc(t, "resend")
    /\ UNCHANGED <<shared, ret, logged, world, hist>>

(* mutant: old data is not sent first                                      *)
LogResend_Never(t) ==
    /\ At(t, "send_log", "resend")
    /\ GotoPc(t, "out") /\ ret' = [ret EXCEPT ![t] = OK]
    /\ UNCHANGED <<shared, logged, world, hist>>

LogResend(t) ==
    /\ At(t, "send_log", "resend")
    /\ IF dlt_log_handle # NONE /\ appID
       THEN /\ Call(t, "out", Frame("resend_buffer", top(t).m))
            /\ UNCHANGED <<ret, skipped>>
       ELSE /\ GotoPc(t, "out")
            /\ ret' = [ret EXCEPT ![t] = OK]
            /\ skipped' = skipped \cup {top(t).m}
    /\ UNCHANGED <<shared, logged, world, received, lost, dropped, reported, refused, exitReport>>

LogError(t, r) ==
    stack' = [stack EXCEPT ![t] = Front(@) \o
        <<[Frame("send_log", top(t).m) EXCEPT !.pc = "handled", !.res = r], Frame("error_handling", top(t).m)>>]

LogOut(t) ==
    /\ At(t, "send_log", "out")
    /\ IF ret[t] = OK /\ appID
       THEN Goto(t, [top(t) EXCEPT !.pc = "write", !.fd = dlt_log_handle])
       ELSE LogError(t, ret[t])
    /\ UNCHANGED <<shared, ret, logged, world, hist>>

LogWrite(t) ==
    /\ At(t, "send_log", "write")
    /\ LET r == Out3(top(t).fd) IN
       /\ Write(top(t).fd, top(t).m, r)
       /\ IF r = OK /\ appID THEN Return(t, OK) ELSE LogError(t, r) /\ UNCHANGED ret
    /\ UNCHANGED <<shared, logged, fds, daemon, crashes, knows, hist>>

LogHandled(t) ==
    /\ At(t, "send_log", "handled")
    /\ IF ret[t] = BUFFER_FULL
       THEN Goto(t, [top(t) EXCEPT !.pc = "count", !.n = overflow_counter]) /\ UNCHANGED ret
       ELSE IF ret[t] = ERROR /\ top(t).res = PIPE_ERROR
            THEN GotoPc(t, "close") /\ UNCHANGED ret
            ELSE Return(t, IF ret[t] = OK THEN OK ELSE top(t).res)
    /\ UNCHANGED <<shared, logged, world, hist>>

(* mutant: the loss is not counted                                         *)
LogCount_Forgets(t) ==
    /\ At(t, "send_log", "count")
    /\ Return(t, BUFFER_FULL)
    /\ UNCHANGED <<shared, logged, world, hist>>

(* the second half of overflow_counter += 1                                *)
LogCount(t) ==
    /\ At(t, "send_log", "count")
    /\ overflow_counter' = top(t).n + 1
    /\ Return(t, BUFFER_FULL)
    /\ UNCHANGED <<initialised, freeing, ready, dlt_log_handle, appID, contexts, startup_buffer, buffer_size,
                   dlt_mutex, logged, world, hist>>

LogClose(t) ==
    /\ At(t, "send_log", "close")
    /\ Close(dlt_log_handle)
    /\ GotoPc(t, "closed")
    /\ UNCHANGED <<shared, ret, logged, daemon, crashes, pipe, knows, hist>>

LogClosed(t) ==
    /\ At(t, "send_log", "closed")
    /\ dlt_log_handle' = NONE
    /\ Return(t, PIPE_ERROR)
    /\ UNCHANGED <<initialised, freeing, ready, appID, contexts, startup_buffer, buffer_size,
                   overflow_counter, dlt_mutex, logged, world, hist>>

dlt_user_log_send_log(t) ==
    \/ LogReattach(t) \/ LogOverflow(t) \/ LogResend(t) \/ LogOut(t) \/ LogWrite(t)
    \/ LogHandled(t) \/ LogCount(t) \/ LogClose(t) \/ LogClosed(t)

-----------------------------------------------------------------------------
MinFd == CHOOSE f \in Fds : \A g \in Fds : f <= g

(* dlt_init.  Whoever sets the flag does the work; a second caller returns *)
(* at once.                                                                *)
InitFlag(t) ==
    /\ At(t, "init", "start")
    /\ IF initialised \/ freeing
       THEN Return(t, IF initialised THEN OK ELSE ERROR)   \* DLT_RETURN_LOGGING_DISABLED
       ELSE GotoPc(t, "common") /\ UNCHANGED ret
    /\ initialised' = TRUE
    /\ UNCHANGED <<freeing, ready, dlt_log_handle, appID, contexts, startup_buffer, buffer_size,
                   overflow_counter, dlt_mutex, logged, world, hist>>

(* dlt_init_common: semaphore, buffer                                      *)
InitCommon(t) ==
    /\ At(t, "init", "common")
    /\ dlt_mutex' = 1
    /\ startup_buffer' = <<>> /\ buffer_size' = RingMin /\ overflow_counter' = 0
    /\ appID' = FALSE
    /\ GotoPc(t, "connect")
    /\ UNCHANGED <<initialised, freeing, ready, dlt_log_handle, contexts, ret, logged, world, hist>>

(* opens the FIFO of the daemon if it is there                             *)
dlt_initialize_fifo_connection ==
    /\ dlt_log_handle' = IF daemon # DOWN THEN MinFd ELSE NONE
    /\ fds' = IF daemon # DOWN THEN [fds EXCEPT ![MinFd] = daemon] ELSE fds

(* the stacks once the housekeeper runs                                    *)
dlt_start_threads(stacks) ==
    [stacks EXCEPT ![housekeeper] = <<[Frame("housekeeper", AppMsg) EXCEPT !.pc = "sleep"]>>]

InitConnect(t) ==
    /\ At(t, "init", "connect")
    /\ dlt_initialize_fifo_connection
    /\ ready' = TRUE
    /\ stack' = dlt_start_threads([stack EXCEPT ![t] = Front(@)])
    /\ ret' = [ret EXCEPT ![t] = OK]
    /\ UNCHANGED <<initialised, freeing, appID, contexts, startup_buffer, buffer_size, overflow_counter,
                   dlt_mutex, logged, daemon, crashes, pipe, knows, hist>>

dlt_init(t) == InitFlag(t) \/ InitCommon(t) \/ InitConnect(t)

-----------------------------------------------------------------------------
(* pthread_cancel takes effect at a cancellation point, a system call or a *)
(* wait for the semaphore, and the cleanup handler posts the semaphore     *)
(* whether or not the thread holds it.                                     *)
CancellationPoint ==
    \/ top(housekeeper).pc \in {"write", "close", "sleep", "loop", "push"}
    \/ \E fn \in {"reattach", "resend_buffer", "error_handling"} : At(housekeeper, fn, "start")
    \/ At(housekeeper, "reattach", "application")

Cancelled == At(main, "main", "join") /\ ~Idle(housekeeper) /\ CancellationPoint

(* dlt_user_housekeeperthread_function; the messages it reads from the     *)
(* daemon are modelled in DltRegistry                                      *)
(* mutant: the housekeeper leaves resending to the next log message        *)
HousekeeperResend_Never ==
    /\ At(housekeeper, "housekeeper", "resend")
    /\ GotoPc(housekeeper, "sleep")
    /\ UNCHANGED <<shared, ret, logged, world, hist>>

HousekeeperResend ==
    /\ At(housekeeper, "housekeeper", "resend")
    /\ IF dlt_log_handle # NONE
       THEN Call(housekeeper, "sleep", Frame("resend_buffer", AppMsg))
       ELSE GotoPc(housekeeper, "sleep")
    /\ UNCHANGED <<shared, ret, logged, world, hist>>

HousekeeperReattach ==
    /\ At(housekeeper, "housekeeper", "sleep")
    /\ CallReattach(housekeeper, "resend")
    /\ UNCHANGED <<shared, ret, logged, world, hist>>

dlt_user_housekeeperthread_function ==
    ~Cancelled /\ (HousekeeperReattach \/ HousekeeperResend)

HousekeeperCancelled ==
    /\ Cancelled
    /\ stack' = [stack EXCEPT ![housekeeper] = <<>>]
    /\ dlt_mutex' = dlt_mutex + 1
    /\ UNCHANGED <<initialised, freeing, ready, dlt_log_handle, appID, contexts, startup_buffer, buffer_size,
                   overflow_counter, ret, logged, world, hist>>

-----------------------------------------------------------------------------
(* The thread that sets up logging and later exits                         *)

dlt_register_app ==
    \/ /\ At(main, "main", "start") /\ dlt_mutex > 0
       /\ appID' = TRUE
       /\ Call(main, "registered", Frame("send_register", AppMsg))
       /\ UNCHANGED <<initialised, freeing, ready, dlt_log_handle, contexts, startup_buffer, buffer_size,
                      overflow_counter, dlt_mutex, ret, logged, world, hist>>
    \/ /\ At(main, "main", "registered")
       /\ IF ret[main] = OK /\ dlt_log_handle # NONE
          THEN Call(main, "add_context", Frame("resend_buffer", AppMsg))
          ELSE GotoPc(main, "add_context")
       /\ UNCHANGED <<shared, ret, logged, world, hist>>

dlt_register_context ==
    /\ At(main, "main", "add_context") /\ dlt_mutex > 0
    /\ contexts' = TRUE
    /\ Call(main, "run", Frame("send_register", ContextMsg))
    /\ UNCHANGED <<initialised, freeing, ready, dlt_log_handle, appID, startup_buffer, buffer_size,
                   overflow_counter, dlt_mutex, ret, logged, world, hist>>

LoggersDone == \A t \in Logger : Idle(t) /\ logged[t] = scenario.limit[t]

(* main returns, or unregisters the application with a flush before        *)
MainExit ==
    /\ At(main, "main", "run")
    /\ scenario.exits /\ LoggersDone
    /\ \E pc \in {"flush", "atexit"} : GotoPc(main, pc)
    /\ UNCHANGED <<shared, ret, logged, world, hist>>

(* dlt_unregister_app_flush_buffered_logs: resend until it succeeds or the *)
(* handle is gone                                                          *)
dlt_unregister_app_flush_buffered_logs ==
    \/ /\ At(main, "main", "flush")
       /\ IF dlt_log_handle # NONE
          THEN Call(main, "flushed", Frame("resend_buffer", AppMsg))
          ELSE GotoPc(main, "forced")
       /\ UNCHANGED <<shared, ret, logged, world, hist>>
    \/ /\ At(main, "main", "flushed")
       /\ GotoPc(main, IF ret[main] # OK /\ dlt_log_handle # NONE THEN "flush" ELSE "forced")
       /\ UNCHANGED <<shared, ret, logged, world, hist>>

ClearAppID(force) == appID' = (appID /\ force /\ startup_buffer # <<>>)

(* dlt_unregister_app_util(force_sending_messages)                         *)
dlt_unregister_app_util ==
    \E force \in BOOLEAN :
       \/ /\ At(main, "main", IF force THEN "forced" ELSE "unregister")
          /\ Call(main, IF force THEN "clear_forced" ELSE "clear", Frame("send_register", UnregisterMsg))
          /\ UNCHANGED <<shared, ret, logged, world, hist>>
       \/ /\ At(main, "main", IF force THEN "clear_forced" ELSE "clear") /\ dlt_mutex > 0
          /\ ClearAppID(force)
          /\ GotoPc(main, IF force THEN "atexit" ELSE "free")
          /\ UNCHANGED <<initialised, freeing, ready, dlt_log_handle, contexts, startup_buffer, buffer_size,
                         overflow_counter, dlt_mutex, ret, logged, world, hist>>

(* dlt_user_atexit_handler and dlt_user_atexit_blow_out_user_buffer        *)
ExitCount ==
    /\ At(main, "main", "atexit") /\ dlt_mutex > 0
    /\ GotoPc(main, IF startup_buffer = <<>> THEN "recount" ELSE "blow_out")
    /\ UNCHANGED <<shared, ret, logged, world, hist>>

BlowOut ==
    /\ At(main, "main", "blow_out")
    /\ \/ GotoPc(main, "recount")                     \* timeout
       \/ /\ top(main).n < MaxTries
          /\ CallReattach(main, "blow_overflow")
    /\ UNCHANGED <<shared, ret, logged, world, hist>>

BlowOverflow ==
    /\ At(main, "main", "blow_overflow")
    /\ IF dlt_log_handle # NONE /\ overflow_counter > 0
       THEN Call(main, "blow_resend", Frame("send_overflow", AppMsg))
       ELSE GotoPc(main, "blow_resend")
    /\ UNCHANGED <<shared, ret, logged, world, hist>>

BlowResend ==
    /\ At(main, "main", "blow_resend")
    /\ IF dlt_log_handle # NONE
       THEN Call(main, "blown_out", Frame("resend_buffer", AppMsg))
       ELSE Goto(main, [top(main) EXCEPT !.pc = "blow_out", !.n = @ + 1])
    /\ UNCHANGED <<shared, ret, logged, world, hist>>

BlownOut ==
    /\ At(main, "main", "blown_out")
    /\ Goto(main, IF ret[main] = OK THEN [top(main) EXCEPT !.pc = "recount"]
                  ELSE [top(main) EXCEPT !.pc = "blow_out", !.n = @ + 1])
    /\ UNCHANGED <<shared, ret, logged, world, hist>>

ExitRecount ==
    /\ At(main, "main", "recount") /\ dlt_mutex > 0
    /\ exitReport' = Len(startup_buffer)
    /\ GotoPc(main, "unregister")
    /\ UNCHANGED <<shared, ret, logged, world, received, lost, dropped, reported, refused, skipped>>

dlt_user_atexit_handler ==
    ExitCount \/ BlowOut \/ BlowOverflow \/ BlowResend \/ BlownOut \/ ExitRecount

(* dlt_free                                                                *)
FreeStart ==
    /\ At(main, "main", "free")
    /\ freeing' = TRUE /\ initialised' = FALSE
    /\ GotoPc(main, "join")
    /\ UNCHANGED <<ready, dlt_log_handle, appID, contexts, startup_buffer, buffer_size, overflow_counter,
                   dlt_mutex, ret, logged, world, hist>>

FreeClose ==
    /\ At(main, "main", "join") /\ Idle(housekeeper)
    /\ Close(dlt_log_handle)
    /\ dlt_log_handle' = NONE
    /\ GotoPc(main, "release")
    /\ UNCHANGED <<initialised, freeing, ready, appID, contexts, startup_buffer, buffer_size, overflow_counter,
                   dlt_mutex, ret, logged, daemon, crashes, pipe, knows, hist>>

FreeBuffer ==
    /\ At(main, "main", "release") /\ dlt_mutex > 0
    /\ startup_buffer' = <<>> /\ buffer_size' = RingMin
    /\ lost' = lost \cup Range(startup_buffer)
    /\ contexts' = FALSE /\ ready' = FALSE /\ freeing' = FALSE
    /\ Return(main, OK)
    /\ UNCHANGED <<initialised, dlt_log_handle, appID, overflow_counter, dlt_mutex, logged, world,
                   received, dropped, reported, refused, skipped, exitReport>>

dlt_free == FreeStart \/ FreeClose \/ FreeBuffer

MainThread ==
    \/ dlt_register_app \/ dlt_register_context \/ MainExit
    \/ dlt_unregister_app_flush_buffered_logs \/ dlt_unregister_app_util
    \/ dlt_user_atexit_handler \/ dlt_free

-----------------------------------------------------------------------------
(* A logger sends its next message.  With scenario.lazy its first call is one   *)
(* that initialises the library if nobody has.                             *)
Log(t) ==
    /\ Idle(t) /\ logged[t] < scenario.limit[t]
    /\ scenario.lazy \/ At(main, "main", "run")
    /\ logged' = [logged EXCEPT ![t] = @ + 1]
    /\ LET m == LogMsg(t, logged[t] + 1) IN
       stack' = [stack EXCEPT ![t] = <<Frame("send_log", m)>> \o
                    IF scenario.lazy /\ ~initialised THEN <<Frame("init", m)>> ELSE <<>>]
    /\ UNCHANGED <<shared, ret, world, hist>>

(* functions any thread calls                                              *)
Library(t) ==
    /\ ~(t = housekeeper /\ Cancelled)
    /\ \/ dlt_init(t) \/ dlt_user_log_reattach_to_daemon(t) \/ dlt_user_log_resend_buffer(t)
       \/ dlt_user_log_send_register(t) \/ dlt_user_log_send_overflow(t)
       \/ dlt_user_log_out_error_handling(t)

(* The daemon: reads one message, crashes, restarts                        *)
DaemonRead ==
    /\ daemon # DOWN /\ pipe # <<>>
    /\ LET m == Head(pipe) IN
       /\ knows' = CASE m.kind \in {"app", "context"} -> knows \cup {m.kind}
                     [] m.kind = "unapp" -> {}
                     [] OTHER -> knows
       /\ received' = IF m.kind = "log" THEN Append(received, m) ELSE received
    /\ pipe' = Tail(pipe)
    /\ UNCHANGED <<shared, threads, fds, daemon, crashes, lost, dropped, reported, refused, skipped, exitReport>>

DaemonCrash ==
    /\ daemon # DOWN /\ crashes < scenario.crashes
    /\ daemon' = DOWN /\ crashes' = crashes + 1
    /\ lost' = lost \cup Range(pipe)
    /\ pipe' = <<>> /\ knows' = {}
    /\ UNCHANGED <<shared, threads, fds, received, dropped, reported, refused, skipped, exitReport>>

DaemonStart ==
    /\ daemon = DOWN
    /\ daemon' = crashes + 1
    /\ UNCHANGED <<shared, threads, fds, crashes, pipe, knows, hist>>

InitFresh ==
    /\ initialised = FALSE /\ ready = FALSE
    /\ dlt_log_handle = NONE /\ appID = FALSE /\ contexts = FALSE
    /\ dlt_mutex = 0
    /\ stack = [t \in Thread |-> IF t = main THEN <<Frame("main", AppMsg), Frame("init", AppMsg)>> ELSE <<>>]
    /\ fds = [f \in Fds |-> CLOSED]
    /\ daemon \in {DOWN, 1} /\ knows = {}

InitRegistered(up) ==
    /\ initialised = TRUE /\ ready = TRUE
    /\ dlt_log_handle = (IF up THEN MinFd ELSE NONE) /\ appID = TRUE /\ contexts = TRUE
    /\ dlt_mutex = 1
    /\ stack = [t \in Thread |->
                   CASE t = main -> <<[Frame("main", AppMsg) EXCEPT !.pc = "run"]>>
                     [] t = housekeeper -> <<[Frame("housekeeper", AppMsg) EXCEPT !.pc = "sleep"]>>
                     [] OTHER -> <<>>]
    /\ fds = [f \in Fds |-> IF up /\ f = MinFd THEN 1 ELSE CLOSED]
    /\ daemon = (IF up THEN 1 ELSE DOWN)
    /\ knows = (IF up THEN {"app", "context"} ELSE {})

(* The process has exited.                                                 *)
Terminated ==
    /\ Idle(main) /\ Idle(housekeeper) /\ LoggersDone
    /\ UNCHANGED vars

Init ==
    /\ scenario \in Scenarios
    /\ IF scenario.start = "fresh" THEN InitFresh ELSE InitRegistered(scenario.start = "registered")
    /\ freeing = FALSE
    /\ LET orphans == {t \in Logger : scenario.start = "orphan" /\ scenario.limit[t] > 0} IN
       /\ startup_buffer = SetToSeq({LogMsg(t, 1) : t \in orphans})
       /\ logged = [t \in Logger |-> IF t \in orphans THEN 1 ELSE 0]
    /\ buffer_size = RingMin /\ overflow_counter = 0
    /\ ret = [t \in Thread |-> OK]
    /\ crashes = 0 /\ pipe = <<>>
    /\ received = <<>> /\ lost = {} /\ dropped = {} /\ reported = 0
    /\ refused = FALSE /\ skipped = {} /\ exitReport = NONE

Next ==
    /\ UNCHANGED scenario
    /\ \/ \E t \in Thread : Library(t)
       \/ \E t \in Logger : Log(t) \/ dlt_user_log_send_log(t)
       \/ dlt_user_housekeeperthread_function \/ HousekeeperCancelled
       \/ MainThread
       \/ DaemonRead \/ DaemonCrash \/ DaemonStart \/ Terminated

(* The scheduler runs every thread inside the library; init restarts the   *)
(* daemon, which reads.  Nothing obliges a thread to log.                  *)
Step(t) ==
    /\ UNCHANGED scenario
    /\ \/ Library(t)
       \/ t \in Logger /\ dlt_user_log_send_log(t)
       \/ t = housekeeper /\ (dlt_user_housekeeperthread_function \/ HousekeeperCancelled)
       \/ t = main /\ MainThread
DaemonStep == UNCHANGED scenario /\ (DaemonRead \/ DaemonStart)

Fairness == (\A t \in Thread : WF_vars(Step(t))) /\ WF_vars(DaemonStep)

Spec == Init /\ [][Next]_vars /\ Fairness

-----------------------------------------------------------------------------
Messages == {LogMsg(t, n) : t \in Logger, n \in 1..MaxLog}

(* The variables have the types the code gives them: the semaphore is      *)
(* never negative, the buffer within its bounds, the counters naturals.    *)
TypeOK ==
    /\ scenario \in Scenario
    /\ initialised \in BOOLEAN /\ freeing \in BOOLEAN /\ ready \in BOOLEAN
    /\ dlt_log_handle \in Fds \cup {NONE}
    /\ appID \in BOOLEAN /\ contexts \in BOOLEAN
    /\ Len(startup_buffer) <= buffer_size /\ buffer_size \in RingMin..scenario.ring
    /\ overflow_counter \in Nat /\ dlt_mutex \in 0..2
    /\ \A t \in Logger : logged[t] \in 0..MaxLog
    /\ fds \in [Fds -> 0..(MaxCrash + 1)]
    /\ Len(pipe) <= PipeSize
    /\ Range(received) \subseteq Messages /\ dropped \subseteq Messages
    /\ knows \subseteq {"app", "context"}

Stream == received \o pipe \o startup_buffer
Places(m) == Cardinality({i \in DOMAIN Stream : Stream[i] = m})

(* Every message a thread has finished logging is in exactly one place: on *)
(* its way (once), refused by the full buffer, or lost with the FIFO of a  *)
(* crashed daemon or at exit.  Retries from three threads neither lose nor *)
(* duplicate it (dlt_user_log_send_log, dlt_user_log_resend_buffer).       *)
SentOnce ==
    \A t \in Logger : \A n \in 1..logged[t] :
        LET m == LogMsg(t, n) IN
        (Idle(t) \/ n < logged[t]) =>
            /\ Places(m) + (IF m \in lost THEN 1 ELSE 0) + (IF m \in dropped THEN 1 ELSE 0) = 1

(* "try to resent old data first": a message overtakes an older one of the *)
(* same thread only if its resend was left out because the handle was      *)
(* closed and another thread re-opened it before the message was written.  *)
OvertakesOnlyAtReattach ==
    \A i, j \in DOMAIN Stream :
        (i < j /\ Stream[i].kind = "log" /\ Stream[j].kind = "log" /\ Stream[i].from = Stream[j].from
            /\ Stream[i].id > Stream[j].id) => Stream[i] \in skipped

(* What the comment claims: the messages of a thread stay in order.        *)
InOrder ==
    \A i, j \in DOMAIN Stream :
        (i < j /\ Stream[i].kind = "log" /\ Stream[j].kind = "log" /\ Stream[i].from = Stream[j].from)
            => Stream[i].id < Stream[j].id

(* Losses counted now, reported before or being added right now are the    *)
(* losses there were (overflow_counter "Counts the number of lost          *)
(* messages"), as long as only one thread logs.                            *)
Uncounted == {m \in dropped : \E t \in Logger : ~Idle(t) /\ stack[t][1].m = m}
BeingReset == {t \in Thread : At(t, "send_overflow", "reset")}
LossesAreCounted ==
    Cardinality({t \in Logger : scenario.limit[t] > 0}) <= 1 =>
        overflow_counter + reported =
            Cardinality(dropped \ Uncounted)
            + (IF BeingReset = {} THEN 0 ELSE top(CHOOSE t \in BeingReset : TRUE).n)

(* The semaphore is held by at most one thread, and by nobody else than a  *)
(* thread inside dlt_user_log_resend_buffer, until dlt_free cancels the    *)
(* housekeeper.                                                            *)
Holders == {t \in Thread : \E pc \in {"write", "close", "closed"} : At(t, "resend_buffer", pc)}
MutualExclusion == (ready /\ ~freeing) => dlt_mutex + Cardinality(Holders) = 1

(* When all is quiet and connected, the daemon knows the application and   *)
(* its context, also after it crashed and whichever threads re-attached,   *)
(* unless a registration found the startup buffer full.                    *)
Quiet ==
    /\ \A t \in Logger : Idle(t)
    /\ At(main, "main", "run") /\ At(housekeeper, "housekeeper", "sleep")
    /\ pipe = <<>> /\ startup_buffer = <<>>
    /\ dlt_log_handle # NONE /\ fds[dlt_log_handle] = daemon
KnownToDaemon == Quiet => refused \/ knows = {"app", "context"}

(* The exit handler reports at least the log messages that dlt_free then   *)
(* throws away with the startup buffer.                                    *)
ExitReports ==
    At(main, "main", "release") =>
        Cardinality(Range(startup_buffer) \cap Messages) <= exitReport

(* Nobody works on the library before dlt_init has created its semaphore   *)
(* and buffer ("it's no problem, if two threads enter this function").     *)
ReadyWhenUsed ==
    \A t \in Logger : (~Idle(t) /\ top(t).fn # "init") => ready

(* As long as the application does not exit, what is stored in the startup *)
(* buffer is sent in the end: the housekeeper re-attaches and resends.     *)
StoredIsSent == ~scenario.exits => <>[](startup_buffer = <<>>)

(* A process that exits does exit: neither the flush loop, the exit        *)
(* handler nor the cancelled housekeeper keeps it.                         *)
ExitEnds ==
    (At(main, "main", "flush") \/ At(main, "main", "atexit")) ~>
        (Idle(main) /\ Idle(housekeeper) /\ ~ready)

(* Whatever threads log, the housekeeper resends and the daemon's crashes  *)
(* do: a message is written to a FIFO once, in the order of its thread     *)
(* unless a re-attach lets it overtake, and one thread holds the lock.     *)
SentInOrder == TypeOK /\ MutualExclusion /\ SentOnce /\ OvertakesOnlyAtReattach

(* What the startup buffer refuses is counted until the count is sent, and *)
(* what is thrown away at the exit is reported by the exit handler.        *)
LossesAreReported == LossesAreCounted /\ ExitReports

(* The messages stored while the daemon was away leave without further     *)
(* logging, and a process that exits comes to its end.                     *)
Progress == StoredIsSent /\ ExitEnds
==============================================================================
