----------------------------- MODULE DltUserProofs -----------------------------
(***************************************************************************)
(* For any threads that log, any sizes of the startup buffer and of the    *)
(* FIFO, and any crashes of the daemon: every message is in exactly one    *)
(* place, messages of a thread keep their order unless the thread skipped  *)
(* the resend, and one thread at a time holds the semaphore.               *)
(*                                                                         *)
(* Threads log only while the application runs, which none of them can set *)
(* up: a scenario in which they call dlt_init themselves is not meant.     *)
(*                                                                         *)
(* The argument: the message a thread is logging is nowhere until it is    *)
(* written, stored or dropped, and only its own thread does that.  While   *)
(* a thread resends, what it logged before is within the part of the       *)
(* buffer it still has to send, since others only remove from the front    *)
(* and append their own; when the resend succeeds nothing of it is left.   *)
(***************************************************************************)
EXTENDS DltUser, SequenceLemmas

Kinds == {"log", "app", "context", "unapp", "overflow"}
Msg == [kind : Kinds, from : Thread, id : Nat]
Fns == {"main", "housekeeper", "send_log", "reattach", "resend_buffer", "send_register",
        "send_overflow", "error_handling", "init"}
Pcs == {"start", "common", "connect", "registered", "add_context", "run", "flush", "flushed",
        "forced", "clear_forced", "atexit", "blow_out", "blow_overflow", "blow_resend", "blown_out",
        "recount", "unregister", "clear", "free", "join", "release", "sleep", "overflow", "resend",
        "out", "handled", "count", "opened", "application", "context", "loop", "write", "close",
        "closed", "reset", "push"}
Frames == [fn : Fns, pc : Pcs, m : Msg, fd : Fds \cup {NONE}, n : Nat, res : Int]

StackType == stack \in [Thread -> Seq(Frames)]
TypeSound ==
    /\ TypeOK /\ ~scenario.lazy
    /\ startup_buffer \in Seq(Msg) /\ pipe \in Seq(Msg) /\ received \in Seq(Msg)
    /\ StackType /\ ret \in [Thread -> Int]
    /\ logged \in [Logger -> Nat] /\ \A t \in Logger : logged[t] <= scenario.limit[t]
    /\ crashes \in 0..scenario.crashes /\ daemon \in 0..(MaxCrash + 1)
    /\ lost \subseteq Msg /\ reported \in Nat

(* Who calls whom.  Only dlt_user_log_send_log hands on a log message.     *)
Calls(f, g) ==
    \/ f.fn = "send_log" /\ f.pc = "overflow" /\ g.fn \in {"reattach", "resend_buffer"}
    \/ f.fn = "send_log" /\ f.pc = "resend" /\ g.fn = "send_overflow"
    \/ f.fn = "send_log" /\ f.pc = "out" /\ g.fn = "resend_buffer"
    \/ f.fn = "send_log" /\ f.pc = "handled" /\ g.fn = "error_handling" /\ g.m = f.m
    \/ f.fn = "reattach" /\ f.pc \in {"application", "context"}
       /\ g.fn \in {"send_register", "error_handling"} /\ g.m.kind \in {"app", "context"}
    \/ f.fn = "housekeeper" /\ g.fn \in {"reattach", "resend_buffer"}
    \/ f.fn = "main" /\ f.pc = "start" /\ g.fn = "init"
    \/ f.fn = "main" /\ f.pc \notin {"start", "join", "release"}
       /\ g.fn \in {"reattach", "resend_buffer", "send_overflow"}
    \/ f.fn = "main" /\ f.pc \notin {"start", "join", "release"}
       /\ g.fn \in {"send_register", "error_handling"} /\ g.m.kind \in {"app", "context", "unapp"}

(* While a thread resends there is something it still has to send.         *)
FrameFits(f) == f.fn = "resend_buffer" /\ f.pc \in {"loop", "write"} => f.n > 0

Bottom(t) == stack[t][1]
Outer(t) == IF t = main THEN "main" ELSE IF t = housekeeper THEN "housekeeper" ELSE "send_log"
Shape ==
    \A t \in Thread :
        /\ stack[t] # <<>> => Bottom(t).fn = Outer(t)
        /\ \A k \in 1 .. Len(stack[t]) : FrameFits(stack[t][k])
        /\ \A k \in 1 .. Len(stack[t]) - 1 : Calls(stack[t][k], stack[t][k + 1])

(* What main has set up, and taken down: loggers run in between.           *)
MainIs(pc) == stack[main] # <<>> /\ Bottom(main).pc = pc
Starting == MainIs("start") /\ Len(stack[main]) = 2
Stopped == (freeing \/ ~ready) /\ ~Starting /\ Idle(housekeeper)
MainSound ==
    /\ Starting => /\ ~ready /\ ~freeing /\ startup_buffer = <<>> /\ Idle(housekeeper)
                   /\ top(main).pc \in {"start", "common", "connect"}
                   /\ top(main).pc = "start" => ~initialised
                   /\ top(main).pc = "connect" => dlt_mutex = 1
    /\ ~Starting => (ready <=> ~Idle(main))
    /\ freeing <=> MainIs("join") \/ MainIs("release")
    /\ Idle(main) \/ MainIs("release") => Idle(housekeeper)
    /\ MainIs("registered") \/ MainIs("add_context") \/ MainIs("run") => appID
    /\ (\E t \in Logger : ~Idle(t)) => MainIs("run") /\ Len(stack[main]) = 1
    /\ ready /\ ~freeing => ~Idle(housekeeper)

(* The semaphore is 1, or 0 and one thread is in its section.              *)
Holding(f) == f.fn = "resend_buffer" /\ f.pc \in {"write", "close", "closed"}
MutexSound ==
    /\ Starting \/ Stopped => Holders = {}
    /\ ~Starting /\ ~Stopped =>
          \/ dlt_mutex = 1 /\ Holders = {}
          \/ dlt_mutex = 0 /\ \E t \in Thread : Holders = {t}
    /\ \A t \in Thread : At(t, "resend_buffer", "write") => startup_buffer # <<>>

(* The message a thread is logging has not been written, stored or dropped. *)
Unplaced(t) ==
    /\ stack[t] # <<>>
    /\ Len(stack[t]) > 1 \/ Bottom(t).pc \in {"start", "overflow", "resend", "out", "write"}
Sent(t, n) == n < logged[t] \/ (n = logged[t] /\ ~Unplaced(t))

Everywhere == Range(received) \cup Range(pipe) \cup Range(startup_buffer) \cup lost \cup dropped
PlaceSound ==
    /\ \A t \in Logger : stack[t] # <<>> => Bottom(t).m = LogMsg(t, logged[t]) /\ logged[t] > 0
    /\ \A x \in Everywhere : x.kind = "log" => x.from \in Logger /\ x.id > 0 /\ Sent(x.from, x.id)
    /\ \A t \in Logger : \A n \in Nat \ {0} : Sent(t, n) => LogMsg(t, n) \in Everywhere
    /\ \A x \in lost : x.kind = "log" =>
          x \notin Range(received) \cup Range(pipe) \cup Range(startup_buffer) \cup dropped
    /\ dropped \cap (Range(received) \cup Range(pipe) \cup Range(startup_buffer)) = {}

(* Message x may be sent before y, where the messages sk skipped a resend. *)
Fine(x, y, sk) ==
    x.kind = "log" /\ y.kind = "log" /\ x.from = y.from => x.id < y.id \/ (x.id > y.id /\ x \in sk)
FineIn(q, sk) == \A i, j \in 1 .. Len(q) : i < j => Fine(q[i], q[j], sk)
FineFrom(a, b, sk) == \A x \in Range(a), y \in Range(b) : Fine(x, y, sk)
Ordered(a, b, c, sk) ==
    /\ FineIn(a, sk) /\ FineIn(b, sk) /\ FineIn(c, sk)
    /\ FineFrom(a, b, sk) /\ FineFrom(a, c, sk) /\ FineFrom(b, c, sk)
OrderSound == Ordered(received, pipe, startup_buffer, skipped)

(* After a resend none of the thread's older messages is left; in one they *)
(* are among those that are still to be sent.                              *)
Mine(x, t) == x.kind = "log" /\ x.from = t
FlushFits(t) ==
    stack[t] # <<>> /\ Bottom(t).m \notin skipped =>
        /\ Bottom(t).pc = "write" \/ (Bottom(t).pc = "out" /\ Len(stack[t]) = 1 /\ ret[t] = OK) =>
              \A x \in Range(startup_buffer) : ~Mine(x, t)
        /\ Bottom(t).pc = "out" /\ Len(stack[t]) = 2 /\ stack[t][2].pc \in {"loop", "write"} =>
              \A i \in 1 .. Len(startup_buffer) : Mine(startup_buffer[i], t) => i <= stack[t][2].n
FlushSound == \A t \in Logger : FlushFits(t)

IInv ==
    /\ TypeSound /\ Shape /\ MainSound /\ MutexSound /\ PlaceSound /\ OrderSound /\ FlushSound

-----------------------------------------------------------------------------
(* What a step does to the calls of thread t: the innermost one goes on,   *)
(* calls another function, or returns.                                     *)
Replaces(t, f) ==
    /\ Len(stack'[t]) = Len(stack[t]) /\ stack'[t][Len(stack[t])] = f
    /\ \A k \in 1 .. Len(stack[t]) - 1 : stack'[t][k] = stack[t][k]
Pushes(t, f, g) ==
    /\ Len(stack'[t]) = Len(stack[t]) + 1
    /\ stack'[t][Len(stack[t])] = f /\ stack'[t][Len(stack[t]) + 1] = g
    /\ \A k \in 1 .. Len(stack[t]) - 1 : stack'[t][k] = stack[t][k]
Pops(t) ==
    /\ Len(stack'[t]) = Len(stack[t]) - 1
    /\ \A k \in 1 .. Len(stack[t]) - 1 : stack'[t][k] = stack[t][k]
Others(t) == \A u \in Thread : u # t => stack'[u] = stack[u]

(* The calls of a thread as a sequence.                                    *)
LEMMA StackIs ==
  ASSUME StackType, NEW t \in Thread
  PROVE  /\ stack[t] \in Seq(Frames) /\ Len(stack[t]) \in Nat
         /\ DOMAIN stack[t] = 1 .. Len(stack[t])
         /\ \A k \in 1 .. Len(stack[t]) : stack[t][k] \in Frames
         /\ stack[t] # <<>> <=> Len(stack[t]) > 0
         /\ stack[t] # <<>> => top(t) \in Frames /\ Len(stack[t]) \in 1 .. Len(stack[t])
<1>1. stack[t] \in Seq(Frames)
  BY DEF StackType
<1> DEFINE s == stack[t]
<1>2. s \in Seq(Frames)
  BY <1>1
<1> HIDE DEF s
<1>3. /\ Len(s) \in Nat /\ DOMAIN s = 1 .. Len(s) /\ \A k \in 1 .. Len(s) : s[k] \in Frames
      /\ s # <<>> <=> Len(s) > 0
  BY <1>2
<1>4. s # <<>> => Len(s) \in 1 .. Len(s)
  BY <1>3
<1> QED
  BY <1>1, <1>3, <1>4 DEF s, top

(* The stacks after one of them has changed.                               *)
LEMMA OneStack ==
  ASSUME StackType, NEW t \in Thread, NEW s \in Seq(Frames), stack' = [stack EXCEPT ![t] = s]
  PROVE  StackType' /\ Others(t) /\ stack'[t] = s
BY DEF StackType, Others

(* The innermost call goes on.                                             *)
LEMMA GotoIs ==
  ASSUME StackType, NEW t \in Thread, stack[t] # <<>>, NEW f \in Frames, Goto(t, f)
  PROVE  StackType' /\ Others(t) /\ Replaces(t, f)
<1> DEFINE s == [stack[t] EXCEPT ![Len(stack[t])] = f]
<1>1. stack' = [stack EXCEPT ![t] = s]
  BY DEF Goto
<1>2. /\ s \in Seq(Frames) /\ Len(s) = Len(stack[t]) /\ s[Len(stack[t])] = f
      /\ \A k \in 1 .. Len(stack[t]) : k # Len(stack[t]) => s[k] = stack[t][k]
  BY StackIs, SeqExcept
<1> HIDE DEF s
<1>3. StackType' /\ Others(t) /\ stack'[t] = s
  BY <1>1, <1>2, OneStack
<1>4. \A k \in 1 .. Len(stack[t]) - 1 : k \in 1 .. Len(stack[t]) /\ k # Len(stack[t])
  BY StackIs
<1> QED
  BY <1>2, <1>3, <1>4 DEF Replaces

(* The frame of a call at another position.                                *)
LEMMA FrameAt ==
  ASSUME NEW e \in Frames, NEW pc \in Pcs
  PROVE  LET f == [e EXCEPT !.pc = pc]
         IN  f \in Frames /\ f.fn = e.fn /\ f.pc = pc /\ f.m = e.m /\ f.fd = e.fd /\ f.n = e.n /\ f.res = e.res
BY DEF Frames

(* The frame of a new call.                                                *)
LEMMA NewFrame ==
  ASSUME NEW fn \in Fns, NEW m \in Msg
  PROVE  LET f == Frame(fn, m)
         IN  f \in Frames /\ f.fn = fn /\ f.pc = "start" /\ f.m = m /\ f.n = 0 /\ f.res = OK
<1>1. OK \in Int
  BY DEF OK
<1>2. "start" \in Pcs
  BY DEF Pcs
<1>3. NONE \in Fds \cup {NONE}
  OBVIOUS
<1> QED
  BY <1>1, <1>2, <1>3 DEF Frame, Frames

(* A call goes on at another position.                                     *)
LEMMA GotoPcIs ==
  ASSUME StackType, NEW t \in Thread, stack[t] # <<>>, NEW pc \in Pcs, GotoPc(t, pc)
  PROVE  /\ StackType' /\ Others(t)
         /\ \E f \in Frames : /\ Replaces(t, f) /\ f.fn = top(t).fn /\ f.pc = pc
                              /\ f.m = top(t).m /\ f.n = top(t).n
<1> DEFINE f == [top(t) EXCEPT !.pc = pc]
<1>1. top(t) \in Frames
  BY StackIs
<1>2. f \in Frames /\ f.fn = top(t).fn /\ f.pc = pc /\ f.m = top(t).m /\ f.n = top(t).n
  BY <1>1, FrameAt
<1>3. Goto(t, f)
  BY DEF GotoPc
<1> HIDE DEF f
<1> QED
  BY <1>2, <1>3, GotoIs

(* The innermost call is replaced, and calls another.                      *)
LEMMA FrontPushes ==
  ASSUME StackType, NEW t \in Thread, stack[t] # <<>>, NEW f \in Frames, NEW g \in Frames,
         stack' = [stack EXCEPT ![t] = Front(@) \o <<f, g>>]
  PROVE  StackType' /\ Others(t) /\ Pushes(t, f, g)
<1> DEFINE q == Front(stack[t])
           r == <<f, g>>
           s == q \o r
<1>0. Len(stack[t]) \in Nat /\ Len(stack[t]) > 0 /\ stack[t] \in Seq(Frames)
  BY StackIs
<1>1. q \in Seq(Frames) /\ Len(q) = Len(stack[t]) - 1 /\ \A k \in 1 .. Len(stack[t]) - 1 : q[k] = stack[t][k]
  BY <1>0 DEF Front
<1>2. r \in Seq(Frames) /\ Len(r) = 2 /\ r[1] = f /\ r[2] = g
  OBVIOUS
<1>3. stack' = [stack EXCEPT ![t] = s]
  OBVIOUS
<1> HIDE DEF q, r
<1>4. /\ s \in Seq(Frames) /\ Len(s) = Len(q) + Len(r)
      /\ \A j \in 1 .. Len(q) : s[j] = q[j]
      /\ \A j \in Len(q) + 1 .. Len(q) + Len(r) : s[j] = r[j - Len(q)]
  BY <1>1, <1>2, ConcatSeq
<1> HIDE DEF s
<1>5. StackType' /\ Others(t) /\ stack'[t] = s
  BY <1>3, <1>4, OneStack
<1>6. PICK n \in Nat : n = Len(q) /\ Len(stack[t]) = n + 1
  BY <1>0, <1>1
<1>7. n + 1 \in Len(q) + 1 .. Len(q) + Len(r) /\ n + 2 \in Len(q) + 1 .. Len(q) + Len(r)
      /\ (n + 1) - Len(q) = 1 /\ (n + 2) - Len(q) = 2
  BY <1>2, <1>6
<1>8. s[n + 1] = f /\ s[n + 2] = g
  BY <1>2, <1>4, <1>7
<1>9. Len(s) = Len(stack[t]) + 1 /\ (n + 1) + 1 = n + 2 /\ Len(stack[t]) - 1 = n
  BY <1>2, <1>4, <1>6
<1> QED
  BY <1>1, <1>4, <1>5, <1>6, <1>8, <1>9 DEF Pushes

(* The innermost call, now at pc, calls another.                           *)
LEMMA CallIs ==
  ASSUME StackType, NEW t \in Thread, stack[t] # <<>>, NEW pc \in Pcs, NEW g \in Frames,
         Call(t, pc, g)
  PROVE  /\ StackType' /\ Others(t)
         /\ \E f \in Frames : /\ Pushes(t, f, g) /\ f.fn = top(t).fn /\ f.pc = pc
                              /\ f.m = top(t).m /\ f.n = top(t).n
<1> DEFINE f == [top(t) EXCEPT !.pc = pc]
           q == [stack[t] EXCEPT ![Len(stack[t])] = f]
           s == Append(q, g)
<1>0. Len(stack[t]) \in Nat /\ Len(stack[t]) \in 1 .. Len(stack[t]) /\ stack[t] \in Seq(Frames) /\ top(t) \in Frames
  BY StackIs
<1>1. f \in Frames /\ f.fn = top(t).fn /\ f.pc = pc /\ f.m = top(t).m /\ f.n = top(t).n
  BY <1>0, FrameAt
<1>2. stack' = [stack EXCEPT ![t] = Append([stack[t] EXCEPT ![Len(stack[t])] = f], g)]
  <2>1. [stack[t] EXCEPT ![Len(stack[t])].pc = pc] = [stack[t] EXCEPT ![Len(stack[t])] = f]
    BY <1>0 DEF top
  <2>2. stack' = [stack EXCEPT ![t] = Append([stack[t] EXCEPT ![Len(stack[t])].pc = pc], g)]
    BY DEF Call
  <2> QED
    BY <2>1, <2>2
<1> HIDE DEF f
<1>3. /\ q \in Seq(Frames) /\ Len(q) = Len(stack[t]) /\ q[Len(stack[t])] = f
      /\ \A k \in 1 .. Len(stack[t]) : k # Len(stack[t]) => q[k] = stack[t][k]
  BY <1>0, <1>1, SeqExcept
<1>4. stack' = [stack EXCEPT ![t] = s]
  BY <1>2
<1> HIDE DEF q
<1>5. s \in Seq(Frames) /\ Len(s) = Len(q) + 1 /\ s[Len(q) + 1] = g /\ \A k \in 1 .. Len(q) : s[k] = q[k]
  BY <1>3
<1> HIDE DEF s
<1>6. StackType' /\ Others(t) /\ stack'[t] = s
  BY <1>4, <1>5, OneStack
<1>7. \A k \in 1 .. Len(stack[t]) - 1 : k \in 1 .. Len(stack[t]) /\ k # Len(stack[t])
  BY <1>0
<1>8. Pushes(t, f, g)
  BY <1>0, <1>3, <1>5, <1>6, <1>7 DEF Pushes
<1> QED
  BY <1>1, <1>6, <1>8

(* The innermost call returns r.                                           *)
LEMMA ReturnIs ==
  ASSUME StackType, NEW t \in Thread, stack[t] # <<>>, ret \in [Thread -> Int], NEW r \in Int,
         Return(t, r)
  PROVE  /\ StackType' /\ Others(t) /\ Pops(t)
         /\ ret' \in [Thread -> Int] /\ \A u \in Thread : u # t => ret'[u] = ret[u]
         /\ Len(stack[t]) > 1 /\ stack[t][Len(stack[t]) - 1].pc \in Awaited => ret'[t] = r
<1> DEFINE s == Front(stack[t])
           n == Len(stack[t])
           v == IF n > 1 /\ stack[t][n - 1].pc \in Awaited THEN r ELSE OK
<1>0. Len(stack[t]) \in Nat /\ Len(stack[t]) > 0 /\ stack[t] \in Seq(Frames)
  BY StackIs
<1>1. s \in Seq(Frames) /\ Len(s) = Len(stack[t]) - 1 /\ \A k \in 1 .. Len(stack[t]) - 1 : s[k] = stack[t][k]
  BY <1>0 DEF Front
<1>2. stack' = [stack EXCEPT ![t] = s] /\ ret' = [ret EXCEPT ![t] = v]
  BY DEF Return
<1> HIDE DEF s
<1>3. StackType' /\ Others(t) /\ stack'[t] = s
  BY <1>1, <1>2, OneStack
<1>4. v \in Int /\ (Len(stack[t]) > 1 /\ stack[t][Len(stack[t]) - 1].pc \in Awaited => v = r)
  BY DEF OK
<1> HIDE DEF v
<1>5. ret' \in [Thread -> Int] /\ (\A u \in Thread : u # t => ret'[u] = ret[u]) /\ ret'[t] = v
  BY <1>2, <1>4
<1> QED
  BY <1>1, <1>3, <1>4, <1>5 DEF Pops

(* Frame f can stand where frame e stood: the same call, or the one it     *)
(* ends with.                                                              *)
Resumes(e, f) ==
    \/ f.fn = e.fn /\ f.m = e.m
    \/ e.fn = "send_register" /\ f.fn = "error_handling" /\ f.m.kind = e.m.kind
    \/ e.fn = "reattach" /\ f.fn \in {"reattach", "resend_buffer"}

Moves(t) ==
    /\ stack[t] # <<>> /\ StackType' /\ Others(t)
    /\ \/ \E f \in Frames : Replaces(t, f) /\ Resumes(top(t), f) /\ FrameFits(f)
       \/ \E f, g \in Frames :
             Pushes(t, f, g) /\ Resumes(top(t), f) /\ Calls(f, g) /\ FrameFits(f) /\ g.pc = "start"
       \/ Pops(t)

(* The threads are different.                                              *)
LEMMA Threads ==
  /\ main \in Thread /\ housekeeper \in Thread /\ main # housekeeper
  /\ main \notin Logger /\ housekeeper \notin Logger /\ Logger \subseteq Thread
  /\ \A t \in Thread : t \in Logger \/ t = main \/ t = housekeeper
BY UserAssumption DEF Thread, main, housekeeper

(* Who is at the bottom of the calls of a thread, and who below its        *)
(* innermost one.                                                          *)
LEMMA ShapeIs ==
  ASSUME StackType, Shape, NEW t \in Thread, stack[t] # <<>>
  PROVE  /\ Len(stack[t]) \in Nat \ {0} /\ Bottom(t) \in Frames /\ Bottom(t).fn = Outer(t)
         /\ FrameFits(top(t))
         /\ top(t).fn \in {"main", "housekeeper", "send_log"} => Len(stack[t]) = 1
         /\ Len(stack[t]) = 1 => top(t) = Bottom(t)
         /\ Len(stack[t]) > 1 => Calls(stack[t][Len(stack[t]) - 1], top(t))
         /\ Len(stack[t]) > 1 => Calls(Bottom(t), stack[t][2])
         /\ Len(stack[t]) = 2 => top(t) = stack[t][2] /\ stack[t][Len(stack[t]) - 1] = Bottom(t)
<1> DEFINE n == Len(stack[t])
<1>1. n \in Nat /\ n > 0 /\ \A k \in 1 .. n : stack[t][k] \in Frames
  BY StackIs
<1>2. /\ Bottom(t).fn = Outer(t) /\ (\A k \in 1 .. n : FrameFits(stack[t][k]))
      /\ \A k \in 1 .. n - 1 : Calls(stack[t][k], stack[t][k + 1])
  BY DEF Shape
<1>3. top(t) = stack[t][n] /\ Bottom(t) = stack[t][1]
  BY DEF top, Bottom
<1> HIDE DEF n
<1>4. 1 \in 1 .. n /\ n \in 1 .. n /\ (n > 1 => n - 1 \in 1 .. n - 1 /\ (n - 1) + 1 = n /\ 1 \in 1 .. n - 1)
  BY <1>1
<1>5. n > 1 => Calls(stack[t][n - 1], stack[t][n]) /\ Calls(stack[t][1], stack[t][2])
  <2>1. n > 1 => Calls(stack[t][n - 1], stack[t][(n - 1) + 1])
    BY <1>2, <1>4
  <2>2. n > 1 => Calls(stack[t][1], stack[t][1 + 1])
    BY <1>2, <1>4
  <2>3. 1 + 1 = 2
    OBVIOUS
  <2> QED
    BY <2>1, <2>2, <2>3, <1>4
<1>6. top(t).fn \in {"main", "housekeeper", "send_log"} => n = 1
  <2>1. top(t).fn \in {"main", "housekeeper", "send_log"} => ~Calls(stack[t][n - 1], top(t))
    BY DEF Calls
  <2> QED
    BY <1>1, <1>3, <1>5, <2>1
<1>7. n \in Nat \ {0} /\ stack[t][1] \in Frames /\ FrameFits(stack[t][n])
  BY <1>1, <1>2, <1>4
<1>8. n = 2 => n - 1 = 1
  OBVIOUS
<1> QED
  BY <1>2, <1>3, <1>5, <1>6, <1>7, <1>8 DEF n

(* The calls of a logger.                                                  *)
LEMMA LoggerCalls ==
  ASSUME StackType, Shape, NEW t \in Logger, Len(stack[t]) > 1
  PROVE  LET b == Bottom(t)
             c == stack[t][2]
         IN  /\ b.fn = "send_log" /\ b \in Frames /\ c \in Frames /\ Calls(b, c)
             /\ b.pc \in {"overflow", "resend", "out", "handled"}
             /\ b.pc = "out" => c.fn = "resend_buffer"
             /\ b.pc = "handled" <=> c.fn = "error_handling"
             /\ b.pc = "handled" => c.m = b.m
             /\ b.pc # "overflow" => Len(stack[t]) = 2
<1> DEFINE n == Len(stack[t])
<1>1. t \in Thread /\ t # main /\ t # housekeeper
  BY Threads
<1>2. n \in Nat /\ n > 1 /\ (\A k \in 1 .. n : stack[t][k] \in Frames) /\ stack[t] # <<>>
  BY <1>1, StackIs
<1>3. Bottom(t).fn = "send_log" /\ Calls(Bottom(t), stack[t][2]) /\ Bottom(t) \in Frames
  BY <1>1, <1>2, ShapeIs DEF Outer
<1>4. stack[t][2] \in Frames
  BY <1>2
<1>5. /\ Bottom(t).pc \in {"overflow", "resend", "out", "handled"}
      /\ Bottom(t).pc = "out" => stack[t][2].fn = "resend_buffer"
      /\ Bottom(t).pc = "handled" <=> stack[t][2].fn = "error_handling"
      /\ Bottom(t).pc = "handled" => stack[t][2].m = Bottom(t).m
      /\ Bottom(t).pc # "overflow" => stack[t][2].fn \in {"resend_buffer", "send_overflow", "error_handling"}
  <2>1. \A b, c : Calls(b, c) /\ b.fn = "send_log" =>
           \/ b.pc = "overflow" /\ c.fn \in {"reattach", "resend_buffer"}
           \/ b.pc = "resend" /\ c.fn = "send_overflow"
           \/ b.pc = "out" /\ c.fn = "resend_buffer"
           \/ b.pc = "handled" /\ c.fn = "error_handling" /\ c.m = b.m
    BY DEF Calls
  <2>2. PICK b, c : b = Bottom(t) /\ c = stack[t][2]
    OBVIOUS
  <2>3. \/ b.pc = "overflow" /\ c.fn \in {"reattach", "resend_buffer"}
        \/ b.pc = "resend" /\ c.fn = "send_overflow"
        \/ b.pc = "out" /\ c.fn = "resend_buffer"
        \/ b.pc = "handled" /\ c.fn = "error_handling" /\ c.m = b.m
    BY <1>3, <2>1, <2>2
  <2>4. /\ b.pc \in {"overflow", "resend", "out", "handled"}
        /\ b.pc = "out" => c.fn = "resend_buffer"
        /\ b.pc = "handled" <=> c.fn = "error_handling"
        /\ b.pc = "handled" => c.m = b.m
        /\ b.pc # "overflow" => c.fn \in {"resend_buffer", "send_overflow", "error_handling"}
    BY <2>3
  <2> QED
    BY <2>2, <2>4
<1>6. ASSUME n # 2, stack[t][2].fn \in {"resend_buffer", "send_overflow", "error_handling"} PROVE FALSE
  <2>0. \A k \in Nat : k > 1 /\ k # 2 => 2 \in 1 .. k - 1
    OBVIOUS
  <2>1. 2 \in 1 .. n - 1
    BY <1>2, <1>6, <2>0
  <2>2. Calls(stack[t][2], stack[t][2 + 1])
    BY <1>1, <2>1 DEF Shape
  <2> QED
    BY <1>6, <2>2 DEF Calls
<1> QED
  BY <1>3, <1>4, <1>5, <1>6

(* A call is as well below the one that takes the place of another.        *)
LEMMA ResumesIs ==
  ASSUME NEW e, NEW f, NEW g, Calls(g, e), Resumes(e, f)
  PROVE  Calls(g, f)
<1>1. CASE f.fn = e.fn /\ f.m = e.m
  BY <1>1 DEF Calls
<1>2. CASE e.fn = "send_register" /\ f.fn = "error_handling" /\ f.m.kind = e.m.kind
  BY <1>2 DEF Calls
<1>3. CASE e.fn = "reattach" /\ f.fn \in {"reattach", "resend_buffer"}
  BY <1>3 DEF Calls
<1> QED
  BY <1>1, <1>2, <1>3 DEF Resumes

(* A step of a thread keeps who calls whom.                                *)
LEMMA ShapeKeeps ==
  ASSUME StackType, Shape, NEW t \in Thread, Moves(t)
  PROVE  Shape'
<1> DEFINE n == Len(stack[t])
           Chain(u, q) ==
               /\ q # <<>> => q[1].fn = Outer(u)
               /\ \A k \in 1 .. Len(q) : FrameFits(q[k])
               /\ \A k \in 1 .. Len(q) - 1 : Calls(q[k], q[k + 1])
<1>0. Shape' <=> \A u \in Thread : Chain(u, stack'[u])
  BY DEF Shape, Bottom, Outer, FrameFits, Calls
<1>1. \A u \in Thread : Chain(u, stack[u])
  BY DEF Shape, Bottom
<1>2. \A u \in Thread : u # t => stack'[u] = stack[u]
  BY DEF Moves, Others
<1>3. /\ n \in Nat \ {0} /\ (\A k \in 1 .. n : FrameFits(stack[t][k]))
      /\ \A k \in 1 .. n - 1 : Calls(stack[t][k], stack[t][k + 1])
      /\ stack[t][1].fn = Outer(t) /\ top(t) = stack[t][n]
      /\ n > 1 => Calls(stack[t][n - 1], top(t))
  BY <1>1, ShapeIs DEF Moves, top
<1>4. StackType' /\ stack'[t] \in Seq(Frames)
  BY DEF Moves, StackType
<1>5. ASSUME NEW f, Resumes(top(t), f), n = 1 PROVE f.fn = Outer(t)
  <2>1. top(t).fn = Outer(t)
    BY <1>3, <1>5
  <2>2. top(t).fn # "send_register" /\ top(t).fn # "reattach"
    BY <2>1 DEF Outer
  <2> QED
    BY <1>5, <2>1, <2>2 DEF Resumes
<1>6. ASSUME NEW f, Resumes(top(t), f), n > 1 PROVE Calls(stack[t][n - 1], f)
  BY <1>3, <1>6, ResumesIs
<1>7. CASE \E f \in Frames : Replaces(t, f) /\ Resumes(top(t), f) /\ FrameFits(f)
  <2>1. PICK f \in Frames : Replaces(t, f) /\ Resumes(top(t), f) /\ FrameFits(f)
    BY <1>7
  <2> DEFINE q == stack'[t]
  <2>2. Len(q) = n /\ q[n] = f /\ \A k \in 1 .. n - 1 : q[k] = stack[t][k]
    BY <2>1 DEF Replaces
  <2> HIDE DEF q, n
  <2>3. q[1].fn = Outer(t)
    <3>1. CASE n = 1
      BY <1>5, <2>1, <2>2, <3>1
    <3>2. CASE n # 1
      <4>1. 1 \in 1 .. n - 1
        BY <1>3, <3>2
      <4> QED
        BY <1>3, <2>2, <4>1
    <3> QED
      BY <3>1, <3>2
  <2>4. \A k \in 1 .. n : FrameFits(q[k])
    <3>1. \A k \in 1 .. n : k = n \/ k \in 1 .. n - 1
      BY <1>3
    <3> QED
      BY <1>3, <2>1, <2>2, <3>1
  <2>5. ASSUME NEW k \in 1 .. n - 1 PROVE Calls(q[k], q[k + 1])
    <3>1. CASE k = n - 1
      <4>1. n > 1 /\ k + 1 = n /\ k \in 1 .. n - 1
        BY <1>3, <3>1, <2>5
      <4> QED
        BY <1>6, <2>1, <2>2, <4>1, <3>1
    <3>2. CASE k # n - 1
      <4>1. k \in 1 .. n - 1 /\ k + 1 \in 1 .. n - 1
        BY <1>3, <3>2
      <4> QED
        BY <1>3, <2>2, <4>1
    <3> QED
      BY <3>1, <3>2
  <2>6. Chain(t, q)
    BY <2>2, <2>3, <2>4, <2>5
  <2> QED
    BY <1>0, <1>1, <1>2, <2>6 DEF q
<1>8. CASE \E f, g \in Frames :
             Pushes(t, f, g) /\ Resumes(top(t), f) /\ Calls(f, g) /\ FrameFits(f) /\ g.pc = "start"
  <2>1. PICK f \in Frames, g \in Frames :
             Pushes(t, f, g) /\ Resumes(top(t), f) /\ Calls(f, g) /\ FrameFits(f) /\ g.pc = "start"
    BY <1>8
  <2> DEFINE q == stack'[t]
  <2>2. Len(q) = n + 1 /\ q[n] = f /\ q[n + 1] = g /\ \A k \in 1 .. n - 1 : q[k] = stack[t][k]
    BY <2>1 DEF Pushes
  <2> HIDE DEF q, n
  <2>3. q[1].fn = Outer(t)
    <3>1. CASE n = 1
      BY <1>5, <2>1, <2>2, <3>1
    <3>2. CASE n # 1
      <4>1. 1 \in 1 .. n - 1
        BY <1>3, <3>2
      <4> QED
        BY <1>3, <2>2, <4>1
    <3> QED
      BY <3>1, <3>2
  <2>4. \A k \in 1 .. n + 1 : FrameFits(q[k])
    <3>1. \A k \in 1 .. n + 1 : k = n + 1 \/ k = n \/ (k \in 1 .. n - 1 /\ k \in 1 .. n)
      BY <1>3
    <3>2. FrameFits(g)
      BY <2>1 DEF FrameFits
    <3> QED
      BY <1>3, <2>1, <2>2, <3>1, <3>2
  <2>5. ASSUME NEW k \in 1 .. n PROVE Calls(q[k], q[k + 1])
    <3>1. CASE k = n
      BY <2>1, <2>2, <3>1
    <3>2. CASE k = n - 1
      <4>1. n > 1 /\ k + 1 = n /\ k \in 1 .. n - 1
        BY <1>3, <3>2, <2>5
      <4> QED
        BY <1>6, <2>1, <2>2, <4>1, <3>2
    <3>3. CASE k # n - 1 /\ k # n
      <4>1. k \in 1 .. n - 1 /\ k + 1 \in 1 .. n - 1
        BY <1>3, <3>3
      <4> QED
        BY <1>3, <2>2, <4>1
    <3> QED
      BY <3>1, <3>2, <3>3
  <2>6. (n + 1) - 1 = n
    BY <1>3
  <2>7. Chain(t, q)
    BY <2>2, <2>3, <2>4, <2>5, <2>6
  <2> QED
    BY <1>0, <1>1, <1>2, <2>7 DEF q
<1>9. CASE Pops(t)
  <2> DEFINE q == stack'[t]
  <2>1. Len(q) = n - 1 /\ \A k \in 1 .. n - 1 : q[k] = stack[t][k]
    BY <1>9 DEF Pops
  <2>2. q # <<>> => n > 1
    <3>1. q # <<>> => Len(q) > 0
      BY <1>4
    <3> QED
      BY <1>3, <2>1, <3>1
  <2> HIDE DEF q, n
  <2>3. q # <<>> => q[1].fn = Outer(t)
    BY <1>3, <2>1, <2>2
  <2>4. \A k \in 1 .. n - 1 : FrameFits(q[k])
    BY <1>3, <2>1
  <2>5. \A k \in 1 .. (n - 1) - 1 : Calls(q[k], q[k + 1])
    <3>1. \A k \in 1 .. (n - 1) - 1 : k \in 1 .. n - 1 /\ k + 1 \in 1 .. n - 1
      BY <1>3
    <3> QED
      BY <1>3, <2>1, <3>1
  <2>6. Chain(t, q)
    BY <2>1, <2>3, <2>4, <2>5
  <2> QED
    BY <1>0, <1>1, <1>2, <2>6 DEF q
<1> QED
  BY <1>7, <1>8, <1>9 DEF Moves

-----------------------------------------------------------------------------
(* Steps of a thread that leave the startup buffer, the semaphore and the  *)
(* log messages alone; a control message may be written to the FIFO.       *)
RestSound ==
    /\ dlt_log_handle \in Fds \cup {NONE} /\ contexts \in BOOLEAN /\ overflow_counter \in Nat
    /\ fds \in [Fds -> 0..(MaxCrash + 1)] /\ knows \subseteq {"app", "context"} /\ reported \in Nat
    /\ ret \in [Thread -> Int] /\ appID \in BOOLEAN /\ freeing \in BOOLEAN
ControlWrite ==
    \/ pipe' = pipe
    \/ \E m \in Msg : m.kind # "log" /\ Len(pipe) < PipeSize /\ pipe' = Append(pipe, m)
RetOthers(t) == \A u \in Thread : u # t => ret'[u] = ret[u]

Calm(t) ==
    /\ Moves(t) /\ RestSound' /\ RetOthers(t) /\ ControlWrite /\ skipped \subseteq skipped'
    /\ UNCHANGED <<scenario, initialised, ready, startup_buffer, buffer_size, dlt_mutex, logged,
                   daemon, crashes, received, lost, dropped>>
    /\ ~Holding(top(t)) /\ (stack'[t] # <<>> => ~Holding(top(t)'))

(* What a logger's step keeps: its message stays where it is, and its      *)
(* resend fits.                                                            *)
SameMessage(t) ==
    t \in Logger =>
        /\ Unplaced(t)' <=> Unplaced(t)
        /\ stack'[t] # <<>> => stack[t] # <<>> /\ Bottom(t)'.m = Bottom(t).m
LogKeeps(t) == SameMessage(t) /\ (t \in Logger => FlushFits(t)')

(* What is left of the startup buffer for the others moves to its front.   *)
Settles(t) ==
    \A u \in Logger : u # t =>
        \A i \in 1 .. Len(startup_buffer') : Mine(startup_buffer'[i], u) =>
            \E j \in 1 .. Len(startup_buffer) : i <= j /\ startup_buffer[j] = startup_buffer'[i]

PhaseSound == MainSound' /\ (Starting' <=> Starting) /\ (Stopped' <=> Stopped)

(* The parts of a message.                                                 *)
LEMMA MsgIs ==
  ASSUME NEW m \in Msg
  PROVE  /\ m.kind \in Kinds /\ m.from \in Thread /\ m.id \in Nat
         /\ m = [kind |-> m.kind, from |-> m.from, id |-> m.id]
         /\ m.kind = "log" => m = LogMsg(m.from, m.id)
BY DEF Msg, LogMsg

(* A message put at the end.                                               *)
LEMMA AppendIs ==
  ASSUME NEW q \in Seq(Msg), NEW m \in Msg
  PROVE  /\ Append(q, m) \in Seq(Msg) /\ Len(Append(q, m)) = Len(q) + 1
         /\ \A i \in 1 .. Len(q) : Append(q, m)[i] = q[i]
         /\ Append(q, m)[Len(q) + 1] = m
         /\ Range(Append(q, m)) = Range(q) \cup {m}
<1> DEFINE r == Append(q, m)
<1>1. /\ r \in Seq(Msg) /\ Len(r) = Len(q) + 1 /\ (\A i \in 1 .. Len(q) : r[i] = q[i])
      /\ r[Len(q) + 1] = m /\ DOMAIN r = 1 .. Len(q) + 1 /\ DOMAIN q = 1 .. Len(q) /\ Len(q) \in Nat
  OBVIOUS
<1> HIDE DEF r
<1>2. \A i \in 1 .. Len(q) + 1 : i \in 1 .. Len(q) \/ i = Len(q) + 1
  BY <1>1
<1>3. Len(q) + 1 \in 1 .. Len(q) + 1 /\ \A i \in 1 .. Len(q) : i \in 1 .. Len(q) + 1
  BY <1>1
<1>4. Range(r) = Range(q) \cup {m}
  BY <1>1, <1>2, <1>3 DEF Range
<1> QED
  BY <1>1, <1>4 DEF r

(* The message at the front taken off.                                     *)
LEMMA TailIs ==
  ASSUME NEW q \in Seq(Msg), q # <<>>
  PROVE  /\ Tail(q) \in Seq(Msg) /\ Len(q) \in Nat \ {0} /\ Len(Tail(q)) = Len(q) - 1
         /\ \A i \in 1 .. Len(q) - 1 : Tail(q)[i] = q[i + 1]
         /\ Head(q) = q[1] /\ Head(q) \in Msg
         /\ Range(q) = {Head(q)} \cup Range(Tail(q))
<1> DEFINE r == Tail(q)
           n == Len(q)
<1>1. /\ r \in Seq(Msg) /\ n \in Nat \ {0} /\ Len(r) = n - 1 /\ (\A i \in 1 .. n - 1 : r[i] = q[i + 1])
      /\ DOMAIN r = 1 .. n - 1 /\ DOMAIN q = 1 .. n /\ Head(q) = q[1] /\ q[1] \in Msg
  OBVIOUS
<1> HIDE DEF r, n
<1>2. \A i \in 1 .. n : i = 1 \/ (i - 1 \in 1 .. n - 1 /\ (i - 1) + 1 = i)
  BY <1>1
<1>3. \A i \in 1 .. n - 1 : i + 1 \in 1 .. n
  BY <1>1
<1>4. 1 \in 1 .. n
  BY <1>1
<1>5. ASSUME NEW x \in Range(q) PROVE x = q[1] \/ x \in Range(r)
  <2>1. PICK i \in 1 .. n : q[i] = x
    BY <1>1 DEF Range
  <2>2. i = 1 \/ (i - 1 \in 1 .. n - 1 /\ r[i - 1] = q[(i - 1) + 1])
    BY <1>1, <1>2
  <2> QED
    BY <1>1, <1>2, <2>1, <2>2 DEF Range
<1>6. \A x : x = q[1] \/ x \in Range(r) => x \in Range(q)
  BY <1>1, <1>3, <1>4 DEF Range
<1>7. Range(q) = {q[1]} \cup Range(r)
  BY <1>5, <1>6
<1> QED
  BY <1>1, <1>7 DEF r, n

(* The elements of a sequence of messages.                                 *)
LEMMA RangeIs ==
  ASSUME NEW q \in Seq(Msg)
  PROVE  /\ Range(q) \subseteq Msg /\ Len(q) \in Nat /\ DOMAIN q = 1 .. Len(q)
         /\ \A i \in 1 .. Len(q) : q[i] \in Msg /\ q[i] \in Range(q)
         /\ \A x \in Range(q) : \E i \in 1 .. Len(q) : q[i] = x
         /\ q = <<>> <=> Len(q) = 0
         /\ q = <<>> => Range(q) = {}
<1>1. Len(q) \in Nat /\ DOMAIN q = 1 .. Len(q) /\ \A i \in 1 .. Len(q) : q[i] \in Msg
  OBVIOUS
<1>2. Range(q) \subseteq Msg /\ (\A i \in 1 .. Len(q) : q[i] \in Range(q))
      /\ \A x \in Range(q) : \E i \in 1 .. Len(q) : q[i] = x
  BY <1>1 DEF Range
<1>3. q = <<>> <=> Len(q) = 0
  OBVIOUS
<1>4. q = <<>> => Range(q) = {}
  BY <1>2, <1>1, <1>3
<1> QED
  BY <1>1, <1>2, <1>3, <1>4

(* Two messages may follow each other as before when more have skipped.    *)
LEMMA FineGrows ==
  ASSUME NEW x, NEW y, NEW sk, NEW sl, sk \subseteq sl, Fine(x, y, sk)
  PROVE  Fine(x, y, sl)
BY DEF Fine

(* A message that is no log message may be anywhere.                       *)
LEMMA FineControl ==
  ASSUME NEW x, NEW y, NEW sk, x.kind # "log" \/ y.kind # "log"
  PROVE  Fine(x, y, sk)
BY DEF Fine

(* A message put at the end of those it may follow.                        *)
LEMMA FineAppends ==
  ASSUME NEW q \in Seq(Msg), NEW m \in Msg, NEW sk, FineIn(q, sk), \A x \in Range(q) : Fine(x, m, sk)
  PROVE  FineIn(Append(q, m), sk)
<1> DEFINE r == Append(q, m)
           n == Len(q)
<1>1. Len(r) = n + 1 /\ r[n + 1] = m /\ (\A i \in 1 .. n : r[i] = q[i]) /\ n \in Nat
  BY AppendIs
<1> HIDE DEF r
<1>2. ASSUME NEW i \in 1 .. n + 1, NEW j \in 1 .. n + 1, i < j PROVE Fine(r[i], r[j], sk)
  <2>1. i \in 1 .. n /\ (j \in 1 .. n \/ j = n + 1)
    BY <1>1, <1>2
  <2>2. CASE j \in 1 .. n
    BY <1>1, <1>2, <2>1, <2>2 DEF FineIn
  <2>3. CASE j = n + 1
    BY <1>1, <2>1, <2>3, RangeIs
  <2> QED
    BY <2>1, <2>2, <2>3
<1>3. FineIn(r, sk)
  BY <1>1, <1>2 DEF FineIn
<1> QED
  BY <1>3 DEF r

(* The rest after the front, which may precede it.                         *)
LEMMA FineTail ==
  ASSUME NEW q \in Seq(Msg), q # <<>>, NEW sk, FineIn(q, sk)
  PROVE  FineIn(Tail(q), sk) /\ \A x \in Range(Tail(q)) : Fine(Head(q), x, sk)
<1> DEFINE r == Tail(q)
           n == Len(q)
<1>1. /\ r \in Seq(Msg) /\ n \in Nat \ {0} /\ Len(r) = n - 1 /\ Head(q) = q[1]
      /\ \A i \in 1 .. n - 1 : r[i] = q[i + 1]
  BY TailIs
<1> HIDE DEF r
<1>2. \A i, j \in 1 .. n : i < j => Fine(q[i], q[j], sk)
  BY DEF FineIn
<1> HIDE DEF n
<1>3. ASSUME NEW i \in 1 .. n - 1, NEW j \in 1 .. n - 1, i < j PROVE Fine(r[i], r[j], sk)
  <2>1. i + 1 \in 1 .. n /\ j + 1 \in 1 .. n /\ i + 1 < j + 1
    BY <1>1, <1>3
  <2> QED
    BY <1>1, <1>2, <2>1
<1>4. ASSUME NEW x \in Range(r) PROVE Fine(q[1], x, sk)
  <2>1. PICK i \in 1 .. n - 1 : r[i] = x
    BY <1>1, RangeIs
  <2>2. 1 \in 1 .. n /\ i + 1 \in 1 .. n /\ 1 < i + 1
    BY <1>1, <2>1
  <2> QED
    BY <1>1, <1>2, <2>1, <2>2
<1>5. FineIn(r, sk)
  BY <1>1, <1>3 DEF FineIn
<1> QED
  BY <1>1, <1>4, <1>5 DEF r

(* Where messages are in order, a control message may be put anywhere.     *)
LEMMA OrderedMore ==
  ASSUME NEW a, NEW b, NEW c, NEW sk, NEW sl, Ordered(a, b, c, sk), sk \subseteq sl
  PROVE  Ordered(a, b, c, sl)
<1>1. \A x, y : Fine(x, y, sk) => Fine(x, y, sl)
  BY FineGrows
<1> QED
  BY <1>1 DEF Ordered, FineIn, FineFrom

(* A message is put at the end of the FIFO that may follow what is there   *)
(* and precede what is in the startup buffer.                              *)
LEMMA OrderedWrite ==
  ASSUME NEW a \in Seq(Msg), NEW b \in Seq(Msg), NEW c \in Seq(Msg), NEW m \in Msg, NEW sk,
         Ordered(a, b, c, sk),
         \A x \in Range(a) \cup Range(b) : Fine(x, m, sk), \A y \in Range(c) : Fine(m, y, sk)
  PROVE  Ordered(a, Append(b, m), c, sk)
<1>1. FineIn(Append(b, m), sk)
  BY FineAppends DEF Ordered
<1>2. Range(Append(b, m)) = Range(b) \cup {m}
  BY AppendIs
<1> QED
  BY <1>1, <1>2 DEF Ordered, FineFrom

(* A message is put at the end of the startup buffer.                      *)
LEMMA OrderedStore ==
  ASSUME NEW a \in Seq(Msg), NEW b \in Seq(Msg), NEW c \in Seq(Msg), NEW m \in Msg, NEW sk,
         Ordered(a, b, c, sk),
         \A x \in Range(a) \cup Range(b) \cup Range(c) : Fine(x, m, sk)
  PROVE  Ordered(a, b, Append(c, m), sk)
<1>1. FineIn(Append(c, m), sk)
  BY FineAppends DEF Ordered
<1>2. Range(Append(c, m)) = Range(c) \cup {m}
  BY AppendIs
<1> QED
  BY <1>1, <1>2 DEF Ordered, FineFrom

(* The front of the startup buffer goes to the end of the FIFO.            *)
LEMMA OrderedResend ==
  ASSUME NEW a \in Seq(Msg), NEW b \in Seq(Msg), NEW c \in Seq(Msg), c # <<>>, NEW sk,
         Ordered(a, b, c, sk)
  PROVE  Ordered(a, Append(b, Head(c)), Tail(c), sk)
<1>1. /\ Tail(c) \in Seq(Msg) /\ Head(c) \in Msg /\ Range(c) = {Head(c)} \cup Range(Tail(c))
      /\ FineIn(Tail(c), sk) /\ \A x \in Range(Tail(c)) : Fine(Head(c), x, sk)
  BY TailIs, FineTail DEF Ordered
<1>2. Ordered(a, b, Tail(c), sk)
  BY <1>1 DEF Ordered, FineFrom
<1>3. \A x \in Range(a) \cup Range(b) : Fine(x, Head(c), sk)
  BY <1>1 DEF Ordered, FineFrom
<1> HIDE DEF Ordered
<1> QED
  BY <1>1, <1>2, <1>3, OrderedWrite

(* The daemon reads the front of the FIFO.                                 *)
LEMMA OrderedRead ==
  ASSUME NEW a \in Seq(Msg), NEW b \in Seq(Msg), NEW c \in Seq(Msg), b # <<>>, NEW sk,
         Ordered(a, b, c, sk)
  PROVE  Ordered(a, Tail(b), c, sk) /\ Ordered(Append(a, Head(b)), Tail(b), c, sk)
<1>1. /\ Tail(b) \in Seq(Msg) /\ Head(b) \in Msg /\ Range(b) = {Head(b)} \cup Range(Tail(b))
      /\ FineIn(Tail(b), sk) /\ \A x \in Range(Tail(b)) : Fine(Head(b), x, sk)
  BY TailIs, FineTail DEF Ordered
<1>2. Ordered(a, Tail(b), c, sk)
  BY <1>1 DEF Ordered, FineFrom
<1>3. /\ FineIn(Append(a, Head(b)), sk) /\ Range(Append(a, Head(b))) = Range(a) \cup {Head(b)}
  <2>1. \A x \in Range(a) : Fine(x, Head(b), sk)
    BY <1>1 DEF Ordered, FineFrom
  <2> QED
    BY <1>1, <2>1, FineAppends, AppendIs DEF Ordered
<1> QED
  BY <1>1, <1>2, <1>3 DEF Ordered, FineFrom

(* What is thrown away leaves the rest in order.                           *)
LEMMA OrderedNone ==
  ASSUME NEW a, NEW b, NEW c, NEW sk, Ordered(a, b, c, sk)
  PROVE  Ordered(a, <<>>, c, sk) /\ Ordered(a, b, <<>>, sk)
<1>1. Range(<<>>) = {} /\ FineIn(<<>>, sk)
  BY DEF Range, FineIn
<1> QED
  BY <1>1 DEF Ordered, FineFrom

(* A step of a thread that is in no section before or after it.            *)
LEMMA MutexSame ==
  ASSUME MutexSound, NEW t \in Thread, Others(t), stack[t] # <<>>, ~Holding(top(t)),
         stack'[t] # <<>> => ~Holding(top(t)'), dlt_mutex' = dlt_mutex,
         startup_buffer # <<>> => startup_buffer' # <<>>,
         Starting' <=> Starting, Stopped' <=> Stopped
  PROVE  MutexSound'
<1>1. \A u \in Thread : u # t => (u \in Holders' <=> u \in Holders)
  BY DEF Holders, At, top, Others
<1>2. t \notin Holders /\ t \notin Holders'
  BY DEF Holders, At, Holding
<1>3. Holders' = Holders
  <2>1. Holders \subseteq Thread /\ Holders' \subseteq Thread
    BY DEF Holders
  <2> QED
    BY <1>1, <1>2, <2>1
<1>4. ASSUME NEW u \in Thread, At(u, "resend_buffer", "write")'
      PROVE  startup_buffer' # <<>>
  <2>1. CASE u = t
    BY <1>4, <2>1 DEF At, Holding
  <2>2. CASE u # t
    <3>1. At(u, "resend_buffer", "write")
      BY <1>4, <2>2 DEF At, top, Others
    <3> QED
      BY <3>1 DEF MutexSound
  <2> QED
    BY <2>1, <2>2
<1> QED
  BY <1>3, <1>4 DEF MutexSound

(* A step that leaves every log message where it is.                       *)
LEMMA PlaceSame ==
  ASSUME PlaceSound, NEW t \in Thread, Others(t), logged' = logged, SameMessage(t),
         \A x : x.kind = "log" => (x \in Everywhere' <=> x \in Everywhere),
         (\A x \in lost : x.kind = "log" =>
            x \notin Range(received) \cup Range(pipe) \cup Range(startup_buffer) \cup dropped)',
         (dropped \cap (Range(received) \cup Range(pipe) \cup Range(startup_buffer)) = {})'
  PROVE  PlaceSound'
<1>1. ASSUME NEW u \in Logger
      PROVE  /\ Unplaced(u)' <=> Unplaced(u)
             /\ stack'[u] # <<>> => stack[u] # <<>> /\ Bottom(u)'.m = Bottom(u).m
  <2>1. CASE u = t
    BY <2>1 DEF SameMessage
  <2>2. CASE u # t
    BY <2>2, Threads DEF Others, Unplaced, Bottom
  <2> QED
    BY <2>1, <2>2
<1>2. ASSUME NEW u \in Logger, NEW n PROVE Sent(u, n)' <=> Sent(u, n)
  BY <1>1 DEF Sent
<1>3. \A u \in Logger : stack'[u] # <<>> => Bottom(u)'.m = LogMsg(u, logged'[u]) /\ logged'[u] > 0
  BY <1>1 DEF PlaceSound
<1>4. ASSUME NEW x \in Everywhere', x.kind = "log"
      PROVE  x.from \in Logger /\ x.id > 0 /\ Sent(x.from, x.id)'
  <2>1. x.from \in Logger /\ x.id > 0 /\ Sent(x.from, x.id)
    BY <1>4 DEF PlaceSound
  <2> QED
    BY <2>1, <1>2
<1>5. ASSUME NEW u \in Logger, NEW n \in Nat \ {0}, Sent(u, n)'
      PROVE  LogMsg(u, n) \in Everywhere'
  <2>1. LogMsg(u, n).kind = "log" /\ LogMsg(u, n) \in Everywhere
    BY <1>2, <1>5 DEF PlaceSound, LogMsg
  <2> QED
    BY <2>1
<1> QED
  BY <1>3, <1>4, <1>5 DEF PlaceSound

(* The resends of other threads fit while what is theirs moves to the      *)
(* front of the startup buffer or leaves it.                               *)
LEMMA FlushOthers ==
  ASSUME StackType, startup_buffer \in Seq(Msg), FlushSound, NEW t \in Thread, Others(t), RetOthers(t),
         Shape, skipped \subseteq skipped', startup_buffer' \in Seq(Msg), Settles(t),
         t \in Logger => FlushFits(t)'
  PROVE  FlushSound'
<1>1. ASSUME NEW u \in Logger, u # t PROVE FlushFits(u)'
  <2>0. u \in Thread /\ stack'[u] = stack[u] /\ ret'[u] = ret[u] /\ Bottom(u)' = Bottom(u)
    BY <1>1, Threads DEF Others, RetOthers, Bottom
  <2>1. SUFFICES ASSUME stack[u] # <<>>, Bottom(u).m \notin skipped'
                 PROVE  /\ Bottom(u).pc = "write" \/ (Bottom(u).pc = "out" /\ Len(stack[u]) = 1 /\ ret[u] = OK) =>
                              \A x \in Range(startup_buffer') : ~Mine(x, u)
                        /\ Bottom(u).pc = "out" /\ Len(stack[u]) = 2 /\ stack[u][2].pc \in {"loop", "write"} =>
                              \A i \in 1 .. Len(startup_buffer') : Mine(startup_buffer'[i], u) => i <= stack[u][2].n
    BY <2>0 DEF FlushFits
  <2>2. /\ Bottom(u).pc = "write" \/ (Bottom(u).pc = "out" /\ Len(stack[u]) = 1 /\ ret[u] = OK) =>
              \A x \in Range(startup_buffer) : ~Mine(x, u)
        /\ Bottom(u).pc = "out" /\ Len(stack[u]) = 2 /\ stack[u][2].pc \in {"loop", "write"} =>
              \A i \in 1 .. Len(startup_buffer) : Mine(startup_buffer[i], u) => i <= stack[u][2].n
    BY <2>1 DEF FlushSound, FlushFits
  <2>3. \A i \in 1 .. Len(startup_buffer') : Mine(startup_buffer'[i], u) =>
            \E j \in 1 .. Len(startup_buffer) : i <= j /\ startup_buffer[j] = startup_buffer'[i]
    BY <1>1 DEF Settles
  <2>4. ASSUME NEW x \in Range(startup_buffer'), Mine(x, u) PROVE x \in Range(startup_buffer)
    <3>1. PICK i \in 1 .. Len(startup_buffer') : startup_buffer'[i] = x
      BY RangeIs
    <3>2. PICK j \in 1 .. Len(startup_buffer) : startup_buffer[j] = x
      BY <2>3, <2>4, <3>1
    <3> QED
      BY <3>2, RangeIs
  <2>5. ASSUME Len(stack[u]) = 2, NEW i \in 1 .. Len(startup_buffer'), Mine(startup_buffer'[i], u),
               \A j \in 1 .. Len(startup_buffer) : Mine(startup_buffer[j], u) => j <= stack[u][2].n
        PROVE  i <= stack[u][2].n
    <3>1. PICK j \in 1 .. Len(startup_buffer) : i <= j /\ startup_buffer[j] = startup_buffer'[i]
      BY <2>3, <2>5
    <3>2. j <= stack[u][2].n /\ stack[u][2].n \in Nat
      <4>1. 2 \in 1 .. Len(stack[u]) /\ stack[u][2] \in Frames
        BY <2>0, <2>5, StackIs
      <4> QED
        BY <2>5, <3>1, <4>1 DEF Frames
    <3>3. \A p, q, r \in Nat : p <= q /\ q <= r => p <= r
      OBVIOUS
    <3>4. i \in Nat /\ j \in Nat
      BY RangeIs
    <3> QED
      BY <3>1, <3>2, <3>3, <3>4
  <2> QED
    BY <2>2, <2>4, <2>5
<1> QED
  BY <1>1 DEF FlushSound

-----------------------------------------------------------------------------
(* The steps of a thread that leave the startup buffer and the log         *)
(* messages alone keep the invariant.                                      *)
LEMMA CalmRest ==
  ASSUME IInv, NEW t \in Thread, Moves(t), RestSound', RetOthers(t), ControlWrite, skipped \subseteq skipped',
         UNCHANGED <<scenario, startup_buffer, logged, daemon, crashes, received, lost, dropped>>,
         initialised' \in BOOLEAN, ready' \in BOOLEAN, dlt_mutex' \in 0..2,
         Len(startup_buffer) <= buffer_size' /\ buffer_size' \in RingMin..scenario.ring,
         LogKeeps(t), MainSound', MutexSound'
  PROVE  IInv'
<1>1. /\ startup_buffer \in Seq(Msg) /\ pipe \in Seq(Msg) /\ received \in Seq(Msg)
      /\ StackType /\ Len(pipe) <= PipeSize
  BY DEF IInv, TypeSound, TypeOK
<1>2. pipe' \in Seq(Msg) /\ Len(pipe') <= PipeSize
  <2>1. CASE pipe' = pipe
    BY <1>1, <2>1
  <2>2. ASSUME NEW m \in Msg, Len(pipe) < PipeSize, pipe' = Append(pipe, m)
        PROVE  pipe' \in Seq(Msg) /\ Len(pipe') <= PipeSize
    <3>1. Append(pipe, m) \in Seq(Msg) /\ Len(Append(pipe, m)) = Len(pipe) + 1 /\ Len(pipe) \in Nat
      BY <1>1, AppendIs, RangeIs
    <3> QED
      BY <2>2, <3>1, UserAssumption
  <2> QED
    BY <2>1, <2>2 DEF ControlWrite
<1>3. TypeSound'
  BY <1>1, <1>2 DEF IInv, TypeSound, TypeOK, Moves, RestSound
<1>4. Shape'
  BY ShapeKeeps, <1>1 DEF IInv
<1>7. \A x : x.kind = "log" => (x \in Range(pipe') <=> x \in Range(pipe))
  <2>1. ASSUME NEW m \in Msg, m.kind # "log", pipe' = Append(pipe, m)
        PROVE  \A x : x.kind = "log" => (x \in Range(pipe') <=> x \in Range(pipe))
    BY <1>1, <2>1, AppendIs
  <2> QED
    BY <2>1 DEF ControlWrite
<1>8. PlaceSound'
  <2>1. UNCHANGED <<received, startup_buffer, lost, dropped, logged>> /\ Others(t) /\ SameMessage(t)
    BY DEF Moves, LogKeeps
  <2>2. \A x : x.kind = "log" => (x \in Everywhere' <=> x \in Everywhere)
    BY <1>7, <2>1 DEF Everywhere
  <2>3. (\A x \in lost : x.kind = "log" =>
            x \notin Range(received) \cup Range(pipe) \cup Range(startup_buffer) \cup dropped)'
    BY <1>7, <2>1 DEF IInv, PlaceSound
  <2>4. dropped \subseteq Messages /\ \A x \in Messages : x.kind = "log"
    BY DEF IInv, TypeSound, TypeOK, Messages, LogMsg
  <2>5. (dropped \cap (Range(received) \cup Range(pipe) \cup Range(startup_buffer)) = {})'
    BY <1>7, <2>1, <2>4 DEF IInv, PlaceSound
  <2> QED
    BY <2>1, <2>2, <2>3, <2>5, PlaceSame DEF IInv
<1>9. OrderSound'
  <2>0. Ordered(received, pipe, startup_buffer, skipped)
    BY DEF IInv, OrderSound
  <2>1. Ordered(received, pipe', startup_buffer, skipped)
    <3>1. ASSUME NEW m \in Msg, m.kind # "log", pipe' = Append(pipe, m)
          PROVE  Ordered(received, pipe', startup_buffer, skipped)
      BY <1>1, <2>0, <3>1, FineControl, OrderedWrite
    <3> QED
      BY <2>0, <3>1 DEF ControlWrite
  <2>2. UNCHANGED <<received, startup_buffer>> /\ skipped \subseteq skipped'
    OBVIOUS
  <2> QED
    BY <2>1, <2>2, OrderedMore DEF OrderSound
<1>10. FlushSound'
  <2>1. startup_buffer' = startup_buffer /\ Others(t) /\ RetOthers(t) /\ skipped \subseteq skipped'
    BY DEF Moves
  <2>2. Settles(t)
    <3>1. \A i \in 1 .. Len(startup_buffer) : i <= i
      BY <1>1, RangeIs
    <3> QED
      BY <2>1, <3>1 DEF Settles
  <2> QED
    BY <1>1, <2>1, <2>2, FlushOthers DEF IInv, LogKeeps
<1> QED
  BY <1>3, <1>4, <1>8, <1>9, <1>10 DEF IInv

(* So do those that leave the semaphore alone as well.                     *)
LEMMA CalmKeeps ==
  ASSUME IInv, NEW t \in Thread, Calm(t), LogKeeps(t), PhaseSound
  PROVE  IInv'
<1>1. /\ Moves(t) /\ RestSound' /\ RetOthers(t) /\ ControlWrite /\ skipped \subseteq skipped'
      /\ UNCHANGED <<scenario, initialised, ready, startup_buffer, buffer_size, dlt_mutex, logged, daemon,
                     crashes, received, lost, dropped>>
  BY DEF Calm
<1>2. MainSound'
  BY DEF PhaseSound
<1>3. MutexSound'
  BY MutexSame DEF IInv, Calm, Moves, PhaseSound
<1>4. /\ initialised' \in BOOLEAN /\ ready' \in BOOLEAN /\ dlt_mutex' \in 0..2
      /\ Len(startup_buffer) <= buffer_size' /\ buffer_size' \in RingMin..scenario.ring
  BY <1>1 DEF IInv, TypeSound, TypeOK
<1> QED
  BY <1>1, <1>2, <1>3, <1>4, CalmRest

(* The functions of the library that any thread calls.                     *)
Callees == {"reattach", "resend_buffer", "send_register", "send_overflow", "error_handling"}

(* They run in a thread that another function called them in, while the    *)
(* library is set up and dlt_free has not come to join.                    *)
LEMMA LibraryRuns ==
  ASSUME IInv, NEW t \in Thread, stack[t] # <<>>, top(t).fn \in Callees
  PROVE  /\ Len(stack[t]) > 1 /\ ~Starting /\ ~Stopped
         /\ t = main => Bottom(main).pc \notin {"start", "join", "release"}
         /\ t \in Logger => appID /\ ready /\ ~freeing
<1>1. /\ Len(stack[t]) \in Nat \ {0} /\ Bottom(t).fn = Outer(t)
      /\ Len(stack[t]) = 1 => top(t) = Bottom(t)
      /\ Len(stack[t]) > 1 => Calls(Bottom(t), stack[t][2])
      /\ Len(stack[t]) = 2 => top(t) = stack[t][2]
  BY ShapeIs DEF IInv, TypeSound
<1>2. Len(stack[t]) > 1
  <2>1. Len(stack[t]) # 1
    BY <1>1 DEF Outer, Callees
  <2>2. \A n \in Nat \ {0} : n # 1 => n > 1
    OBVIOUS
  <2>3. Len(stack[t]) \in Nat \ {0}
    BY <1>1
  <2> QED
    BY <2>1, <2>2, <2>3
<1>3. CASE t = main
  <2>1. Bottom(main).fn = "main" /\ Calls(Bottom(main), stack[main][2])
    BY <1>1, <1>2, <1>3 DEF Outer
  <2>2. Bottom(main).pc \notin {"join", "release"}
    BY <2>1 DEF Calls
  <2>3. Bottom(main).pc # "start"
    <3>1. SUFFICES ASSUME Bottom(main).pc = "start" PROVE FALSE
      OBVIOUS
    <3>2. stack[main][2].fn = "init"
      BY <2>1, <3>1 DEF Calls
    <3>3. Len(stack[main]) # 2
      BY <1>1, <1>3, <3>2 DEF Callees
    <3>4. \A n \in Nat : n > 1 /\ n # 2 => 2 \in 1 .. n - 1
      OBVIOUS
    <3>5. 2 \in 1 .. Len(stack[main]) - 1
      BY <1>1, <1>2, <1>3, <3>3, <3>4
    <3>6. Calls(stack[main][2], stack[main][2 + 1])
      BY <3>5, <1>3 DEF IInv, Shape
    <3> QED
      BY <3>2, <3>6 DEF Calls
  <2>4. ~Starting
    BY <2>3 DEF Starting, MainIs
  <2>5. ready /\ ~freeing
    BY <1>3, <2>2, <2>4 DEF IInv, MainSound, MainIs, Idle
  <2> QED
    BY <1>2, <1>3, <2>2, <2>3, <2>4, <2>5, Threads DEF Stopped
<1>4. CASE t \in Logger
  <2>1. MainIs("run") /\ Len(stack[main]) = 1
    BY <1>4 DEF IInv, MainSound, Idle
  <2>2. ~Starting /\ ~MainIs("join") /\ ~MainIs("release") /\ ~Idle(main)
    BY <2>1 DEF MainIs, Starting, Idle
  <2>3. ready /\ ~freeing /\ appID
    BY <2>1, <2>2 DEF IInv, MainSound
  <2> QED
    BY <1>2, <1>4, <2>2, <2>3, Threads DEF Stopped
<1>5. CASE t = housekeeper
  BY <1>2, <1>5, Threads DEF IInv, MainSound, Stopped, Idle
<1> QED
  BY <1>3, <1>4, <1>5, Threads

(* Main goes on as before while a thread is in the library.                *)
LEMMA LibraryPhase ==
  ASSUME IInv, NEW t \in Thread, Moves(t), top(t).fn \in Callees, UNCHANGED <<ready, freeing>>,
         appID => appID'
  PROVE  PhaseSound
<1>1. /\ stack[t] # <<>> /\ StackType /\ StackType' /\ Shape /\ MainSound
      /\ \A u \in Thread : u # t => stack'[u] = stack[u]
  BY DEF IInv, TypeSound, Moves, Others
<1>2. /\ Len(stack[t]) > 1 /\ ~Starting
      /\ t = main => Bottom(main).pc \notin {"start", "join", "release"}
  BY <1>1, LibraryRuns
<1>3. Len(stack[t]) \in Nat /\ stack[t] \in Seq(Frames) /\ stack'[t] \in Seq(Frames)
  BY <1>1 DEF StackType
<1>4. Len(stack'[t]) >= 1 /\ stack'[t] # <<>> /\ Bottom(t)' = Bottom(t)
  <2>1. 1 \in 1 .. Len(stack[t]) - 1
    BY <1>2, <1>3
  <2>2. stack'[t][1] = stack[t][1]
    BY <2>1 DEF Moves, Replaces, Pushes, Pops
  <2>3. Len(stack'[t]) \in {Len(stack[t]), Len(stack[t]) + 1, Len(stack[t]) - 1}
    BY DEF Moves, Replaces, Pushes, Pops
  <2>4. \A n \in Nat : n > 1 => n >= 1 /\ n + 1 >= 1 /\ n - 1 >= 1
    OBVIOUS
  <2>5. Len(stack'[t]) >= 1
    BY <1>2, <1>3, <2>3, <2>4
  <2>6. stack'[t] # <<>>
    BY <1>3, <2>5
  <2> QED
    BY <2>2, <2>5, <2>6 DEF Bottom
<1>5. \A u \in Thread : /\ Idle(u)' <=> Idle(u)
                        /\ ~Idle(u) => Bottom(u)' = Bottom(u)
  BY <1>1, <1>4 DEF Idle, Bottom
<1>6. ASSUME NEW pc PROVE MainIs(pc)' <=> MainIs(pc)
  BY <1>5, Threads DEF MainIs, Idle
<1>8. ~Starting'
  <2>1. CASE t = main
    BY <1>2, <1>6, <2>1 DEF Starting, MainIs
  <2>2. CASE t # main
    <3>1. stack'[main] = stack[main]
      BY <1>1, <2>2, Threads
    <3> QED
      BY <1>2, <1>6, <3>1 DEF Starting
  <2> QED
    BY <2>1, <2>2
<1>9. Stopped' <=> Stopped
  BY <1>2, <1>5, <1>8, Threads DEF Stopped
<1>10. (\E u \in Logger : ~Idle(u))' => MainIs("run")' /\ (Len(stack[main]) = 1)'
  <2>1. SUFFICES ASSUME NEW u \in Logger, ~Idle(u)'
                 PROVE  MainIs("run")' /\ Len(stack'[main]) = 1
    OBVIOUS
  <2>2. ~Idle(u)
    BY <1>5, <2>1, Threads
  <2>3. MainIs("run") /\ Len(stack[main]) = 1
    BY <1>1, <2>2 DEF MainSound
  <2>4. t # main
    <3>1. t = main => Len(stack[main]) > 1
      BY <1>2
    <3>2. ~(1 > 1)
      OBVIOUS
    <3> QED
      BY <2>3, <3>1, <3>2
  <2> QED
    BY <1>1, <1>6, <2>3, <2>4, Threads
<1>11. MainSound'
  <2>1. ~Starting' => (ready' <=> ~Idle(main)')
    BY <1>1, <1>2, <1>5, Threads DEF MainSound
  <2>2. freeing' <=> MainIs("join")' \/ MainIs("release")'
    BY <1>1, <1>6 DEF MainSound
  <2>3. Idle(main)' \/ MainIs("release")' => Idle(housekeeper)'
    BY <1>1, <1>5, <1>6, Threads DEF MainSound
  <2>4. MainIs("registered")' \/ MainIs("add_context")' \/ MainIs("run")' => appID'
    BY <1>1, <1>6 DEF MainSound
  <2>5. ready' /\ ~freeing' => ~Idle(housekeeper)'
    BY <1>1, <1>5, Threads DEF MainSound
  <2> QED
    BY <1>8, <1>10, <2>1, <2>2, <2>3, <2>4, <2>5 DEF MainSound
<1> QED
  BY <1>2, <1>8, <1>9, <1>11 DEF PhaseSound

(* A logger's message is where it was while the thread is in the library,  *)
(* unless it resends or stores the message.                                *)
LEMMA LibraryLogs ==
  ASSUME IInv, NEW t \in Thread, Moves(t), top(t).fn \in Callees,
         top(t).fn = "resend_buffer" /\ Len(stack[t]) = 2 => Bottom(t).pc # "out",
         top(t).fn = "error_handling" => ~Pops(t) \/ Len(stack[t]) > 2
  PROVE  LogKeeps(t)
<1> SUFFICES ASSUME t \in Logger
             PROVE  /\ Unplaced(t)' <=> Unplaced(t)
                    /\ stack'[t] # <<>> => stack[t] # <<>> /\ Bottom(t)'.m = Bottom(t).m
                    /\ FlushFits(t)'
  BY DEF LogKeeps, SameMessage
<1>1. /\ stack[t] # <<>> /\ StackType /\ StackType' /\ Shape
  BY DEF IInv, TypeSound, Moves
<1>2. Len(stack[t]) > 1
  BY <1>1, LibraryRuns
<1>3. Len(stack[t]) \in Nat /\ stack[t] \in Seq(Frames) /\ stack'[t] \in Seq(Frames)
      /\ Len(stack'[t]) \in Nat /\ (stack'[t] # <<>> <=> Len(stack'[t]) > 0)
  BY <1>1 DEF StackType
<1>4. Bottom(t)' = Bottom(t) /\ stack'[t] # <<>>
  <2>1. 1 \in 1 .. Len(stack[t]) - 1
    BY <1>2, <1>3
  <2>2. stack'[t][1] = stack[t][1]
    BY <2>1 DEF Moves, Replaces, Pushes, Pops
  <2>3. Len(stack'[t]) \in {Len(stack[t]), Len(stack[t]) + 1, Len(stack[t]) - 1}
    BY DEF Moves, Replaces, Pushes, Pops
  <2>4. \A n \in Nat : n > 1 => n > 0 /\ n + 1 > 0 /\ n - 1 > 0
    OBVIOUS
  <2> QED
    BY <1>2, <1>3, <2>2, <2>3, <2>4 DEF Bottom
<1>5. /\ Bottom(t).pc \in {"overflow", "resend", "out", "handled"}
      /\ Bottom(t).pc = "out" => stack[t][2].fn = "resend_buffer"
      /\ Bottom(t).pc = "handled" => stack[t][2].fn = "error_handling"
      /\ Bottom(t).pc # "overflow" => Len(stack[t]) = 2
      /\ Len(stack[t]) = 2 => top(t) = stack[t][2]
  BY <1>1, <1>2, LoggerCalls, ShapeIs, Threads
<1>6. Bottom(t).pc # "out"
  BY <1>5
<1>7. Unplaced(t)
  BY <1>1, <1>2 DEF Unplaced
<1>8. Unplaced(t)'
  <2>1. CASE Len(stack'[t]) > 1
    BY <1>4, <2>1 DEF Unplaced
  <2>2. CASE ~(Len(stack'[t]) > 1)
    <3>1. Pops(t) /\ Len(stack[t]) = 2
      <4>1. \A n \in Nat : n > 1 => n + 1 > 1 /\ (n # 2 => n - 1 > 1)
        OBVIOUS
      <4> QED
        BY <1>2, <1>3, <2>2, <4>1 DEF Moves, Replaces, Pushes, Pops
    <3>2. Bottom(t).pc # "handled"
      BY <1>5, <3>1
    <3> QED
      BY <1>4, <1>5, <3>2 DEF Unplaced
  <2> QED
    BY <2>1, <2>2
<1>9. FlushFits(t)'
  BY <1>4, <1>5, <1>6 DEF FlushFits
<1> QED
  BY <1>1, <1>4, <1>7, <1>8, <1>9

-----------------------------------------------------------------------------
(* The steps within the library.                                           *)

(* What a step starts from.                                                *)
LEMMA StartsFrom ==
  ASSUME IInv, NEW t \in Thread, NEW fn, NEW pc, At(t, fn, pc)
  PROVE  /\ StackType /\ Shape /\ stack[t] # <<>> /\ top(t).fn = fn /\ top(t).pc = pc
         /\ top(t) \in Frames /\ top(t).m \in Msg /\ top(t).n \in Nat /\ top(t).res \in Int
         /\ top(t).fd \in Fds \cup {NONE} /\ FrameFits(top(t))
         /\ dlt_log_handle \in Fds \cup {NONE} /\ overflow_counter \in Nat /\ ret \in [Thread -> Int]
         /\ fds \in [Fds -> 0..(MaxCrash + 1)] /\ appID \in BOOLEAN /\ reported \in Nat
         /\ Len(stack[t]) > 1 => Calls(stack[t][Len(stack[t]) - 1], top(t))
<1>1. StackType /\ Shape /\ stack[t] # <<>> /\ top(t).fn = fn /\ top(t).pc = pc
  BY DEF IInv, TypeSound, At
<1>2. top(t) \in Frames
  BY <1>1, StackIs
<1>3. FrameFits(top(t)) /\ (Len(stack[t]) > 1 => Calls(stack[t][Len(stack[t]) - 1], top(t)))
  BY <1>1, ShapeIs
<1>4. PICK f \in Frames : f = top(t)
  BY <1>2
<1>5. f.m \in Msg /\ f.n \in Nat /\ f.res \in Int /\ f.fd \in Fds \cup {NONE}
  BY DEF Frames
<1>6. /\ dlt_log_handle \in Fds \cup {NONE} /\ overflow_counter \in Nat /\ ret \in [Thread -> Int]
      /\ fds \in [Fds -> 0..(MaxCrash + 1)] /\ appID \in BOOLEAN /\ reported \in Nat
  BY DEF IInv, TypeSound, TypeOK
<1> QED
  BY <1>1, <1>2, <1>3, <1>4, <1>5, <1>6

(* The numbers the code returns.                                           *)
LEMMA ResultsAre ==
  /\ OK \in Int /\ ERROR \in Int /\ PIPE_ERROR \in Int /\ PIPE_FULL \in Int /\ BUFFER_FULL \in Int
  /\ NONE \in Int /\ OK # ERROR /\ OK # PIPE_ERROR /\ OK # PIPE_FULL /\ OK # BUFFER_FULL
  /\ PIPE_ERROR # PIPE_FULL /\ PIPE_ERROR # ERROR
BY DEF OK, ERROR, PIPE_ERROR, PIPE_FULL, BUFFER_FULL, NONE

(* The result of a write: it is OK only where the FIFO has room.           *)
LEMMA Out3Is ==
  ASSUME NEW fd
  PROVE  /\ Out3(fd) \in {OK, ERROR, PIPE_ERROR, PIPE_FULL} /\ Out2(fd) \in {OK, ERROR}
         /\ Out3(fd) = OK => ~(Len(pipe) >= PipeSize)
         /\ Out2(fd) = OK => Out3(fd) = OK
BY ResultsAre DEF Out3, Out2

(* The innermost call goes on, or another takes its place.                 *)
LEMMA GoesOn ==
  ASSUME StackType, NEW t \in Thread, stack[t] # <<>>, NEW f \in Frames, Goto(t, f),
         Resumes(top(t), f), FrameFits(f)
  PROVE  /\ Moves(t) /\ stack'[t] # <<>> /\ top(t)' = f /\ Replaces(t, f) /\ ~Pops(t)
         /\ Len(stack'[t]) = Len(stack[t])
<1>1. StackType' /\ Others(t) /\ Replaces(t, f)
  BY GotoIs
<1>2. Len(stack'[t]) = Len(stack[t]) /\ stack'[t] # <<>> /\ Len(stack[t]) \in Nat
  BY <1>1, StackIs DEF Replaces, StackType
<1>3. top(t)' = f
  BY <1>1, <1>2 DEF Replaces, top
<1>4. ~Pops(t)
  <2>1. \A n \in Nat : n # n - 1
    OBVIOUS
  <2> QED
    BY <1>2, <2>1 DEF Pops
<1> QED
  BY <1>1, <1>2, <1>3, <1>4 DEF Moves

(* The innermost call goes on at another position.                         *)
LEMMA GoesTo ==
  ASSUME StackType, NEW t \in Thread, stack[t] # <<>>, NEW pc \in Pcs, GotoPc(t, pc),
         top(t).fn = "resend_buffer" => pc \notin {"loop", "write"}
  PROVE  /\ Moves(t) /\ stack'[t] # <<>> /\ ~Pops(t) /\ Len(stack'[t]) = Len(stack[t])
         /\ \E f \in Frames : /\ top(t)' = f /\ Replaces(t, f) /\ f.fn = top(t).fn /\ f.pc = pc
                              /\ f.m = top(t).m /\ f.n = top(t).n
<1> DEFINE f == [top(t) EXCEPT !.pc = pc]
<1>1. top(t) \in Frames
  BY StackIs
<1>2. f \in Frames /\ f.fn = top(t).fn /\ f.pc = pc /\ f.m = top(t).m /\ f.n = top(t).n
  BY <1>1, FrameAt
<1>3. Goto(t, f)
  BY DEF GotoPc
<1> HIDE DEF f
<1>4. Resumes(top(t), f) /\ FrameFits(f)
  BY <1>2 DEF Resumes, FrameFits
<1> QED
  BY <1>2, <1>3, <1>4, GoesOn

(* The innermost call makes another.                                       *)
LEMMA CallsOn ==
  ASSUME StackType, NEW t \in Thread, stack[t] # <<>>, NEW pc \in Pcs, NEW g \in Frames, g.pc = "start",
         Call(t, pc, g), top(t).fn # "resend_buffer",
         \A f \in Frames : f.fn = top(t).fn /\ f.pc = pc /\ f.m = top(t).m => Calls(f, g)
  PROVE  /\ Moves(t) /\ stack'[t] # <<>> /\ top(t)' = g /\ ~Pops(t) /\ Len(stack'[t]) = Len(stack[t]) + 1
         /\ \E f \in Frames : /\ Pushes(t, f, g) /\ f.fn = top(t).fn /\ f.pc = pc
                              /\ f.m = top(t).m /\ f.n = top(t).n
<1>1. StackType' /\ Others(t)
  BY CallIs
<1>2. PICK f \in Frames : /\ Pushes(t, f, g) /\ f.fn = top(t).fn /\ f.pc = pc
                          /\ f.m = top(t).m /\ f.n = top(t).n
  BY CallIs
<1>3. Resumes(top(t), f) /\ Calls(f, g) /\ FrameFits(f)
  BY <1>2 DEF Resumes, FrameFits
<1>4. Len(stack'[t]) = Len(stack[t]) + 1 /\ stack'[t] \in Seq(Frames) /\ Len(stack[t]) \in Nat
  BY <1>1, <1>2, StackIs DEF Pushes, StackType
<1>5. stack'[t] # <<>>
  BY <1>4
<1>6. top(t)' = g
  BY <1>2, <1>4 DEF Pushes, top
<1>7. ~Pops(t)
  <2>1. \A n \in Nat : n + 1 # n - 1
    OBVIOUS
  <2> QED
    BY <1>4, <2>1 DEF Pops
<1> QED
  BY <1>1, <1>2, <1>3, <1>4, <1>5, <1>6, <1>7 DEF Moves

(* The caller of a call is in no section.                                  *)
LEMMA PopsFree ==
  ASSUME StackType, Shape, NEW t \in Thread, stack[t] # <<>>, StackType', Pops(t), stack'[t] # <<>>
  PROVE  ~Holding(top(t)') /\ Len(stack[t]) > 1 /\ top(t)' = stack[t][Len(stack[t]) - 1]
<1>1. /\ Len(stack[t]) \in Nat \ {0} /\ stack'[t] \in Seq(Frames) /\ Len(stack'[t]) = Len(stack[t]) - 1
      /\ Len(stack'[t]) # 0
  <2>1. Len(stack[t]) \in Nat \ {0}
    BY ShapeIs
  <2>2. stack'[t] \in Seq(Frames)
    BY DEF StackType
  <2>3. \A q \in Seq(Frames) : q # <<>> => Len(q) # 0
    OBVIOUS
  <2> QED
    BY <2>1, <2>2, <2>3 DEF Pops
<1>2. PICK n \in Nat : n = Len(stack[t])
  BY <1>1
<1>3. n > 1 /\ n - 1 \in 1 .. n - 1
  BY <1>1, <1>2
<1>4. top(t)' = stack[t][n - 1] /\ Calls(stack[t][n - 1], top(t))
  BY <1>1, <1>2, <1>3, ShapeIs DEF Pops, top
<1>5. ~Holding(stack[t][n - 1])
  BY <1>4 DEF Calls, Holding
<1> QED
  BY <1>2, <1>3, <1>4, <1>5

(* The innermost call returns.                                             *)
LEMMA GivesBack ==
  ASSUME StackType, Shape, NEW t \in Thread, stack[t] # <<>>, ret \in [Thread -> Int], NEW r \in Int,
         Return(t, r)
  PROVE  /\ Moves(t) /\ Pops(t) /\ ret' \in [Thread -> Int] /\ RetOthers(t)
         /\ stack'[t] # <<>> => ~Holding(top(t)')
         /\ Len(stack[t]) > 1 /\ stack[t][Len(stack[t]) - 1].pc \in Awaited => ret'[t] = r
<1>1. /\ StackType' /\ Others(t) /\ Pops(t)
      /\ ret' \in [Thread -> Int] /\ \A u \in Thread : u # t => ret'[u] = ret[u]
      /\ Len(stack[t]) > 1 /\ stack[t][Len(stack[t]) - 1].pc \in Awaited => ret'[t] = r
  BY ReturnIs
<1> QED
  BY <1>1, PopsFree DEF Moves, RetOthers

(* A step within the library that is calm keeps the invariant.             *)
LEMMA LibraryCalm ==
  ASSUME IInv, NEW t \in Thread, Moves(t), top(t).fn \in Callees \ {"resend_buffer"},
         top(t).fn = "error_handling" => ~Pops(t),
         stack'[t] # <<>> => ~Holding(top(t)'),
         RetOthers(t), ControlWrite,
         dlt_log_handle' \in Fds \cup {NONE}, overflow_counter' \in Nat, reported' \in Nat,
         fds' \in [Fds -> 0..(MaxCrash + 1)], ret' \in [Thread -> Int],
         UNCHANGED <<scenario, initialised, ready, freeing, appID, contexts, startup_buffer, buffer_size,
                     dlt_mutex, logged, daemon, crashes, knows, received, lost, dropped, skipped>>
  PROVE  IInv'
<1>1. RestSound'
  BY DEF RestSound, IInv, TypeSound, TypeOK
<1>2. ~Holding(top(t))
  BY DEF Holding
<1>3. Calm(t)
  BY <1>1, <1>2 DEF Calm
<1>4. PhaseSound
  BY LibraryPhase
<1>5. LogKeeps(t)
  BY LibraryLogs
<1> QED
  BY <1>3, <1>4, <1>5, CalmKeeps

(* The first section of dlt_user_log_out_error_handling.                   *)
LEMMA KeepsErrorCheck ==
  ASSUME IInv, NEW t \in Thread, ErrorCheck(t), UNCHANGED scenario
  PROVE  IInv'
<1>1. At(t, "error_handling", "start")
  BY DEF ErrorCheck
<1>2. PICK r \in Int : r = IF buffer_size + 1 > scenario.ring THEN ERROR ELSE OK
  BY ResultsAre
<1>3. top(t) \in Frames /\ "push" \in Pcs /\ top(t).fn = "error_handling"
  BY <1>1, StartsFrom DEF Pcs
<1>4. PICK f : f = [top(t) EXCEPT !.pc = "push", !.res = r]
  OBVIOUS
<1>5. f \in Frames /\ f.fn = top(t).fn /\ f.m = top(t).m /\ f.pc = "push"
  BY <1>3, <1>4 DEF Frames
<1>6. Goto(t, f)
  BY <1>2, <1>4 DEF ErrorCheck
<1>7. Moves(t) /\ ~Pops(t) /\ stack'[t] # <<>> /\ top(t)' = f
  BY <1>1, <1>3, <1>5, <1>6, StartsFrom, GoesOn DEF Resumes, FrameFits
<1>8. UNCHANGED <<shared, ret, logged, world, hist>>
  BY DEF ErrorCheck
<1>9. /\ UNCHANGED <<scenario, initialised, ready, freeing, appID, contexts, startup_buffer, buffer_size,
                      dlt_mutex, logged, daemon, crashes, knows, received, lost, dropped, skipped>>
      /\ UNCHANGED <<dlt_log_handle, overflow_counter, reported, fds, ret>> /\ ControlWrite /\ RetOthers(t)
  BY <1>8 DEF ControlWrite, shared, world, hist, RetOthers
<1>10. top(t).fn \in Callees \ {"resend_buffer"} /\ ~Holding(top(t)')
  BY <1>3, <1>5, <1>7 DEF Callees, Holding
<1> QED
  BY <1>1, <1>7, <1>9, <1>10, StartsFrom, LibraryCalm

(* A registration goes on, is stored, or is given up.                      *)
LEMMA KeepsRegisterStart ==
  ASSUME IInv, NEW t \in Thread, RegisterStart(t), UNCHANGED scenario
  PROVE  IInv'
<1>1. At(t, "send_register", "start")
  BY DEF RegisterStart
<1>2. UNCHANGED <<shared, logged, world, hist>>
  BY DEF RegisterStart
<1>3. /\ Moves(t) /\ (stack'[t] # <<>> => ~Holding(top(t)')) /\ RetOthers(t)
      /\ ret' \in [Thread -> Int]
  <2>1. CASE /\ Goto(t, [top(t) EXCEPT !.pc = "write", !.fd = dlt_log_handle]) /\ UNCHANGED ret
    <3>1. top(t) \in Frames /\ "write" \in Pcs /\ top(t).fn = "send_register"
          /\ dlt_log_handle \in Fds \cup {NONE}
      BY <1>1, StartsFrom DEF Pcs
    <3>0. PICK f : f = [top(t) EXCEPT !.pc = "write", !.fd = dlt_log_handle]
      OBVIOUS
    <3>2. f \in Frames /\ f.fn = top(t).fn /\ f.m = top(t).m /\ f.pc = "write"
      BY <3>0, <3>1 DEF Frames
    <3>3. Resumes(top(t), f) /\ FrameFits(f) /\ Goto(t, f)
      BY <1>1, <2>1, <3>0, <3>2, StartsFrom DEF Resumes, FrameFits
    <3>4. Moves(t) /\ top(t)' = f
      BY <1>1, <3>2, <3>3, StartsFrom, GoesOn
    <3> QED
      BY <1>1, <2>1, <3>1, <3>2, <3>4, StartsFrom DEF Holding, RetOthers
  <2>2. CASE /\ top(t).m.kind = "context" /\ TailCall(t, Frame("error_handling", ContextMsg))
    <3>1. ContextMsg \in Msg /\ ContextMsg.kind = "context"
      BY Threads DEF ContextMsg, Msg, Kinds
    <3>2. PICK f \in Frames : f = Frame("error_handling", ContextMsg)
      BY <3>1, NewFrame DEF Fns
    <3>3. f.fn = "error_handling" /\ f.m = ContextMsg
      BY <3>2 DEF Frame
    <3>4. Resumes(top(t), f) /\ FrameFits(f)
      BY <1>1, <2>2, <3>1, <3>3, StartsFrom DEF Resumes, FrameFits
    <3>5. Moves(t) /\ top(t)' = f /\ UNCHANGED ret
      BY <1>1, <2>2, <3>2, <3>4, StartsFrom, GoesOn DEF TailCall
    <3> QED
      BY <1>1, <3>3, <3>5, StartsFrom DEF Holding, RetOthers
  <2>3. CASE Return(t, ERROR)
    BY <1>1, <2>3, StartsFrom, GivesBack, ResultsAre
  <2> QED
    BY <2>1, <2>2, <2>3 DEF RegisterStart
<1>4. /\ UNCHANGED <<scenario, initialised, ready, freeing, appID, contexts, startup_buffer, buffer_size,
                      dlt_mutex, logged, daemon, crashes, knows, received, lost, dropped, skipped>>
      /\ UNCHANGED <<dlt_log_handle, overflow_counter, reported, fds>> /\ ControlWrite
  BY <1>2 DEF ControlWrite, shared, world, hist
<1>5. top(t).fn \in Callees \ {"resend_buffer"} /\ top(t).fn # "error_handling"
  BY <1>1, StartsFrom DEF Callees
<1> QED
  BY <1>1, <1>3, <1>4, <1>5, StartsFrom, LibraryCalm

(* The message of a registration is no log message.                        *)
LEMMA RegisterKind ==
  ASSUME IInv, NEW t \in Thread, stack[t] # <<>>, top(t).fn = "send_register"
  PROVE  top(t).m.kind # "log"
<1>1. StackType /\ Shape
  BY DEF IInv, TypeSound
<1>2. Len(stack[t]) > 1
  BY LibraryRuns DEF Callees
<1>3. Calls(stack[t][Len(stack[t]) - 1], top(t))
  BY <1>1, <1>2, ShapeIs
<1> QED
  BY <1>3 DEF Calls

(* What is written to the FIFO where no log message is.                    *)
LEMMA WritesControl ==
  ASSUME NEW m \in Msg, m.kind # "log", NEW fd, NEW r, r = OK => Out3(fd) = OK, Write(fd, m, r),
         IInv
  PROVE  ControlWrite
<1>1. CASE r = OK
  <2>1. ~(Len(pipe) >= PipeSize)
    BY <1>1, Out3Is
  <2>2. Len(pipe) \in Nat /\ PipeSize \in Nat
    BY RangeIs, UserAssumption DEF IInv, TypeSound
  <2>3. Len(pipe) < PipeSize
    BY <2>1, <2>2
  <2>4. pipe' = Append(pipe, m)
    BY <1>1 DEF Write
  <2> QED
    BY <2>3, <2>4 DEF ControlWrite
<1>2. CASE r # OK
  BY <1>2 DEF Write, ControlWrite
<1> QED
  BY <1>1, <1>2

(* A registration is written, or stored instead.                           *)
LEMMA KeepsRegisterWrite ==
  ASSUME IInv, NEW t \in Thread, RegisterWrite(t), UNCHANGED scenario
  PROVE  IInv'
<1>1. At(t, "send_register", "write")
  BY DEF RegisterWrite
<1>2. UNCHANGED <<shared, logged, fds, daemon, crashes, knows, hist>>
  BY DEF RegisterWrite
<1>3. PICK r : r = IF top(t).m.kind = "unapp" THEN Out2(top(t).fd) ELSE Out3(top(t).fd)
  OBVIOUS
<1>4. /\ Write(top(t).fd, top(t).m, r)
      /\ IF r = OK THEN Return(t, OK) ELSE TailCall(t, Frame("error_handling", top(t).m))
  BY <1>3 DEF RegisterWrite
<1>5. r = OK => Out3(top(t).fd) = OK
  BY <1>3, Out3Is
<1>6. ControlWrite
  BY <1>1, <1>4, <1>5, StartsFrom, RegisterKind, WritesControl
<1>7. /\ Moves(t) /\ (stack'[t] # <<>> => ~Holding(top(t)')) /\ RetOthers(t)
      /\ ret' \in [Thread -> Int]
  <2>1. CASE Return(t, OK)
    BY <1>1, <2>1, StartsFrom, GivesBack, ResultsAre
  <2>2. CASE TailCall(t, Frame("error_handling", top(t).m))
    <3>1. PICK f \in Frames : f = Frame("error_handling", top(t).m)
      BY <1>1, StartsFrom, NewFrame DEF Fns
    <3>2. f.fn = "error_handling" /\ f.m = top(t).m
      BY <3>1 DEF Frame
    <3>3. Resumes(top(t), f) /\ FrameFits(f)
      BY <1>1, <3>2, StartsFrom DEF Resumes, FrameFits
    <3>4. Moves(t) /\ top(t)' = f /\ UNCHANGED ret
      BY <1>1, <2>2, <3>1, <3>3, StartsFrom, GoesOn DEF TailCall
    <3> QED
      BY <1>1, <3>2, <3>4, StartsFrom DEF Holding, RetOthers
  <2> QED
    BY <1>4, <2>1, <2>2
<1>8. /\ UNCHANGED <<scenario, initialised, ready, freeing, appID, contexts, startup_buffer, buffer_size,
                      dlt_mutex, logged, daemon, crashes, knows, received, lost, dropped, skipped>>
      /\ UNCHANGED <<dlt_log_handle, overflow_counter, reported, fds>>
  BY <1>2 DEF shared, hist
<1>9. top(t).fn \in Callees \ {"resend_buffer"} /\ top(t).fn # "error_handling"
  BY <1>1, StartsFrom DEF Callees
<1> QED
  BY <1>1, <1>6, <1>7, <1>8, <1>9, StartsFrom, LibraryCalm

(* The messages of the library itself.                                     *)
LEMMA ControlMessages ==
  /\ AppMsg \in Msg /\ AppMsg.kind = "app" /\ ContextMsg \in Msg /\ ContextMsg.kind = "context"
  /\ UnregisterMsg \in Msg /\ UnregisterMsg.kind = "unapp"
  /\ \A n \in Nat : OverflowMsg(n) \in Msg /\ OverflowMsg(n).kind = "overflow"
BY Threads DEF AppMsg, ContextMsg, UnregisterMsg, OverflowMsg, Msg, Kinds

(* The lowest of some descriptors.                                         *)
LEMMA LowestFd ==
  ASSUME NEW S, S \subseteq Fds, S # {}
  PROVE  (CHOOSE f \in S : \A g \in S : f <= g) \in S
<1>1. S \subseteq Nat
  BY UserAssumption
<1>2. \E f \in S : \A g \in S : f <= g
  BY <1>1, LeastNatural
<1> QED
  BY <1>2

(* A step within the library that changes the handle, the descriptors or   *)
(* the value returned, at most.                                            *)
LEMMA LibraryStep ==
  ASSUME IInv, NEW t \in Thread, NEW fn \in Callees \ {"resend_buffer", "error_handling"}, NEW pc, At(t, fn, pc),
         Moves(t), stack'[t] # <<>> => ~Holding(top(t)'), RetOthers(t), ret' \in [Thread -> Int],
         dlt_log_handle' \in Fds \cup {NONE}, overflow_counter' \in Nat, reported' \in Nat,
         fds' \in [Fds -> 0..(MaxCrash + 1)], ControlWrite,
         UNCHANGED <<scenario, initialised, ready, freeing, appID, contexts, startup_buffer, buffer_size,
                     dlt_mutex, logged, daemon, crashes, knows, received, lost, dropped, skipped>>
  PROVE  IInv'
<1>1. top(t).fn = fn
  BY StartsFrom
<1> QED
  BY <1>1, LibraryCalm

(* The FIFO is opened.                                                     *)
LEMMA KeepsReattachOpen ==
  ASSUME IInv, NEW t \in Thread, ReattachOpen(t), UNCHANGED scenario
  PROVE  IInv'
<1>1. At(t, "reattach", "start") /\ dlt_log_handle' = NONE
  BY DEF ReattachOpen
<1> DEFINE free == {f \in Fds : fds[f] = CLOSED}
           fd == CHOOSE f \in free : \A g \in free : f <= g
<1>2. \/ /\ free # {} /\ fds' = [fds EXCEPT ![fd] = daemon]
         /\ Goto(t, [top(t) EXCEPT !.pc = "opened", !.fd = fd]) /\ UNCHANGED ret
      \/ Return(t, OK) /\ UNCHANGED fds
  BY DEF ReattachOpen
<1>3. free # {} => fd \in Fds
  <2>1. free \subseteq Fds
    OBVIOUS
  <2> HIDE DEF free
  <2>2. free # {} => fd \in free
    BY <2>1, LowestFd
  <2> QED
    BY <2>1, <2>2
<1> HIDE DEF fd, free
<1>4. /\ Moves(t) /\ (stack'[t] # <<>> => ~Holding(top(t)')) /\ RetOthers(t)
      /\ ret' \in [Thread -> Int] /\ fds' \in [Fds -> 0..(MaxCrash + 1)]
  <2>1. CASE /\ free # {} /\ fds' = [fds EXCEPT ![fd] = daemon]
             /\ Goto(t, [top(t) EXCEPT !.pc = "opened", !.fd = fd]) /\ UNCHANGED ret
    <3>1. PICK f : f = [top(t) EXCEPT !.pc = "opened", !.fd = fd]
      OBVIOUS
    <3>2. top(t) \in Frames /\ top(t).fn = "reattach" /\ "opened" \in Pcs /\ fd \in Fds \cup {NONE}
      BY <1>1, <1>3, <2>1, StartsFrom DEF Pcs
    <3>3. f \in Frames /\ f.fn = top(t).fn /\ f.m = top(t).m
      BY <3>1, <3>2 DEF Frames
    <3>4. Resumes(top(t), f) /\ FrameFits(f) /\ Goto(t, f)
      BY <2>1, <3>1, <3>2, <3>3 DEF Resumes, FrameFits
    <3>5. Moves(t) /\ top(t)' = f
      BY <1>1, <3>3, <3>4, StartsFrom, GoesOn
    <3>6. fds' \in [Fds -> 0..(MaxCrash + 1)]
      BY <2>1 DEF IInv, TypeSound, TypeOK
    <3> QED
      BY <1>1, <2>1, <3>2, <3>3, <3>5, <3>6, StartsFrom DEF Holding, RetOthers
  <2>2. CASE Return(t, OK) /\ UNCHANGED fds
    BY <1>1, <2>2, StartsFrom, GivesBack, ResultsAre
  <2> QED
    BY <1>2, <2>1, <2>2
<1>5. UNCHANGED <<initialised, freeing, ready, appID, contexts, startup_buffer, buffer_size,
                  overflow_counter, dlt_mutex, logged, daemon, crashes, pipe, knows, hist>>
  BY DEF ReattachOpen
<1>6. /\ UNCHANGED <<scenario, initialised, ready, freeing, appID, contexts, startup_buffer, buffer_size,
                      dlt_mutex, logged, daemon, crashes, knows, received, lost, dropped, skipped>>
      /\ UNCHANGED <<overflow_counter, reported>> /\ ControlWrite
  BY <1>5 DEF hist, ControlWrite
<1>7. dlt_log_handle' \in Fds \cup {NONE} /\ "reattach" \in Callees \ {"resend_buffer", "error_handling"}
  BY <1>1 DEF Callees
<1> QED
  BY <1>1, <1>4, <1>6, <1>7, StartsFrom, LibraryStep

(* The handle is set, and the application registered again.                *)
LEMMA KeepsReattachOpened ==
  ASSUME IInv, NEW t \in Thread, ReattachOpened(t), UNCHANGED scenario
  PROVE  IInv'
<1>1. At(t, "reattach", "opened") /\ dlt_log_handle' = top(t).fd
  BY DEF ReattachOpened
<1>2. PICK f0 \in Frames : f0 = Frame("reattach", AppMsg) /\ f0.fn = "reattach" /\ f0.m = AppMsg
  BY ControlMessages, NewFrame DEF Fns
<1>3. PICK f : f = [f0 EXCEPT !.pc = "application"]
  OBVIOUS
<1>4. f \in Frames /\ f.fn = "reattach" /\ f.pc = "application" /\ f.m = AppMsg
  BY <1>2, <1>3 DEF Frames, Pcs
<1>5. PICK g \in Frames : /\ g = Frame("send_register", AppMsg) /\ g.fn = "send_register" /\ g.m = AppMsg
                          /\ g.pc = "start"
  BY ControlMessages, NewFrame DEF Fns
<1>6. stack' = [stack EXCEPT ![t] = Front(@) \o <<f, g>>]
  BY <1>2, <1>3, <1>5 DEF ReattachOpened
<1>7. StackType' /\ Others(t) /\ Pushes(t, f, g)
  BY <1>1, <1>4, <1>6, StartsFrom, FrontPushes
<1>8. Resumes(top(t), f) /\ Calls(f, g) /\ FrameFits(f)
  BY <1>1, <1>4, <1>5, StartsFrom, ControlMessages DEF Resumes, Calls, FrameFits
<1>9. Moves(t)
  BY <1>1, <1>4, <1>5, <1>7, <1>8, StartsFrom DEF Moves
<1>10. top(t)' = g
  <2>1. Len(stack'[t]) = Len(stack[t]) + 1 /\ stack'[t][Len(stack[t]) + 1] = g
    BY <1>7 DEF Pushes
  <2> QED
    BY <2>1 DEF top
<1>11. ~Holding(top(t)')
  BY <1>5, <1>10 DEF Holding
<1>12. UNCHANGED <<initialised, freeing, ready, appID, contexts, startup_buffer, buffer_size,
                   overflow_counter, dlt_mutex, ret, logged, world, hist>>
  BY DEF ReattachOpened
<1>13. /\ UNCHANGED <<scenario, initialised, ready, freeing, appID, contexts, startup_buffer, buffer_size,
                      dlt_mutex, logged, daemon, crashes, knows, received, lost, dropped, skipped>>
       /\ UNCHANGED <<overflow_counter, reported, fds, ret>> /\ ControlWrite /\ RetOthers(t)
  BY <1>12 DEF world, hist, ControlWrite, RetOthers
<1>14. "reattach" \in Callees \ {"resend_buffer", "error_handling"}
  BY DEF Callees
<1> QED
  BY <1>1, <1>9, <1>11, <1>13, <1>14, StartsFrom, LibraryStep

(* The contexts are registered again.                                      *)
LEMMA KeepsReattachContexts ==
  ASSUME IInv, NEW t \in Thread, ReattachContexts(t), UNCHANGED scenario
  PROVE  IInv'
<1>1. At(t, "reattach", "application")
  BY DEF ReattachContexts
<1>2. /\ Moves(t) /\ (stack'[t] # <<>> => ~Holding(top(t)')) /\ RetOthers(t)
      /\ ret' \in [Thread -> Int]
  <2>1. CASE Return(t, OK)
    BY <1>1, <2>1, StartsFrom, GivesBack, ResultsAre
  <2>2. CASE Call(t, "context", Frame("send_register", ContextMsg)) /\ UNCHANGED ret
    <3>1. PICK g \in Frames : /\ g = Frame("send_register", ContextMsg) /\ g.fn = "send_register"
                              /\ g.m = ContextMsg /\ g.pc = "start"
      BY ControlMessages, NewFrame DEF Fns
    <3>2. Call(t, "context", g) /\ "context" \in Pcs /\ top(t).fn = "reattach"
      BY <1>1, <2>2, <3>1, StartsFrom DEF Pcs
    <3>3. \A f \in Frames : f.fn = "reattach" /\ f.pc = "context" => Calls(f, g)
      BY <3>1, ControlMessages DEF Calls
    <3>4. Moves(t) /\ top(t)' = g
      BY <1>1, <3>1, <3>2, <3>3, StartsFrom, CallsOn
    <3> QED
      BY <1>1, <2>2, <3>1, <3>4, StartsFrom DEF Holding, RetOthers
  <2> QED
    BY <2>1, <2>2 DEF ReattachContexts
<1>3. UNCHANGED <<shared, logged, world, hist>>
  BY DEF ReattachContexts
<1>4. /\ UNCHANGED <<scenario, initialised, ready, freeing, appID, contexts, startup_buffer, buffer_size,
                     dlt_mutex, logged, daemon, crashes, knows, received, lost, dropped, skipped>>
      /\ UNCHANGED <<dlt_log_handle, overflow_counter, reported, fds>> /\ ControlWrite
  BY <1>3 DEF shared, world, hist, ControlWrite
<1>5. "reattach" \in Callees \ {"resend_buffer", "error_handling"}
  BY DEF Callees
<1> QED
  BY <1>1, <1>2, <1>4, <1>5, StartsFrom, LibraryStep

(* What is stored is sent at the end of dlt_user_log_reattach_to_daemon.   *)
LEMMA KeepsReattachResend ==
  ASSUME IInv, NEW t \in Thread, ReattachResend(t), UNCHANGED scenario
  PROVE  IInv'
<1>1. At(t, "reattach", "context")
  BY DEF ReattachResend
<1>2. /\ Moves(t) /\ (stack'[t] # <<>> => ~Holding(top(t)')) /\ RetOthers(t)
      /\ ret' \in [Thread -> Int]
  <2>1. CASE Return(t, OK)
    BY <1>1, <2>1, StartsFrom, GivesBack, ResultsAre
  <2>2. CASE TailCall(t, Frame("resend_buffer", ContextMsg))
    <3>1. PICK f \in Frames : f = Frame("resend_buffer", ContextMsg) /\ f.fn = "resend_buffer" /\ f.pc = "start"
      BY ControlMessages, NewFrame DEF Fns
    <3>2. Resumes(top(t), f) /\ FrameFits(f) /\ Goto(t, f) /\ UNCHANGED ret
      BY <1>1, <2>2, <3>1, StartsFrom DEF Resumes, FrameFits, TailCall
    <3>3. Moves(t) /\ top(t)' = f
      BY <1>1, <3>1, <3>2, StartsFrom, GoesOn
    <3> QED
      BY <1>1, <3>1, <3>2, <3>3, StartsFrom DEF Holding, RetOthers
  <2> QED
    BY <2>1, <2>2 DEF ReattachResend
<1>3. UNCHANGED <<shared, logged, world, hist>>
  BY DEF ReattachResend
<1>4. /\ UNCHANGED <<scenario, initialised, ready, freeing, appID, contexts, startup_buffer, buffer_size,
                     dlt_mutex, logged, daemon, crashes, knows, received, lost, dropped, skipped>>
      /\ UNCHANGED <<dlt_log_handle, overflow_counter, reported, fds>> /\ ControlWrite
  BY <1>3 DEF shared, world, hist, ControlWrite
<1>5. "reattach" \in Callees \ {"resend_buffer", "error_handling"}
  BY DEF Callees
<1> QED
  BY <1>1, <1>2, <1>4, <1>5, StartsFrom, LibraryStep

(* The counter is read.                                                    *)
LEMMA KeepsOverflowRead ==
  ASSUME IInv, NEW t \in Thread, OverflowRead(t), UNCHANGED scenario
  PROVE  IInv'
<1>1. At(t, "send_overflow", "start")
  BY DEF OverflowRead
<1>2. PICK f : f = [top(t) EXCEPT !.pc = "write", !.fd = dlt_log_handle, !.n = overflow_counter]
  OBVIOUS
<1>3. /\ top(t) \in Frames /\ top(t).fn = "send_overflow" /\ "write" \in Pcs
      /\ dlt_log_handle \in Fds \cup {NONE} /\ overflow_counter \in Nat
  BY <1>1, StartsFrom DEF Pcs
<1>4. f \in Frames /\ f.fn = top(t).fn /\ f.m = top(t).m
  BY <1>2, <1>3 DEF Frames
<1>5. Resumes(top(t), f) /\ FrameFits(f) /\ Goto(t, f)
  BY <1>2, <1>3, <1>4 DEF Resumes, FrameFits, OverflowRead
<1>6. Moves(t) /\ top(t)' = f
  BY <1>1, <1>4, <1>5, StartsFrom, GoesOn
<1>7. UNCHANGED <<shared, ret, logged, world, hist>>
  BY DEF OverflowRead
<1>8. /\ UNCHANGED <<scenario, initialised, ready, freeing, appID, contexts, startup_buffer, buffer_size,
                     dlt_mutex, logged, daemon, crashes, knows, received, lost, dropped, skipped>>
      /\ UNCHANGED <<dlt_log_handle, overflow_counter, reported, fds, ret>> /\ ControlWrite /\ RetOthers(t)
  BY <1>7 DEF shared, world, hist, ControlWrite, RetOthers
<1>9. "send_overflow" \in Callees \ {"resend_buffer", "error_handling"} /\ ~Holding(top(t)')
  BY <1>3, <1>4, <1>6 DEF Callees, Holding
<1> QED
  BY <1>1, <1>6, <1>8, <1>9, StartsFrom, LibraryStep

(* The count is written.                                                   *)
LEMMA KeepsOverflowWrite ==
  ASSUME IInv, NEW t \in Thread, OverflowWrite(t), UNCHANGED scenario
  PROVE  IInv'
<1>1. At(t, "send_overflow", "write")
  BY DEF OverflowWrite
<1>2. top(t).fn = "send_overflow" /\ top(t).n \in Nat /\ top(t).m \in Msg
  BY <1>1, StartsFrom
<1>3. PICK r : r = Out2(top(t).fd)
  OBVIOUS
<1>4. /\ Write(top(t).fd, OverflowMsg(top(t).n), r)
      /\ reported' = IF r = OK THEN reported + top(t).n ELSE reported
      /\ IF r = OK THEN GotoPc(t, "reset") /\ UNCHANGED ret ELSE Return(t, r)
  BY <1>3 DEF OverflowWrite
<1>5. (r = OK => Out3(top(t).fd) = OK) /\ r \in Int
  BY <1>3, Out3Is, ResultsAre
<1>6. ControlWrite
  BY <1>2, <1>4, <1>5, ControlMessages, WritesControl
<1>7. /\ Moves(t) /\ (stack'[t] # <<>> => ~Holding(top(t)')) /\ RetOthers(t)
      /\ ret' \in [Thread -> Int]
  <2>1. CASE Return(t, r)
    BY <1>1, <1>5, <2>1, StartsFrom, GivesBack
  <2>2. CASE GotoPc(t, "reset") /\ UNCHANGED ret
    <3>1. "reset" \in Pcs
      BY DEF Pcs
    <3>2. Moves(t) /\ \E f \in Frames : top(t)' = f /\ f.fn = top(t).fn
      BY <1>1, <1>2, <2>2, <3>1, StartsFrom, GoesTo
    <3> QED
      BY <1>1, <1>2, <2>2, <3>2, StartsFrom DEF Holding, RetOthers
  <2> QED
    BY <1>4, <2>1, <2>2
<1>8. UNCHANGED <<shared, logged, fds, daemon, crashes, knows, received, lost, dropped, refused, skipped, exitReport>>
  BY DEF OverflowWrite
<1>9. /\ UNCHANGED <<scenario, initialised, ready, freeing, appID, contexts, startup_buffer, buffer_size,
                     dlt_mutex, logged, daemon, crashes, knows, received, lost, dropped, skipped>>
      /\ UNCHANGED <<dlt_log_handle, overflow_counter, fds>>
  BY <1>8 DEF shared
<1>10. "send_overflow" \in Callees \ {"resend_buffer", "error_handling"} /\ reported' \in Nat
  BY <1>1, <1>2, <1>4, StartsFrom DEF Callees
<1> QED
  BY <1>1, <1>6, <1>7, <1>9, <1>10, StartsFrom, LibraryStep

(* The counter is cleared.                                                 *)
LEMMA KeepsOverflowReset ==
  ASSUME IInv, NEW t \in Thread, OverflowReset(t), UNCHANGED scenario
  PROVE  IInv'
<1>1. At(t, "send_overflow", "reset") /\ overflow_counter' = 0 /\ Return(t, OK)
  BY DEF OverflowReset
<1>2. /\ Moves(t) /\ (stack'[t] # <<>> => ~Holding(top(t)')) /\ RetOthers(t)
      /\ ret' \in [Thread -> Int]
  BY <1>1, StartsFrom, GivesBack, ResultsAre
<1>3. UNCHANGED <<initialised, freeing, ready, dlt_log_handle, appID, contexts, startup_buffer, buffer_size,
                   dlt_mutex, logged, world, hist>>
  BY DEF OverflowReset
<1>4. /\ UNCHANGED <<scenario, initialised, ready, freeing, appID, contexts, startup_buffer, buffer_size,
                     dlt_mutex, logged, daemon, crashes, knows, received, lost, dropped, skipped>>
      /\ UNCHANGED <<dlt_log_handle, reported, fds>> /\ ControlWrite
  BY <1>3 DEF world, hist, ControlWrite
<1>5. "send_overflow" \in Callees \ {"resend_buffer", "error_handling"} /\ overflow_counter' \in Nat
  BY <1>1 DEF Callees
<1> QED
  BY <1>1, <1>2, <1>4, <1>5, StartsFrom, LibraryStep

-----------------------------------------------------------------------------
(* dlt_user_log_resend_buffer, in which the semaphore is taken and what is *)
(* stored is sent.                                                         *)

(* The rest of the resend of thread t that still has n messages to send.   *)
LEMMA NextIs ==
  ASSUME StackType, Shape, NEW t \in Thread, stack[t] # <<>>, top(t).fn = "resend_buffer",
         ret \in [Thread -> Int], NEW n \in Nat, ResendNext(t, n)
  PROVE  /\ Moves(t) /\ RetOthers(t) /\ ret' \in [Thread -> Int]
         /\ stack'[t] # <<>> => ~Holding(top(t)')
         /\ \/ n = 0 /\ Return(t, OK)
            \/ /\ n > 0 /\ UNCHANGED ret
               /\ \E f \in Frames : Replaces(t, f) /\ f.fn = "resend_buffer" /\ f.pc = "loop" /\ f.n = n
<1>1. CASE n = 0
  <2>1. Return(t, OK)
    BY <1>1 DEF ResendNext
  <2> QED
    BY <1>1, <2>1, GivesBack, ResultsAre
<1>2. CASE n # 0
  <2>1. PICK f : f = [top(t) EXCEPT !.pc = "loop", !.fd = NONE, !.n = n]
    OBVIOUS
  <2>2. top(t) \in Frames /\ "loop" \in Pcs /\ NONE \in Fds \cup {NONE}
    BY StackIs DEF Pcs
  <2>3. f \in Frames /\ f.fn = top(t).fn /\ f.m = top(t).m /\ f.pc = "loop" /\ f.n = n
    BY <2>1, <2>2 DEF Frames
  <2>4. Goto(t, f) /\ UNCHANGED ret
    BY <1>2, <2>1 DEF ResendNext
  <2>5. Resumes(top(t), f) /\ FrameFits(f) /\ n > 0
    BY <1>2, <2>3 DEF Resumes, FrameFits
  <2>6. Moves(t) /\ top(t)' = f /\ Replaces(t, f)
    BY <2>3, <2>4, <2>5, GoesOn
  <2> QED
    BY <2>3, <2>4, <2>5, <2>6 DEF Holding, RetOthers
<1> QED
  BY <1>1, <1>2

(* A logger that resends before it writes its own message.                 *)
Resending(t) ==
    t \in Logger /\ stack[t] # <<>> /\ Len(stack[t]) = 2 /\ Bottom(t).pc = "out" /\ Bottom(t).m \notin skipped
StillFits(t) ==
    /\ Pops(t) /\ ret'[t] = OK => \A x \in Range(startup_buffer') : ~Mine(x, t)
    /\ \A f : Replaces(t, f) /\ f.pc \in {"loop", "write"} =>
           \A i \in 1 .. Len(startup_buffer') : Mine(startup_buffer'[i], t) => i <= f.n

(* A thread that resends calls nothing.                                    *)
LEMMA ResendMoves ==
  ASSUME NEW t \in Thread, Moves(t), top(t).fn = "resend_buffer"
  PROVE  Pops(t) \/ \E f \in Frames : Replaces(t, f)
<1>1. ASSUME NEW f, NEW g, Resumes(top(t), f), Calls(f, g) PROVE FALSE
  <2>1. f.fn = "resend_buffer"
    BY <1>1 DEF Resumes
  <2> QED
    BY <1>1, <2>1 DEF Calls
<1> QED
  BY <1>1 DEF Moves

(* The frame that stands where another did is one.                         *)
LEMMA ReplacesOne ==
  ASSUME StackType, NEW t \in Thread, NEW f, Replaces(t, f)
  PROVE  ~Pops(t) /\ \A g : Replaces(t, g) => g = f
<1>1. Len(stack[t]) \in Nat
  BY StackIs
<1>2. \A n \in Nat : n # n - 1
  OBVIOUS
<1> QED
  BY <1>1, <1>2 DEF Replaces, Pops

(* A thread whose call returns has no frame in its place.                  *)
LEMMA PopsOne ==
  ASSUME StackType, NEW t \in Thread, Pops(t)
  PROVE  \A g : ~Replaces(t, g)
<1>1. Len(stack[t]) \in Nat
  BY StackIs
<1>2. \A n \in Nat : n # n - 1
  OBVIOUS
<1> QED
  BY <1>1, <1>2 DEF Replaces, Pops

(* A resend leaves the message of its thread where it is, and fits.        *)
LEMMA ResendLogs ==
  ASSUME IInv, NEW t \in Thread, Moves(t), top(t).fn = "resend_buffer", skipped' = skipped,
         Resending(t) => StillFits(t)
  PROVE  LogKeeps(t)
<1> SUFFICES ASSUME t \in Logger
             PROVE  /\ Unplaced(t)' <=> Unplaced(t)
                    /\ stack'[t] # <<>> => stack[t] # <<>> /\ Bottom(t)'.m = Bottom(t).m
                    /\ FlushFits(t)'
  BY DEF LogKeeps, SameMessage
<1>1. /\ stack[t] # <<>> /\ StackType /\ StackType' /\ Shape /\ top(t).fn \in Callees
  BY DEF IInv, TypeSound, Moves, Callees
<1>2. Len(stack[t]) > 1
  BY <1>1, LibraryRuns
<1>3. stack[t] \in Seq(Frames) /\ stack'[t] \in Seq(Frames)
  BY <1>1 DEF StackType
<1>4. PICK n \in Nat : n = Len(stack[t])
  BY <1>3
<1>5. /\ Bottom(t).pc \in {"overflow", "resend", "out", "handled"}
      /\ Bottom(t).pc = "handled" => stack[t][2].fn = "error_handling"
      /\ Bottom(t).pc # "overflow" => n = 2
      /\ n = 2 => top(t) = stack[t][2]
  BY <1>1, <1>2, <1>4, LoggerCalls, ShapeIs, Threads
<1>6. Bottom(t).pc # "handled"
  BY <1>5
<1>7. /\ 1 \in 1 .. n - 1 /\ n > 1 /\ n - 1 > 0 /\ n > 0
  BY <1>2, <1>4
<1>8. /\ stack'[t][1] = stack[t][1]
      /\ \/ Len(stack'[t]) = n /\ ~Pops(t)
         \/ Len(stack'[t]) = n - 1 /\ Pops(t)
  <2>1. CASE Pops(t)
    BY <1>4, <1>7, <2>1 DEF Pops
  <2>2. ASSUME NEW f \in Frames, Replaces(t, f)
        PROVE  stack'[t][1] = stack[t][1] /\ Len(stack'[t]) = n /\ ~Pops(t)
    <3>1. stack'[t][1] = stack[t][1] /\ Len(stack'[t]) = n
      BY <1>4, <1>7, <2>2 DEF Replaces
    <3>2. ~Pops(t)
      BY <1>1, <2>2, ReplacesOne
    <3> QED
      BY <3>1, <3>2
  <2>3. Pops(t) \/ \E f \in Frames : Replaces(t, f)
    BY ResendMoves
  <2> QED
    BY <2>1, <2>2, <2>3
<1>9. stack'[t] # <<>> /\ Bottom(t)' = Bottom(t)
  BY <1>3, <1>7, <1>8 DEF Bottom
<1>10. Unplaced(t) /\ Unplaced(t)'
  BY <1>1, <1>2, <1>5, <1>6, <1>9 DEF Unplaced
<1>11. FlushFits(t)'
  <2>1. CASE Bottom(t).pc # "out"
    BY <1>5, <1>9, <2>1 DEF FlushFits
  <2>2. CASE Bottom(t).pc = "out" /\ Bottom(t).m \in skipped
    BY <1>9, <2>2 DEF FlushFits
  <2>3. CASE Bottom(t).pc = "out" /\ Bottom(t).m \notin skipped
    <3>1. n = 2 /\ StillFits(t) /\ Bottom(t)'.pc = "out"
      BY <1>1, <1>4, <1>5, <1>9, <2>3 DEF Resending
    <3>2. Len(stack'[t]) = 1 /\ ret'[t] = OK => \A x \in Range(startup_buffer') : ~Mine(x, t)
      <4>1. Len(stack'[t]) = 1 => Pops(t)
        BY <1>8, <3>1
      <4> QED
        BY <3>1, <4>1 DEF StillFits
    <3>3. Len(stack'[t]) = 2 /\ stack'[t][2].pc \in {"loop", "write"} =>
              \A i \in 1 .. Len(startup_buffer') : Mine(startup_buffer'[i], t) => i <= stack'[t][2].n
      <4>1. Len(stack'[t]) = 2 => Replaces(t, stack'[t][2])
        <5>1. Len(stack'[t]) = 2 => ~Pops(t)
          BY <1>8, <3>1
        <5>2. \A f : Replaces(t, f) => f = stack'[t][2]
          BY <1>4, <3>1 DEF Replaces
        <5> QED
          BY <5>1, <5>2, ResendMoves
      <4> QED
        BY <3>1, <4>1 DEF StillFits
    <3> QED
      BY <3>1, <3>2, <3>3 DEF FlushFits
  <2> QED
    BY <2>1, <2>2, <2>3
<1> QED
  BY <1>1, <1>9, <1>10, <1>11

(* While a thread resends, what it logged before is within what it still   *)
(* has to send.                                                            *)
LEMMA ResendFits ==
  ASSUME IInv, NEW t \in Thread, Resending(t), top(t).pc \in {"loop", "write"}
  PROVE  \A i \in 1 .. Len(startup_buffer) : Mine(startup_buffer[i], t) => i <= top(t).n
<1>1. top(t) = stack[t][2]
  BY ShapeIs DEF IInv, TypeSound, Resending
<1> QED
  BY <1>1 DEF Resending, IInv, FlushSound, FlushFits

(* What a resending logger is called from awaits its result.               *)
LEMMA ResendAwaited ==
  ASSUME IInv, NEW t \in Thread, Resending(t), NEW r \in Int, Return(t, r)
  PROVE  ret'[t] = r
<1>1. /\ stack[t] # <<>> /\ StackType /\ Shape /\ Len(stack[t]) = 2 /\ Bottom(t).pc = "out"
      /\ ret \in [Thread -> Int]
  BY DEF IInv, TypeSound, Resending
<1>2. stack[t][Len(stack[t]) - 1] = Bottom(t) /\ Len(stack[t]) > 1
  <2>1. 2 > 1
    OBVIOUS
  <2> QED
    BY <1>1, <2>1, ShapeIs
<1>3. Bottom(t).pc \in Awaited
  BY <1>1 DEF Awaited
<1> QED
  BY <1>1, <1>2, <1>3, GivesBack

(* The semaphore is taken, kept or given back by a thread that resends.    *)
LEMMA ResendMutex ==
  ASSUME IInv, NEW t \in Thread, Moves(t), top(t).fn = "resend_buffer", PhaseSound,
         dlt_mutex \in Nat, startup_buffer # <<>> => (startup_buffer' # <<>> \/ Holding(top(t))),
         \/ /\ ~Holding(top(t)) /\ (stack'[t] # <<>> => ~Holding(top(t)')) /\ dlt_mutex' = dlt_mutex
         \/ /\ ~Holding(top(t)) /\ stack'[t] # <<>> /\ Holding(top(t)') /\ startup_buffer' # <<>>
            /\ dlt_mutex > 0 /\ dlt_mutex' = dlt_mutex - 1
         \/ /\ Holding(top(t)) /\ stack'[t] # <<>> /\ Holding(top(t)') /\ top(t)'.pc # "write"
            /\ dlt_mutex' = dlt_mutex
         \/ /\ Holding(top(t)) /\ (stack'[t] # <<>> => ~Holding(top(t)')) /\ dlt_mutex' = dlt_mutex + 1
  PROVE  MutexSound' /\ dlt_mutex' \in 0..2
<1>1. /\ stack[t] # <<>> /\ ~Starting /\ ~Stopped
      /\ \A u \in Thread : u # t => stack'[u] = stack[u]
  BY LibraryRuns DEF Moves, Callees, Others
<1>2. ~Starting' /\ ~Stopped'
  BY <1>1 DEF PhaseSound
<1>3. \/ dlt_mutex = 1 /\ Holders = {}
      \/ dlt_mutex = 0 /\ \E u \in Thread : Holders = {u}
  BY <1>1 DEF IInv, MutexSound
<1>4. \A u \in Thread : u # t => (u \in Holders' <=> u \in Holders)
  BY <1>1 DEF Holders, At, top
<1>5. (t \in Holders <=> Holding(top(t))) /\ (t \in Holders' <=> stack'[t] # <<>> /\ Holding(top(t)'))
  BY <1>1 DEF Holders, At, Holding
<1>6. Holders \subseteq Thread /\ Holders' \subseteq Thread
  BY DEF Holders
<1>7. \/ dlt_mutex' = 1 /\ Holders' = {}
      \/ dlt_mutex' = 0 /\ \E u \in Thread : Holders' = {u}
  <2>1. CASE ~Holding(top(t)) /\ (stack'[t] # <<>> => ~Holding(top(t)')) /\ dlt_mutex' = dlt_mutex
    <3>1. Holders' = Holders
      BY <1>4, <1>5, <1>6, <2>1
    <3> QED
      BY <1>3, <2>1, <3>1
  <2>2. CASE /\ ~Holding(top(t)) /\ stack'[t] # <<>> /\ Holding(top(t)')
             /\ dlt_mutex > 0 /\ dlt_mutex' = dlt_mutex - 1
    <3>1. dlt_mutex = 1 /\ Holders = {}
      BY <1>3, <2>2
    <3>2. Holders' = {t}
      BY <1>4, <1>5, <1>6, <2>2, <3>1
    <3> QED
      BY <2>2, <3>1, <3>2
  <2>3. CASE Holding(top(t)) /\ stack'[t] # <<>> /\ Holding(top(t)') /\ dlt_mutex' = dlt_mutex
    <3>1. Holders' = Holders
      BY <1>4, <1>5, <1>6, <2>3
    <3> QED
      BY <1>3, <2>3, <3>1
  <2>4. CASE Holding(top(t)) /\ (stack'[t] # <<>> => ~Holding(top(t)')) /\ dlt_mutex' = dlt_mutex + 1
    <3>1. dlt_mutex = 0 /\ Holders = {t}
      BY <1>3, <1>5, <2>4
    <3>2. Holders' = {}
      BY <1>4, <1>5, <1>6, <2>4, <3>1
    <3> QED
      BY <2>4, <3>1, <3>2
  <2> QED
    BY <2>1, <2>2, <2>3, <2>4
<1>8. ASSUME NEW u \in Thread, At(u, "resend_buffer", "write")' PROVE startup_buffer' # <<>>
  <2>1. CASE u = t
    BY <1>8, <2>1 DEF At, Holding
  <2>2. CASE u # t
    <3>1. At(u, "resend_buffer", "write") /\ u \in Holders
      BY <1>1, <1>8, <2>2 DEF At, top, Holders
    <3>2. startup_buffer # <<>>
      BY <3>1 DEF IInv, MutexSound
    <3>3. ~Holding(top(t))
      BY <1>3, <1>5, <2>2, <3>1
    <3> QED
      BY <3>2, <3>3
  <2> QED
    BY <2>1, <2>2
<1> QED
  BY <1>2, <1>7, <1>8 DEF MutexSound

(* What a resend does to the FIFO and to the startup buffer: nothing, or   *)
(* the first message goes from one to the other.                           *)
Resent ==
    \/ UNCHANGED <<pipe, startup_buffer, buffer_size>>
    \/ /\ startup_buffer # <<>> /\ Len(pipe) < PipeSize
       /\ pipe' = Append(pipe, Head(startup_buffer)) /\ startup_buffer' = Tail(startup_buffer)
       /\ buffer_size' = IF Len(startup_buffer) = 1 THEN RingMin ELSE buffer_size

(* The FIFO and the startup buffer after a resend.                         *)
LEMMA ResentIs ==
  ASSUME IInv, Resent
  PROVE  /\ pipe' \in Seq(Msg) /\ startup_buffer' \in Seq(Msg) /\ Len(pipe') <= PipeSize
         /\ Len(startup_buffer') <= buffer_size' /\ buffer_size' \in RingMin..scenario.ring
         /\ Range(pipe') \cup Range(startup_buffer') = Range(pipe) \cup Range(startup_buffer)
         /\ Ordered(received, pipe', startup_buffer', skipped)
         /\ \A i \in 1 .. Len(startup_buffer') :
               \E j \in 1 .. Len(startup_buffer) : i <= j /\ startup_buffer[j] = startup_buffer'[i]
<1>1. /\ startup_buffer \in Seq(Msg) /\ pipe \in Seq(Msg) /\ received \in Seq(Msg)
      /\ Len(pipe) <= PipeSize /\ Len(startup_buffer) <= buffer_size /\ buffer_size \in RingMin..scenario.ring
      /\ Ordered(received, pipe, startup_buffer, skipped)
  BY DEF IInv, TypeSound, TypeOK, OrderSound
<1>2. Len(pipe) \in Nat /\ Len(startup_buffer) \in Nat /\ PipeSize \in Nat /\ RingMin \in Nat \ {0}
  BY <1>1, RangeIs, UserAssumption
<1>3. CASE UNCHANGED <<pipe, startup_buffer, buffer_size>>
  <2>1. \A i \in 1 .. Len(startup_buffer) : i <= i
    BY <1>2
  <2> QED
    BY <1>1, <1>3, <2>1
<1>4. CASE /\ startup_buffer # <<>> /\ Len(pipe) < PipeSize
           /\ pipe' = Append(pipe, Head(startup_buffer)) /\ startup_buffer' = Tail(startup_buffer)
           /\ buffer_size' = IF Len(startup_buffer) = 1 THEN RingMin ELSE buffer_size
  <2>1. /\ Tail(startup_buffer) \in Seq(Msg) /\ Len(startup_buffer) \in Nat \ {0}
        /\ Len(Tail(startup_buffer)) = Len(startup_buffer) - 1
        /\ \A i \in 1 .. Len(startup_buffer) - 1 : Tail(startup_buffer)[i] = startup_buffer[i + 1]
        /\ Head(startup_buffer) \in Msg
        /\ Range(startup_buffer) = {Head(startup_buffer)} \cup Range(Tail(startup_buffer))
    BY <1>1, <1>4, TailIs
  <2>2. /\ Append(pipe, Head(startup_buffer)) \in Seq(Msg)
        /\ Len(Append(pipe, Head(startup_buffer))) = Len(pipe) + 1
        /\ Range(Append(pipe, Head(startup_buffer))) = Range(pipe) \cup {Head(startup_buffer)}
    BY <1>1, <2>1, AppendIs
  <2>3. Ordered(received, Append(pipe, Head(startup_buffer)), Tail(startup_buffer), skipped)
    BY <1>1, <1>4, OrderedResend
  <2>4. Len(pipe') <= PipeSize
    BY <1>2, <1>4, <2>2
  <2>5. Len(startup_buffer') <= buffer_size' /\ buffer_size' \in RingMin..scenario.ring
    <3>1. scenario.ring \in Nat /\ scenario.ring \in RingMin..RingMax
      BY <1>2, UserAssumption DEF IInv, TypeSound, TypeOK, Scenario
    <3>2. CASE Len(startup_buffer) = 1
      BY <1>2, <1>4, <2>1, <3>1, <3>2
    <3>3. CASE Len(startup_buffer) # 1
      BY <1>1, <1>2, <1>4, <2>1, <3>3
    <3> QED
      BY <3>2, <3>3
  <2>6. ASSUME NEW i \in 1 .. Len(startup_buffer')
        PROVE  \E j \in 1 .. Len(startup_buffer) : i <= j /\ startup_buffer[j] = startup_buffer'[i]
    <3>1. i \in 1 .. Len(startup_buffer) - 1
      BY <1>4, <2>1
    <3>2. i + 1 \in 1 .. Len(startup_buffer) /\ i <= i + 1
      BY <2>1, <3>1
    <3> QED
      BY <1>4, <2>1, <3>1, <3>2
  <2> QED
    BY <1>4, <2>1, <2>2, <2>3, <2>4, <2>5, <2>6
<1> QED
  BY <1>3, <1>4 DEF Resent

(* A step of dlt_user_log_resend_buffer keeps the invariant.               *)
LEMMA ResendKeeps ==
  ASSUME IInv, NEW t \in Thread, Moves(t), top(t).fn = "resend_buffer", Resent,
         MutexSound', dlt_mutex' \in 0..2, PhaseSound, Resending(t) => StillFits(t),
         RetOthers(t), ret' \in [Thread -> Int],
         dlt_log_handle' \in Fds \cup {NONE}, fds' \in [Fds -> 0..(MaxCrash + 1)],
         UNCHANGED <<scenario, initialised, ready, freeing, appID, contexts, overflow_counter, logged,
                     daemon, crashes, knows, received, lost, dropped, reported, skipped>>
  PROVE  IInv'
<1>1. /\ startup_buffer \in Seq(Msg) /\ pipe \in Seq(Msg) /\ StackType /\ Others(t) /\ StackType'
  BY DEF IInv, TypeSound, Moves
<1>2. /\ pipe' \in Seq(Msg) /\ startup_buffer' \in Seq(Msg) /\ Len(pipe') <= PipeSize
      /\ Len(startup_buffer') <= buffer_size' /\ buffer_size' \in RingMin..scenario.ring
      /\ Range(pipe') \cup Range(startup_buffer') = Range(pipe) \cup Range(startup_buffer)
      /\ Ordered(received, pipe', startup_buffer', skipped)
      /\ \A i \in 1 .. Len(startup_buffer') :
            \E j \in 1 .. Len(startup_buffer) : i <= j /\ startup_buffer[j] = startup_buffer'[i]
  BY ResentIs
<1>3. LogKeeps(t)
  BY ResendLogs
<1>4. TypeSound'
  <2>1. TypeOK'
    BY <1>2 DEF IInv, TypeSound, TypeOK
  <2> QED
    BY <1>1, <1>2, <2>1 DEF IInv, TypeSound
<1>5. Shape'
  BY ShapeKeeps, <1>1 DEF IInv
<1>6. MainSound'
  BY DEF PhaseSound
<1>7. PlaceSound'
  <2>1. Everywhere' = Everywhere
    BY <1>2 DEF Everywhere
  <2>2. (\A x \in lost : x.kind = "log" =>
            x \notin Range(received) \cup Range(pipe) \cup Range(startup_buffer) \cup dropped)'
    BY <1>2 DEF IInv, PlaceSound
  <2>3. (dropped \cap (Range(received) \cup Range(pipe) \cup Range(startup_buffer)) = {})'
    BY <1>2 DEF IInv, PlaceSound
  <2>4. SameMessage(t)
    BY <1>3 DEF LogKeeps
  <2> QED
    BY <1>1, <2>1, <2>2, <2>3, <2>4, PlaceSame DEF IInv
<1>8. OrderSound'
  BY <1>2 DEF OrderSound
<1>9. FlushSound'
  <2>1. Settles(t)
    BY <1>2 DEF Settles
  <2>2. t \in Logger => FlushFits(t)'
    BY <1>3 DEF LogKeeps
  <2>3. skipped \subseteq skipped'
    OBVIOUS
  <2> QED
    BY <1>1, <1>2, <2>1, <2>2, <2>3, FlushOthers DEF IInv
<1> QED
  BY <1>4, <1>5, <1>6, <1>7, <1>8, <1>9 DEF IInv

(* What a step of a resend starts from.                                    *)
LEMMA ResendFrom ==
  ASSUME IInv, NEW t \in Thread, NEW pc, At(t, "resend_buffer", pc)
  PROVE  /\ startup_buffer \in Seq(Msg) /\ dlt_mutex \in Nat /\ pc = top(t).pc
         /\ t \in Logger => appID
         /\ Holding(top(t)) <=> pc \in {"write", "close", "closed"}
<1>1. top(t).fn = "resend_buffer" /\ top(t).pc = pc /\ stack[t] # <<>>
  BY DEF At
<1>2. startup_buffer \in Seq(Msg) /\ dlt_mutex \in 0..2
  BY DEF IInv, TypeSound, TypeOK
<1>3. t \in Logger => appID
  BY <1>1, LibraryRuns DEF Callees
<1> QED
  BY <1>1, <1>2, <1>3 DEF Holding

(* The resend starts.                                                      *)
LEMMA KeepsResendStart ==
  ASSUME IInv, NEW t \in Thread, ResendStart(t), UNCHANGED scenario
  PROVE  IInv'
<1>1. At(t, "resend_buffer", "start")
  BY DEF ResendStart
<1>2. /\ top(t).fn = "resend_buffer" /\ ~Holding(top(t)) /\ StackType /\ Shape /\ stack[t] # <<>>
      /\ ret \in [Thread -> Int] /\ startup_buffer \in Seq(Msg) /\ dlt_mutex \in Nat
      /\ (t \in Logger => appID) /\ top(t).fn \in Callees
      /\ dlt_log_handle \in Fds \cup {NONE} /\ fds \in [Fds -> 0..(MaxCrash + 1)]
  BY <1>1, StartsFrom, ResendFrom DEF Callees
<1>3. UNCHANGED <<shared, logged, world, hist>>
  BY DEF ResendStart
<1>4. PICK n \in Nat : n = Len(startup_buffer)
  BY <1>2, RangeIs
<1>5. (appID /\ ResendNext(t, n)) \/ (~appID /\ Return(t, OK))
  BY <1>4 DEF ResendStart
<1>6. /\ Moves(t) /\ (stack'[t] # <<>> => ~Holding(top(t)')) /\ RetOthers(t) /\ ret' \in [Thread -> Int]
      /\ Resending(t) => StillFits(t)
  <2>1. CASE appID /\ ResendNext(t, n)
    <3>1. /\ Moves(t) /\ RetOthers(t) /\ ret' \in [Thread -> Int]
          /\ stack'[t] # <<>> => ~Holding(top(t)')
          /\ \/ n = 0 /\ Return(t, OK)
             \/ /\ n > 0 /\ UNCHANGED ret
                /\ \E f \in Frames : Replaces(t, f) /\ f.fn = "resend_buffer" /\ f.pc = "loop" /\ f.n = n
      BY <1>2, <2>1, NextIs
    <3>2. StillFits(t)
      <4>1. CASE n = 0 /\ Return(t, OK)
        <5>1. Len(startup_buffer') = 0 /\ Range(startup_buffer') = {}
          BY <1>2, <1>3, <1>4, <4>1, RangeIs DEF shared
        <5> QED
          BY <5>1 DEF StillFits
      <4>2. ASSUME NEW f \in Frames, Replaces(t, f), f.n = n
            PROVE  StillFits(t)
        <5>1. ~Pops(t) /\ \A g : Replaces(t, g) => g = f
          BY <1>2, <4>2, ReplacesOne
        <5>2. \A i \in 1 .. Len(startup_buffer') : i <= n
          BY <1>3, <1>4 DEF shared
        <5> QED
          BY <4>2, <5>1, <5>2 DEF StillFits
      <4> QED
        BY <3>1, <4>1, <4>2
    <3> QED
      BY <3>1, <3>2
  <2>2. CASE ~appID /\ Return(t, OK)
    <3>1. ~Resending(t)
      BY <1>2, <2>2 DEF Resending
    <3> QED
      BY <1>2, <2>2, <3>1, GivesBack, ResultsAre
  <2> QED
    BY <1>5, <2>1, <2>2
<1>7. /\ UNCHANGED <<scenario, initialised, ready, freeing, appID, contexts, overflow_counter, logged,
                     daemon, crashes, knows, received, lost, dropped, reported, skipped>>
      /\ UNCHANGED <<dlt_log_handle, fds, dlt_mutex>> /\ UNCHANGED <<pipe, startup_buffer, buffer_size>>
  BY <1>3 DEF shared, world, hist
<1>8. PhaseSound
  BY <1>2, <1>6, <1>7, LibraryPhase
<1>9. MutexSound' /\ dlt_mutex' \in 0..2
  BY <1>2, <1>6, <1>7, <1>8, ResendMutex
<1>10. Resent
  BY <1>7 DEF Resent
<1> QED
  BY <1>2, <1>6, <1>7, <1>8, <1>9, <1>10, ResendKeeps

(* The semaphore is taken for the next message, or there is none left.     *)
LEMMA KeepsResendLoop ==
  ASSUME IInv, NEW t \in Thread, ResendLoop(t), UNCHANGED scenario
  PROVE  IInv'
<1>1. At(t, "resend_buffer", "loop") /\ dlt_mutex > 0
  BY DEF ResendLoop
<1>2. /\ top(t).fn = "resend_buffer" /\ top(t).pc = "loop" /\ ~Holding(top(t))
      /\ StackType /\ Shape /\ stack[t] # <<>>
      /\ ret \in [Thread -> Int] /\ startup_buffer \in Seq(Msg) /\ dlt_mutex \in Nat
      /\ top(t).fn \in Callees /\ top(t) \in Frames /\ top(t).n \in Nat /\ FrameFits(top(t))
      /\ dlt_log_handle \in Fds \cup {NONE} /\ fds \in [Fds -> 0..(MaxCrash + 1)]
  BY <1>1, StartsFrom, ResendFrom DEF Callees
<1>3. UNCHANGED <<initialised, freeing, ready, dlt_log_handle, appID, contexts, startup_buffer,
                  buffer_size, overflow_counter, logged, world, hist>>
  BY DEF ResendLoop
<1>4. /\ UNCHANGED <<scenario, initialised, ready, freeing, appID, contexts, overflow_counter, logged,
                     daemon, crashes, knows, received, lost, dropped, reported, skipped>>
      /\ UNCHANGED <<dlt_log_handle, fds>> /\ UNCHANGED <<pipe, startup_buffer, buffer_size>>
  BY <1>3 DEF world, hist
<1>5. Resent
  BY <1>4 DEF Resent
<1>6. PICK n \in Nat : n = top(t).n - 1
  BY <1>2 DEF FrameFits
<1>7. CASE startup_buffer = <<>>
  <2>1. ResendNext(t, n) /\ UNCHANGED dlt_mutex
    BY <1>6, <1>7 DEF ResendLoop
  <2>2. /\ Moves(t) /\ RetOthers(t) /\ ret' \in [Thread -> Int]
        /\ stack'[t] # <<>> => ~Holding(top(t)')
    BY <1>2, <2>1, NextIs
  <2>3. StillFits(t)
    <3>1. Len(startup_buffer') = 0 /\ Range(startup_buffer') = {}
      BY <1>2, <1>4, <1>7, RangeIs
    <3> QED
      BY <3>1 DEF StillFits
  <2>4. PhaseSound
    BY <1>2, <1>4, <2>2, LibraryPhase
  <2>5. MutexSound' /\ dlt_mutex' \in 0..2
    BY <1>2, <1>4, <2>1, <2>2, <2>4, ResendMutex
  <2> QED
    BY <1>2, <1>4, <1>5, <2>2, <2>3, <2>4, <2>5, ResendKeeps
<1>8. CASE startup_buffer # <<>>
  <2>1. /\ Goto(t, [top(t) EXCEPT !.pc = "write", !.fd = dlt_log_handle])
        /\ dlt_mutex' = dlt_mutex - 1 /\ UNCHANGED ret
    BY <1>8 DEF ResendLoop
  <2>2. PICK f : f = [top(t) EXCEPT !.pc = "write", !.fd = dlt_log_handle]
    OBVIOUS
  <2>3. "write" \in Pcs
    BY DEF Pcs
  <2>4. f \in Frames /\ f.fn = top(t).fn /\ f.m = top(t).m /\ f.pc = "write" /\ f.n = top(t).n
    BY <1>2, <2>2, <2>3 DEF Frames
  <2>5. Resumes(top(t), f) /\ FrameFits(f) /\ Goto(t, f)
    BY <1>2, <2>1, <2>2, <2>4 DEF Resumes, FrameFits
  <2>6. Moves(t) /\ top(t)' = f /\ Replaces(t, f) /\ stack'[t] # <<>>
    BY <1>2, <2>4, <2>5, GoesOn
  <2>7. Holding(top(t)') /\ RetOthers(t) /\ ret' \in [Thread -> Int]
    BY <1>2, <2>1, <2>4, <2>6 DEF Holding, RetOthers
  <2>8. Resending(t) => StillFits(t)
    <3>1. SUFFICES ASSUME Resending(t) PROVE StillFits(t)
      OBVIOUS
    <3>2. ~Pops(t) /\ \A g : Replaces(t, g) => g = f
      BY <1>2, <2>6, ReplacesOne
    <3>3. \A i \in 1 .. Len(startup_buffer) : Mine(startup_buffer[i], t) => i <= top(t).n
      BY <1>2, <3>1, ResendFits
    <3> QED
      BY <1>4, <2>4, <3>2, <3>3 DEF StillFits
  <2>9. PhaseSound
    BY <1>2, <1>4, <2>6, LibraryPhase
  <2>10. MutexSound' /\ dlt_mutex' \in 0..2
    BY <1>1, <1>2, <1>4, <1>8, <2>1, <2>6, <2>7, <2>9, ResendMutex
  <2> QED
    BY <1>2, <1>4, <1>5, <2>6, <2>7, <2>8, <2>9, <2>10, ResendKeeps
<1> QED
  BY <1>7, <1>8

(* A message that was written leaves the startup buffer.                   *)
LEMMA WrittenFits ==
  ASSUME IInv, NEW t \in Thread, Resending(t), top(t).pc = "write", startup_buffer # <<>>,
         startup_buffer' = Tail(startup_buffer), NEW n \in Nat, top(t).n = n + 1
  PROVE  \A i \in 1 .. Len(startup_buffer') : Mine(startup_buffer'[i], t) => i <= n
<1>1. startup_buffer \in Seq(Msg)
  BY DEF IInv, TypeSound
<1>2. PICK k \in Nat : k = Len(startup_buffer) - 1
  BY <1>1, TailIs
<1>3. Len(startup_buffer') = k /\ \A i \in 1 .. k : startup_buffer'[i] = startup_buffer[i + 1]
  BY <1>1, <1>2, TailIs
<1>4. Len(startup_buffer) = k + 1
  BY <1>1, <1>2, TailIs
<1>5. ASSUME NEW i \in 1 .. k, Mine(startup_buffer'[i], t) PROVE i <= n
  <2>1. i + 1 \in 1 .. k + 1
    BY <1>2
  <2>2. Mine(startup_buffer[i + 1], t)
    BY <1>3, <1>5
  <2>3. i + 1 <= top(t).n
    BY <1>4, <2>1, <2>2, ResendFits
  <2>4. \A a, b \in Nat : a + 1 <= b + 1 => a <= b
    OBVIOUS
  <2> QED
    BY <1>2, <2>3, <2>4
<1> QED
  BY <1>3, <1>5

(* The first message stored is written, or not.                            *)
LEMMA KeepsResendWrite ==
  ASSUME IInv, NEW t \in Thread, ResendWrite(t), UNCHANGED scenario
  PROVE  IInv'
<1>1. At(t, "resend_buffer", "write")
  BY DEF ResendWrite
<1>2. /\ top(t).fn = "resend_buffer" /\ top(t).pc = "write" /\ Holding(top(t))
      /\ StackType /\ Shape /\ stack[t] # <<>>
      /\ ret \in [Thread -> Int] /\ startup_buffer \in Seq(Msg) /\ pipe \in Seq(Msg) /\ dlt_mutex \in Nat
      /\ top(t).fn \in Callees /\ top(t) \in Frames /\ top(t).n \in Nat /\ FrameFits(top(t))
      /\ dlt_log_handle \in Fds \cup {NONE} /\ fds \in [Fds -> 0..(MaxCrash + 1)]
  BY <1>1, StartsFrom, ResendFrom DEF Callees, IInv, TypeSound
<1>3. startup_buffer # <<>>
  BY <1>1 DEF IInv, MutexSound
<1>4. PICK r \in Int : r = Out3(top(t).fd)
  BY Out3Is, ResultsAre
<1>5. /\ Write(top(t).fd, Head(startup_buffer), r) /\ RemoveSent(r)
      /\ IF r = PIPE_ERROR
         THEN GotoPc(t, "close") /\ UNCHANGED <<ret, dlt_mutex>>
         ELSE /\ dlt_mutex' = dlt_mutex + 1
              /\ IF r = OK THEN ResendNext(t, top(t).n - 1) ELSE Return(t, r)
  BY <1>4 DEF ResendWrite
<1>6. UNCHANGED <<initialised, freeing, ready, dlt_log_handle, appID, contexts, overflow_counter, logged,
                  fds, daemon, crashes, knows, hist>>
  BY DEF ResendWrite
<1>7. /\ UNCHANGED <<scenario, initialised, ready, freeing, appID, contexts, overflow_counter, logged,
                     daemon, crashes, knows, received, lost, dropped, reported, skipped>>
      /\ UNCHANGED <<dlt_log_handle, fds>>
  BY <1>6 DEF hist
<1>8. Resent
  <2>1. CASE r = OK
    <3>1. Len(pipe) < PipeSize
      <4>1. ~(Len(pipe) >= PipeSize)
        BY <1>4, <2>1, Out3Is
      <4> QED
        BY <1>2, <4>1, RangeIs, UserAssumption
    <3> QED
      BY <1>3, <1>5, <2>1, <3>1 DEF Resent, Write, RemoveSent
  <2>2. CASE r # OK
    BY <1>5, <2>2 DEF Resent, Write, RemoveSent
  <2> QED
    BY <2>1, <2>2
<1>9. PICK n \in Nat : n = top(t).n - 1 /\ top(t).n = n + 1
  <2>1. top(t).n \in Nat /\ top(t).n > 0
    BY <1>2 DEF FrameFits
  <2>2. \A k \in Nat : k > 0 => k - 1 \in Nat /\ k = (k - 1) + 1
    OBVIOUS
  <2> QED
    BY <2>1, <2>2
<1>10. CASE r = PIPE_ERROR
  <2>1. GotoPc(t, "close") /\ UNCHANGED <<ret, dlt_mutex>> /\ "close" \in Pcs
    BY <1>5, <1>10 DEF Pcs
  <2>2. /\ Moves(t) /\ stack'[t] # <<>> /\ ~Pops(t)
        /\ \E f \in Frames : top(t)' = f /\ Replaces(t, f) /\ f.fn = top(t).fn /\ f.pc = "close"
    BY <1>2, <2>1, GoesTo
  <2>3. PICK f \in Frames : top(t)' = f /\ Replaces(t, f) /\ f.fn = top(t).fn /\ f.pc = "close"
    BY <2>2
  <2>4. Holding(top(t)') /\ top(t)'.pc # "write" /\ RetOthers(t) /\ ret' \in [Thread -> Int]
    BY <1>2, <2>1, <2>3 DEF Holding, RetOthers
  <2>5. StillFits(t)
    <3>1. \A g : Replaces(t, g) => g = f
      BY <1>2, <2>3, ReplacesOne
    <3> QED
      BY <2>2, <2>3, <3>1 DEF StillFits
  <2>6. PhaseSound
    BY <1>2, <1>7, <2>2, LibraryPhase
  <2>7. MutexSound' /\ dlt_mutex' \in 0..2
    BY <1>2, <2>1, <2>2, <2>4, <2>6, ResendMutex
  <2> QED
    BY <1>2, <1>7, <1>8, <2>2, <2>4, <2>5, <2>6, <2>7, ResendKeeps
<1>11. CASE r = OK
  <2>1. dlt_mutex' = dlt_mutex + 1 /\ ResendNext(t, n)
    BY <1>5, <1>9, <1>11, ResultsAre
  <2>2. /\ Moves(t) /\ RetOthers(t) /\ ret' \in [Thread -> Int]
        /\ stack'[t] # <<>> => ~Holding(top(t)')
        /\ \/ n = 0 /\ Return(t, OK)
           \/ /\ n > 0 /\ UNCHANGED ret
              /\ \E f \in Frames : Replaces(t, f) /\ f.fn = "resend_buffer" /\ f.pc = "loop" /\ f.n = n
    BY <1>2, <2>1, NextIs
  <2>3. Resending(t) => StillFits(t)
    <3>1. SUFFICES ASSUME Resending(t) PROVE StillFits(t)
      OBVIOUS
    <3>2. startup_buffer' = Tail(startup_buffer) /\ startup_buffer' \in Seq(Msg)
      BY <1>2, <1>3, <1>5, <1>11, TailIs DEF RemoveSent
    <3>3. \A i \in 1 .. Len(startup_buffer') : Mine(startup_buffer'[i], t) => i <= n
      BY <1>2, <1>3, <1>9, <3>1, <3>2, WrittenFits
    <3>4. CASE n = 0 /\ Return(t, OK)
      <4>1. \A i \in 1 .. Len(startup_buffer') : ~(i <= n)
        BY <3>4
      <4>2. \A x \in Range(startup_buffer') : ~Mine(x, t)
        <5>1. \A x \in Range(startup_buffer') : \E i \in 1 .. Len(startup_buffer') : startup_buffer'[i] = x
          BY <3>2, RangeIs
        <5> QED
          BY <3>3, <4>1, <5>1
      <4>3. Pops(t)
        BY <1>2, <3>4, GivesBack, ResultsAre
      <4> QED
        BY <1>2, <4>2, <4>3, PopsOne DEF StillFits
    <3>5. ASSUME NEW f \in Frames, Replaces(t, f), f.n = n PROVE StillFits(t)
      <4>1. ~Pops(t) /\ \A g : Replaces(t, g) => g = f
        BY <1>2, <3>5, ReplacesOne
      <4> QED
        BY <3>3, <3>5, <4>1 DEF StillFits
    <3> QED
      BY <2>2, <3>4, <3>5
  <2>4. PhaseSound
    BY <1>2, <1>7, <2>2, LibraryPhase
  <2>5. MutexSound' /\ dlt_mutex' \in 0..2
    BY <1>2, <2>1, <2>2, <2>4, ResendMutex
  <2> QED
    BY <1>2, <1>7, <1>8, <2>2, <2>3, <2>4, <2>5, ResendKeeps
<1>12. CASE r # OK /\ r # PIPE_ERROR
  <2>1. dlt_mutex' = dlt_mutex + 1 /\ Return(t, r)
    BY <1>5, <1>12
  <2>2. /\ Moves(t) /\ RetOthers(t) /\ ret' \in [Thread -> Int] /\ Pops(t)
        /\ stack'[t] # <<>> => ~Holding(top(t)')
    BY <1>2, <2>1, GivesBack
  <2>3. Resending(t) => StillFits(t)
    <3>1. SUFFICES ASSUME Resending(t) PROVE StillFits(t)
      OBVIOUS
    <3>2. ret'[t] = r
      BY <2>1, <3>1, ResendAwaited
    <3> QED
      BY <1>2, <1>12, <2>2, <3>2, PopsOne DEF StillFits
  <2>4. PhaseSound
    BY <1>2, <1>7, <2>2, LibraryPhase
  <2>5. MutexSound' /\ dlt_mutex' \in 0..2
    BY <1>2, <2>1, <2>2, <2>4, ResendMutex
  <2> QED
    BY <1>2, <1>7, <1>8, <2>2, <2>3, <2>4, <2>5, ResendKeeps
<1> QED
  BY <1>10, <1>11, <1>12

(* The broken FIFO is closed.                                              *)
LEMMA CloseIs ==
  ASSUME NEW fd, fds \in [Fds -> 0..(MaxCrash + 1)], Close(fd)
  PROVE  fds' \in [Fds -> 0..(MaxCrash + 1)]
<1>1. CLOSED \in 0..(MaxCrash + 1)
  BY UserAssumption DEF CLOSED
<1> QED
  BY <1>1 DEF Close

(* The handle is closed with the semaphore held.                           *)
LEMMA KeepsResendClose ==
  ASSUME IInv, NEW t \in Thread, ResendClose(t), UNCHANGED scenario
  PROVE  IInv'
<1>1. At(t, "resend_buffer", "close") /\ Close(dlt_log_handle) /\ GotoPc(t, "closed")
  BY DEF ResendClose
<1>2. /\ top(t).fn = "resend_buffer" /\ Holding(top(t)) /\ StackType /\ Shape /\ stack[t] # <<>>
      /\ ret \in [Thread -> Int] /\ dlt_mutex \in Nat /\ top(t).fn \in Callees
      /\ dlt_log_handle \in Fds \cup {NONE} /\ fds \in [Fds -> 0..(MaxCrash + 1)] /\ "closed" \in Pcs
  BY <1>1, StartsFrom, ResendFrom DEF Callees, Pcs
<1>3. UNCHANGED <<shared, ret, logged, daemon, crashes, pipe, knows, hist>>
  BY DEF ResendClose
<1>4. /\ UNCHANGED <<scenario, initialised, ready, freeing, appID, contexts, overflow_counter, logged,
                     daemon, crashes, knows, received, lost, dropped, reported, skipped>>
      /\ UNCHANGED <<dlt_log_handle, ret, dlt_mutex>> /\ UNCHANGED <<pipe, startup_buffer, buffer_size>>
  BY <1>3 DEF shared, hist
<1>5. Resent /\ RetOthers(t) /\ fds' \in [Fds -> 0..(MaxCrash + 1)]
  BY <1>1, <1>2, <1>4, CloseIs DEF Resent, RetOthers
<1>6. /\ Moves(t) /\ stack'[t] # <<>> /\ ~Pops(t)
      /\ \E f \in Frames : top(t)' = f /\ Replaces(t, f) /\ f.fn = top(t).fn /\ f.pc = "closed"
  BY <1>1, <1>2, GoesTo
<1>7. PICK f \in Frames : top(t)' = f /\ Replaces(t, f) /\ f.fn = top(t).fn /\ f.pc = "closed"
  BY <1>6
<1>8. Holding(top(t)') /\ top(t)'.pc # "write"
  BY <1>2, <1>7 DEF Holding
<1>9. StillFits(t)
  <2>1. \A g : Replaces(t, g) => g = f
    BY <1>2, <1>7, ReplacesOne
  <2> QED
    BY <1>6, <1>7, <2>1 DEF StillFits
<1>10. PhaseSound
  BY <1>2, <1>4, <1>6, LibraryPhase
<1>11. MutexSound' /\ dlt_mutex' \in 0..2
  BY <1>2, <1>4, <1>6, <1>8, <1>10, ResendMutex
<1> QED
  BY <1>2, <1>4, <1>5, <1>6, <1>9, <1>10, <1>11, ResendKeeps

(* The handle is unset, and the semaphore given back.                      *)
LEMMA KeepsResendClosed ==
  ASSUME IInv, NEW t \in Thread, ResendClosed(t), UNCHANGED scenario
  PROVE  IInv'
<1>1. /\ At(t, "resend_buffer", "closed") /\ dlt_log_handle' = NONE /\ dlt_mutex' = dlt_mutex + 1
      /\ Return(t, PIPE_ERROR)
  BY DEF ResendClosed
<1>2. /\ top(t).fn = "resend_buffer" /\ Holding(top(t)) /\ StackType /\ Shape /\ stack[t] # <<>>
      /\ ret \in [Thread -> Int] /\ dlt_mutex \in Nat /\ top(t).fn \in Callees
      /\ fds \in [Fds -> 0..(MaxCrash + 1)]
  BY <1>1, StartsFrom, ResendFrom DEF Callees
<1>3. UNCHANGED <<initialised, freeing, ready, appID, contexts, startup_buffer, buffer_size,
                  overflow_counter, logged, world, hist>>
  BY DEF ResendClosed
<1>4. /\ UNCHANGED <<scenario, initialised, ready, freeing, appID, contexts, overflow_counter, logged,
                     daemon, crashes, knows, received, lost, dropped, reported, skipped>>
      /\ UNCHANGED fds /\ UNCHANGED <<pipe, startup_buffer, buffer_size>>
  BY <1>3 DEF world, hist
<1>5. Resent /\ dlt_log_handle' \in Fds \cup {NONE}
  BY <1>1, <1>4 DEF Resent
<1>6. /\ Moves(t) /\ RetOthers(t) /\ ret' \in [Thread -> Int] /\ Pops(t)
      /\ stack'[t] # <<>> => ~Holding(top(t)')
  BY <1>1, <1>2, GivesBack, ResultsAre
<1>7. Resending(t) => StillFits(t)
  <2>1. SUFFICES ASSUME Resending(t) PROVE StillFits(t)
    OBVIOUS
  <2>2. ret'[t] = PIPE_ERROR
    BY <1>1, <2>1, ResendAwaited, ResultsAre
  <2> QED
    BY <1>2, <1>6, <2>2, PopsOne, ResultsAre DEF StillFits
<1>8. PhaseSound
  BY <1>2, <1>4, <1>6, LibraryPhase
<1>9. MutexSound' /\ dlt_mutex' \in 0..2
  BY <1>1, <1>2, <1>6, <1>8, ResendMutex
<1> QED
  BY <1>2, <1>4, <1>5, <1>6, <1>7, <1>8, <1>9, ResendKeeps

-----------------------------------------------------------------------------
(* A message is stored, or refused.                                        *)
(* A log message to be stored is the one its thread logs, and is nowhere.  *)
LEMMA UnplacedIs ==
  ASSUME IInv, NEW t \in Logger, Unplaced(t), NEW m \in Msg, m = Bottom(t).m
  PROVE  /\ m = LogMsg(t, logged[t]) /\ m.kind = "log" /\ m.from = t /\ m.id = logged[t]
         /\ m \in Messages /\ m \notin Everywhere
         /\ \A x \in Everywhere : Mine(x, t) => x.id < m.id
<1>1. stack[t] # <<>> /\ m = LogMsg(t, logged[t]) /\ logged[t] > 0
  BY DEF Unplaced, IInv, PlaceSound
<1>2. m.kind = "log" /\ m.from = t /\ m.id = logged[t]
  BY <1>1 DEF LogMsg
<1>3. m \in Messages
  <2>1. logged[t] \in 0..MaxLog
    BY DEF IInv, TypeSound, TypeOK
  <2>2. logged[t] \in 1..MaxLog
    BY <1>1, <2>1, UserAssumption
  <2> QED
    BY <1>1, <2>2 DEF Messages
<1>4. \A x \in Everywhere : Mine(x, t) => x.id < m.id
  BY <1>2 DEF IInv, PlaceSound, Sent, Mine
<1>5. m \notin Everywhere
  <2>1. ~(m.id < m.id)
    BY <1>2, <1>3 DEF IInv, TypeSound
  <2> QED
    BY <1>2, <1>4, <2>1 DEF Mine
<1> QED
  BY <1>1, <1>2, <1>3, <1>4, <1>5

(* What dlt_user_log_out_error_handling stores.                            *)
LEMMA PushedIs ==
  ASSUME IInv, NEW t \in Thread, At(t, "error_handling", "push")
  PROVE  /\ top(t).m.kind = "log" =>
               t \in Logger /\ Len(stack[t]) = 2 /\ Bottom(t).pc = "handled" /\ top(t).m = Bottom(t).m
         /\ t \in Logger /\ top(t).m.kind # "log" => Len(stack[t]) > 2
         /\ t \in Logger => Bottom(t).pc \in {"overflow", "handled"}
<1>1. /\ StackType /\ Shape /\ stack[t] # <<>> /\ top(t).fn = "error_handling"
      /\ Len(stack[t]) \in Nat \ {0} /\ Bottom(t).fn = Outer(t)
      /\ Len(stack[t]) > 1 => Calls(stack[t][Len(stack[t]) - 1], top(t))
      /\ Len(stack[t]) = 2 => top(t) = stack[t][2] /\ stack[t][Len(stack[t]) - 1] = Bottom(t)
  BY StartsFrom, ShapeIs
<1>2. Len(stack[t]) > 1
  BY <1>1, LibraryRuns DEF Callees
<1>3. ASSUME top(t).m.kind = "log"
      PROVE  t \in Logger /\ Len(stack[t]) = 2 /\ Bottom(t).pc = "handled" /\ top(t).m = Bottom(t).m
  <2>1. PICK k \in Nat \ {0} : k = Len(stack[t]) - 1 /\ Len(stack[t]) = k + 1
    <3>1. \A n \in Nat \ {0} : n > 1 => n - 1 \in Nat \ {0} /\ n = (n - 1) + 1
      OBVIOUS
    <3> QED
      BY <1>1, <1>2, <3>1
  <2>2. stack[t][k].fn = "send_log" /\ stack[t][k].pc = "handled" /\ top(t).m = stack[t][k].m
    BY <1>1, <1>2, <1>3, <2>1 DEF Calls
  <2>3. k = 1
    <3>1. SUFFICES ASSUME k # 1 PROVE FALSE
      OBVIOUS
    <3>2. PICK j \in 1 .. (k + 1) - 1 : j + 1 = k
      <4>1. k - 1 \in 1 .. (k + 1) - 1 /\ (k - 1) + 1 = k
        BY <3>1
      <4> QED
        BY <4>1
    <3>3. Calls(stack[t][j], stack[t][k])
      BY <1>1, <2>1, <3>2 DEF Shape
    <3> QED
      BY <2>2, <3>3 DEF Calls
  <2>4. Len(stack[t]) = 2
    BY <2>1, <2>3
  <2>5. t \in Logger
    BY <1>1, <2>2, <2>3, Threads DEF Bottom, Outer
  <2> QED
    BY <2>2, <2>3, <2>4, <2>5 DEF Bottom
<1>4. ASSUME t \in Logger
      PROVE  /\ Bottom(t).pc \in {"overflow", "handled"}
             /\ top(t).m.kind # "log" => Len(stack[t]) > 2
  <2>1. /\ Bottom(t).pc \in {"overflow", "resend", "out", "handled"}
        /\ Bottom(t).pc = "handled" <=> stack[t][2].fn = "error_handling"
        /\ Bottom(t).pc = "handled" => stack[t][2].m = Bottom(t).m
        /\ Bottom(t).pc # "overflow" => Len(stack[t]) = 2
    BY <1>1, <1>2, <1>4, LoggerCalls
  <2>2. Bottom(t).pc \in {"overflow", "handled"}
    BY <1>1, <2>1
  <2>3. ASSUME top(t).m.kind # "log" PROVE Len(stack[t]) # 2
    <3>1. SUFFICES ASSUME Len(stack[t]) = 2 PROVE FALSE
      OBVIOUS
    <3>2. top(t).m = Bottom(t).m
      BY <1>1, <2>1, <3>1
    <3>3. Bottom(t).m = LogMsg(t, logged[t])
      BY <1>1, <1>4 DEF IInv, PlaceSound
    <3> QED
      BY <2>3, <3>2, <3>3 DEF LogMsg
  <2>4. \A n \in Nat \ {0} : n > 1 /\ n # 2 => n > 2
    OBVIOUS
  <2> QED
    BY <1>1, <1>2, <2>2, <2>3, <2>4
<1> QED
  BY <1>3, <1>4

(* The message of a logger has come to a place.                            *)
LEMMA PlaceGained ==
  ASSUME IInv, NEW t \in Logger, Unplaced(t), NEW m \in Msg, m = Bottom(t).m,
         Others(t), logged' = logged, ~Unplaced(t)', stack'[t] # <<>> => Bottom(t)'.m = m,
         UNCHANGED <<received, lost>>,
         \/ /\ dropped' = dropped \cup {m} /\ UNCHANGED <<pipe, startup_buffer>>
         \/ /\ dropped' = dropped
            /\ Range(pipe') \cup Range(startup_buffer') = Range(pipe) \cup Range(startup_buffer) \cup {m}
  PROVE  PlaceSound'
<1>1. /\ m = LogMsg(t, logged[t]) /\ m.kind = "log" /\ m.from = t /\ m.id = logged[t]
      /\ m \in Messages /\ m \notin Everywhere
  BY UnplacedIs
<1>2. Everywhere' = Everywhere \cup {m}
  BY DEF Everywhere
<1>3. \A u \in Logger : u # t => (Unplaced(u)' <=> Unplaced(u)) /\ Bottom(u)' = Bottom(u) /\ stack'[u] = stack[u]
  BY Threads DEF Others, Unplaced, Bottom
<1>4. \A u \in Logger : \A n : Sent(u, n)' <=> (Sent(u, n) \/ (u = t /\ n = logged[t]))
  BY <1>3 DEF Sent
<1>5. \A u \in Logger : stack'[u] # <<>> => Bottom(u)'.m = LogMsg(u, logged'[u]) /\ logged'[u] > 0
  <2>1. logged[t] > 0
    BY DEF Unplaced, IInv, PlaceSound
  <2> QED
    BY <1>1, <1>3, <2>1 DEF IInv, PlaceSound
<1>6. ASSUME NEW x \in Everywhere', x.kind = "log"
      PROVE  x.from \in Logger /\ x.id > 0 /\ Sent(x.from, x.id)'
  <2>1. CASE x = m
    <3>1. logged[t] > 0
      BY DEF Unplaced, IInv, PlaceSound
    <3> QED
      BY <1>1, <1>4, <2>1, <3>1
  <2>2. CASE x # m
    BY <1>2, <1>4, <1>6, <2>2 DEF IInv, PlaceSound
  <2> QED
    BY <2>1, <2>2
<1>7. ASSUME NEW u \in Logger, NEW n \in Nat \ {0}, Sent(u, n)'
      PROVE  LogMsg(u, n) \in Everywhere'
  BY <1>1, <1>2, <1>4, <1>7 DEF IInv, PlaceSound
<1>8. (\A x \in lost : x.kind = "log" =>
         x \notin Range(received) \cup Range(pipe) \cup Range(startup_buffer) \cup dropped)'
  <2>1. m \notin lost
    BY <1>1 DEF Everywhere
  <2> QED
    BY <2>1 DEF IInv, PlaceSound
<1>9. (dropped \cap (Range(received) \cup Range(pipe) \cup Range(startup_buffer)) = {})'
  <2>1. m \notin Range(received) \cup Range(pipe) \cup Range(startup_buffer) \cup dropped
    BY <1>1 DEF Everywhere
  <2> QED
    BY <2>1 DEF IInv, PlaceSound
<1> QED
  BY <1>5, <1>6, <1>7, <1>8, <1>9 DEF PlaceSound

(* What a stored message does to the startup buffer.                       *)
LEMMA StoredIs ==
  ASSUME IInv, NEW t \in Thread, At(t, "error_handling", "push"), ~RingFull,
         startup_buffer' = Append(startup_buffer, top(t).m),
         buffer_size' = IF Len(startup_buffer) = buffer_size THEN buffer_size + 1 ELSE buffer_size
  PROVE  /\ startup_buffer' \in Seq(Msg) /\ startup_buffer' # <<>>
         /\ Range(startup_buffer') = Range(startup_buffer) \cup {top(t).m}
         /\ Len(startup_buffer') <= buffer_size' /\ buffer_size' \in RingMin..scenario.ring
         /\ Ordered(received, pipe, startup_buffer', skipped)
         /\ Settles(t)
<1>1. /\ startup_buffer \in Seq(Msg) /\ pipe \in Seq(Msg) /\ received \in Seq(Msg)
      /\ Len(startup_buffer) <= buffer_size /\ buffer_size \in RingMin..scenario.ring
      /\ scenario.ring \in RingMin..RingMax
  BY DEF IInv, TypeSound, TypeOK, Scenario
<1>2. top(t).m \in Msg
  BY StartsFrom
<1>3. PICK q \in Seq(Msg), m \in Msg, n \in Nat : q = startup_buffer /\ m = top(t).m /\ n = Len(q)
  BY <1>1, <1>2, RangeIs
<1>4. /\ Append(q, m) \in Seq(Msg) /\ Len(Append(q, m)) = n + 1
      /\ \A i \in 1 .. n : Append(q, m)[i] = q[i]
      /\ Append(q, m)[n + 1] = m
      /\ Range(Append(q, m)) = Range(q) \cup {m}
  BY <1>3, AppendIs
<1>5. startup_buffer' = Append(q, m)
  BY <1>3
<1>6. Len(startup_buffer') <= buffer_size' /\ buffer_size' \in RingMin..scenario.ring
  BY <1>1, <1>3, <1>4, <1>5, UserAssumption DEF RingFull
<1>7. startup_buffer' # <<>>
  <2>1. Append(q, m) # <<>>
    BY <1>3
  <2> QED
    BY <1>5, <2>1
<1>8. m.kind = "log" => t \in Logger /\ m.from = t /\ \A x \in Everywhere : Mine(x, t) => x.id < m.id
  <2>1. SUFFICES ASSUME m.kind = "log"
                 PROVE  t \in Logger /\ m.from = t /\ \A x \in Everywhere : Mine(x, t) => x.id < m.id
    OBVIOUS
  <2>2. t \in Logger /\ Len(stack[t]) = 2 /\ m = Bottom(t).m
    BY <1>3, <2>1, PushedIs
  <2>3. Unplaced(t)
    BY <2>2, StartsFrom DEF Unplaced
  <2> QED
    BY <2>2, <2>3, UnplacedIs
<1>9. Ordered(received, pipe, startup_buffer', skipped)
  <2>1. ASSUME NEW x \in Range(received) \cup Range(pipe) \cup Range(q) PROVE Fine(x, m, skipped)
    <3>1. CASE m.kind # "log"
      BY <3>1, FineControl
    <3>2. CASE m.kind = "log"
      <4>1. x \in Everywhere
        BY <1>3 DEF Everywhere
      <4> QED
        BY <1>8, <3>2, <4>1 DEF Fine, Mine
    <3> QED
      BY <3>1, <3>2
  <2>2. Ordered(received, pipe, q, skipped)
    BY <1>3 DEF IInv, OrderSound
  <2> QED
    BY <1>1, <1>5, <2>1, <2>2, OrderedStore
<1>10. Settles(t)
  <2>1. ASSUME NEW u \in Logger, u # t, NEW i \in 1 .. Len(startup_buffer'), Mine(startup_buffer'[i], u)
        PROVE  \E j \in 1 .. Len(startup_buffer) : i <= j /\ startup_buffer[j] = startup_buffer'[i]
    <3>1. i \in 1 .. n + 1
      BY <1>4, <1>5
    <3>2. i # n + 1
      <4>1. i = n + 1 => m.kind = "log" /\ m.from = u
        BY <1>4, <1>5, <2>1 DEF Mine
      <4> QED
        BY <1>8, <2>1, <4>1
    <3>3. i \in 1 .. n /\ i <= i
      BY <3>1, <3>2
    <3> QED
      BY <1>3, <1>4, <1>5, <3>3
  <2> QED
    BY <2>1 DEF Settles
<1> QED
  BY <1>3, <1>4, <1>5, <1>6, <1>7, <1>9, <1>10

(* The second section of dlt_user_log_out_error_handling keeps the         *)
(* messages in one place each.                                             *)
LEMMA PushPlaces ==
  ASSUME IInv, NEW t \in Thread, At(t, "error_handling", "push"), Moves(t), Pops(t),
         UNCHANGED <<logged, received, lost, pipe, skipped>>,
         \/ /\ dropped' = (IF top(t).m.kind = "log" THEN dropped \cup {top(t).m} ELSE dropped)
            /\ UNCHANGED startup_buffer
         \/ /\ dropped' = dropped /\ Range(startup_buffer') = Range(startup_buffer) \cup {top(t).m}
  PROVE  PlaceSound' /\ (t \in Logger => FlushFits(t)')
<1>1. /\ StackType /\ Shape /\ stack[t] # <<>> /\ top(t).fn = "error_handling" /\ top(t).m \in Msg
      /\ Others(t) /\ StackType'
  BY StartsFrom DEF Moves
<1>2. Len(stack[t]) > 1
  BY <1>1, LibraryRuns DEF Callees
<1>3. /\ Len(stack[t]) \in Nat /\ Len(stack'[t]) \in Nat /\ Len(stack'[t]) = Len(stack[t]) - 1
      /\ (stack'[t] # <<>> <=> Len(stack'[t]) > 0)
  BY <1>1 DEF StackType, Pops
<1>4. stack'[t] # <<>> /\ Bottom(t)' = Bottom(t)
  <2>1. 1 \in 1 .. Len(stack[t]) - 1 /\ Len(stack'[t]) > 0
    BY <1>2, <1>3
  <2> QED
    BY <1>3, <2>1 DEF Pops, Bottom
<1>5. t \in Logger => FlushFits(t)'
  <2>1. t \in Logger => Bottom(t).pc \in {"overflow", "handled"}
    BY PushedIs
  <2> QED
    BY <1>4, <2>1 DEF FlushFits
<1>6. CASE top(t).m.kind = "log"
  <2>1. t \in Logger /\ Len(stack[t]) = 2 /\ Bottom(t).pc = "handled" /\ top(t).m = Bottom(t).m
    BY <1>6, PushedIs
  <2>2. Unplaced(t)
    BY <1>1, <1>2 DEF Unplaced
  <2>3. ~Unplaced(t)'
    <3>1. Len(stack'[t]) = 1 /\ ~(1 > 1)
      BY <1>3, <2>1
    <3> QED
      BY <1>4, <2>1, <3>1 DEF Unplaced
  <2>4. \/ /\ dropped' = dropped \cup {top(t).m} /\ UNCHANGED <<pipe, startup_buffer>>
        \/ /\ dropped' = dropped
           /\ Range(pipe') \cup Range(startup_buffer')
                = Range(pipe) \cup Range(startup_buffer) \cup {top(t).m}
    BY <1>6
  <2>5. stack'[t] # <<>> => Bottom(t)'.m = top(t).m
    BY <1>4, <2>1
  <2>6. PlaceSound'
    BY <1>1, <2>1, <2>2, <2>3, <2>4, <2>5, PlaceGained
  <2> QED
    BY <1>5, <2>6
<1>7. CASE top(t).m.kind # "log"
  <2>1. t \in Logger => Len(stack[t]) > 2
    BY <1>7, PushedIs
  <2>2. SameMessage(t)
    <3>1. SUFFICES ASSUME t \in Logger PROVE Unplaced(t)' /\ Unplaced(t)
      BY <1>1, <1>4 DEF SameMessage
    <3>2. Len(stack'[t]) > 1
      BY <1>3, <2>1, <3>1
    <3> QED
      BY <1>1, <1>2, <1>4, <3>2 DEF Unplaced
  <2>3. /\ UNCHANGED <<received, lost, pipe, dropped>>
        /\ \A x : x \in Range(startup_buffer') => x \in Range(startup_buffer) \/ x = top(t).m
        /\ \A x \in Range(startup_buffer) : x \in Range(startup_buffer')
    BY <1>7
  <2>4. \A x : x.kind = "log" => (x \in Everywhere' <=> x \in Everywhere)
    BY <1>7, <2>3 DEF Everywhere
  <2>5. (\A x \in lost : x.kind = "log" =>
           x \notin Range(received) \cup Range(pipe) \cup Range(startup_buffer) \cup dropped)'
    BY <1>7, <2>3 DEF IInv, PlaceSound
  <2>6. dropped \subseteq Messages /\ \A x \in Messages : x.kind = "log"
    BY DEF IInv, TypeSound, TypeOK, Messages, LogMsg
  <2>7. (dropped \cap (Range(received) \cup Range(pipe) \cup Range(startup_buffer)) = {})'
    BY <1>7, <2>3, <2>6 DEF IInv, PlaceSound
  <2>8. PlaceSound'
    BY <1>1, <2>2, <2>4, <2>5, <2>7, PlaceSame DEF IInv
  <2> QED
    BY <1>5, <2>8
<1> QED
  BY <1>6, <1>7

(* The second section of dlt_user_log_out_error_handling.                  *)
LEMMA KeepsErrorPush ==
  ASSUME IInv, NEW t \in Thread, ErrorPush(t), UNCHANGED scenario
  PROVE  IInv'
<1>1. At(t, "error_handling", "push")
  BY DEF ErrorPush
<1>2. /\ StackType /\ Shape /\ stack[t] # <<>> /\ top(t).fn = "error_handling" /\ top(t).m \in Msg
      /\ top(t).res \in Int /\ ret \in [Thread -> Int] /\ ~Holding(top(t)) /\ top(t).fn \in Callees
      /\ startup_buffer \in Seq(Msg)
  BY <1>1, StartsFrom DEF Holding, Callees, IInv, TypeSound
<1>3. PICK r \in Int : Return(t, r)
  BY <1>2, ResultsAre DEF ErrorPush
<1>4. /\ Moves(t) /\ Pops(t) /\ ret' \in [Thread -> Int] /\ RetOthers(t)
      /\ stack'[t] # <<>> => ~Holding(top(t)')
  BY <1>2, <1>3, GivesBack
<1>5. /\ UNCHANGED <<initialised, freeing, ready, dlt_log_handle, appID, contexts, overflow_counter,
                     dlt_mutex, logged, received, lost, reported, skipped>>
      /\ UNCHANGED <<fds, daemon, crashes, pipe, knows>>
  BY DEF ErrorPush, world
<1>6. PhaseSound
  BY <1>2, <1>4, <1>5, LibraryPhase
<1>7. \/ /\ dropped' = (IF top(t).m.kind = "log" THEN dropped \cup {top(t).m} ELSE dropped)
         /\ UNCHANGED <<startup_buffer, buffer_size>>
      \/ /\ ~RingFull /\ dropped' = dropped
         /\ startup_buffer' = Append(startup_buffer, top(t).m)
         /\ buffer_size' = IF Len(startup_buffer) = buffer_size THEN buffer_size + 1 ELSE buffer_size
  BY DEF ErrorPush
<1>8. /\ startup_buffer' \in Seq(Msg) /\ (startup_buffer # <<>> => startup_buffer' # <<>>)
      /\ Len(startup_buffer') <= buffer_size' /\ buffer_size' \in RingMin..scenario.ring
      /\ Ordered(received, pipe, startup_buffer', skipped)
      /\ Settles(t)
      /\ \/ /\ dropped' = (IF top(t).m.kind = "log" THEN dropped \cup {top(t).m} ELSE dropped)
            /\ UNCHANGED startup_buffer
         \/ /\ dropped' = dropped /\ Range(startup_buffer') = Range(startup_buffer) \cup {top(t).m}
  <2>1. CASE UNCHANGED <<startup_buffer, buffer_size>>
    <3>1. \A i \in 1 .. Len(startup_buffer) : i <= i
      BY <1>2, RangeIs
    <3>2. Settles(t)
      BY <2>1, <3>1 DEF Settles
    <3>3. \/ dropped' = (IF top(t).m.kind = "log" THEN dropped \cup {top(t).m} ELSE dropped)
          \/ startup_buffer' = Append(startup_buffer, top(t).m)
      BY <1>7
    <3>4. startup_buffer' # Append(startup_buffer, top(t).m)
      <4>1. PICK n \in Nat : n = Len(startup_buffer) /\ Len(Append(startup_buffer, top(t).m)) = n + 1
        BY <1>2, AppendIs, RangeIs
      <4>2. n # n + 1
        OBVIOUS
      <4> QED
        BY <2>1, <4>1, <4>2
    <3> QED
      BY <1>2, <2>1, <3>2, <3>3, <3>4 DEF IInv, TypeSound, TypeOK, OrderSound
  <2>2. CASE /\ ~RingFull /\ dropped' = dropped
             /\ startup_buffer' = Append(startup_buffer, top(t).m)
             /\ buffer_size' = IF Len(startup_buffer) = buffer_size THEN buffer_size + 1 ELSE buffer_size
    BY <1>1, <2>2, StoredIs
  <2> QED
    BY <1>7, <2>1, <2>2
<1>9. PlaceSound' /\ (t \in Logger => FlushFits(t)')
  BY <1>1, <1>4, <1>5, <1>8, PushPlaces
<1>10. dropped' \subseteq Messages
  <2>1. dropped \subseteq Messages
    BY DEF IInv, TypeSound, TypeOK
  <2>2. top(t).m.kind = "log" => top(t).m \in Messages
    <3>1. SUFFICES ASSUME top(t).m.kind = "log" PROVE top(t).m \in Messages
      OBVIOUS
    <3>2. t \in Logger /\ Len(stack[t]) = 2 /\ top(t).m = Bottom(t).m
      BY <1>1, <3>1, PushedIs
    <3>3. Unplaced(t)
      BY <1>2, <3>2 DEF Unplaced
    <3> QED
      BY <1>2, <3>2, <3>3, UnplacedIs
  <2> QED
    BY <1>7, <2>1, <2>2
<1>11. TypeSound'
  <2>1. TypeOK'
    BY <1>5, <1>8, <1>10 DEF IInv, TypeSound, TypeOK
  <2>2. StackType'
    BY <1>4 DEF Moves
  <2> QED
    BY <1>4, <1>5, <1>8, <2>1, <2>2 DEF IInv, TypeSound
<1>12. Shape'
  BY <1>2, <1>4, ShapeKeeps
<1>13. MainSound'
  BY <1>6 DEF PhaseSound
<1>14. MutexSound'
  BY <1>2, <1>4, <1>5, <1>6, <1>8, MutexSame DEF IInv, Moves, PhaseSound
<1>15. OrderSound'
  BY <1>5, <1>8 DEF OrderSound
<1>16. FlushSound'
  <2>1. Others(t) /\ skipped \subseteq skipped'
    BY <1>4, <1>5 DEF Moves
  <2> QED
    BY <1>2, <1>4, <1>8, <1>9, <2>1, FlushOthers DEF IInv
<1> QED
  BY <1>9, <1>11, <1>12, <1>13, <1>14, <1>15, <1>16 DEF IInv

-----------------------------------------------------------------------------
(* The steps of the functions at the bottom of the calls of a thread.      *)
(* Such a function goes on at pc, or calls another from there.             *)
BottomGoes(t, pc) ==
    /\ StackType' /\ Others(t)
    /\ \E f \in Frames :
          /\ f.fn = top(t).fn /\ f.m = top(t).m /\ f.pc = pc
          /\ \/ Replaces(t, f)
             \/ \E g \in Frames : Pushes(t, f, g) /\ Calls(f, g) /\ g.pc = "start" /\ g.fn \in Callees

(* It goes on.                                                             *)
LEMMA GotoGoes ==
  ASSUME StackType, NEW t \in Thread, stack[t] # <<>>, NEW f \in Frames, Goto(t, f),
         f.fn = top(t).fn, f.m = top(t).m
  PROVE  BottomGoes(t, f.pc) /\ Len(stack'[t]) = Len(stack[t])
<1>1. StackType' /\ Others(t) /\ Replaces(t, f)
  BY GotoIs
<1> QED
  BY <1>1 DEF BottomGoes, Replaces

(* It goes on at another position.                                         *)
LEMMA PcGoes ==
  ASSUME StackType, NEW t \in Thread, stack[t] # <<>>, NEW pc \in Pcs, GotoPc(t, pc)
  PROVE  BottomGoes(t, pc) /\ Len(stack'[t]) = Len(stack[t])
<1>1. /\ StackType' /\ Others(t)
      /\ \E f \in Frames : Replaces(t, f) /\ f.fn = top(t).fn /\ f.pc = pc /\ f.m = top(t).m
  BY GotoPcIs
<1> QED
  BY <1>1 DEF BottomGoes, Replaces

(* It calls another.                                                       *)
LEMMA CallGoes ==
  ASSUME StackType, NEW t \in Thread, stack[t] # <<>>, NEW pc \in Pcs, NEW g \in Frames,
         g.pc = "start", g.fn \in Callees, Call(t, pc, g),
         \A f \in Frames : f.fn = top(t).fn /\ f.pc = pc /\ f.m = top(t).m => Calls(f, g)
  PROVE  BottomGoes(t, pc) /\ Len(stack'[t]) = Len(stack[t]) + 1
<1>1. /\ StackType' /\ Others(t)
      /\ \E f \in Frames : Pushes(t, f, g) /\ f.fn = top(t).fn /\ f.pc = pc /\ f.m = top(t).m
  BY CallIs
<1> QED
  BY <1>1 DEF BottomGoes, Pushes

(* It calls dlt_user_log_reattach_to_daemon if the handle is not open.     *)
LEMMA ReattachGoes ==
  ASSUME StackType, NEW t \in Thread, stack[t] # <<>>, NEW pc \in Pcs, CallReattach(t, pc),
         \A f, g : f.fn = top(t).fn /\ f.pc = pc /\ g.fn = "reattach" => Calls(f, g)
  PROVE  BottomGoes(t, pc)
<1>1. CASE GotoPc(t, pc)
  BY <1>1, PcGoes
<1>2. CASE Call(t, pc, Frame("reattach", AppMsg))
  <2>1. "reattach" \in Fns /\ AppMsg \in Msg
    BY ControlMessages DEF Fns
  <2>2. PICK g \in Frames : g = Frame("reattach", AppMsg) /\ g.fn = "reattach" /\ g.pc = "start"
    BY <2>1, NewFrame
  <2> QED
    BY <1>2, <2>2, CallGoes DEF Callees
<1> QED
  BY <1>1, <1>2 DEF CallReattach

(* The calls of a thread after such a step.                                *)
LEMMA BottomIs ==
  ASSUME IInv, NEW t \in Thread, stack[t] # <<>>, Len(stack[t]) = 1, NEW pc, BottomGoes(t, pc)
  PROVE  /\ Moves(t) /\ ~Holding(top(t)) /\ stack'[t] # <<>> /\ ~Holding(top(t)')
         /\ Bottom(t)'.pc = pc /\ Bottom(t)'.m = Bottom(t).m /\ top(t) = Bottom(t)
         /\ \/ Len(stack'[t]) = 1
            \/ Len(stack'[t]) = 2 /\ stack'[t][2].pc = "start" /\ stack'[t][2].fn \in Callees
<1>1. StackType /\ Shape /\ top(t) = Bottom(t) /\ top(t).fn = Outer(t)
  BY ShapeIs DEF IInv, TypeSound
<1>2. top(t).fn \in {"main", "housekeeper", "send_log"}
  BY <1>1 DEF Outer
<1>3. PICK f \in Frames :
          /\ f.fn = top(t).fn /\ f.m = top(t).m /\ f.pc = pc
          /\ \/ Replaces(t, f)
             \/ \E g \in Frames : Pushes(t, f, g) /\ Calls(f, g) /\ g.pc = "start" /\ g.fn \in Callees
  BY DEF BottomGoes
<1>4. Resumes(top(t), f) /\ FrameFits(f) /\ ~Holding(f) /\ ~Holding(top(t))
  BY <1>2, <1>3 DEF Resumes, FrameFits, Holding
<1>5. StackType' /\ Others(t) /\ stack'[t] \in Seq(Frames)
  BY DEF BottomGoes, StackType
<1>6. CASE Replaces(t, f)
  <2>1. Len(stack'[t]) = 1 /\ stack'[t][1] = f
    BY <1>6 DEF Replaces
  <2>2. stack'[t] # <<>>
    BY <1>5, <2>1
  <2>3. Moves(t)
    BY <1>4, <1>5, <1>6 DEF Moves
  <2> QED
    BY <1>1, <1>3, <1>4, <2>1, <2>2, <2>3 DEF Bottom, top
<1>7. ASSUME NEW g \in Frames, Pushes(t, f, g), Calls(f, g), g.pc = "start", g.fn \in Callees
      PROVE  /\ Moves(t) /\ stack'[t] # <<>> /\ ~Holding(top(t)')
             /\ Bottom(t)'.pc = pc /\ Bottom(t)'.m = Bottom(t).m
             /\ Len(stack'[t]) = 2 /\ stack'[t][2].pc = "start" /\ stack'[t][2].fn \in Callees
  <2>1. Len(stack'[t]) = 2 /\ stack'[t][1] = f /\ stack'[t][2] = g
    BY <1>7 DEF Pushes
  <2>2. stack'[t] # <<>>
    BY <1>5, <2>1
  <2>3. Moves(t)
    BY <1>4, <1>5, <1>7 DEF Moves
  <2>4. ~Holding(g)
    BY <1>7 DEF Holding
  <2> QED
    BY <1>1, <1>3, <1>7, <2>1, <2>2, <2>3, <2>4 DEF Bottom, top
<1> QED
  BY <1>1, <1>3, <1>4, <1>6, <1>7

(* Main goes on as before while another thread takes a step.               *)
LEMMA OtherPhase ==
  ASSUME IInv, NEW t \in Thread, t # main, Moves(t), UNCHANGED <<ready, freeing, appID>>,
         t = housekeeper => stack'[t] # <<>>
  PROVE  PhaseSound
<1>1. stack'[main] = stack[main] /\ stack[t] # <<>> /\ MainSound
  BY Threads DEF Moves, Others, IInv
<1>2. Idle(housekeeper)' <=> Idle(housekeeper)
  BY <1>1, Threads DEF Moves, Others, Idle
<1>3. \A u \in Logger : ~Idle(u)' => ~Idle(u)
  BY <1>1, Threads DEF Moves, Others, Idle
<1>4. (Idle(main)' <=> Idle(main)) /\ Bottom(main)' = Bottom(main) /\ top(main)' = top(main)
  BY <1>1 DEF Idle, Bottom, top
<1>5. ~Starting
  <2>1. SUFFICES ASSUME Starting PROVE FALSE
    OBVIOUS
  <2>2. ~MainIs("run") /\ Idle(housekeeper)
    BY <1>1, <2>1 DEF Starting, MainIs, MainSound
  <2> QED
    BY <1>1, <2>2, Threads DEF MainSound, Idle
<1>6. \A pc : MainIs(pc)' <=> MainIs(pc)
  BY <1>1, <1>4 DEF MainIs
<1>7. ~Starting'
  BY <1>1, <1>5, <1>6 DEF Starting
<1>8. Stopped' <=> Stopped
  BY <1>2, <1>5, <1>7 DEF Stopped
<1>9. MainSound'
  BY <1>1, <1>2, <1>3, <1>4, <1>5, <1>6, <1>7 DEF MainSound
<1> QED
  BY <1>5, <1>7, <1>8, <1>9 DEF PhaseSound

(* The steps of the housekeeper itself.                                    *)
LEMMA KeepsHousekeeper ==
  ASSUME IInv, HousekeeperReattach \/ HousekeeperResend, UNCHANGED scenario
  PROVE  IInv'
<1> DEFINE t == housekeeper
<1>1. t \in Thread /\ t # main /\ t \notin Logger
  BY Threads
<1>2. stack[t] # <<>> /\ StackType /\ Len(stack[t]) = 1 /\ top(t).fn = "housekeeper"
  BY <1>1, StartsFrom, ShapeIs DEF HousekeeperReattach, HousekeeperResend, At
<1>3. \A f, g : f.fn = top(t).fn /\ g.fn \in {"reattach", "resend_buffer"} => Calls(f, g)
  BY <1>2 DEF Calls
<1>4. "sleep" \in Pcs /\ "resend" \in Pcs
  BY DEF Pcs
<1>5. \E pc \in Pcs : BottomGoes(t, pc)
  <2>1. CASE HousekeeperReattach
    BY <1>1, <1>2, <1>3, <1>4, <2>1, ReattachGoes DEF HousekeeperReattach
  <2>2. CASE HousekeeperResend
    <3>1. CASE GotoPc(t, "sleep")
      BY <1>1, <1>2, <1>4, <3>1, PcGoes
    <3>2. CASE Call(t, "sleep", Frame("resend_buffer", AppMsg))
      <4>1. "resend_buffer" \in Fns /\ AppMsg \in Msg
        BY ControlMessages DEF Fns
      <4>2. PICK g \in Frames : /\ g = Frame("resend_buffer", AppMsg)
                                /\ g.fn = "resend_buffer" /\ g.pc = "start"
        BY <4>1, NewFrame
      <4>3. g.fn \in Callees /\ \A f \in Frames : f.fn = top(t).fn => Calls(f, g)
        BY <1>3, <4>2 DEF Callees
      <4> QED
        BY <1>1, <1>2, <1>4, <3>2, <4>2, <4>3, CallGoes
    <3> QED
      BY <2>2, <3>1, <3>2 DEF HousekeeperResend
  <2> QED
    BY <2>1, <2>2
<1>6. Moves(t) /\ ~Holding(top(t)) /\ stack'[t] # <<>> /\ ~Holding(top(t)')
  BY <1>1, <1>2, <1>5, BottomIs
<1>7. UNCHANGED <<shared, ret, logged, world, hist>>
  BY DEF HousekeeperReattach, HousekeeperResend
<1>8. PhaseSound
  BY <1>1, <1>6, <1>7, OtherPhase DEF shared
<1>9. RestSound'
  BY <1>7 DEF RestSound, IInv, TypeSound, TypeOK, shared, world, hist
<1>10. Calm(t)
  BY <1>6, <1>7, <1>9 DEF Calm, ControlWrite, RetOthers, shared, world, hist
<1>11. LogKeeps(t)
  BY <1>1 DEF LogKeeps, SameMessage
<1> QED
  BY <1>1, <1>8, <1>10, <1>11, CalmKeeps

-----------------------------------------------------------------------------
(* The steps of dlt_user_log_send_log.                                     *)
Early == {"start", "overflow", "resend", "out", "write"}

(* What a logger's own step starts from.                                   *)
LEMMA LogFrom ==
  ASSUME IInv, NEW t \in Logger, NEW pc, At(t, "send_log", pc)
  PROVE  /\ t \in Thread /\ t # main /\ t # housekeeper /\ stack[t] # <<>>
         /\ StackType /\ Shape /\ Len(stack[t]) = 1
         /\ top(t) = Bottom(t) /\ top(t) \in Frames /\ top(t).fn = "send_log" /\ top(t).pc = pc
         /\ (Unplaced(t) <=> pc \in Early) /\ appID
         /\ top(t).m \in Msg /\ ret \in [Thread -> Int] /\ startup_buffer \in Seq(Msg)
         /\ dlt_log_handle \in Fds \cup {NONE} /\ overflow_counter \in Nat
         /\ fds \in [Fds -> 0..(MaxCrash + 1)]
<1>1. t \in Thread /\ t # main /\ t # housekeeper
  BY Threads
<1>2. /\ stack[t] # <<>> /\ StackType /\ Shape /\ Len(stack[t]) = 1 /\ top(t) = Bottom(t)
      /\ top(t) \in Frames /\ top(t).fn = "send_log" /\ top(t).pc = pc /\ top(t).m \in Msg
      /\ ret \in [Thread -> Int] /\ dlt_log_handle \in Fds \cup {NONE} /\ overflow_counter \in Nat
      /\ fds \in [Fds -> 0..(MaxCrash + 1)]
  BY <1>1, StartsFrom, ShapeIs
<1>3. Unplaced(t) <=> pc \in Early
  <2>1. ~(1 > 1)
    OBVIOUS
  <2> QED
    BY <1>2, <2>1 DEF Unplaced, Early
<1>4. appID
  BY <1>2 DEF IInv, MainSound, Idle
<1> QED
  BY <1>1, <1>2, <1>3, <1>4 DEF IInv, TypeSound

(* A step that leaves the message where it is, and goes on.                *)
LEMMA LogCalm ==
  ASSUME IInv, NEW t \in Logger, NEW old, At(t, "send_log", old), NEW pc, BottomGoes(t, pc),
         old \in Early <=> (Len(stack'[t]) > 1 \/ pc \in Early),
         pc = "write" \/ (pc = "out" /\ Len(stack'[t]) = 1) =>
            top(t).m \in skipped' \/ \A x \in Range(startup_buffer) : ~Mine(x, t),
         RetOthers(t), ret' \in [Thread -> Int], ControlWrite, skipped \subseteq skipped',
         dlt_log_handle' \in Fds \cup {NONE}, fds' \in [Fds -> 0..(MaxCrash + 1)],
         UNCHANGED <<scenario, initialised, ready, freeing, appID, contexts, startup_buffer, buffer_size,
                     overflow_counter, dlt_mutex, logged, daemon, crashes, knows, received, lost, dropped,
                     reported>>
  PROVE  IInv'
<1>1. /\ t \in Thread /\ t # main /\ t # housekeeper /\ stack[t] # <<>>
      /\ Len(stack[t]) = 1 /\ top(t) = Bottom(t) /\ (Unplaced(t) <=> old \in Early)
  BY LogFrom
<1>2. /\ Moves(t) /\ ~Holding(top(t)) /\ stack'[t] # <<>> /\ ~Holding(top(t)')
      /\ Bottom(t)'.pc = pc /\ Bottom(t)'.m = Bottom(t).m
      /\ \/ Len(stack'[t]) = 1
         \/ Len(stack'[t]) = 2 /\ stack'[t][2].pc = "start"
  BY <1>1, BottomIs
<1>3. PhaseSound
  BY <1>1, <1>2, OtherPhase
<1>4. Unplaced(t)' <=> Unplaced(t)
  BY <1>1, <1>2 DEF Unplaced, Early
<1>5. FlushFits(t)'
  <2>1. SUFFICES ASSUME Bottom(t)'.m \notin skipped'
                 PROVE  /\ Bottom(t)'.pc = "write"
                             \/ (Bottom(t)'.pc = "out" /\ Len(stack'[t]) = 1 /\ ret'[t] = OK) =>
                              \A x \in Range(startup_buffer') : ~Mine(x, t)
                        /\ ~(Bottom(t)'.pc = "out" /\ Len(stack'[t]) = 2 /\ stack'[t][2].pc \in {"loop", "write"})
    BY DEF FlushFits
  <2>2. ~(Len(stack'[t]) = 2 /\ stack'[t][2].pc \in {"loop", "write"})
    BY <1>2
  <2> QED
    BY <1>1, <1>2, <2>1, <2>2
<1>6. LogKeeps(t)
  BY <1>1, <1>2, <1>4, <1>5 DEF LogKeeps, SameMessage
<1>7. RestSound'
  BY DEF RestSound, IInv, TypeSound, TypeOK
<1>8. Calm(t)
  BY <1>2, <1>7 DEF Calm
<1> QED
  BY <1>1, <1>3, <1>6, <1>8, CalmKeeps

(* A step that leaves the message where it is, and ends the call.          *)
LEMMA LogEnds ==
  ASSUME IInv, NEW t \in Logger, NEW pc, At(t, "send_log", pc), pc \notin Early,
         NEW r \in Int, Return(t, r),
         dlt_log_handle' \in Fds \cup {NONE}, overflow_counter' \in Nat,
         UNCHANGED <<scenario, initialised, ready, freeing, appID, contexts, startup_buffer, buffer_size,
                     dlt_mutex, logged, fds, pipe, daemon, crashes, knows, received, lost, dropped,
                     reported, skipped>>
  PROVE  IInv'
<1>1. /\ t \in Thread /\ t # main /\ t # housekeeper /\ stack[t] # <<>> /\ StackType /\ Shape
      /\ Len(stack[t]) = 1 /\ top(t) = Bottom(t) /\ ~Unplaced(t) /\ ret \in [Thread -> Int]
      /\ top(t).fn = "send_log"
  BY LogFrom
<1>2. /\ Moves(t) /\ Pops(t) /\ ret' \in [Thread -> Int] /\ RetOthers(t)
      /\ stack'[t] # <<>> => ~Holding(top(t)')
  BY <1>1, GivesBack
<1>3. stack'[t] = <<>>
  <2>1. Len(stack'[t]) = 0 /\ stack'[t] \in Seq(Frames)
    BY <1>1, <1>2 DEF Pops, Moves, StackType
  <2> QED
    BY <2>1
<1>4. PhaseSound
  BY <1>1, <1>2, OtherPhase
<1>5. LogKeeps(t)
  BY <1>1, <1>3 DEF LogKeeps, SameMessage, Unplaced, FlushFits
<1>6. RestSound'
  BY <1>2 DEF RestSound, IInv, TypeSound, TypeOK
<1>7. Calm(t)
  BY <1>1, <1>2, <1>6 DEF Calm, ControlWrite, Holding
<1> QED
  BY <1>1, <1>4, <1>5, <1>7, CalmKeeps

(* The message goes to dlt_user_log_out_error_handling.                    *)
LEMMA ErrorGoes ==
  ASSUME IInv, NEW t \in Logger, NEW pc, At(t, "send_log", pc), NEW r \in Int, LogError(t, r)
  PROVE  BottomGoes(t, "handled") /\ Len(stack'[t]) = 2
<1>1. /\ StackType /\ t \in Thread /\ stack[t] # <<>> /\ top(t).m \in Msg /\ top(t).fn = "send_log"
      /\ Len(stack[t]) = 1
  BY LogFrom
<1>2. "send_log" \in Fns /\ "error_handling" \in Fns /\ "handled" \in Pcs
  BY DEF Fns, Pcs
<1>3. PICK g \in Frames : /\ g = Frame("error_handling", top(t).m)
                          /\ g.fn = "error_handling" /\ g.pc = "start" /\ g.m = top(t).m
  BY <1>1, <1>2, NewFrame
<1>4. PICK e \in Frames : e = Frame("send_log", top(t).m) /\ e.fn = "send_log" /\ e.m = top(t).m
  BY <1>1, <1>2, NewFrame
<1>5. PICK f : f = [e EXCEPT !.pc = "handled", !.res = r]
  OBVIOUS
<1>6. f \in Frames /\ f.fn = "send_log" /\ f.m = top(t).m /\ f.pc = "handled"
  BY <1>2, <1>4, <1>5 DEF Frames
<1>7. stack' = [stack EXCEPT ![t] = Front(@) \o <<f, g>>]
  BY <1>3, <1>4, <1>5 DEF LogError
<1>8. StackType' /\ Others(t) /\ Pushes(t, f, g)
  BY <1>1, <1>3, <1>6, <1>7, FrontPushes
<1>9. Calls(f, g) /\ g.fn \in Callees
  BY <1>3, <1>6 DEF Calls, Callees
<1>10. Len(stack'[t]) = 2
  BY <1>1, <1>8 DEF Pushes
<1> QED
  BY <1>1, <1>3, <1>6, <1>8, <1>9, <1>10 DEF BottomGoes

(* The FIFO is opened again where it is not open.                          *)
LEMMA KeepsLogReattach ==
  ASSUME IInv, NEW t \in Logger, LogReattach(t), UNCHANGED scenario
  PROVE  IInv'
<1>1. At(t, "send_log", "start") /\ CallReattach(t, "overflow") /\ UNCHANGED <<shared, ret, logged, world, hist>>
  BY DEF LogReattach
<1>2. /\ t \in Thread /\ stack[t] # <<>> /\ StackType /\ top(t).fn = "send_log" /\ "overflow" \in Pcs
      /\ ret \in [Thread -> Int] /\ dlt_log_handle \in Fds \cup {NONE} /\ fds \in [Fds -> 0..(MaxCrash + 1)]
  BY <1>1, LogFrom DEF Pcs
<1>3. \A f, g : f.fn = top(t).fn /\ f.pc = "overflow" /\ g.fn = "reattach" => Calls(f, g)
  BY <1>2 DEF Calls
<1>4. BottomGoes(t, "overflow")
  BY <1>1, <1>2, <1>3, ReattachGoes
<1>5. /\ UNCHANGED <<scenario, initialised, ready, freeing, appID, contexts, startup_buffer, buffer_size,
                     overflow_counter, dlt_mutex, logged, daemon, crashes, knows, received, lost, dropped,
                     reported>>
      /\ UNCHANGED <<skipped, dlt_log_handle, fds, ret>> /\ ControlWrite /\ RetOthers(t)
  BY <1>1 DEF shared, world, hist, ControlWrite, RetOthers
<1>6. "start" \in Early /\ "overflow" \in Early
  BY DEF Early
<1> QED
  BY <1>1, <1>2, <1>4, <1>5, <1>6, LogCalm

(* The losses counted are reported first, if there are any.                *)
LEMMA KeepsLogOverflow ==
  ASSUME IInv, NEW t \in Logger, LogOverflow(t), UNCHANGED scenario
  PROVE  IInv'
<1>1. At(t, "send_log", "overflow") /\ UNCHANGED <<shared, ret, logged, world, hist>>
  BY DEF LogOverflow
<1>2. /\ t \in Thread /\ stack[t] # <<>> /\ StackType /\ top(t).fn = "send_log" /\ "resend" \in Pcs
      /\ top(t).m \in Msg
      /\ ret \in [Thread -> Int] /\ dlt_log_handle \in Fds \cup {NONE} /\ fds \in [Fds -> 0..(MaxCrash + 1)]
  BY <1>1, LogFrom DEF Pcs
<1>3. BottomGoes(t, "resend")
  <2>1. CASE GotoPc(t, "resend")
    BY <1>2, <2>1, PcGoes
  <2>2. CASE Call(t, "resend", Frame("send_overflow", top(t).m))
    <3>1. "send_overflow" \in Fns
      BY DEF Fns
    <3>2. PICK g \in Frames : /\ g = Frame("send_overflow", top(t).m)
                              /\ g.fn = "send_overflow" /\ g.pc = "start"
      BY <1>2, <3>1, NewFrame
    <3>3. g.fn \in Callees /\ \A f \in Frames : f.fn = top(t).fn /\ f.pc = "resend" => Calls(f, g)
      BY <1>2, <3>2 DEF Callees, Calls
    <3> QED
      BY <1>2, <2>2, <3>2, <3>3, CallGoes
  <2> QED
    BY <2>1, <2>2 DEF LogOverflow
<1>4. /\ UNCHANGED <<scenario, initialised, ready, freeing, appID, contexts, startup_buffer, buffer_size,
                     overflow_counter, dlt_mutex, logged, daemon, crashes, knows, received, lost, dropped,
                     reported>>
      /\ UNCHANGED <<skipped, dlt_log_handle, fds, ret>> /\ ControlWrite /\ RetOthers(t)
  BY <1>1 DEF shared, world, hist, ControlWrite, RetOthers
<1>5. "overflow" \in Early /\ "resend" \in Early
  BY DEF Early
<1> QED
  BY <1>1, <1>2, <1>3, <1>4, <1>5, LogCalm

(* What is stored is sent first, unless the handle is closed.              *)
LEMMA KeepsLogResend ==
  ASSUME IInv, NEW t \in Logger, LogResend(t), UNCHANGED scenario
  PROVE  IInv'
<1>1. At(t, "send_log", "resend") /\ UNCHANGED <<shared, logged, world, received, lost, dropped, reported>>
  BY DEF LogResend
<1>2. /\ t \in Thread /\ stack[t] # <<>> /\ StackType /\ top(t).fn = "send_log" /\ "out" \in Pcs
      /\ top(t).m \in Msg /\ Len(stack[t]) = 1
      /\ ret \in [Thread -> Int] /\ dlt_log_handle \in Fds \cup {NONE} /\ fds \in [Fds -> 0..(MaxCrash + 1)]
  BY <1>1, LogFrom DEF Pcs
<1>3. /\ BottomGoes(t, "out") /\ RetOthers(t) /\ ret' \in [Thread -> Int] /\ skipped \subseteq skipped'
      /\ Len(stack'[t]) = 1 => top(t).m \in skipped'
  <2>1. CASE GotoPc(t, "out") /\ ret' = [ret EXCEPT ![t] = OK] /\ skipped' = skipped \cup {top(t).m}
    BY <1>2, <2>1, PcGoes, ResultsAre DEF RetOthers
  <2>2. CASE Call(t, "out", Frame("resend_buffer", top(t).m)) /\ UNCHANGED <<ret, skipped>>
    <3>1. "resend_buffer" \in Fns
      BY DEF Fns
    <3>2. PICK g \in Frames : /\ g = Frame("resend_buffer", top(t).m)
                              /\ g.fn = "resend_buffer" /\ g.pc = "start"
      BY <1>2, <3>1, NewFrame
    <3>3. g.fn \in Callees /\ \A f \in Frames : f.fn = top(t).fn /\ f.pc = "out" => Calls(f, g)
      BY <1>2, <3>2 DEF Callees, Calls
    <3>4. BottomGoes(t, "out") /\ Len(stack'[t]) = 1 + 1
      BY <1>2, <2>2, <3>2, <3>3, CallGoes
    <3>5. 1 + 1 # 1
      OBVIOUS
    <3> QED
      BY <1>2, <2>2, <3>4, <3>5 DEF RetOthers
  <2> QED
    BY <2>1, <2>2 DEF LogResend
<1>4. /\ UNCHANGED <<scenario, initialised, ready, freeing, appID, contexts, startup_buffer, buffer_size,
                     overflow_counter, dlt_mutex, logged, daemon, crashes, knows, received, lost, dropped,
                     reported>>
      /\ UNCHANGED <<dlt_log_handle, fds>> /\ ControlWrite
  BY <1>1 DEF shared, world, ControlWrite
<1>5. "resend" \in Early /\ "out" \in Early
  BY DEF Early
<1> QED
  BY <1>1, <1>2, <1>3, <1>4, <1>5, LogCalm

(* After the resend the message is written, or stored.                     *)
LEMMA KeepsLogOut ==
  ASSUME IInv, NEW t \in Logger, LogOut(t), UNCHANGED scenario
  PROVE  IInv'
<1>1. At(t, "send_log", "out") /\ UNCHANGED <<shared, ret, logged, world, hist>>
  BY DEF LogOut
<1>2. /\ t \in Thread /\ stack[t] # <<>> /\ StackType /\ top(t).fn = "send_log" /\ "write" \in Pcs
      /\ top(t) \in Frames /\ Len(stack[t]) = 1 /\ top(t) = Bottom(t) /\ top(t).pc = "out"
      /\ ret \in [Thread -> Int] /\ dlt_log_handle \in Fds \cup {NONE} /\ fds \in [Fds -> 0..(MaxCrash + 1)]
  BY <1>1, LogFrom DEF Pcs
<1>3. /\ UNCHANGED <<scenario, initialised, ready, freeing, appID, contexts, startup_buffer, buffer_size,
                     overflow_counter, dlt_mutex, logged, daemon, crashes, knows, received, lost, dropped,
                     reported>>
      /\ UNCHANGED <<skipped, dlt_log_handle, fds, ret>> /\ ControlWrite /\ RetOthers(t)
  BY <1>1 DEF shared, world, hist, ControlWrite, RetOthers
<1>4. "out" \in Early /\ "write" \in Early /\ "handled" \notin Early /\ 2 > 1
  BY DEF Early
<1>5. CASE ret[t] = OK /\ appID
  <2>1. PICK f : f = [top(t) EXCEPT !.pc = "write", !.fd = dlt_log_handle]
    OBVIOUS
  <2>2. f \in Frames /\ f.fn = top(t).fn /\ f.m = top(t).m /\ f.pc = "write"
    BY <1>2, <2>1 DEF Frames
  <2>3. Goto(t, f)
    BY <1>5, <2>1 DEF LogOut
  <2>4. BottomGoes(t, "write")
    BY <1>2, <2>2, <2>3, GotoGoes
  <2>5. top(t).m \in skipped' \/ \A x \in Range(startup_buffer) : ~Mine(x, t)
    BY <1>2, <1>3, <1>5 DEF IInv, FlushSound, FlushFits
  <2> QED
    BY <1>1, <1>2, <1>3, <1>4, <2>4, <2>5, LogCalm
<1>6. CASE ~(ret[t] = OK /\ appID)
  <2>1. LogError(t, ret[t]) /\ ret[t] \in Int
    BY <1>2, <1>6 DEF LogOut
  <2>2. BottomGoes(t, "handled") /\ Len(stack'[t]) = 2
    BY <1>1, <2>1, ErrorGoes
  <2> QED
    BY <1>1, <1>2, <1>3, <1>4, <2>2, LogCalm
<1> QED
  BY <1>5, <1>6

(* What dlt_user_log_out_error_handling returns is looked at.              *)
LEMMA KeepsLogHandled ==
  ASSUME IInv, NEW t \in Logger, LogHandled(t), UNCHANGED scenario
  PROVE  IInv'
<1>1. At(t, "send_log", "handled") /\ UNCHANGED <<shared, logged, world, hist>>
  BY DEF LogHandled
<1>2. /\ t \in Thread /\ stack[t] # <<>> /\ StackType /\ top(t).fn = "send_log"
      /\ "count" \in Pcs /\ "close" \in Pcs
      /\ top(t) \in Frames /\ Len(stack[t]) = 1 /\ top(t) = Bottom(t) /\ overflow_counter \in Nat
      /\ ret \in [Thread -> Int] /\ dlt_log_handle \in Fds \cup {NONE} /\ fds \in [Fds -> 0..(MaxCrash + 1)]
  BY <1>1, LogFrom DEF Pcs
<1>3. /\ UNCHANGED <<scenario, initialised, ready, freeing, appID, contexts, startup_buffer, buffer_size,
                     dlt_mutex, logged, daemon, crashes, knows, received, lost, dropped, reported>>
      /\ UNCHANGED <<skipped, dlt_log_handle, fds, pipe, overflow_counter>> /\ ControlWrite
  BY <1>1 DEF shared, world, hist, ControlWrite
<1>4. "handled" \notin Early /\ "count" \notin Early /\ "close" \notin Early /\ ~(1 > 1)
  BY DEF Early
<1>5. CASE Goto(t, [top(t) EXCEPT !.pc = "count", !.n = overflow_counter]) /\ UNCHANGED ret
  <2>1. PICK f : f = [top(t) EXCEPT !.pc = "count", !.n = overflow_counter]
    OBVIOUS
  <2>2. f \in Frames /\ f.fn = top(t).fn /\ f.m = top(t).m /\ f.pc = "count"
    BY <1>2, <2>1 DEF Frames
  <2>3. BottomGoes(t, "count") /\ Len(stack'[t]) = 1
    BY <1>2, <1>5, <2>1, <2>2, GotoGoes
  <2> QED
    BY <1>1, <1>2, <1>3, <1>4, <1>5, <2>3, LogCalm DEF RetOthers
<1>6. CASE GotoPc(t, "close") /\ UNCHANGED ret
  <2>1. BottomGoes(t, "close") /\ Len(stack'[t]) = 1
    BY <1>2, <1>6, PcGoes
  <2> QED
    BY <1>1, <1>2, <1>3, <1>4, <1>6, <2>1, LogCalm DEF RetOthers
<1>7. CASE Return(t, IF ret[t] = OK THEN OK ELSE top(t).res)
  <2>1. PICK r \in Int : Return(t, r)
    BY <1>2, <1>7, ResultsAre DEF Frames
  <2> QED
    BY <1>1, <1>2, <1>3, <1>4, <2>1, LogEnds
<1> QED
  BY <1>5, <1>6, <1>7 DEF LogHandled

(* The loss is counted.                                                    *)
LEMMA KeepsLogCount ==
  ASSUME IInv, NEW t \in Logger, LogCount(t), UNCHANGED scenario
  PROVE  IInv'
<1>1. /\ At(t, "send_log", "count") /\ overflow_counter' = top(t).n + 1 /\ Return(t, BUFFER_FULL)
      /\ UNCHANGED <<initialised, freeing, ready, dlt_log_handle, appID, contexts, startup_buffer,
                     buffer_size, dlt_mutex, logged, world, hist>>
  BY DEF LogCount
<1>2. top(t) \in Frames /\ dlt_log_handle \in Fds \cup {NONE} /\ "count" \notin Early
  BY <1>1, LogFrom DEF Early
<1>3. overflow_counter' \in Nat
  BY <1>1, <1>2 DEF Frames
<1> QED
  BY <1>1, <1>2, <1>3, LogEnds, ResultsAre DEF world, hist

(* The broken FIFO is closed.                                              *)
LEMMA KeepsLogClose ==
  ASSUME IInv, NEW t \in Logger, LogClose(t), UNCHANGED scenario
  PROVE  IInv'
<1>1. /\ At(t, "send_log", "close") /\ Close(dlt_log_handle) /\ GotoPc(t, "closed")
      /\ UNCHANGED <<shared, ret, logged, daemon, crashes, pipe, knows, hist>>
  BY DEF LogClose
<1>2. /\ t \in Thread /\ stack[t] # <<>> /\ StackType /\ Len(stack[t]) = 1 /\ "closed" \in Pcs
      /\ ret \in [Thread -> Int] /\ dlt_log_handle \in Fds \cup {NONE} /\ fds \in [Fds -> 0..(MaxCrash + 1)]
  BY <1>1, LogFrom DEF Pcs
<1>3. BottomGoes(t, "closed") /\ Len(stack'[t]) = 1
  BY <1>1, <1>2, PcGoes
<1>4. fds' \in [Fds -> 0..(MaxCrash + 1)]
  BY <1>1, <1>2, CloseIs
<1>5. /\ UNCHANGED <<scenario, initialised, ready, freeing, appID, contexts, startup_buffer, buffer_size,
                     overflow_counter, dlt_mutex, logged, daemon, crashes, knows, received, lost, dropped,
                     reported>>
      /\ UNCHANGED <<skipped, dlt_log_handle, ret>> /\ ControlWrite /\ RetOthers(t)
  BY <1>1 DEF shared, hist, ControlWrite, RetOthers
<1>6. "close" \notin Early /\ "closed" \notin Early /\ ~(1 > 1)
  BY DEF Early
<1> QED
  BY <1>1, <1>2, <1>3, <1>4, <1>5, <1>6, LogCalm

(* The handle is unset.                                                    *)
LEMMA KeepsLogClosed ==
  ASSUME IInv, NEW t \in Logger, LogClosed(t), UNCHANGED scenario
  PROVE  IInv'
<1>1. /\ At(t, "send_log", "closed") /\ dlt_log_handle' = NONE /\ Return(t, PIPE_ERROR)
      /\ UNCHANGED <<initialised, freeing, ready, appID, contexts, startup_buffer, buffer_size,
                     overflow_counter, dlt_mutex, logged, world, hist>>
  BY DEF LogClosed
<1>2. overflow_counter \in Nat /\ "closed" \notin Early
  BY <1>1, LogFrom DEF Early
<1> QED
  BY <1>1, <1>2, LogEnds, ResultsAre DEF world, hist

(* The message is written, and the call ends.                              *)
LEMMA LogWritten ==
  ASSUME IInv, NEW t \in Logger, At(t, "send_log", "write"), Return(t, OK),
         Len(pipe) < PipeSize, pipe' = Append(pipe, top(t).m),
         UNCHANGED <<scenario, shared, logged, fds, daemon, crashes, knows, hist>>
  PROVE  IInv'
<1>1. /\ t \in Thread /\ t # main /\ t # housekeeper /\ stack[t] # <<>> /\ StackType /\ Shape
      /\ Len(stack[t]) = 1 /\ top(t) = Bottom(t) /\ ret \in [Thread -> Int]
      /\ top(t).fn = "send_log" /\ top(t).pc = "write" /\ startup_buffer \in Seq(Msg)
  BY LogFrom
<1>2. Unplaced(t)
  BY LogFrom DEF Early
<1>3. PICK m \in Msg : m = top(t).m /\ m = Bottom(t).m
  BY <1>1, LogFrom
<1>4. /\ m = LogMsg(t, logged[t]) /\ m.kind = "log" /\ m.from = t /\ m.id = logged[t]
      /\ \A x \in Everywhere : Mine(x, t) => x.id < m.id
  BY <1>2, <1>3, UnplacedIs
<1>5. /\ Moves(t) /\ Pops(t) /\ ret' \in [Thread -> Int] /\ RetOthers(t)
      /\ stack'[t] # <<>> => ~Holding(top(t)')
  BY <1>1, GivesBack, ResultsAre
<1>6. stack'[t] = <<>> /\ StackType' /\ Others(t)
  <2>1. Len(stack'[t]) = 0 /\ stack'[t] \in Seq(Frames) /\ StackType' /\ Others(t)
    BY <1>1, <1>5 DEF Pops, Moves, StackType
  <2> QED
    BY <2>1
<1>7. /\ UNCHANGED <<scenario, initialised, ready, freeing, appID, contexts, startup_buffer, buffer_size,
                     overflow_counter, dlt_mutex, logged, daemon, crashes, knows, received, lost, dropped,
                     reported>>
      /\ UNCHANGED <<skipped, dlt_log_handle, fds>>
  BY DEF shared, hist
<1>8. PhaseSound
  BY <1>1, <1>5, <1>7, OtherPhase
<1>9. pipe \in Seq(Msg) /\ received \in Seq(Msg)
  BY DEF IInv, TypeSound
<1>10. /\ pipe' \in Seq(Msg) /\ Len(pipe') <= PipeSize /\ Range(pipe') = Range(pipe) \cup {m}
  <2>1. PICK q \in Seq(Msg), n \in Nat : q = pipe /\ n = Len(q)
    BY <1>9, RangeIs
  <2>2. /\ Append(q, m) \in Seq(Msg) /\ Len(Append(q, m)) = n + 1 /\ Range(Append(q, m)) = Range(q) \cup {m}
    BY <2>1, AppendIs
  <2>3. n < PipeSize => n + 1 <= PipeSize
    BY <2>1, UserAssumption
  <2>4. pipe' = Append(q, m) /\ n < PipeSize
    BY <1>3, <2>1
  <2> QED
    BY <2>1, <2>2, <2>3, <2>4
<1>11. TypeSound'
  <2>1. TypeOK'
    BY <1>7, <1>10 DEF IInv, TypeSound, TypeOK
  <2> QED
    BY <1>5, <1>6, <1>7, <1>9, <1>10, <2>1 DEF IInv, TypeSound
<1>12. Shape'
  BY <1>1, <1>5, ShapeKeeps
<1>13. MainSound'
  BY <1>8 DEF PhaseSound
<1>14. MutexSound'
  <2>1. ~Holding(top(t))
    BY <1>1 DEF Holding
  <2> QED
    BY <1>1, <1>5, <1>6, <1>7, <1>8, <2>1, MutexSame DEF IInv, PhaseSound
<1>15. PlaceSound'
  <2>1. ~Unplaced(t)'
    BY <1>6 DEF Unplaced
  <2>2. /\ dropped' = dropped
        /\ Range(pipe') \cup Range(startup_buffer') = Range(pipe) \cup Range(startup_buffer) \cup {m}
    BY <1>7, <1>10
  <2> QED
    BY <1>2, <1>3, <1>6, <1>7, <2>1, <2>2, PlaceGained
<1>16. OrderSound'
  <2>1. m \in skipped \/ \A x \in Range(startup_buffer) : ~Mine(x, t)
    BY <1>1, <1>3 DEF IInv, FlushSound, FlushFits
  <2>2. ASSUME NEW x \in Range(received) \cup Range(pipe) PROVE Fine(x, m, skipped)
    <3>1. x \in Everywhere
      BY DEF Everywhere
    <3> QED
      BY <1>4, <3>1 DEF Fine, Mine
  <2>3. ASSUME NEW y \in Range(startup_buffer) PROVE Fine(m, y, skipped)
    <3>1. y \in Everywhere /\ y.id \in Nat /\ m.id \in Nat
      BY <1>1, RangeIs DEF Everywhere, Msg
    <3>2. Mine(y, t) => m.id > y.id
      BY <1>4, <3>1
    <3> QED
      BY <1>4, <2>1, <3>2 DEF Fine, Mine
  <2>4. Ordered(received, pipe, startup_buffer, skipped)
    BY DEF IInv, OrderSound
  <2>5. Ordered(received, Append(pipe, m), startup_buffer, skipped)
    BY <1>1, <1>9, <2>2, <2>3, <2>4, OrderedWrite
  <2> QED
    BY <1>3, <1>7, <2>5 DEF OrderSound
<1>17. FlushSound'
  <2>1. Settles(t)
    <3>1. \A i \in 1 .. Len(startup_buffer) : i <= i
      BY <1>1, RangeIs
    <3> QED
      BY <1>7, <3>1 DEF Settles
  <2>2. FlushFits(t)'
    BY <1>6 DEF FlushFits
  <2> QED
    BY <1>1, <1>5, <1>6, <1>7, <2>1, <2>2, FlushOthers DEF IInv
<1> QED
  BY <1>11, <1>12, <1>13, <1>14, <1>15, <1>16, <1>17 DEF IInv

(* The message is written, or stored.                                      *)
LEMMA KeepsLogWrite ==
  ASSUME IInv, NEW t \in Logger, LogWrite(t), UNCHANGED scenario
  PROVE  IInv'
<1>1. /\ At(t, "send_log", "write") /\ UNCHANGED <<shared, logged, fds, daemon, crashes, knows, hist>>
  BY DEF LogWrite
<1>2. PICK r \in Int : r = Out3(top(t).fd)
  BY Out3Is, ResultsAre
<1>3. appID /\ ret \in [Thread -> Int] /\ dlt_log_handle \in Fds \cup {NONE} /\ fds \in [Fds -> 0..(MaxCrash + 1)]
  BY <1>1, LogFrom
<1>4. CASE r = OK
  <2>1. pipe' = Append(pipe, top(t).m) /\ Return(t, OK)
    BY <1>2, <1>3, <1>4 DEF LogWrite, Write
  <2>2. Len(pipe) < PipeSize
    <3>1. ~(Len(pipe) >= PipeSize)
      BY <1>2, <1>4, Out3Is
    <3>2. Len(pipe) \in Nat
      BY RangeIs DEF IInv, TypeSound
    <3> QED
      BY <3>1, <3>2, UserAssumption
  <2> QED
    BY <1>1, <2>1, <2>2, LogWritten
<1>5. CASE r # OK
  <2>1. pipe' = pipe /\ LogError(t, r) /\ UNCHANGED ret
    BY <1>2, <1>5 DEF LogWrite, Write
  <2>2. BottomGoes(t, "handled") /\ Len(stack'[t]) = 2
    BY <1>1, <2>1, ErrorGoes
  <2>3. "write" \in Early /\ 2 > 1
    BY DEF Early
  <2>4. /\ UNCHANGED <<scenario, initialised, ready, freeing, appID, contexts, startup_buffer, buffer_size,
                       overflow_counter, dlt_mutex, logged, daemon, crashes, knows, received, lost, dropped,
                       reported>>
        /\ UNCHANGED <<skipped, dlt_log_handle, fds, ret>> /\ ControlWrite /\ RetOthers(t)
    BY <1>1, <2>1 DEF shared, hist, ControlWrite, RetOthers
  <2> QED
    BY <1>1, <1>3, <2>2, <2>3, <2>4, LogCalm
<1> QED
  BY <1>4, <1>5

-----------------------------------------------------------------------------
(* The steps of the thread that sets up logging and later exits.           *)
(* What its own step starts from.                                          *)
LEMMA MainFrom ==
  ASSUME IInv, NEW pc, At(main, "main", pc)
  PROVE  /\ main \in Thread /\ main \notin Logger /\ main # housekeeper /\ housekeeper \in Thread
         /\ StackType /\ Shape /\ stack[main] # <<>> /\ Len(stack[main]) = 1
         /\ top(main) = Bottom(main) /\ top(main) \in Frames /\ top(main).fn = "main"
         /\ \A q : MainIs(q) <=> q = pc
         /\ ~Starting /\ ~Idle(main) /\ ready /\ (freeing <=> pc \in {"join", "release"})
         /\ \A u \in Logger : ~Idle(u) => pc = "run"
         /\ ret \in [Thread -> Int] /\ top(main).n \in Nat
<1>1. main \in Thread /\ main \notin Logger /\ main # housekeeper /\ housekeeper \in Thread
  BY Threads
<1>2. /\ StackType /\ Shape /\ stack[main] # <<>> /\ Len(stack[main]) = 1 /\ top(main) = Bottom(main)
      /\ top(main) \in Frames /\ top(main).fn = "main" /\ top(main).pc = pc
      /\ ret \in [Thread -> Int] /\ top(main).n \in Nat
  BY <1>1, StartsFrom, ShapeIs
<1>3. \A q : MainIs(q) <=> q = pc
  BY <1>2 DEF MainIs
<1>4. ~Starting /\ ~Idle(main)
  BY <1>2 DEF Starting, Idle
<1>5. ready /\ (freeing <=> pc \in {"join", "release"}) /\ \A u \in Logger : ~Idle(u) => pc = "run"
  BY <1>3, <1>4 DEF IInv, MainSound
<1> QED
  BY <1>1, <1>2, <1>3, <1>4, <1>5

(* It goes on to another position, from the last only when no logger logs. *)
LEMMA MainPhase ==
  ASSUME IInv, NEW old, At(main, "main", old), old \notin {"join", "release"},
         NEW pc, BottomGoes(main, pc), pc \notin {"start", "join", "release"},
         pc \in {"registered", "add_context", "run"} => appID', old = "run" => LoggersDone,
         UNCHANGED <<ready, freeing>>
  PROVE  PhaseSound
<1>1. /\ main \in Thread /\ main \notin Logger /\ main # housekeeper /\ housekeeper \in Thread
      /\ stack[main] # <<>> /\ Len(stack[main]) = 1
      /\ ~Starting /\ ready /\ ~freeing /\ \A u \in Logger : ~Idle(u) => old = "run"
  BY MainFrom
<1>2. stack'[main] # <<>> /\ Bottom(main)'.pc = pc /\ Moves(main)
  BY <1>1, BottomIs
<1>3. \A u \in Thread : u # main => (Idle(u)' <=> Idle(u))
  BY <1>2 DEF Moves, Others, Idle
<1>4. \A u \in Logger : Idle(u)'
  BY <1>1, <1>3, Threads DEF LoggersDone
<1>5. ~Starting' /\ ~Idle(main)' /\ \A q : MainIs(q)' <=> q = pc
  BY <1>2 DEF Starting, MainIs, Idle
<1>6. ~Idle(housekeeper) /\ ~Idle(housekeeper)'
  BY <1>1, <1>3 DEF IInv, MainSound
<1>7. Stopped' <=> Stopped
  BY <1>6 DEF Stopped
<1>8. MainSound'
  BY <1>1, <1>4, <1>5, <1>6 DEF MainSound
<1> QED
  BY <1>1, <1>5, <1>7, <1>8 DEF PhaseSound

(* Such a step keeps the invariant.                                        *)
LEMMA MainCalm ==
  ASSUME IInv, NEW old, At(main, "main", old), old \notin {"join", "release"},
         NEW pc, BottomGoes(main, pc), pc \notin {"start", "join", "release"},
         pc \in {"registered", "add_context", "run"} => appID', old = "run" => LoggersDone,
         appID' \in BOOLEAN, contexts' \in BOOLEAN,
         UNCHANGED <<scenario, initialised, ready, freeing, dlt_log_handle, startup_buffer, buffer_size,
                     overflow_counter, dlt_mutex, ret, logged, world,
                     received, lost, dropped, reported, skipped>>
  PROVE  IInv'
<1>1. main \in Thread /\ main \notin Logger /\ stack[main] # <<>> /\ Len(stack[main]) = 1
  BY MainFrom
<1>2. Moves(main) /\ ~Holding(top(main)) /\ stack'[main] # <<>> /\ ~Holding(top(main)')
  BY <1>1, BottomIs
<1>3. PhaseSound
  BY MainPhase
<1>4. RestSound'
  BY DEF RestSound, IInv, TypeSound, TypeOK, world
<1>5. Calm(main)
  BY <1>2, <1>4 DEF Calm, ControlWrite, RetOthers, world
<1>6. LogKeeps(main)
  BY <1>1 DEF LogKeeps, SameMessage
<1> QED
  BY <1>1, <1>3, <1>5, <1>6, CalmKeeps

(* So does one that changes nothing else.                                  *)
LEMMA MainQuiet ==
  ASSUME IInv, NEW old, At(main, "main", old), old \notin {"join", "release"},
         NEW pc, BottomGoes(main, pc), pc \notin {"start", "join", "release"},
         pc \in {"registered", "add_context", "run"} => old \in {"registered", "add_context", "run"},
         old = "run" => LoggersDone,
         UNCHANGED <<scenario, shared, ret, logged, world, received, lost, dropped, reported, skipped>>
  PROVE  IInv'
<1>1. old \in {"registered", "add_context", "run"} => appID
  BY MainFrom DEF IInv, MainSound
<1>2. appID \in BOOLEAN /\ contexts \in BOOLEAN
  BY DEF IInv, TypeSound, TypeOK
<1>3. UNCHANGED <<initialised, ready, freeing, dlt_log_handle, startup_buffer, buffer_size,
                  overflow_counter, dlt_mutex, appID, contexts>>
  BY DEF shared
<1> QED
  BY <1>1, <1>2, <1>3, MainCalm

(* The functions of the library main calls.                                *)
LEMMA MainCalls ==
  ASSUME IInv, NEW old, At(main, "main", old), NEW pc \in Pcs, pc \notin {"start", "join", "release"},
         NEW fn \in Callees, NEW m \in Msg, Call(main, pc, Frame(fn, m)),
         fn \in {"send_register", "error_handling"} => m.kind \in {"app", "context", "unapp"}
  PROVE  BottomGoes(main, pc)
<1>1. main \in Thread /\ StackType /\ stack[main] # <<>> /\ top(main).fn = "main"
  BY MainFrom
<1>2. fn \in Fns
  BY DEF Fns, Callees
<1>3. PICK g \in Frames : g = Frame(fn, m) /\ g.fn = fn /\ g.pc = "start" /\ g.m = m
  BY <1>2, NewFrame
<1>4. \A f \in Frames : f.fn = top(main).fn /\ f.pc = pc => Calls(f, g)
  BY <1>1, <1>3 DEF Calls, Callees
<1> QED
  BY <1>1, <1>3, <1>4, CallGoes

(* The positions main goes to.                                             *)
LEMMA MainPcs ==
  /\ {"registered", "add_context", "run", "flush", "flushed", "forced", "clear_forced", "atexit", "blow_out",
      "blow_overflow", "blow_resend", "blown_out", "recount", "unregister", "clear", "free", "join",
      "release"} \subseteq Pcs
  /\ "resend_buffer" \in Callees /\ "reattach" \in Callees
  /\ "send_register" \in Callees /\ "send_overflow" \in Callees
BY DEF Pcs, Callees

(* The application and its context are registered.                         *)
LEMMA KeepsRegister ==
  ASSUME IInv, dlt_register_app \/ dlt_register_context, UNCHANGED scenario
  PROVE  IInv'
<1>1. CASE /\ At(main, "main", "start")
           /\ appID' = TRUE
           /\ Call(main, "registered", Frame("send_register", AppMsg))
           /\ UNCHANGED <<initialised, freeing, ready, dlt_log_handle, contexts, startup_buffer, buffer_size,
                          overflow_counter, dlt_mutex, ret, logged, world, hist>>
  <2>1. BottomGoes(main, "registered")
    BY <1>1, MainCalls, MainPcs, ControlMessages
  <2>2. contexts \in BOOLEAN /\ appID' \in BOOLEAN
    BY <1>1 DEF IInv, TypeSound, TypeOK
  <2> QED
    BY <1>1, <2>1, <2>2, MainCalm DEF hist
<1>2. CASE /\ At(main, "main", "registered")
           /\ IF ret[main] = OK /\ dlt_log_handle # NONE
              THEN Call(main, "add_context", Frame("resend_buffer", AppMsg))
              ELSE GotoPc(main, "add_context")
           /\ UNCHANGED <<shared, ret, logged, world, hist>>
  <2>1. BottomGoes(main, "add_context")
    <3>1. CASE GotoPc(main, "add_context")
      BY <1>2, <3>1, MainFrom, MainPcs, PcGoes
    <3>2. CASE Call(main, "add_context", Frame("resend_buffer", AppMsg))
      BY <1>2, <3>2, MainCalls, MainPcs, ControlMessages
    <3> QED
      BY <1>2, <3>1, <3>2
  <2> QED
    BY <1>2, <2>1, MainQuiet DEF hist
<1>3. CASE dlt_register_context
  <2>1. /\ At(main, "main", "add_context") /\ contexts' = TRUE
        /\ Call(main, "run", Frame("send_register", ContextMsg))
        /\ UNCHANGED <<initialised, freeing, ready, dlt_log_handle, appID, startup_buffer, buffer_size,
                       overflow_counter, dlt_mutex, ret, logged, world, hist>>
    BY <1>3 DEF dlt_register_context
  <2>2. BottomGoes(main, "run")
    BY <2>1, MainCalls, MainPcs, ControlMessages
  <2>3. appID \in BOOLEAN /\ contexts' \in BOOLEAN
    BY <2>1 DEF IInv, TypeSound, TypeOK
  <2>4. appID
    BY <2>1, MainFrom DEF IInv, MainSound
  <2> QED
    BY <2>1, <2>2, <2>3, <2>4, MainCalm DEF hist
<1> QED
  BY <1>1, <1>2, <1>3 DEF dlt_register_app

(* Main comes to its exit, and flushes.                                    *)
LEMMA KeepsFlush ==
  ASSUME IInv, MainExit \/ dlt_unregister_app_flush_buffered_logs, UNCHANGED scenario
  PROVE  IInv'
<1>0. UNCHANGED <<shared, ret, logged, world, hist>>
  BY DEF MainExit, dlt_unregister_app_flush_buffered_logs
<1>1. CASE MainExit
  <2>1. At(main, "main", "run") /\ LoggersDone
    BY <1>1 DEF MainExit
  <2>2. PICK pc \in {"flush", "atexit"} : GotoPc(main, pc)
    BY <1>1 DEF MainExit
  <2>3. BottomGoes(main, pc)
    BY <2>1, <2>2, MainFrom, MainPcs, PcGoes
  <2> QED
    BY <1>0, <2>1, <2>3, MainQuiet DEF hist
<1>2. CASE At(main, "main", "flush") /\ GotoPc(main, "forced")
  <2>1. BottomGoes(main, "forced")
    BY <1>2, MainFrom, MainPcs, PcGoes
  <2> QED
    BY <1>0, <1>2, <2>1, MainQuiet DEF hist
<1>3. CASE At(main, "main", "flush") /\ Call(main, "flushed", Frame("resend_buffer", AppMsg))
  <2>1. BottomGoes(main, "flushed")
    BY <1>3, MainCalls, MainPcs, ControlMessages
  <2> QED
    BY <1>0, <1>3, <2>1, MainQuiet DEF hist
<1>4. ASSUME NEW pc \in {"flush", "forced"}, At(main, "main", "flushed"), GotoPc(main, pc)
      PROVE  IInv'
  <2>1. BottomGoes(main, pc)
    BY <1>4, MainFrom, MainPcs, PcGoes
  <2> QED
    BY <1>0, <1>4, <2>1, MainQuiet DEF hist
<1> QED
  BY <1>1, <1>2, <1>3, <1>4 DEF dlt_unregister_app_flush_buffered_logs

(* The application is unregistered.                                        *)
LEMMA KeepsUnregister ==
  ASSUME IInv, dlt_unregister_app_util, UNCHANGED scenario
  PROVE  IInv'
<1>1. PICK force \in BOOLEAN :
       \/ /\ At(main, "main", IF force THEN "forced" ELSE "unregister")
          /\ Call(main, IF force THEN "clear_forced" ELSE "clear", Frame("send_register", UnregisterMsg))
          /\ UNCHANGED <<shared, ret, logged, world, hist>>
       \/ /\ At(main, "main", IF force THEN "clear_forced" ELSE "clear")
          /\ ClearAppID(force)
          /\ GotoPc(main, IF force THEN "atexit" ELSE "free")
          /\ UNCHANGED <<initialised, freeing, ready, dlt_log_handle, contexts, startup_buffer, buffer_size,
                         overflow_counter, dlt_mutex, ret, logged, world, hist>>
  BY DEF dlt_unregister_app_util
<1>2. ASSUME NEW old \in {"forced", "unregister"}, NEW pc \in {"clear_forced", "clear"},
             At(main, "main", old), Call(main, pc, Frame("send_register", UnregisterMsg)),
             UNCHANGED <<shared, ret, logged, world, hist>>
      PROVE  IInv'
  <2>1. BottomGoes(main, pc)
    BY <1>2, MainCalls, MainPcs, ControlMessages
  <2> QED
    BY <1>2, <2>1, MainQuiet DEF hist
<1>3. ASSUME NEW old \in {"clear_forced", "clear"}, NEW pc \in {"atexit", "free"},
             At(main, "main", old), ClearAppID(force), GotoPc(main, pc),
             UNCHANGED <<initialised, freeing, ready, dlt_log_handle, contexts, startup_buffer, buffer_size,
                         overflow_counter, dlt_mutex, ret, logged, world, hist>>
      PROVE  IInv'
  <2>1. BottomGoes(main, pc)
    BY <1>3, MainFrom, MainPcs, PcGoes
  <2>2. appID' \in BOOLEAN /\ contexts' \in BOOLEAN
    BY <1>3 DEF IInv, TypeSound, TypeOK, ClearAppID
  <2> QED
    BY <1>3, <2>1, <2>2, MainCalm DEF hist
<1>4. PICK a \in {"forced", "unregister"} : a = IF force THEN "forced" ELSE "unregister"
  OBVIOUS
<1>5. PICK b \in {"clear_forced", "clear"} : b = IF force THEN "clear_forced" ELSE "clear"
  OBVIOUS
<1>6. PICK c \in {"atexit", "free"} : c = IF force THEN "atexit" ELSE "free"
  OBVIOUS
<1>7. CASE /\ At(main, "main", a) /\ Call(main, b, Frame("send_register", UnregisterMsg))
           /\ UNCHANGED <<shared, ret, logged, world, hist>>
  BY <1>2, <1>7
<1>8. CASE /\ At(main, "main", b) /\ ClearAppID(force) /\ GotoPc(main, c)
           /\ UNCHANGED <<initialised, freeing, ready, dlt_log_handle, contexts, startup_buffer, buffer_size,
                          overflow_counter, dlt_mutex, ret, logged, world, hist>>
  BY <1>3, <1>8
<1> QED
  BY <1>1, <1>4, <1>5, <1>6, <1>7, <1>8

(* A step of main that goes to another position of the exit handler.       *)
LEMMA ExitGoes ==
  ASSUME IInv, NEW old \in {"atexit", "blow_out", "blow_overflow", "blow_resend", "blown_out", "recount"},
         NEW pc \in {"recount", "blow_out", "blow_overflow", "blow_resend", "blown_out", "unregister"},
         At(main, "main", old), BottomGoes(main, pc),
         UNCHANGED <<scenario, shared, ret, logged, world, received, lost, dropped, reported, skipped>>
  PROVE  IInv'
BY MainQuiet

(* The exit handler.                                                       *)
LEMMA KeepsExit ==
  ASSUME IInv, dlt_user_atexit_handler, UNCHANGED scenario
  PROVE  IInv'
<1>0. UNCHANGED <<shared, ret, logged, world, received, lost, dropped, reported, skipped>>
  BY DEF dlt_user_atexit_handler, ExitCount, BlowOut, BlowOverflow, BlowResend, BlownOut, ExitRecount, hist
<1>1. ASSUME NEW old \in {"atexit", "blow_out", "blow_overflow", "blow_resend", "blown_out", "recount"},
             NEW pc \in {"recount", "blow_out", "blow_overflow", "blow_resend", "blown_out", "unregister"},
             At(main, "main", old), GotoPc(main, pc)
      PROVE  IInv'
  <2>1. BottomGoes(main, pc)
    BY <1>1, MainFrom, MainPcs, PcGoes
  <2> QED
    BY <1>0, <1>1, <2>1, ExitGoes
<1>2. ASSUME NEW old \in {"atexit", "blow_out", "blow_overflow", "blow_resend", "blown_out", "recount"},
             At(main, "main", old), Goto(main, [top(main) EXCEPT !.pc = "blow_out", !.n = @ + 1])
      PROVE  IInv'
  <2>1. top(main) \in Frames /\ top(main).n + 1 \in Nat
    BY <1>2, MainFrom
  <2>2. PICK f : f = [top(main) EXCEPT !.pc = "blow_out", !.n = @ + 1]
    OBVIOUS
  <2>3. f \in Frames /\ f.fn = top(main).fn /\ f.m = top(main).m /\ f.pc = "blow_out"
    BY <2>1, <2>2, MainPcs DEF Frames
  <2>4. BottomGoes(main, "blow_out")
    BY <1>2, <2>2, <2>3, MainFrom, GotoGoes
  <2> QED
    BY <1>0, <1>2, <2>4, ExitGoes
<1>3. CASE ExitCount
  BY <1>1, <1>3 DEF ExitCount
<1>4. CASE BlowOut
  <2>1. At(main, "main", "blow_out")
    BY <1>4 DEF BlowOut
  <2>2. CASE CallReattach(main, "blow_overflow")
    <3>1. \A f, g : f.fn = top(main).fn /\ f.pc = "blow_overflow" /\ g.fn = "reattach" => Calls(f, g)
      BY <2>1, MainFrom DEF Calls
    <3>2. BottomGoes(main, "blow_overflow")
      BY <2>1, <2>2, <3>1, MainFrom, MainPcs, ReattachGoes
    <3> QED
      BY <1>0, <2>1, <3>2, ExitGoes
  <2> QED
    BY <1>1, <1>4, <2>1, <2>2 DEF BlowOut
<1>5. CASE BlowOverflow
  <2>1. At(main, "main", "blow_overflow")
    BY <1>5 DEF BlowOverflow
  <2>2. CASE Call(main, "blow_resend", Frame("send_overflow", AppMsg))
    <3>1. BottomGoes(main, "blow_resend")
      BY <2>1, <2>2, MainCalls, MainPcs, ControlMessages
    <3> QED
      BY <1>0, <2>1, <3>1, ExitGoes
  <2> QED
    BY <1>1, <1>5, <2>1, <2>2 DEF BlowOverflow
<1>6. CASE BlowResend
  <2>1. At(main, "main", "blow_resend")
    BY <1>6 DEF BlowResend
  <2>2. CASE Call(main, "blown_out", Frame("resend_buffer", AppMsg))
    <3>1. BottomGoes(main, "blown_out")
      BY <2>1, <2>2, MainCalls, MainPcs, ControlMessages
    <3> QED
      BY <1>0, <2>1, <3>1, ExitGoes
  <2> QED
    BY <1>2, <1>6, <2>1, <2>2 DEF BlowResend
<1>7. CASE BlownOut
  <2>1. At(main, "main", "blown_out")
    BY <1>7 DEF BlownOut
  <2>2. CASE Goto(main, [top(main) EXCEPT !.pc = "recount"])
    BY <1>1, <2>1, <2>2 DEF GotoPc
  <2>3. CASE Goto(main, [top(main) EXCEPT !.pc = "blow_out", !.n = @ + 1])
    BY <1>2, <2>1, <2>3
  <2> QED
    BY <1>7, <2>2, <2>3 DEF BlownOut
<1>8. CASE ExitRecount
  BY <1>1, <1>8 DEF ExitRecount
<1> QED
  BY <1>3, <1>4, <1>5, <1>6, <1>7, <1>8 DEF dlt_user_atexit_handler

(* No logger has a call in progress before or after a step.                *)
LEMMA IdleKeeps ==
  ASSUME IInv, \A u \in Logger : Idle(u) /\ Idle(u)', logged' = logged, Everywhere' = Everywhere,
         (\A x \in lost : x.kind = "log" =>
            x \notin Range(received) \cup Range(pipe) \cup Range(startup_buffer) \cup dropped)',
         (dropped \cap (Range(received) \cup Range(pipe) \cup Range(startup_buffer)) = {})'
  PROVE  PlaceSound' /\ FlushSound'
<1>1. \A u \in Logger : \A n : Sent(u, n)' <=> Sent(u, n)
  BY DEF Sent, Unplaced, Idle
<1>2. \A u \in Logger : stack'[u] = <<>>
  BY DEF Idle
<1>3. PlaceSound'
  BY <1>1, <1>2 DEF IInv, PlaceSound
<1>4. FlushSound'
  BY <1>2 DEF FlushSound, FlushFits
<1> QED
  BY <1>3, <1>4

-----------------------------------------------------------------------------
(* dlt_free.                                                               *)
LEMMA KeepsFreeStart ==
  ASSUME IInv, FreeStart, UNCHANGED scenario
  PROVE  IInv'
<1>1. /\ At(main, "main", "free") /\ freeing' = TRUE /\ initialised' = FALSE /\ GotoPc(main, "join")
      /\ UNCHANGED <<ready, dlt_log_handle, appID, contexts, startup_buffer, buffer_size, overflow_counter,
                     dlt_mutex, ret, logged, world, hist>>
  BY DEF FreeStart
<1>2. /\ main \in Thread /\ main \notin Logger /\ main # housekeeper /\ housekeeper \in Thread
      /\ StackType /\ stack[main] # <<>> /\ Len(stack[main]) = 1
      /\ ~Starting /\ ready /\ ~freeing /\ \A u \in Logger : Idle(u)
  BY <1>1, MainFrom
<1>3. BottomGoes(main, "join")
  BY <1>1, <1>2, MainPcs, PcGoes
<1>4. /\ Moves(main) /\ ~Holding(top(main)) /\ stack'[main] # <<>> /\ ~Holding(top(main)')
      /\ Bottom(main)'.pc = "join"
  BY <1>2, <1>3, BottomIs
<1>5. \A u \in Thread : u # main => (Idle(u)' <=> Idle(u))
  BY <1>4 DEF Moves, Others, Idle
<1>6. ~Starting' /\ ~Idle(main)' /\ \A q : MainIs(q)' <=> q = "join"
  BY <1>4 DEF Starting, MainIs, Idle
<1>7. ~Idle(housekeeper) /\ ~Idle(housekeeper)'
  BY <1>2, <1>5 DEF IInv, MainSound
<1>8. MainSound'
  BY <1>1, <1>2, <1>5, <1>6, <1>7, Threads DEF MainSound
<1>9. Stopped' <=> Stopped
  BY <1>7 DEF Stopped
<1>10. MutexSound'
  BY <1>1, <1>2, <1>4, <1>6, <1>9, MutexSame DEF IInv, Moves
<1>11. RestSound'
  BY <1>1 DEF RestSound, IInv, TypeSound, TypeOK, world, hist
<1>12. LogKeeps(main)
  BY <1>2 DEF LogKeeps, SameMessage
<1>13. /\ initialised' \in BOOLEAN /\ ready' \in BOOLEAN /\ dlt_mutex' \in 0..2
       /\ Len(startup_buffer) <= buffer_size' /\ buffer_size' \in RingMin..scenario.ring
  BY <1>1 DEF IInv, TypeSound, TypeOK
<1>14. /\ UNCHANGED <<scenario, startup_buffer, logged, daemon, crashes, received, lost, dropped>>
       /\ ControlWrite /\ RetOthers(main) /\ skipped \subseteq skipped'
  BY <1>1 DEF world, hist, ControlWrite, RetOthers
<1> QED
  BY <1>2, <1>4, <1>8, <1>10, <1>11, <1>12, <1>13, <1>14, CalmRest

(* The housekeeper has ended, and the handle is closed.                    *)
LEMMA KeepsFreeClose ==
  ASSUME IInv, FreeClose, UNCHANGED scenario
  PROVE  IInv'
<1>1. /\ At(main, "main", "join") /\ Idle(housekeeper) /\ Close(dlt_log_handle) /\ dlt_log_handle' = NONE
      /\ GotoPc(main, "release")
      /\ UNCHANGED <<initialised, freeing, ready, appID, contexts, startup_buffer, buffer_size,
                     overflow_counter, dlt_mutex, ret, logged, daemon, crashes, pipe, knows, hist>>
  BY DEF FreeClose
<1>2. /\ main \in Thread /\ main \notin Logger /\ main # housekeeper /\ housekeeper \in Thread
      /\ StackType /\ stack[main] # <<>> /\ Len(stack[main]) = 1
      /\ ~Starting /\ ready /\ freeing /\ \A u \in Logger : Idle(u)
  BY <1>1, MainFrom
<1>3. BottomGoes(main, "release")
  BY <1>1, <1>2, MainPcs, PcGoes
<1>4. /\ Moves(main) /\ ~Holding(top(main)) /\ stack'[main] # <<>> /\ ~Holding(top(main)')
      /\ Bottom(main)'.pc = "release"
  BY <1>2, <1>3, BottomIs
<1>5. \A u \in Thread : u # main => (Idle(u)' <=> Idle(u))
  BY <1>4 DEF Moves, Others, Idle
<1>6. ~Starting' /\ ~Idle(main)' /\ \A q : MainIs(q)' <=> q = "release"
  BY <1>4 DEF Starting, MainIs, Idle
<1>7. MainSound'
  BY <1>1, <1>2, <1>5, <1>6, Threads DEF MainSound
<1>8. Stopped' <=> Stopped
  BY <1>1, <1>2, <1>5, <1>6 DEF Stopped
<1>9. PhaseSound
  BY <1>2, <1>6, <1>7, <1>8 DEF PhaseSound
<1>10. RestSound'
  <2>1. fds' \in [Fds -> 0..(MaxCrash + 1)]
    BY <1>1, CloseIs DEF IInv, TypeSound, TypeOK
  <2> QED
    BY <1>1, <2>1 DEF RestSound, IInv, TypeSound, TypeOK, hist
<1>11. LogKeeps(main)
  BY <1>2 DEF LogKeeps, SameMessage
<1>12. Calm(main)
  BY <1>1, <1>4, <1>10 DEF Calm, ControlWrite, RetOthers, hist
<1> QED
  BY <1>2, <1>9, <1>11, <1>12, CalmKeeps

(* No message is twice among those on their way.                           *)
LEMMA Apart ==
  ASSUME IInv, NEW x, x.kind = "log"
  PROVE  /\ ~(x \in Range(received) /\ x \in Range(pipe))
         /\ ~(x \in Range(received) /\ x \in Range(startup_buffer))
         /\ ~(x \in Range(pipe) /\ x \in Range(startup_buffer))
<1>1. received \in Seq(Msg) /\ pipe \in Seq(Msg) /\ startup_buffer \in Seq(Msg)
  BY DEF IInv, TypeSound
<1>2. x \in Msg => x.id \in Nat
  BY DEF Msg
<1>3. x \in Msg => ~Fine(x, x, skipped)
  <2>1. \A n \in Nat : ~(n < n) /\ ~(n > n)
    OBVIOUS
  <2> QED
    BY <1>2, <2>1 DEF Fine
<1>4. x \in Range(received) \/ x \in Range(pipe) => x \in Msg
  BY <1>1, RangeIs
<1> QED
  BY <1>3, <1>4 DEF IInv, OrderSound, Ordered, FineFrom

(* What is still stored is lost.                                           *)
LEMMA KeepsFreeBuffer ==
  ASSUME IInv, FreeBuffer, UNCHANGED scenario
  PROVE  IInv'
<1>1. /\ At(main, "main", "release")
      /\ startup_buffer' = <<>> /\ buffer_size' = RingMin /\ lost' = lost \cup Range(startup_buffer)
      /\ contexts' = FALSE /\ ready' = FALSE /\ freeing' = FALSE /\ Return(main, OK)
      /\ UNCHANGED <<initialised, dlt_log_handle, appID, overflow_counter, dlt_mutex, logged, world,
                     received, dropped, reported, refused, skipped, exitReport>>
  BY DEF FreeBuffer
<1>2. /\ main \in Thread /\ main \notin Logger /\ main # housekeeper /\ housekeeper \in Thread
      /\ StackType /\ Shape /\ stack[main] # <<>> /\ Len(stack[main]) = 1 /\ ret \in [Thread -> Int]
      /\ ~Starting /\ ready /\ freeing /\ (\A u \in Logger : Idle(u)) /\ MainIs("release")
  BY <1>1, MainFrom
<1>3. Moves(main) /\ Pops(main) /\ ret' \in [Thread -> Int]
  BY <1>1, <1>2, GivesBack, ResultsAre
<1>4. stack'[main] = <<>> /\ StackType' /\ Others(main)
  <2>1. Len(stack'[main]) = 0 /\ stack'[main] \in Seq(Frames) /\ StackType' /\ Others(main)
    BY <1>2, <1>3 DEF Pops, Moves, StackType
  <2> QED
    BY <2>1
<1>5. Idle(housekeeper)
  BY <1>2 DEF IInv, MainSound
<1>6. \A u \in Thread : stack'[u] = <<>>
  BY <1>2, <1>4, <1>5, Threads DEF Others, Idle
<1>7. startup_buffer \in Seq(Msg) /\ startup_buffer' \in Seq(Msg) /\ Len(startup_buffer') = 0
      /\ Range(startup_buffer') = {} /\ Range(startup_buffer) \subseteq Msg
  <2>1. startup_buffer \in Seq(Msg)
    BY DEF IInv, TypeSound
  <2>2. PICK e \in Seq(Msg) : e = <<>>
    <3>1. <<>> \in Seq(Msg)
      OBVIOUS
    <3> QED
      BY <3>1
  <2>3. Range(e) = {} /\ Len(e) = 0
    BY <2>2, RangeIs
  <2> QED
    BY <1>1, <2>1, <2>2, <2>3, RangeIs
<1>8. TypeSound'
  <2>1. RingMin \in RingMin..scenario.ring /\ 0 <= RingMin
    BY UserAssumption DEF IInv, TypeSound, TypeOK, Scenario
  <2>2. TypeOK'
    BY <1>1, <1>7, <2>1 DEF IInv, TypeSound, TypeOK, world
  <2> QED
    BY <1>1, <1>3, <1>4, <1>7, <2>2 DEF IInv, TypeSound, world
<1>9. Shape'
  BY <1>2, <1>3, ShapeKeeps
<1>10. ~Starting' /\ \A q : ~MainIs(q)'
  BY <1>2, <1>6 DEF Starting, MainIs
<1>11. MainSound'
  BY <1>1, <1>2, <1>6, <1>10, Threads DEF MainSound, Idle
<1>12. Holders' = {}
  BY <1>6 DEF Holders, At
<1>13. MutexSound'
  <2>1. Stopped'
    BY <1>1, <1>2, <1>6, <1>10 DEF Stopped, Idle
  <2> QED
    BY <1>6, <1>12, <2>1 DEF MutexSound, At
<1>14. UNCHANGED <<received, pipe, dropped, logged>>
  BY <1>1 DEF world
<1>15. PlaceSound' /\ FlushSound'
  <2>1. Everywhere' = Everywhere
    BY <1>1, <1>7, <1>14 DEF Everywhere
  <2>2. (\A x \in lost : x.kind = "log" =>
           x \notin Range(received) \cup Range(pipe) \cup Range(startup_buffer) \cup dropped)'
    <3>1. SUFFICES ASSUME NEW x \in lost', x.kind = "log"
                   PROVE  x \notin Range(received) \cup Range(pipe) \cup dropped
      BY <1>7, <1>14
    <3>2. CASE x \in lost
      BY <3>1, <3>2 DEF IInv, PlaceSound
    <3>3. CASE x \in Range(startup_buffer)
      <4>1. x \notin dropped
        BY <3>3 DEF IInv, PlaceSound
      <4> QED
        BY <3>1, <3>3, <4>1, Apart
    <3> QED
      BY <1>1, <3>2, <3>3
  <2>3. (dropped \cap (Range(received) \cup Range(pipe) \cup Range(startup_buffer)) = {})'
    BY <1>7, <1>14 DEF IInv, PlaceSound
  <2>4. \A u \in Logger : Idle(u) /\ Idle(u)'
    BY <1>2, <1>6, Threads DEF Idle
  <2> QED
    BY <1>14, <2>1, <2>2, <2>3, <2>4, IdleKeeps
<1>16. OrderSound'
  <2>1. Ordered(received, pipe, <<>>, skipped)
    BY OrderedNone DEF IInv, OrderSound
  <2> QED
    BY <1>1, <1>14, <2>1 DEF OrderSound
<1> QED
  BY <1>8, <1>9, <1>11, <1>13, <1>15, <1>16 DEF IInv

(* The housekeeper is cancelled, and posts the semaphore.                  *)
LEMMA KeepsCancelled ==
  ASSUME IInv, HousekeeperCancelled, UNCHANGED scenario
  PROVE  IInv'
<1>1. /\ At(main, "main", "join") /\ ~Idle(housekeeper)
      /\ stack' = [stack EXCEPT ![housekeeper] = <<>>] /\ dlt_mutex' = dlt_mutex + 1
      /\ UNCHANGED <<initialised, freeing, ready, dlt_log_handle, appID, contexts, startup_buffer, buffer_size,
                     overflow_counter, ret, logged, world, hist>>
  BY DEF HousekeeperCancelled, Cancelled
<1>2. /\ main \in Thread /\ main \notin Logger /\ main # housekeeper /\ housekeeper \in Thread
      /\ StackType /\ Shape /\ stack[main] # <<>> /\ Len(stack[main]) = 1 /\ top(main).fn = "main"
      /\ ~Starting /\ ready /\ freeing /\ (\A u \in Logger : Idle(u)) /\ MainIs("join")
      /\ \A q : MainIs(q) => q = "join"
  BY <1>1, MainFrom
<1>3. StackType' /\ Others(housekeeper) /\ stack'[housekeeper] = <<>>
  <2>1. PICK s \in Seq(Frames) : s = <<>>
    <3>1. <<>> \in Seq(Frames)
      OBVIOUS
    <3> QED
      BY <3>1
  <2>2. stack' = [stack EXCEPT ![housekeeper] = s]
    BY <1>1, <2>1
  <2> QED
    BY <1>2, <2>1, <2>2, OneStack
<1>4. /\ stack'[main] = stack[main] /\ \A u \in Logger : Idle(u)'
      /\ Idle(housekeeper)' /\ Bottom(main)' = Bottom(main)
  BY <1>2, <1>3, Threads DEF Others, Idle, Bottom
<1>5. ~Starting' /\ ~Idle(main)' /\ (\A q : MainIs(q)' <=> MainIs(q)) /\ Stopped'
  BY <1>1, <1>2, <1>4 DEF Starting, MainIs, Idle, Stopped
<1>6. Holders \subseteq {housekeeper}
  <2>1. ~At(main, "resend_buffer", "write") /\ \A pc : ~At(main, "resend_buffer", pc)
    BY <1>2 DEF At
  <2> QED
    BY <1>2, <2>1, Threads DEF Holders, At, Idle
<1>7. \A u \in Thread : \A pc : ~At(u, "resend_buffer", pc)'
  <2>1. \A pc : ~At(main, "resend_buffer", pc)'
    BY <1>2, <1>4 DEF At, top
  <2> QED
    BY <1>3, <1>4, <2>1, Threads DEF At, Idle
<1>8. dlt_mutex' \in 0..2
  <2>1. ~Stopped
    BY <1>1, <1>2 DEF Stopped
  <2>2. dlt_mutex = 1 \/ dlt_mutex = 0
    BY <1>2, <2>1 DEF IInv, MutexSound
  <2> QED
    BY <1>1, <2>2
<1>9. TypeSound'
  <2>1. TypeOK'
    BY <1>1, <1>8 DEF IInv, TypeSound, TypeOK, world, hist
  <2> QED
    BY <1>1, <1>3, <2>1 DEF IInv, TypeSound, world, hist
<1>10. Shape'
  <2>1. \A u \in Thread : stack'[u] # <<>> => stack'[u] = stack[u] /\ Bottom(u)' = Bottom(u)
    BY <1>3 DEF Others, Bottom
  <2>2. ASSUME NEW u \in Thread, stack'[u] = <<>>
        PROVE  (\A k \in 1 .. Len(stack'[u]) : FALSE) /\ (\A k \in 1 .. Len(stack'[u]) - 1 : FALSE)
    <3>1. Len(stack'[u]) = 0
      BY <2>2
    <3> QED
      BY <3>1
  <2> QED
    BY <1>2, <2>1, <2>2 DEF Shape
<1>11. MainSound'
  BY <1>1, <1>2, <1>4, <1>5 DEF IInv, MainSound
<1>12. MutexSound'
  BY <1>5, <1>7 DEF MutexSound, Holders
<1>13. UNCHANGED <<received, pipe, startup_buffer, lost, dropped, logged, skipped>>
  BY <1>1 DEF world, hist
<1>14. PlaceSound' /\ FlushSound'
  <2>1. Everywhere' = Everywhere
    BY <1>13 DEF Everywhere
  <2>2. (\A x \in lost : x.kind = "log" =>
           x \notin Range(received) \cup Range(pipe) \cup Range(startup_buffer) \cup dropped)'
    BY <1>13 DEF IInv, PlaceSound
  <2>3. (dropped \cap (Range(received) \cup Range(pipe) \cup Range(startup_buffer)) = {})'
    BY <1>13 DEF IInv, PlaceSound
  <2> QED
    BY <1>2, <1>4, <1>13, <2>1, <2>2, <2>3, IdleKeeps
<1>15. OrderSound'
  BY <1>13 DEF IInv, OrderSound
<1> QED
  BY <1>9, <1>10, <1>11, <1>12, <1>14, <1>15 DEF IInv

-----------------------------------------------------------------------------
(* dlt_init runs in main, which calls it before anything else.             *)
LEMMA InitIs ==
  ASSUME IInv, NEW t \in Thread, NEW pc, At(t, "init", pc)
  PROVE  t = main /\ Starting /\ top(main).pc = pc /\ Bottom(main).pc = "start" /\ \A u \in Logger : Idle(u)
<1>1. /\ StackType /\ Shape /\ stack[t] # <<>> /\ top(t).fn = "init" /\ top(t).pc = pc
      /\ Len(stack[t]) \in Nat \ {0} /\ Bottom(t).fn = Outer(t)
      /\ Len(stack[t]) = 1 => top(t) = Bottom(t)
      /\ Len(stack[t]) > 1 => Calls(stack[t][Len(stack[t]) - 1], top(t))
  BY StartsFrom, ShapeIs
<1>2. Len(stack[t]) > 1
  <2>1. Len(stack[t]) # 1
    BY <1>1 DEF Outer
  <2>2. \A n \in Nat \ {0} : n # 1 => n > 1
    OBVIOUS
  <2> QED
    BY <1>1, <2>1, <2>2
<1>3. PICK k \in Nat \ {0} : k = Len(stack[t]) - 1 /\ Len(stack[t]) = k + 1
  <2>1. \A n \in Nat \ {0} : n > 1 => n - 1 \in Nat \ {0} /\ n = (n - 1) + 1
    OBVIOUS
  <2> QED
    BY <1>1, <1>2, <2>1
<1>4. stack[t][k].fn = "main" /\ stack[t][k].pc = "start"
  BY <1>1, <1>2, <1>3 DEF Calls
<1>5. k = 1
  <2>1. SUFFICES ASSUME k # 1 PROVE FALSE
    OBVIOUS
  <2>2. PICK j \in 1 .. (k + 1) - 1 : j + 1 = k
    <3>1. k - 1 \in 1 .. (k + 1) - 1 /\ (k - 1) + 1 = k
      BY <2>1
    <3> QED
      BY <3>1
  <2>3. Calls(stack[t][j], stack[t][k])
    BY <1>1, <1>3, <2>2 DEF Shape
  <2> QED
    BY <1>4, <2>3 DEF Calls
<1>6. t = main
  BY <1>1, <1>4, <1>5 DEF Bottom, Outer
<1>7. Bottom(main).pc = "start" /\ Starting
  <2>1. Len(stack[main]) = 2
    BY <1>3, <1>5, <1>6
  <2> QED
    BY <1>1, <1>4, <1>5, <1>6, <2>1 DEF Bottom, Starting, MainIs
<1>8. \A u \in Logger : Idle(u)
  BY <1>7 DEF IInv, MainSound, MainIs
<1> QED
  BY <1>1, <1>6, <1>7, <1>8

(* A step of dlt_init that is not its last.                                *)
LEMMA InitGoes ==
  ASSUME IInv, NEW old, At(main, "init", old), NEW pc \in {"common", "connect"}, GotoPc(main, pc),
         UNCHANGED <<ready, freeing, startup_buffer>>, pc = "connect" => dlt_mutex' = 1
  PROVE  Moves(main) /\ MainSound' /\ MutexSound'
<1>1. /\ main \in Thread /\ main \notin Logger /\ main # housekeeper /\ housekeeper \in Thread
      /\ StackType /\ stack[main] # <<>> /\ top(main).fn = "init"
  BY Threads, StartsFrom
<1>2. Starting /\ Bottom(main).pc = "start" /\ \A u \in Logger : Idle(u)
  BY <1>1, InitIs
<1>3. /\ Moves(main) /\ stack'[main] # <<>> /\ Len(stack'[main]) = Len(stack[main])
      /\ \E f \in Frames : top(main)' = f /\ Replaces(main, f) /\ f.fn = top(main).fn /\ f.pc = pc
  BY <1>1, GoesTo DEF Pcs
<1>4. PICK f \in Frames : top(main)' = f /\ Replaces(main, f) /\ f.fn = "init" /\ f.pc = pc
  BY <1>1, <1>3
<1>5. Bottom(main)' = Bottom(main) /\ Len(stack[main]) = 2
  <2>1. Len(stack[main]) = 2 /\ 1 \in 1 .. 2 - 1
    BY <1>2 DEF Starting
  <2> QED
    BY <1>4, <2>1 DEF Replaces, Bottom
<1>6. Others(main)
  BY <1>3 DEF Moves
<1>7. Idle(housekeeper)' /\ \A u \in Logger : Idle(u)'
  BY <1>1, <1>2, <1>6, Threads DEF IInv, MainSound, Others, Idle
<1>8. Starting' /\ ~Idle(main)' /\ \A q : MainIs(q)' <=> q = "start"
  BY <1>2, <1>3, <1>5 DEF Starting, MainIs, Idle
<1>9. ~ready' /\ ~freeing' /\ startup_buffer' = <<>>
  BY <1>2 DEF IInv, MainSound
<1>10. MainSound'
  BY <1>4, <1>7, <1>8, <1>9 DEF MainSound
<1>11. \A u \in Thread : \A q : ~At(u, "resend_buffer", q)'
  <2>1. \A q : ~At(main, "resend_buffer", q)'
    BY <1>4 DEF At
  <2> QED
    BY <1>7, <2>1, Threads DEF At, Idle
<1>12. MutexSound'
  BY <1>8, <1>11 DEF MutexSound, Holders
<1> QED
  BY <1>3, <1>10, <1>12

(* The flag is set.                                                        *)
LEMMA KeepsInitFlag ==
  ASSUME IInv, NEW t \in Thread, InitFlag(t), UNCHANGED scenario
  PROVE  IInv'
<1>1. At(t, "init", "start") /\ initialised' = TRUE
      /\ UNCHANGED <<freeing, ready, dlt_log_handle, appID, contexts, startup_buffer, buffer_size,
                     overflow_counter, dlt_mutex, logged, world, hist>>
  BY DEF InitFlag
<1>2. t = main /\ Starting /\ top(main).pc = "start"
  BY <1>1, InitIs
<1>3. ~initialised /\ ~freeing
  BY <1>2 DEF IInv, MainSound
<1>4. At(main, "init", "start") /\ GotoPc(main, "common") /\ UNCHANGED ret
  BY <1>1, <1>2, <1>3 DEF InitFlag
<1>5. Moves(main) /\ MainSound' /\ MutexSound'
  BY <1>1, <1>4, InitGoes
<1>6. RestSound'
  BY <1>1, <1>4 DEF RestSound, IInv, TypeSound, TypeOK, world, hist
<1>7. LogKeeps(main)
  BY Threads DEF LogKeeps, SameMessage
<1>8. /\ initialised' \in BOOLEAN /\ ready' \in BOOLEAN /\ dlt_mutex' \in 0..2
      /\ Len(startup_buffer) <= buffer_size' /\ buffer_size' \in RingMin..scenario.ring
  BY <1>1 DEF IInv, TypeSound, TypeOK
<1>9. /\ UNCHANGED <<scenario, startup_buffer, logged, daemon, crashes, received, lost, dropped>>
      /\ ControlWrite /\ RetOthers(main) /\ skipped \subseteq skipped'
  BY <1>1, <1>4 DEF world, hist, ControlWrite, RetOthers
<1> QED
  BY <1>5, <1>6, <1>7, <1>8, <1>9, CalmRest, Threads

(* The semaphore and the buffer are created.                               *)
LEMMA KeepsInitCommon ==
  ASSUME IInv, NEW t \in Thread, InitCommon(t), UNCHANGED scenario
  PROVE  IInv'
<1>1. /\ At(t, "init", "common") /\ dlt_mutex' = 1
      /\ startup_buffer' = <<>> /\ buffer_size' = RingMin /\ overflow_counter' = 0 /\ appID' = FALSE
      /\ GotoPc(t, "connect")
      /\ UNCHANGED <<initialised, freeing, ready, dlt_log_handle, contexts, ret, logged, world, hist>>
  BY DEF InitCommon
<1>2. t = main /\ Starting
  BY <1>1, InitIs
<1>3. startup_buffer = <<>> /\ startup_buffer' = startup_buffer
  BY <1>1, <1>2 DEF IInv, MainSound
<1>4. Moves(main) /\ MainSound' /\ MutexSound'
  BY <1>1, <1>2, <1>3, InitGoes
<1>5. RestSound'
  BY <1>1 DEF RestSound, IInv, TypeSound, TypeOK, world, hist
<1>6. LogKeeps(main)
  BY Threads DEF LogKeeps, SameMessage
<1>7. /\ initialised' \in BOOLEAN /\ ready' \in BOOLEAN /\ dlt_mutex' \in 0..2
      /\ Len(startup_buffer) <= buffer_size' /\ buffer_size' \in RingMin..scenario.ring
  <2>1. RingMin \in RingMin..scenario.ring /\ 0 <= RingMin
    BY UserAssumption DEF IInv, TypeSound, TypeOK, Scenario
  <2>2. Len(startup_buffer) = 0
    BY <1>3
  <2> QED
    BY <1>1, <2>1, <2>2 DEF IInv, TypeSound, TypeOK
<1>8. /\ UNCHANGED <<scenario, startup_buffer, logged, daemon, crashes, received, lost, dropped>>
      /\ ControlWrite /\ RetOthers(main) /\ skipped \subseteq skipped'
  BY <1>1, <1>3 DEF world, hist, ControlWrite, RetOthers
<1> QED
  BY <1>4, <1>5, <1>6, <1>7, <1>8, CalmRest, Threads

(* The FIFO is opened, the library is set up, and the housekeeper runs.    *)
LEMMA KeepsInitConnect ==
  ASSUME IInv, NEW t \in Thread, InitConnect(t), UNCHANGED scenario
  PROVE  IInv'
<1>1. /\ At(t, "init", "connect") /\ dlt_initialize_fifo_connection /\ ready' = TRUE
      /\ stack' = dlt_start_threads([stack EXCEPT ![t] = Front(@)])
      /\ ret' = [ret EXCEPT ![t] = OK]
      /\ UNCHANGED <<initialised, freeing, appID, contexts, startup_buffer, buffer_size, overflow_counter,
                     dlt_mutex, logged, daemon, crashes, pipe, knows, hist>>
  BY DEF InitConnect
<1>2. /\ t = main /\ Starting /\ top(main).pc = "connect" /\ Bottom(main).pc = "start"
      /\ \A u \in Logger : Idle(u)
  BY <1>1, InitIs
<1>3. /\ main \in Thread /\ main \notin Logger /\ main # housekeeper /\ housekeeper \in Thread
      /\ StackType /\ Shape /\ stack[main] # <<>> /\ Len(stack[main]) = 2 /\ ret \in [Thread -> Int]
      /\ Bottom(main).fn = "main" /\ stack[main] \in Seq(Frames)
  BY <1>1, <1>2, Threads, StartsFrom, ShapeIs DEF Starting, Outer, StackType
<1>4. ~ready /\ ~freeing /\ startup_buffer = <<>> /\ Idle(housekeeper) /\ dlt_mutex = 1
  BY <1>2 DEF IInv, MainSound
<1>5. PICK b \in Seq(Frames) : b = Front(stack[main]) /\ Len(b) = 1 /\ b[1] = stack[main][1]
  <2>1. PICK q \in Seq(Frames) : q = stack[main] /\ Len(q) = 2
    BY <1>3
  <2>2. Front(q) \in Seq(Frames) /\ Len(Front(q)) = Len(q) - 1 /\ \A k \in 1 .. Len(q) - 1 : Front(q)[k] = q[k]
    BY <2>1 DEF Front
  <2>3. Len(Front(q)) = 1 /\ Front(q)[1] = q[1]
    BY <2>1, <2>2
  <2> QED
    BY <2>1, <2>2, <2>3
<1>6. PICK h \in Frames : h = [Frame("housekeeper", AppMsg) EXCEPT !.pc = "sleep"]
                          /\ h.fn = "housekeeper" /\ h.pc = "sleep"
  <2>1. "housekeeper" \in Fns /\ "sleep" \in Pcs /\ AppMsg \in Msg
    BY ControlMessages DEF Fns, Pcs
  <2>2. PICK g \in Frames : g = Frame("housekeeper", AppMsg) /\ g.fn = "housekeeper"
    BY <2>1, NewFrame
  <2>3. PICK h \in Frames : h = [g EXCEPT !.pc = "sleep"] /\ h.fn = g.fn /\ h.pc = "sleep"
    BY <2>1, FrameAt
  <2> QED
    BY <2>2, <2>3
<1>7. PICK s \in Seq(Frames) : s = <<h>> /\ Len(s) = 1 /\ s[1] = h
  <2>1. <<h>> \in Seq(Frames) /\ Len(<<h>>) = 1 /\ <<h>>[1] = h
    OBVIOUS
  <2> QED
    BY <2>1
<1>8. stack' = [[stack EXCEPT ![main] = b] EXCEPT ![housekeeper] = s]
  BY <1>1, <1>2, <1>5, <1>6, <1>7 DEF dlt_start_threads
<1>9. /\ StackType' /\ stack'[main] = b /\ stack'[housekeeper] = s
      /\ \A u \in Logger : stack'[u] = <<>>
  BY <1>2, <1>3, <1>8, Threads DEF StackType, Idle
<1>10. b # <<>> /\ s # <<>>
  BY <1>5, <1>7
<1>11. Bottom(main)' = Bottom(main) /\ top(main)' = Bottom(main) /\ Bottom(housekeeper)' = h
       /\ top(housekeeper)' = h
  BY <1>5, <1>7, <1>9 DEF Bottom, top
<1>12. /\ ~Starting' /\ ~Idle(main)' /\ ~Idle(housekeeper)' /\ (\A q : MainIs(q)' <=> q = "start")
       /\ ~Stopped' /\ ~freeing'
  <2>1. Len(stack'[main]) = 1 /\ stack'[main] # <<>> /\ stack'[housekeeper] # <<>>
    BY <1>5, <1>9, <1>10
  <2>2. ~Starting' /\ ~Idle(main)' /\ ~Idle(housekeeper)'
    BY <2>1 DEF Starting, Idle
  <2>3. \A q : MainIs(q)' <=> q = "start"
    BY <1>2, <1>11, <2>1 DEF MainIs
  <2>4. ready' /\ ~freeing'
    BY <1>1, <1>4
  <2> QED
    BY <2>2, <2>3, <2>4 DEF Stopped
<1>13. Shape'
  <2> DEFINE Chain(u, q) ==
                 /\ q # <<>> => q[1].fn = Outer(u)
                 /\ \A k \in 1 .. Len(q) : FrameFits(q[k])
                 /\ \A k \in 1 .. Len(q) - 1 : Calls(q[k], q[k + 1])
  <2>0. Shape' <=> \A u \in Thread : Chain(u, stack'[u])
    BY DEF Shape, Bottom, Outer, FrameFits, Calls
  <2>1. ASSUME NEW u \in Logger
        PROVE  (\A k \in 1 .. Len(stack'[u]) : FALSE) /\ (\A k \in 1 .. Len(stack'[u]) - 1 : FALSE)
    <3>1. Len(stack'[u]) = 0
      BY <1>9
    <3> QED
      BY <3>1
  <2>2. /\ \A k \in 1 .. Len(stack'[main]) : stack'[main][k] = Bottom(main)
        /\ \A k \in 1 .. Len(stack'[main]) - 1 : FALSE
    <3>1. Len(stack'[main]) = 1 /\ stack'[main][1] = Bottom(main)
      BY <1>5, <1>9 DEF Bottom
    <3> QED
      BY <3>1
  <2>3. /\ \A k \in 1 .. Len(stack'[housekeeper]) : stack'[housekeeper][k] = h
        /\ \A k \in 1 .. Len(stack'[housekeeper]) - 1 : FALSE
    BY <1>7, <1>9
  <2>4. FrameFits(h) /\ FrameFits(Bottom(main))
    BY <1>3, <1>6 DEF FrameFits
  <2>5. stack'[main][1].fn = Outer(main) /\ stack'[housekeeper][1].fn = Outer(housekeeper)
    BY <1>3, <1>6, <1>11, Threads DEF Outer, Bottom
  <2>6. Chain(main, stack'[main])
    BY <2>2, <2>4, <2>5
  <2>7. Chain(housekeeper, stack'[housekeeper])
    BY <2>3, <2>4, <2>5
  <2>8. \A u \in Logger : Chain(u, stack'[u])
    BY <1>9, <2>1
  <2> HIDE DEF Chain
  <2> QED
    BY <2>0, <2>6, <2>7, <2>8, Threads
<1>14. MainSound'
  <2>1. \A u \in Logger : Idle(u)'
    BY <1>9 DEF Idle
  <2>2. ready'
    BY <1>1
  <2> QED
    BY <1>12, <2>1, <2>2 DEF MainSound
<1>15. \A u \in Thread : \A q : ~At(u, "resend_buffer", q)'
  <2>1. \A q : ~At(main, "resend_buffer", q)' /\ ~At(housekeeper, "resend_buffer", q)'
    BY <1>3, <1>6, <1>11 DEF At
  <2> QED
    BY <1>9, <2>1, Threads DEF At
<1>16. MutexSound'
  BY <1>1, <1>4, <1>12, <1>15 DEF MutexSound, Holders
<1>17. UNCHANGED <<received, pipe, startup_buffer, lost, dropped, logged, skipped>>
  BY <1>1 DEF hist
<1>18. TypeSound'
  <2>1. MinFd \in Fds
    BY LowestFd, UserAssumption DEF MinFd
  <2>2. daemon \in 0..(MaxCrash + 1) /\ fds \in [Fds -> 0..(MaxCrash + 1)]
    BY DEF IInv, TypeSound, TypeOK
  <2>3. dlt_log_handle' \in Fds \cup {NONE} /\ fds' \in [Fds -> 0..(MaxCrash + 1)]
    BY <1>1, <2>1, <2>2 DEF dlt_initialize_fifo_connection
  <2>4. TypeOK'
    BY <1>1, <1>17, <2>3 DEF IInv, TypeSound, TypeOK
  <2>5. ret' \in [Thread -> Int]
    BY <1>1, <1>3, ResultsAre
  <2> QED
    BY <1>1, <1>9, <1>17, <2>4, <2>5 DEF IInv, TypeSound, hist
<1>19. PlaceSound' /\ FlushSound'
  <2>1. Everywhere' = Everywhere
    BY <1>17 DEF Everywhere
  <2>2. (\A x \in lost : x.kind = "log" =>
           x \notin Range(received) \cup Range(pipe) \cup Range(startup_buffer) \cup dropped)'
    BY <1>17 DEF IInv, PlaceSound
  <2>3. (dropped \cap (Range(received) \cup Range(pipe) \cup Range(startup_buffer)) = {})'
    BY <1>17 DEF IInv, PlaceSound
  <2>4. \A u \in Logger : Idle(u) /\ Idle(u)'
    BY <1>2, <1>9 DEF Idle
  <2> QED
    BY <1>17, <2>1, <2>2, <2>3, <2>4, IdleKeeps
<1>20. OrderSound'
  BY <1>17 DEF IInv, OrderSound
<1> QED
  BY <1>13, <1>14, <1>16, <1>18, <1>19, <1>20 DEF IInv

-----------------------------------------------------------------------------
(* What is on its way or gone are messages.                                *)
LEMMA EverywhereIs ==
  ASSUME IInv
  PROVE  Everywhere \subseteq Msg /\ Messages \subseteq Msg
<1>1. Messages \subseteq Msg
  <2>1. ASSUME NEW u \in Logger, NEW n \in 1..MaxLog PROVE LogMsg(u, n) \in Msg
    <3>1. "log" \in Kinds /\ n \in Nat /\ u \in Thread
      BY Threads, UserAssumption DEF Kinds
    <3> QED
      BY <3>1 DEF LogMsg, Msg
  <2> QED
    BY <2>1 DEF Messages
<1>2. dropped \subseteq Messages /\ lost \subseteq Msg
      /\ received \in Seq(Msg) /\ pipe \in Seq(Msg) /\ startup_buffer \in Seq(Msg)
  BY DEF IInv, TypeSound, TypeOK
<1>3. Range(received) \subseteq Msg /\ Range(pipe) \subseteq Msg /\ Range(startup_buffer) \subseteq Msg
  BY <1>2, RangeIs
<1> QED
  BY <1>1, <1>2, <1>3 DEF Everywhere

(* A logger begins with its next message, which is nowhere yet.            *)
LEMMA KeepsLog ==
  ASSUME IInv, NEW t \in Logger, Log(t), UNCHANGED scenario
  PROVE  IInv'
<1>1. /\ Idle(t) /\ logged[t] < scenario.limit[t] /\ At(main, "main", "run")
      /\ logged' = [logged EXCEPT ![t] = @ + 1]
      /\ stack' = [stack EXCEPT ![t] = <<Frame("send_log", LogMsg(t, logged[t] + 1))>> \o <<>>]
      /\ UNCHANGED <<shared, ret, world, hist>>
  BY DEF Log, IInv, TypeSound
<1>2. /\ main \in Thread /\ main \notin Logger /\ t \in Thread /\ t # main /\ t # housekeeper
      /\ StackType /\ Shape /\ Len(stack[main]) = 1 /\ ~Starting /\ ~Idle(main) /\ ready /\ ~freeing
      /\ MainIs("run") /\ stack[t] = <<>>
  BY <1>1, MainFrom, Threads DEF Idle
<1>3. /\ scenario \in Scenario /\ scenario.limit[t] \in 0..MaxLog /\ logged[t] \in Nat
      /\ logged \in [Logger -> Nat] /\ MaxLog \in Nat
  BY UserAssumption DEF IInv, TypeSound, TypeOK, Scenario
<1>4. PICK m \in Msg : m = LogMsg(t, logged[t] + 1)
  <2>1. "log" \in Kinds /\ logged[t] + 1 \in Nat
    BY <1>3 DEF Kinds
  <2>2. LogMsg(t, logged[t] + 1) \in Msg
    BY <1>2, <2>1 DEF LogMsg, Msg
  <2> QED
    BY <2>2
<1>5. PICK f \in Frames : f = Frame("send_log", m) /\ f.fn = "send_log" /\ f.pc = "start" /\ f.m = m
  <2>1. "send_log" \in Fns
    BY DEF Fns
  <2> QED
    BY <2>1, NewFrame
<1>6. PICK s \in Seq(Frames) : s = <<f>> \o <<>> /\ Len(s) = 1 /\ s[1] = f /\ s # <<>>
  <2>1. \E q \in Seq(Frames) : q = <<f>> \o <<>> /\ Len(q) = 1 /\ q[1] = f
    <3>1. <<f>> \in Seq(Frames) /\ Len(<<f>>) = 1 /\ <<f>>[1] = f
      OBVIOUS
    <3>2. <<>> \in Seq(Frames) /\ Len(<<>>) = 0
      OBVIOUS
    <3>3. PICK p \in Seq(Frames), q \in Seq(Frames) :
             p = <<f>> /\ q = <<>> /\ Len(p) = 1 /\ p[1] = f /\ Len(q) = 0
      BY <3>1, <3>2
    <3>4. p \o q \in Seq(Frames) /\ Len(p \o q) = 1 /\ (p \o q)[1] = f
      <4>1. 1 \in 1 .. Len(p) /\ Len(p) + Len(q) = 1
        BY <3>3
      <4> QED
        BY <3>3, <4>1, ConcatSeq
    <3>5. p = <<f>> /\ q = <<>>
      BY <3>3, Zenon
    <3>6. p \o q = <<f>> \o <<>>
      BY <3>5, Zenon
    <3> QED
      BY <3>4, <3>6, Zenon
  <2>2. \A q \in Seq(Frames) : Len(q) = 1 => q # <<>>
    <3>1. Len(<<>>) # 1
      OBVIOUS
    <3> QED
      BY <3>1, Zenon
  <2> QED
    BY <2>1, <2>2
<1>7. StackType' /\ Others(t) /\ stack'[t] = s
  BY <1>1, <1>2, <1>4, <1>5, <1>6, OneStack
<1>8. Bottom(t)' = f /\ top(t)' = f /\ ~Idle(t)' /\ Unplaced(t)' /\ ~Unplaced(t)
  BY <1>2, <1>5, <1>6, <1>7 DEF Bottom, top, Idle, Unplaced
<1>9. /\ stack'[main] = stack[main] /\ stack'[housekeeper] = stack[housekeeper]
      /\ (Starting' <=> Starting) /\ (Stopped' <=> Stopped) /\ \A q : MainIs(q)' <=> MainIs(q)
  BY <1>1, <1>2, <1>7, Threads DEF Others, Starting, Stopped, MainIs, Bottom, Idle, shared
<1>10. TypeSound'
  <2>1. logged' \in [Logger -> Nat] /\ \A u \in Logger : logged'[u] <= scenario.limit[u]
    <3>1. \A i \in Nat : \A j \in Nat : i < j => i + 1 \in Nat /\ i + 1 <= j
      OBVIOUS
    <3>2. logged[t] + 1 \in Nat /\ logged[t] + 1 <= scenario.limit[t]
      <4>1. scenario.limit[t] \in Nat
        BY <1>3
      <4> QED
        BY <1>1, <1>3, <3>1, <4>1
    <3>3. \A u \in Logger : logged[u] <= scenario.limit[u]
      BY DEF IInv, TypeSound
    <3> QED
      BY <1>1, <1>3, <3>2, <3>3
  <2>2. \A u \in Logger : logged'[u] \in 0..MaxLog
    <3>1. \A u \in Logger : scenario.limit[u] \in 0..MaxLog
      BY <1>3 DEF Scenario
    <3>2. \A i \in Nat : \A j \in 0..MaxLog : i <= j => i \in 0..MaxLog
      BY <1>3
    <3> QED
      BY <2>1, <3>1, <3>2
  <2>3. TypeOK'
    BY <1>1, <2>2 DEF IInv, TypeSound, TypeOK, shared, world, hist
  <2> QED
    BY <1>1, <1>7, <2>1, <2>3 DEF IInv, TypeSound, shared, world, hist
<1>11. Shape'
  <2> DEFINE Chain(u, q) ==
                 /\ q # <<>> => q[1].fn = Outer(u)
                 /\ \A k \in 1 .. Len(q) : FrameFits(q[k])
                 /\ \A k \in 1 .. Len(q) - 1 : Calls(q[k], q[k + 1])
  <2>0. Shape' <=> \A u \in Thread : Chain(u, stack'[u])
    BY DEF Shape, Bottom, Outer, FrameFits, Calls
  <2>1. \A u \in Thread : u # t => Chain(u, stack'[u])
    BY <1>2, <1>7 DEF Others, Shape, Bottom
  <2>2. FrameFits(f) /\ f.fn = Outer(t)
    BY <1>2, <1>5 DEF FrameFits, Outer
  <2>3. (\A k \in 1 .. Len(s) : s[k] = f) /\ (\A k \in 1 .. Len(s) - 1 : FALSE)
    BY <1>6
  <2>4. Chain(t, stack'[t])
    BY <1>6, <1>7, <2>2, <2>3
  <2> HIDE DEF Chain
  <2> QED
    BY <2>0, <2>1, <2>4
<1>12. MainSound'
  <2>1. ~Starting' /\ MainIs("run")' /\ Len(stack'[main]) = 1 /\ (Idle(main)' <=> Idle(main))
        /\ (Idle(housekeeper)' <=> Idle(housekeeper)) /\ UNCHANGED <<ready, freeing, appID>>
    BY <1>1, <1>2, <1>9 DEF Idle, shared
  <2> QED
    BY <1>2, <1>9, <2>1 DEF IInv, MainSound
<1>13. MutexSound'
  <2>1. \A u \in Thread : \A q : At(u, "resend_buffer", q)' <=> At(u, "resend_buffer", q)
    <3>1. \A q : ~At(t, "resend_buffer", q) /\ ~At(t, "resend_buffer", q)'
      BY <1>2, <1>5, <1>8 DEF At
    <3> QED
      BY <1>7, <3>1 DEF Others, At, top
  <2>2. Holders' = Holders
    BY <2>1 DEF Holders
  <2>3. UNCHANGED <<dlt_mutex, startup_buffer>>
    BY <1>1 DEF shared
  <2> QED
    BY <1>9, <2>1, <2>2, <2>3 DEF IInv, MutexSound
<1>14. UNCHANGED <<received, pipe, startup_buffer, lost, dropped, skipped>> /\ Everywhere' = Everywhere
  BY <1>1 DEF shared, world, hist, Everywhere
<1>15. PlaceSound'
  <2>1. \A u \in Logger : u # t => (\A n : Sent(u, n)' <=> Sent(u, n)) /\ Bottom(u)' = Bottom(u)
                                   /\ stack'[u] = stack[u] /\ logged'[u] = logged[u]
    BY <1>1, <1>3, <1>7, Threads DEF Others, Sent, Unplaced, Bottom
  <2>2. logged'[t] = logged[t] + 1 /\ logged'[t] > 0
    BY <1>1, <1>3
  <2>3. \A n \in Nat : Sent(t, n)' <=> Sent(t, n)
    <3>1. \A n \in Nat : Sent(t, n)' <=> n < logged[t] + 1
      BY <1>8, <2>2 DEF Sent
    <3>2. \A n \in Nat : Sent(t, n) <=> n < logged[t] \/ n = logged[t]
      BY <1>8 DEF Sent
    <3>3. \A i \in Nat : \A n \in Nat : n < i + 1 <=> n < i \/ n = i
      OBVIOUS
    <3> QED
      BY <1>3, <3>1, <3>2, <3>3
  <2>4. \A x \in Everywhere : x.id \in Nat
    BY EverywhereIs DEF Msg
  <2>5. \A u \in Logger : \A n \in Nat : Sent(u, n)' <=> Sent(u, n)
    BY <2>1, <2>3
  <2>6. \A u \in Logger : stack'[u] # <<>> => Bottom(u)'.m = LogMsg(u, logged'[u]) /\ logged'[u] > 0
    <3>1. Bottom(t)'.m = LogMsg(t, logged'[t])
      BY <1>4, <1>5, <1>8, <2>2
    <3> QED
      BY <2>1, <2>2, <3>1 DEF IInv, PlaceSound
  <2>7. \A x \in Everywhere : x.kind = "log" => x.from \in Logger /\ x.id > 0 /\ Sent(x.from, x.id)'
    BY <2>4, <2>5 DEF IInv, PlaceSound
  <2>8. \A u \in Logger : \A n \in Nat \ {0} : Sent(u, n)' => LogMsg(u, n) \in Everywhere
    BY <2>5 DEF IInv, PlaceSound
  <2>9. /\ (\A x \in lost : x.kind = "log" =>
              x \notin Range(received) \cup Range(pipe) \cup Range(startup_buffer) \cup dropped)'
        /\ (dropped \cap (Range(received) \cup Range(pipe) \cup Range(startup_buffer)) = {})'
    BY <1>14 DEF IInv, PlaceSound
  <2> QED
    BY <1>14, <2>6, <2>7, <2>8, <2>9 DEF PlaceSound
<1>16. FlushSound'
  <2>1. FlushFits(t)'
    BY <1>5, <1>8 DEF FlushFits
  <2>2. \A u \in Logger : u # t => (FlushFits(u)' <=> FlushFits(u))
    BY <1>1, <1>7, <1>14, Threads DEF Others, FlushFits, Bottom
  <2> QED
    BY <2>1, <2>2 DEF IInv, FlushSound
<1>17. OrderSound'
  BY <1>14 DEF IInv, OrderSound
<1> QED
  BY <1>10, <1>11, <1>12, <1>13, <1>15, <1>16, <1>17 DEF IInv

-----------------------------------------------------------------------------
(* What the threads rely on does not change with the daemon, as long as no *)
(* log message appears or disappears and their order is kept.              *)
LEMMA DaemonKeeps ==
  ASSUME IInv, UNCHANGED <<scenario, shared, threads, fds, dropped, reported, skipped>>,
         daemon' \in 0..(MaxCrash + 1), crashes' \in 0..scenario.crashes, knows' \subseteq {"app", "context"},
         pipe' \in Seq(Msg), received' \in Seq(Msg), Len(pipe') <= PipeSize,
         Range(received') \subseteq Messages, lost' \subseteq Msg,
         \A x : x.kind = "log" => (x \in Everywhere' <=> x \in Everywhere),
         \A x \in lost' : x.kind = "log" =>
            x \notin Range(received') \cup Range(pipe') \cup Range(startup_buffer) \cup dropped,
         dropped \cap (Range(received') \cup Range(pipe') \cup Range(startup_buffer)) = {},
         Ordered(received', pipe', startup_buffer, skipped)
  PROVE  IInv'
<1>1. UNCHANGED <<scenario, initialised, freeing, ready, dlt_log_handle, appID, contexts, startup_buffer,
                  buffer_size, overflow_counter, dlt_mutex, stack, ret, logged, fds, dropped, reported, skipped>>
  BY DEF shared, threads
<1>2. TypeSound'
  BY <1>1 DEF IInv, TypeSound, TypeOK, StackType
<1>3. Shape' /\ MainSound' /\ FlushSound'
  <2>1. Shape'
    BY <1>1 DEF IInv, Shape, Bottom
  <2>2. (Starting' <=> Starting) /\ (\A q : MainIs(q)' <=> MainIs(q)) /\ \A u : Idle(u)' <=> Idle(u)
    BY <1>1 DEF Starting, MainIs, Bottom, Idle
  <2>3. MainSound'
    <3>1. top(main)' = top(main)
      BY <1>1 DEF top
    <3> QED
      BY <1>1, <2>2, <3>1 DEF IInv, MainSound
  <2>4. FlushSound'
    BY <1>1 DEF IInv, FlushSound, FlushFits, Bottom
  <2> QED
    BY <2>1, <2>3, <2>4
<1>4. MutexSound'
  <2>1. (Starting' <=> Starting) /\ (Stopped' <=> Stopped) /\ Holders' = Holders
    BY <1>1 DEF Starting, Stopped, MainIs, Bottom, Idle, Holders, At, top
  <2>2. \A u \in Thread : At(u, "resend_buffer", "write")' <=> At(u, "resend_buffer", "write")
    BY <1>1 DEF At, top
  <2> QED
    BY <1>1, <2>1, <2>2 DEF IInv, MutexSound
<1>5. PlaceSound'
  <2>1. Others(main) /\ SameMessage(main) /\ main \in Thread
    BY <1>1, Threads DEF Others, SameMessage
  <2> QED
    BY <1>1, <2>1, PlaceSame DEF IInv
<1>6. OrderSound'
  BY <1>1 DEF OrderSound
<1> QED
  BY <1>2, <1>3, <1>4, <1>5, <1>6 DEF IInv

(* A log message on its way is one that a thread logged.                   *)
LEMMA LogIsMessage ==
  ASSUME IInv, NEW x \in Everywhere, x.kind = "log"
  PROVE  x \in Messages
<1>1. x \in Msg /\ x = LogMsg(x.from, x.id) /\ x.id \in Nat
  BY EverywhereIs, MsgIs
<1>2. x.from \in Logger /\ x.id > 0 /\ Sent(x.from, x.id)
  BY DEF IInv, PlaceSound
<1>3. logged[x.from] \in 0..MaxLog
  BY <1>2 DEF IInv, TypeSound, TypeOK
<1>4. x.id \in 1..MaxLog
  <2>1. MaxLog \in Nat
    BY UserAssumption
  <2> QED
    BY <1>1, <1>2, <1>3, <2>1 DEF Sent
<1> QED
  BY <1>1, <1>2, <1>4 DEF Messages

(* The daemon reads the oldest message of the FIFO.                        *)
LEMMA KeepsDaemonRead ==
  ASSUME IInv, DaemonRead, UNCHANGED scenario
  PROVE  IInv'
<1>1. PICK h : h = Head(pipe)
  OBVIOUS
<1>2. /\ pipe # <<>> /\ pipe' = Tail(pipe)
      /\ received' = IF h.kind = "log" THEN Append(received, h) ELSE received
      /\ UNCHANGED <<shared, threads, fds, daemon, crashes, lost, dropped, reported, refused, skipped, exitReport>>
  BY <1>1 DEF DaemonRead
<1>3. /\ knows \subseteq {"app", "context"} /\ received \in Seq(Msg) /\ pipe \in Seq(Msg)
      /\ startup_buffer \in Seq(Msg) /\ Range(received) \subseteq Messages /\ lost \subseteq Msg
      /\ daemon \in 0..(MaxCrash + 1) /\ crashes \in 0..scenario.crashes /\ Len(pipe) <= PipeSize
  BY DEF IInv, TypeSound, TypeOK
<1>4. knows' \subseteq {"app", "context"}
  <2>1. knows' = CASE h.kind \in {"app", "context"} -> knows \cup {h.kind}
                   [] h.kind = "unapp" -> {}
                   [] OTHER -> knows
    BY <1>1 DEF DaemonRead
  <2> QED
    BY <1>3, <2>1
<1>5. /\ pipe' \in Seq(Msg) /\ h \in Msg /\ Range(pipe) = {h} \cup Range(pipe')
      /\ Len(pipe') = Len(pipe) - 1 /\ Len(pipe) \in Nat
  BY <1>1, <1>2, <1>3, TailIs
<1>6. Len(pipe') <= PipeSize
  <2>1. PipeSize \in Nat
    BY UserAssumption
  <2> QED
    BY <1>3, <1>5, <2>1
<1>7. /\ received' \in Seq(Msg)
      /\ Range(received') = IF h.kind = "log" THEN Range(received) \cup {h} ELSE Range(received)
  <2>1. Append(received, h) \in Seq(Msg) /\ Range(Append(received, h)) = Range(received) \cup {h}
    BY <1>3, <1>5, AppendIs
  <2> QED
    BY <1>2, <1>3, <2>1
<1>8. Range(received') \subseteq Messages
  <2>1. h \in Everywhere
    BY <1>5 DEF Everywhere
  <2>2. h.kind = "log" => h \in Messages
    BY <2>1, LogIsMessage
  <2> QED
    BY <1>3, <1>7, <2>2
<1>9. Ordered(received', pipe', startup_buffer, skipped)
  <2>1. Ordered(received, pipe, startup_buffer, skipped)
    BY DEF IInv, OrderSound
  <2>2. /\ Ordered(received, Tail(pipe), startup_buffer, skipped)
        /\ Ordered(Append(received, h), Tail(pipe), startup_buffer, skipped)
    BY <1>1, <1>2, <1>3, <2>1, OrderedRead
  <2> QED
    BY <1>2, <2>2
<1>10. startup_buffer' = startup_buffer /\ lost' = lost /\ dropped' = dropped
  BY <1>2 DEF shared
<1>11. \A x : x.kind = "log" => (x \in Everywhere' <=> x \in Everywhere)
  BY <1>5, <1>7, <1>10 DEF Everywhere
<1>12. Range(received') \cup Range(pipe') \subseteq Range(received) \cup Range(pipe)
  BY <1>5, <1>7
<1>13. /\ \A x \in lost' : x.kind = "log" =>
             x \notin Range(received') \cup Range(pipe') \cup Range(startup_buffer) \cup dropped
       /\ dropped \cap (Range(received') \cup Range(pipe') \cup Range(startup_buffer)) = {}
  BY <1>10, <1>12 DEF IInv, PlaceSound
<1> QED
  BY <1>2, <1>3, <1>4, <1>5, <1>6, <1>7, <1>8, <1>9, <1>10, <1>11, <1>13, DaemonKeeps

(* The daemon crashes: what is in the FIFO is lost.                        *)
LEMMA KeepsDaemonCrash ==
  ASSUME IInv, DaemonCrash, UNCHANGED scenario
  PROVE  IInv'
<1>1. /\ crashes < scenario.crashes /\ daemon' = DOWN /\ crashes' = crashes + 1
      /\ lost' = lost \cup Range(pipe) /\ pipe' = <<>> /\ knows' = {}
      /\ UNCHANGED <<shared, threads, fds, received, dropped, reported, refused, skipped, exitReport>>
  BY DEF DaemonCrash
<1>2. /\ received \in Seq(Msg) /\ pipe \in Seq(Msg) /\ Range(received) \subseteq Messages /\ lost \subseteq Msg
      /\ crashes \in 0..scenario.crashes /\ scenario.crashes \in 0..MaxCrash
  BY DEF IInv, TypeSound, TypeOK, Scenario
<1>3. daemon' \in 0..(MaxCrash + 1) /\ crashes' \in 0..scenario.crashes
  <2>1. MaxCrash \in Nat
    BY UserAssumption
  <2> QED
    BY <1>1, <1>2, <2>1 DEF DOWN
<1>4. pipe' \in Seq(Msg) /\ Len(pipe') <= PipeSize /\ Range(pipe') = {} /\ Range(pipe) \subseteq Msg
  <2>1. PICK e \in Seq(Msg) : e = <<>>
    <3>1. <<>> \in Seq(Msg)
      OBVIOUS
    <3> QED
      BY <3>1
  <2>2. Len(e) = 0 /\ Range(e) = {} /\ Range(pipe) \subseteq Msg
    BY <1>2, <2>1, RangeIs
  <2>3. 0 <= PipeSize
    BY UserAssumption
  <2> QED
    BY <1>1, <2>1, <2>2, <2>3
<1>5. Ordered(received', pipe', startup_buffer, skipped)
  <2>1. Ordered(received, <<>>, startup_buffer, skipped)
    BY OrderedNone DEF IInv, OrderSound
  <2> QED
    BY <1>1, <2>1
<1>6. startup_buffer' = startup_buffer
  BY <1>1 DEF shared
<1>7. \A x : x.kind = "log" => (x \in Everywhere' <=> x \in Everywhere)
  BY <1>1, <1>4, <1>6 DEF Everywhere
<1>8. \A x \in lost' : x.kind = "log" =>
         x \notin Range(received') \cup Range(pipe') \cup Range(startup_buffer) \cup dropped
  <2>1. SUFFICES ASSUME NEW x \in lost', x.kind = "log"
                 PROVE  x \notin Range(received) \cup Range(startup_buffer) \cup dropped
    BY <1>1, <1>4
  <2>2. CASE x \in lost
    BY <2>1, <2>2 DEF IInv, PlaceSound
  <2>3. CASE x \in Range(pipe)
    <3>1. x \notin dropped
      BY <2>3 DEF IInv, PlaceSound
    <3> QED
      BY <2>1, <2>3, <3>1, Apart
  <2> QED
    BY <1>1, <2>2, <2>3
<1>9. dropped \cap (Range(received') \cup Range(pipe') \cup Range(startup_buffer)) = {}
  BY <1>1, <1>4 DEF IInv, PlaceSound
<1> QED
  BY <1>1, <1>2, <1>3, <1>4, <1>5, <1>7, <1>8, <1>9, DaemonKeeps

(* The daemon starts again.                                                *)
LEMMA KeepsDaemonStart ==
  ASSUME IInv, DaemonStart, UNCHANGED scenario
  PROVE  IInv'
<1>1. daemon' = crashes + 1 /\ UNCHANGED <<shared, threads, fds, crashes, pipe, knows, hist>>
  BY DEF DaemonStart
<1>2. /\ received \in Seq(Msg) /\ pipe \in Seq(Msg) /\ Range(received) \subseteq Messages /\ lost \subseteq Msg
      /\ crashes \in 0..scenario.crashes /\ scenario.crashes \in 0..MaxCrash
      /\ knows \subseteq {"app", "context"} /\ Len(pipe) <= PipeSize
  BY DEF IInv, TypeSound, TypeOK, Scenario
<1>3. daemon' \in 0..(MaxCrash + 1)
  <2>1. MaxCrash \in Nat
    BY UserAssumption
  <2> QED
    BY <1>1, <1>2, <2>1
<1>4. UNCHANGED <<received, lost, dropped, reported, skipped>> /\ Everywhere' = Everywhere
  BY <1>1 DEF hist, shared, Everywhere
<1>5. /\ \A x \in lost' : x.kind = "log" =>
            x \notin Range(received') \cup Range(pipe') \cup Range(startup_buffer) \cup dropped
      /\ dropped \cap (Range(received') \cup Range(pipe') \cup Range(startup_buffer)) = {}
      /\ Ordered(received', pipe', startup_buffer, skipped)
  BY <1>1, <1>4 DEF IInv, PlaceSound, OrderSound
<1> QED
  BY <1>1, <1>2, <1>3, <1>4, <1>5, DaemonKeeps

(* Nothing changes.                                                        *)
LEMMA KeepsStutter ==
  ASSUME IInv, UNCHANGED vars
  PROVE  IInv'
<1>1. UNCHANGED <<scenario, shared, threads, world, hist>>
  BY DEF vars
<1>2. /\ received \in Seq(Msg) /\ pipe \in Seq(Msg) /\ Range(received) \subseteq Messages /\ lost \subseteq Msg
      /\ crashes \in 0..scenario.crashes /\ daemon \in 0..(MaxCrash + 1)
      /\ knows \subseteq {"app", "context"} /\ Len(pipe) <= PipeSize
  BY DEF IInv, TypeSound, TypeOK
<1>3. UNCHANGED <<daemon, crashes, pipe, knows, received, lost, dropped, reported, skipped, fds>>
      /\ Everywhere' = Everywhere
  BY <1>1 DEF hist, shared, world, Everywhere
<1>4. /\ \A x \in lost' : x.kind = "log" =>
            x \notin Range(received') \cup Range(pipe') \cup Range(startup_buffer) \cup dropped
      /\ dropped \cap (Range(received') \cup Range(pipe') \cup Range(startup_buffer)) = {}
      /\ Ordered(received', pipe', startup_buffer, skipped)
  BY <1>3 DEF IInv, PlaceSound, OrderSound
<1> QED
  BY <1>1, <1>2, <1>3, <1>4, DaemonKeeps

-----------------------------------------------------------------------------
(* A finite set as a sequence: every element once.                         *)
LEMMA SetAsSequence ==
  ASSUME NEW S, IsFiniteSet(S)
  PROVE  LET q == SetToSeq(S)
         IN  /\ q \in Seq(S) /\ Len(q) = Cardinality(S) /\ Cardinality(S) \in Nat
             /\ \A i, j \in 1 .. Len(q) : q[i] = q[j] => i = j
             /\ \A x \in S : \E i \in 1 .. Len(q) : q[i] = x
<1>1. PICK n \in Nat : n = Cardinality(S) /\ ExistsBijection(1 .. n, S)
  BY FS_CardinalityType
<1>2. PICK f \in Bijection(1 .. n, S) : TRUE
  BY <1>1 DEF ExistsBijection
<1>3. f \in [1 .. n -> S] /\ IsInjective(f)
  BY <1>2 DEF Bijection, Injection
<1>4. PICK q : q = SetToSeq(S) /\ q \in [1 .. n -> S] /\ IsInjective(q)
  <2>1. SetToSeq(S) \in [1 .. n -> S] /\ IsInjective(SetToSeq(S))
    BY <1>1, <1>3 DEF SetToSeq
  <2> QED
    BY <2>1
<1>5. IsFiniteSet(1 .. n) /\ Cardinality(1 .. n) = n
  <2>1. \A k \in Nat : 1 \in Int /\ k \in Int /\ (IF 1 > k THEN 0 ELSE k - 1 + 1) = k
    OBVIOUS
  <2> QED
    BY <2>1, FS_Interval
<1>6. q \in Injection(1 .. n, S)
  BY <1>4 DEF Injection
<1>7. q \in Surjection(1 .. n, S)
  BY <1>1, <1>5, <1>6, FS_Injection
<1>8. \A x \in S : \E i \in 1 .. n : q[i] = x
  BY <1>7 DEF Surjection
<1>9. \A i, j \in 1 .. n : q[i] = q[j] => i = j
  BY <1>4 DEF IsInjective
<1>10. q \in Seq(S) /\ Len(q) = n
  BY <1>4
<1> QED
  BY <1>1, <1>4, <1>8, <1>9, <1>10

(* A message of each of some threads.                                      *)
LEMMA FirstMessages ==
  ASSUME NEW S, S \subseteq Logger, NEW M, M = {LogMsg(t, 1) : t \in S}
  PROVE  IsFiniteSet(M) /\ Cardinality(M) <= Cardinality(S) /\ M \subseteq Msg
         /\ Cardinality(M) \in Nat /\ Cardinality(S) \in Nat
<1>1. IsFiniteSet(S)
  BY UserAssumption, FS_Subset
<1>2. PICK f : f = [t \in S |-> LogMsg(t, 1)]
  OBVIOUS
<1>3. f \in [S -> M] /\ \A x \in M : \E t \in S : f[t] = x
  BY <1>2
<1>4. f \in Surjection(S, M)
  BY <1>3 DEF Surjection
<1>5. IsFiniteSet(M) /\ Cardinality(M) <= Cardinality(S)
  BY <1>1, <1>4, FS_Surjection
<1>6. M \subseteq Msg
  <2>1. "log" \in Kinds /\ 1 \in Nat /\ S \subseteq Thread
    BY Threads DEF Kinds
  <2> QED
    BY <2>1 DEF LogMsg, Msg
<1> QED
  BY <1>1, <1>5, <1>6, FS_CardinalityType

(* What threads logged before the scenario begins is in the buffer.        *)
LEMMA BufferBegins ==
  ASSUME Init
  PROVE  \E S \in SUBSET Logger :
            /\ \A t \in S : scenario.start = "orphan" /\ scenario.limit[t] > 0
            /\ logged = [t \in Logger |-> IF t \in S THEN 1 ELSE 0]
            /\ startup_buffer \in Seq(Msg) /\ Len(startup_buffer) <= RingMin
            /\ Range(startup_buffer) = {LogMsg(t, 1) : t \in S}
            /\ FineIn(startup_buffer, {})
<1>1. PICK S : S = {t \in Logger : scenario.start = "orphan" /\ scenario.limit[t] > 0}
  OBVIOUS
<1>2. /\ startup_buffer = SetToSeq({LogMsg(t, 1) : t \in S})
      /\ logged = [t \in Logger |-> IF t \in S THEN 1 ELSE 0]
      /\ scenario \in Scenarios
  BY <1>1 DEF Init
<1>3. PICK M : M = {LogMsg(t, 1) : t \in S}
  OBVIOUS
<1>4. /\ IsFiniteSet(M) /\ M \subseteq Msg /\ Cardinality(M) \in Nat /\ Cardinality(S) \in Nat
      /\ Cardinality(M) <= Cardinality(S) /\ S \subseteq Logger
  BY <1>1, <1>3, FirstMessages
<1>5. PICK q : /\ q = startup_buffer /\ q \in Seq(M) /\ Len(q) = Cardinality(M)
               /\ \A i, j \in 1 .. Len(q) : q[i] = q[j] => i = j
               /\ \A x \in M : \E i \in 1 .. Len(q) : q[i] = x
  <2>1. startup_buffer = SetToSeq(M)
    BY <1>2, <1>3
  <2>2. PICK q : q = SetToSeq(M)
    OBVIOUS
  <2>3. /\ q \in Seq(M) /\ Len(q) = Cardinality(M)
        /\ \A i, j \in 1 .. Len(q) : q[i] = q[j] => i = j
        /\ \A x \in M : \E i \in 1 .. Len(q) : q[i] = x
    BY <1>4, <2>2, SetAsSequence
  <2> QED
    BY <2>1, <2>2, <2>3
<1>6. q \in Seq(Msg)
  BY <1>4, <1>5
<1>7. Cardinality(S) <= RingMin
  <2>1. CASE scenario.start = "orphan"
    <3>1. S = {t \in Logger : scenario.limit[t] > 0}
      BY <1>1, <2>1
    <3> QED
      BY <1>2, <2>1, <3>1, UserAssumption
  <2>2. CASE scenario.start # "orphan"
    <3>1. S = {}
      BY <1>1, <2>2
    <3>2. Cardinality(S) = 0
      BY <3>1, FS_EmptySet
    <3> QED
      BY <3>2, UserAssumption
  <2> QED
    BY <2>1, <2>2
<1>8. Len(q) <= RingMin
  <2>1. RingMin \in Nat
    BY UserAssumption
  <2> QED
    BY <1>4, <1>5, <1>7, <2>1
<1>9. \A i \in 1 .. Len(q) : q[i] \in M
  BY <1>5
<1>10. Range(q) = M
  <2>1. \A i \in 1 .. Len(q) : q[i] \in Range(q)
    BY <1>6, RangeIs
  <2>2. \A x \in Range(q) : \E i \in 1 .. Len(q) : q[i] = x
    BY <1>6, RangeIs
  <2>3. ASSUME NEW x \in M PROVE x \in Range(q)
    BY <1>5, <2>1
  <2>4. ASSUME NEW x \in Range(q) PROVE x \in M
    BY <1>9, <2>2
  <2> QED
    BY <2>3, <2>4
<1>11. FineIn(q, {})
  <2>1. SUFFICES ASSUME NEW i \in 1 .. Len(q), NEW j \in 1 .. Len(q), i < j PROVE Fine(q[i], q[j], {})
    BY DEF FineIn
  <2>2. PICK u \in S : q[i] = LogMsg(u, 1)
    BY <1>3, <1>9
  <2>3. PICK v \in S : q[j] = LogMsg(v, 1)
    BY <1>3, <1>9
  <2>4. q[i] # q[j]
    <3>1. i # j
      <4>1. i \in Nat /\ j \in Nat
        OBVIOUS
      <4> QED
        BY <2>1, <4>1
    <3> QED
      BY <1>5, <3>1
  <2>5. u # v
    BY <2>2, <2>3, <2>4
  <2> QED
    BY <2>2, <2>3, <2>5 DEF Fine, LogMsg
<1>12. /\ startup_buffer \in Seq(Msg) /\ Len(startup_buffer) <= RingMin
       /\ Range(startup_buffer) = {LogMsg(t, 1) : t \in S} /\ FineIn(startup_buffer, {})
  BY <1>3, <1>5, <1>6, <1>8, <1>10, <1>11
<1>13. \A t \in S : scenario.start = "orphan" /\ scenario.limit[t] > 0
  BY <1>1
<1> QED
  BY <1>2, <1>4, <1>12, <1>13, Zenon

(* A process that begins: main calls dlt_init.                             *)
LEMMA FreshStacks ==
  ASSUME InitFresh
  PROVE  /\ StackType /\ Shape /\ (\A u \in Logger : stack[u] = <<>>) /\ stack[housekeeper] = <<>>
         /\ (\A q : MainIs(q) <=> q = "start") /\ Len(stack[main]) = 2
         /\ top(main).fn = "init" /\ top(main).pc = "start"
<1>1. PICK f \in Frames, g \in Frames :
         /\ f = Frame("main", AppMsg) /\ f.fn = "main" /\ f.pc = "start"
         /\ g = Frame("init", AppMsg) /\ g.fn = "init" /\ g.pc = "start"
  <2>1. "main" \in Fns /\ "init" \in Fns /\ AppMsg \in Msg
    BY ControlMessages DEF Fns
  <2> QED
    BY <2>1, NewFrame
<1>2. PICK s \in Seq(Frames) : s = <<f, g>> /\ Len(s) = 2 /\ s[1] = f /\ s[2] = g
  <2>1. <<f, g>> \in Seq(Frames) /\ Len(<<f, g>>) = 2 /\ <<f, g>>[1] = f /\ <<f, g>>[2] = g
    OBVIOUS
  <2> QED
    BY <2>1
<1>3. PICK e \in Seq(Frames) : e = <<>> /\ Len(e) = 0
  <2>1. <<>> \in Seq(Frames) /\ Len(<<>>) = 0
    OBVIOUS
  <2> QED
    BY <2>1
<1>4. stack = [t \in Thread |-> IF t = main THEN s ELSE e]
  BY <1>1, <1>2, <1>3 DEF InitFresh
<1>5. stack[main] = s /\ \A u \in Thread : u # main => stack[u] = e
  BY <1>4, Threads
<1>6. StackType
  BY <1>4 DEF StackType
<1>7. s # <<>>
  BY <1>2, <1>3
<1>8. Bottom(main) = f /\ top(main) = g
  BY <1>2, <1>5 DEF Bottom, top
<1>9. Shape
  <2> DEFINE Chain(u, q) ==
                 /\ q # <<>> => q[1].fn = Outer(u)
                 /\ \A k \in 1 .. Len(q) : FrameFits(q[k])
                 /\ \A k \in 1 .. Len(q) - 1 : Calls(q[k], q[k + 1])
  <2>0. Shape <=> \A u \in Thread : Chain(u, stack[u])
    BY DEF Shape, Bottom
  <2>1. \A u \in Thread : Chain(u, e)
    BY <1>3
  <2>2. /\ \A k \in 1 .. Len(s) : s[k] = f \/ s[k] = g
        /\ \A k \in 1 .. Len(s) - 1 : s[k] = f /\ s[k + 1] = g
    BY <1>2
  <2>3. FrameFits(f) /\ FrameFits(g) /\ Calls(f, g) /\ f.fn = Outer(main)
    BY <1>1 DEF FrameFits, Calls, Outer
  <2>4. Chain(main, s)
    BY <1>2, <2>2, <2>3
  <2> HIDE DEF Chain
  <2> QED
    BY <1>5, <2>0, <2>1, <2>4
<1>10. \A q : MainIs(q) <=> q = "start"
  BY <1>1, <1>5, <1>7, <1>8 DEF MainIs
<1> QED
  BY <1>1, <1>2, <1>3, <1>5, <1>6, <1>8, <1>9, <1>10, Threads

(* A process that is registered: main is done, and the housekeeper sleeps. *)
LEMMA RegisteredStacks ==
  ASSUME NEW up, InitRegistered(up)
  PROVE  /\ StackType /\ Shape /\ (\A u \in Logger : stack[u] = <<>>) /\ stack[housekeeper] # <<>>
         /\ (\A q : MainIs(q) <=> q = "run") /\ Len(stack[main]) = 1 /\ stack[main] # <<>>
         /\ top(main).fn = "main" /\ top(housekeeper).fn = "housekeeper"
<1>1. PICK f \in Frames : f = [Frame("main", AppMsg) EXCEPT !.pc = "run"] /\ f.fn = "main" /\ f.pc = "run"
  <2>1. "main" \in Fns /\ "run" \in Pcs /\ AppMsg \in Msg
    BY ControlMessages DEF Fns, Pcs
  <2>2. PICK g \in Frames : g = Frame("main", AppMsg) /\ g.fn = "main"
    BY <2>1, NewFrame
  <2>3. PICK h \in Frames : h = [g EXCEPT !.pc = "run"] /\ h.fn = g.fn /\ h.pc = "run"
    BY <2>1, FrameAt
  <2> QED
    BY <2>2, <2>3
<1>2. PICK h \in Frames : h = [Frame("housekeeper", AppMsg) EXCEPT !.pc = "sleep"]
                          /\ h.fn = "housekeeper" /\ h.pc = "sleep"
  <2>1. "housekeeper" \in Fns /\ "sleep" \in Pcs /\ AppMsg \in Msg
    BY ControlMessages DEF Fns, Pcs
  <2>2. PICK g \in Frames : g = Frame("housekeeper", AppMsg) /\ g.fn = "housekeeper"
    BY <2>1, NewFrame
  <2>3. PICK h \in Frames : h = [g EXCEPT !.pc = "sleep"] /\ h.fn = g.fn /\ h.pc = "sleep"
    BY <2>1, FrameAt
  <2> QED
    BY <2>2, <2>3
<1>3. PICK s \in Seq(Frames), r \in Seq(Frames) :
         s = <<f>> /\ Len(s) = 1 /\ s[1] = f /\ r = <<h>> /\ Len(r) = 1 /\ r[1] = h
  <2>1. /\ <<f>> \in Seq(Frames) /\ Len(<<f>>) = 1 /\ <<f>>[1] = f
        /\ <<h>> \in Seq(Frames) /\ Len(<<h>>) = 1 /\ <<h>>[1] = h
    OBVIOUS
  <2> QED
    BY <2>1
<1>4. PICK e \in Seq(Frames) : e = <<>> /\ Len(e) = 0
  <2>1. <<>> \in Seq(Frames) /\ Len(<<>>) = 0
    OBVIOUS
  <2> QED
    BY <2>1
<1>5. stack = [t \in Thread |-> CASE t = main -> s [] t = housekeeper -> r [] OTHER -> e]
  BY <1>1, <1>2, <1>3, <1>4 DEF InitRegistered
<1>6. /\ stack[main] = s /\ stack[housekeeper] = r
      /\ \A u \in Thread : u # main /\ u # housekeeper => stack[u] = e
  BY <1>5, Threads
<1>7. StackType
  BY <1>5 DEF StackType
<1>8. s # <<>> /\ r # <<>>
  BY <1>3, <1>4
<1>9. Bottom(main) = f /\ top(main) = f /\ top(housekeeper) = h
  BY <1>3, <1>6 DEF Bottom, top
<1>10. Shape
  <2> DEFINE Chain(u, q) ==
                 /\ q # <<>> => q[1].fn = Outer(u)
                 /\ \A k \in 1 .. Len(q) : FrameFits(q[k])
                 /\ \A k \in 1 .. Len(q) - 1 : Calls(q[k], q[k + 1])
  <2>0. Shape <=> \A u \in Thread : Chain(u, stack[u])
    BY DEF Shape, Bottom
  <2>1. \A u \in Thread : Chain(u, e)
    BY <1>4
  <2>2. /\ \A k \in 1 .. Len(s) : s[k] = f
        /\ \A k \in 1 .. Len(s) - 1 : FALSE
        /\ \A k \in 1 .. Len(r) : r[k] = h
        /\ \A k \in 1 .. Len(r) - 1 : FALSE
    BY <1>3
  <2>3. FrameFits(f) /\ FrameFits(h) /\ f.fn = Outer(main) /\ h.fn = Outer(housekeeper)
    BY <1>1, <1>2, Threads DEF FrameFits, Outer
  <2>4. Chain(main, s)
    BY <1>3, <2>2, <2>3
  <2>5. Chain(housekeeper, r)
    BY <1>3, <2>2, <2>3
  <2> HIDE DEF Chain
  <2> QED
    BY <1>6, <2>0, <2>1, <2>4, <2>5
<1>11. \A q : MainIs(q) <=> q = "run"
  BY <1>1, <1>6, <1>8, <1>9 DEF MainIs
<1> QED
  BY <1>1, <1>2, <1>3, <1>4, <1>6, <1>7, <1>8, <1>9, <1>10, <1>11, Threads

(* The invariant holds when the library is started.                        *)
LEMMA InitSound ==
  ASSUME \A s \in Scenarios : ~s.lazy, Init
  PROVE  IInv
<1>1. /\ scenario \in Scenarios /\ freeing = FALSE /\ buffer_size = RingMin /\ overflow_counter = 0
      /\ ret = [t \in Thread |-> OK] /\ crashes = 0 /\ pipe = <<>>
      /\ received = <<>> /\ lost = {} /\ dropped = {} /\ reported = 0 /\ refused = FALSE /\ skipped = {}
  BY DEF Init
<1>2. PICK S \in SUBSET Logger :
         /\ \A t \in S : scenario.start = "orphan" /\ scenario.limit[t] > 0
         /\ logged = [t \in Logger |-> IF t \in S THEN 1 ELSE 0]
         /\ startup_buffer \in Seq(Msg) /\ Len(startup_buffer) <= RingMin
         /\ Range(startup_buffer) = {LogMsg(t, 1) : t \in S}
         /\ FineIn(startup_buffer, {})
  BY BufferBegins
<1>3. /\ scenario \in Scenario /\ ~scenario.lazy /\ MaxLog \in Nat /\ MaxCrash \in Nat /\ PipeSize \in Nat
      /\ RingMin \in Nat /\ RingMax \in Nat /\ scenario.ring \in RingMin..RingMax
      /\ scenario.crashes \in 0..MaxCrash /\ \A t \in Logger : scenario.limit[t] \in 0..MaxLog
  BY <1>1, UserAssumption DEF Scenario
<1>4. /\ pipe \in Seq(Msg) /\ Len(pipe) = 0 /\ Range(pipe) = {}
      /\ received \in Seq(Msg) /\ Len(received) = 0 /\ Range(received) = {}
  <2>1. PICK e \in Seq(Msg) : e = <<>>
    <3>1. <<>> \in Seq(Msg)
      OBVIOUS
    <3> QED
      BY <3>1
  <2>2. Len(e) = 0 /\ Range(e) = {}
    BY <2>1, RangeIs
  <2> QED
    BY <1>1, <2>1, <2>2
<1>5. /\ StackType /\ Shape /\ \A u \in Logger : stack[u] = <<>>
      /\ initialised \in BOOLEAN /\ ready \in BOOLEAN /\ appID \in BOOLEAN /\ contexts \in BOOLEAN
      /\ dlt_log_handle \in Fds \cup {NONE} /\ dlt_mutex \in 0..2 /\ knows \subseteq {"app", "context"}
      /\ fds \in [Fds -> 0..(MaxCrash + 1)] /\ daemon \in 0..(MaxCrash + 1)
      /\ \/ /\ scenario.start = "fresh" /\ ~initialised /\ ~ready
            /\ (\A q : MainIs(q) <=> q = "start") /\ Len(stack[main]) = 2
            /\ top(main).fn = "init" /\ top(main).pc = "start" /\ stack[housekeeper] = <<>>
         \/ /\ ready /\ appID /\ dlt_mutex = 1
            /\ (\A q : MainIs(q) <=> q = "run") /\ Len(stack[main]) = 1 /\ stack[main] # <<>>
            /\ top(main).fn = "main" /\ stack[housekeeper] # <<>> /\ top(housekeeper).fn = "housekeeper"
  <2>1. 0 \in 0..(MaxCrash + 1) /\ 1 \in 0..(MaxCrash + 1)
    BY <1>3
  <2>2. CASE scenario.start = "fresh"
    <3>1. InitFresh
      BY <2>2 DEF Init
    <3>2. /\ initialised = FALSE /\ ready = FALSE /\ appID = FALSE /\ contexts = FALSE
          /\ dlt_log_handle = NONE /\ dlt_mutex = 0 /\ knows = {}
          /\ fds = [f \in Fds |-> 0] /\ daemon \in {0, 1}
      BY <3>1 DEF InitFresh, CLOSED, DOWN
    <3>3. /\ initialised \in BOOLEAN /\ ready \in BOOLEAN /\ appID \in BOOLEAN /\ contexts \in BOOLEAN
          /\ dlt_log_handle \in Fds \cup {NONE} /\ dlt_mutex \in 0..2 /\ knows \subseteq {"app", "context"}
      <4>1. initialised \in BOOLEAN /\ ready \in BOOLEAN /\ appID \in BOOLEAN /\ contexts \in BOOLEAN
        BY <3>2, Zenon
      <4>2. dlt_log_handle \in Fds \cup {NONE} /\ knows \subseteq {"app", "context"}
        BY <3>2, Zenon
      <4>3. dlt_mutex \in 0..2
        BY <3>2
      <4> QED
        BY <4>1, <4>2, <4>3
    <3>4. fds \in [Fds -> 0..(MaxCrash + 1)] /\ daemon \in 0..(MaxCrash + 1)
      BY <2>1, <3>2
    <3>5. ~initialised /\ ~ready
      BY <3>2
    <3> QED
      BY <2>2, <3>1, <3>3, <3>4, <3>5, FreshStacks
  <2>3. CASE scenario.start # "fresh"
    <3>1. PICK up \in BOOLEAN : InitRegistered(up)
      BY <2>3 DEF Init
    <3>2. /\ initialised = TRUE /\ ready = TRUE /\ appID = TRUE /\ contexts = TRUE /\ dlt_mutex = 1
          /\ dlt_log_handle = (IF up THEN MinFd ELSE NONE)
          /\ knows = (IF up THEN {"app", "context"} ELSE {})
          /\ fds = [f \in Fds |-> IF up /\ f = MinFd THEN 1 ELSE 0] /\ daemon = (IF up THEN 1 ELSE 0)
      BY <3>1 DEF InitRegistered, CLOSED, DOWN
    <3>3. MinFd \in Fds
      BY LowestFd, UserAssumption DEF MinFd
    <3> QED
      BY <2>1, <3>1, <3>2, <3>3, RegisteredStacks
  <2> QED
    BY <2>2, <2>3
<1>6. TypeSound
  <2>1. logged \in [Logger -> Nat] /\ \A t \in Logger : logged[t] <= scenario.limit[t] /\ logged[t] \in 0..MaxLog
    <3>1. ASSUME NEW t \in Logger PROVE logged[t] \in Nat /\ logged[t] <= scenario.limit[t] /\ logged[t] \in 0..MaxLog
      BY <1>2, <1>3
    <3>2. logged \in [Logger -> Nat]
      BY <1>2
    <3> QED
      BY <3>1, <3>2
  <2>2. buffer_size \in RingMin..scenario.ring /\ Len(startup_buffer) <= buffer_size
    BY <1>1, <1>2, <1>3
  <2>3. ret \in [Thread -> Int] /\ crashes \in 0..scenario.crashes /\ Len(pipe) <= PipeSize
    BY <1>1, <1>3, <1>4, ResultsAre
  <2>4. TypeOK
    BY <1>1, <1>3, <1>4, <1>5, <2>1, <2>2, <2>3 DEF TypeOK
  <2> QED
    BY <1>1, <1>2, <1>3, <1>4, <1>5, <2>1, <2>3, <2>4 DEF TypeSound
<1>7. scenario.start = "fresh" => startup_buffer = <<>>
  <2>1. SUFFICES ASSUME scenario.start = "fresh" PROVE startup_buffer = <<>>
    OBVIOUS
  <2>2. S = {}
    BY <1>2, <2>1
  <2>3. Range(startup_buffer) = {}
    BY <1>2, <2>2
  <2>4. Len(startup_buffer) = 0
    <3>1. \A n \in Nat : n # 0 => 1 \in 1 .. n
      OBVIOUS
    <3> QED
      BY <1>2, <2>3, <3>1, RangeIs
  <2> QED
    BY <1>2, <2>4, RangeIs
<1>8. main \in Thread /\ main \notin Logger /\ main # housekeeper
  BY Threads
<1>9. \A u \in Logger : Idle(u)
  BY <1>5 DEF Idle
<1>10. MainSound /\ MutexSound
  <2>1. \A u \in Thread : \A q : ~At(u, "resend_buffer", q)
    <3>1. \A q : ~At(main, "resend_buffer", q) /\ ~At(housekeeper, "resend_buffer", q)
      BY <1>5 DEF At
    <3> QED
      BY <1>5, <3>1, Threads DEF At
  <2>2. Holders = {}
    BY <2>1 DEF Holders
  <2>3. CASE scenario.start = "fresh" /\ Len(stack[main]) = 2 /\ MainIs("start")
    <3>1. /\ Starting /\ ~Idle(main) /\ Idle(housekeeper) /\ ~ready /\ ~initialised
          /\ (\A q : MainIs(q) <=> q = "start") /\ startup_buffer = <<>> /\ top(main).pc = "start"
      BY <1>5, <1>7, <2>3 DEF Starting, MainIs, Idle
    <3>2. MainSound
      BY <1>1, <1>9, <3>1 DEF MainSound
    <3> QED
      BY <2>1, <2>2, <3>1, <3>2 DEF MutexSound
  <2>4. CASE MainIs("run")
    <3>1. /\ ready /\ appID /\ dlt_mutex = 1 /\ (\A q : MainIs(q) <=> q = "run") /\ Len(stack[main]) = 1
          /\ stack[main] # <<>> /\ stack[housekeeper] # <<>>
      BY <1>5, <2>4
    <3>2. ~Starting /\ ~Idle(main) /\ ~Idle(housekeeper)
      BY <3>1 DEF Starting, Idle
    <3>3. MainSound
      BY <1>1, <1>9, <3>1, <3>2 DEF MainSound
    <3> QED
      BY <2>1, <2>2, <3>1, <3>2, <3>3 DEF MutexSound, Stopped
  <2> QED
    BY <1>5, <2>3, <2>4
<1>11. Everywhere = {LogMsg(t, 1) : t \in S}
  BY <1>1, <1>2, <1>4 DEF Everywhere
<1>12. PlaceSound
  <2>1. \A t \in Logger : \A n : Sent(t, n) <=> n < logged[t] \/ n = logged[t]
    BY <1>5 DEF Sent, Unplaced
  <2>2. \A t \in Logger : logged[t] = IF t \in S THEN 1 ELSE 0
    BY <1>2
  <2>3. \A x \in Everywhere : x.kind = "log" => x.from \in Logger /\ x.id > 0 /\ Sent(x.from, x.id)
    <3>1. SUFFICES ASSUME NEW t \in S
                   PROVE  t \in Logger /\ 1 > 0 /\ Sent(t, 1)
      BY <1>11 DEF LogMsg
    <3> QED
      BY <2>1, <2>2
  <2>4. \A t \in Logger : \A n \in Nat \ {0} : Sent(t, n) => LogMsg(t, n) \in Everywhere
    <3>1. SUFFICES ASSUME NEW t \in Logger, NEW n \in Nat \ {0}, Sent(t, n)
                   PROVE  t \in S /\ n = 1
      BY <1>11
    <3>2. n < logged[t] \/ n = logged[t]
      BY <2>1, <3>1
    <3> QED
      BY <2>2, <3>2
  <2> QED
    BY <1>1, <1>5, <2>3, <2>4 DEF PlaceSound
<1>13. OrderSound
  <2>1. FineIn(pipe, {}) /\ FineIn(received, {})
    BY <1>4 DEF FineIn
  <2> QED
    BY <1>1, <1>2, <1>4, <2>1 DEF OrderSound, Ordered, FineFrom
<1>14. FlushSound
  BY <1>5 DEF FlushSound, FlushFits
<1> QED
  BY <1>5, <1>6, <1>10, <1>12, <1>13, <1>14 DEF IInv

-----------------------------------------------------------------------------
(* Each function any thread calls keeps the invariant.                     *)
LEMMA LibraryKeeps ==
  ASSUME IInv, NEW t \in Thread, Library(t), UNCHANGED scenario
  PROVE  IInv'
<1>1. CASE dlt_init(t)
  BY <1>1, KeepsInitFlag, KeepsInitCommon, KeepsInitConnect DEF dlt_init
<1>2. CASE dlt_user_log_reattach_to_daemon(t)
  BY <1>2, KeepsReattachOpen, KeepsReattachOpened, KeepsReattachContexts, KeepsReattachResend
     DEF dlt_user_log_reattach_to_daemon
<1>3. CASE dlt_user_log_resend_buffer(t)
  BY <1>3, KeepsResendStart, KeepsResendLoop, KeepsResendWrite, KeepsResendClose, KeepsResendClosed
     DEF dlt_user_log_resend_buffer
<1>4. CASE dlt_user_log_send_register(t)
  BY <1>4, KeepsRegisterStart, KeepsRegisterWrite DEF dlt_user_log_send_register
<1>5. CASE dlt_user_log_send_overflow(t)
  BY <1>5, KeepsOverflowRead, KeepsOverflowWrite, KeepsOverflowReset DEF dlt_user_log_send_overflow
<1>6. CASE dlt_user_log_out_error_handling(t)
  BY <1>6, KeepsErrorCheck, KeepsErrorPush DEF dlt_user_log_out_error_handling
<1> QED
  BY <1>1, <1>2, <1>3, <1>4, <1>5, <1>6 DEF Library

(* So do the steps of a logger.                                            *)
LEMMA LoggerKeeps ==
  ASSUME IInv, NEW t \in Logger, Log(t) \/ dlt_user_log_send_log(t), UNCHANGED scenario
  PROVE  IInv'
<1>1. CASE Log(t)
  BY <1>1, KeepsLog
<1>2. CASE dlt_user_log_send_log(t)
  BY <1>2, KeepsLogReattach, KeepsLogOverflow, KeepsLogResend, KeepsLogOut, KeepsLogWrite,
     KeepsLogHandled, KeepsLogCount, KeepsLogClose, KeepsLogClosed DEF dlt_user_log_send_log
<1> QED
  BY <1>1, <1>2

(* So do the steps of main.                                                *)
LEMMA MainKeeps ==
  ASSUME IInv, MainThread, UNCHANGED scenario
  PROVE  IInv'
<1>1. CASE dlt_register_app \/ dlt_register_context
  BY <1>1, KeepsRegister
<1>2. CASE MainExit \/ dlt_unregister_app_flush_buffered_logs
  BY <1>2, KeepsFlush
<1>3. CASE dlt_unregister_app_util
  BY <1>3, KeepsUnregister
<1>4. CASE dlt_user_atexit_handler
  BY <1>4, KeepsExit
<1>5. CASE dlt_free
  BY <1>5, KeepsFreeStart, KeepsFreeClose, KeepsFreeBuffer DEF dlt_free
<1> QED
  BY <1>1, <1>2, <1>3, <1>4, <1>5 DEF MainThread

(* Every step keeps the invariant.                                         *)
LEMMA NextKeeps ==
  ASSUME IInv, [Next]_vars
  PROVE  IInv'
<1>1. CASE UNCHANGED vars
  BY <1>1, KeepsStutter
<1>2. CASE Next
  <2>0. UNCHANGED scenario
    BY <1>2 DEF Next
  <2>1. CASE \E t \in Thread : Library(t)
    BY <2>0, <2>1, LibraryKeeps
  <2>2. CASE \E t \in Logger : Log(t) \/ dlt_user_log_send_log(t)
    BY <2>0, <2>2, LoggerKeeps
  <2>3. CASE dlt_user_housekeeperthread_function
    BY <2>0, <2>3, KeepsHousekeeper DEF dlt_user_housekeeperthread_function
  <2>4. CASE HousekeeperCancelled
    BY <2>0, <2>4, KeepsCancelled
  <2>5. CASE MainThread
    BY <2>0, <2>5, MainKeeps
  <2>6. CASE DaemonRead
    BY <2>0, <2>6, KeepsDaemonRead
  <2>7. CASE DaemonCrash
    BY <2>0, <2>7, KeepsDaemonCrash
  <2>8. CASE DaemonStart
    BY <2>0, <2>8, KeepsDaemonStart
  <2>9. CASE Terminated
    BY <2>9, KeepsStutter DEF Terminated
  <2> QED
    BY <1>2, <2>1, <2>2, <2>3, <2>4, <2>5, <2>6, <2>7, <2>8, <2>9 DEF Next
<1> QED
  BY <1>1, <1>2

-----------------------------------------------------------------------------
(* Two parts that are in order, the first before the second.               *)
LEMMA FineConcat ==
  ASSUME NEW p \in Seq(Msg), NEW q \in Seq(Msg), NEW sk, FineIn(p, sk), FineIn(q, sk), FineFrom(p, q, sk)
  PROVE  p \o q \in Seq(Msg) /\ FineIn(p \o q, sk) /\ Range(p \o q) = Range(p) \cup Range(q)
<1>1. PICK r : r = p \o q
  OBVIOUS
<1>2. PICK a \in Nat, b \in Nat : a = Len(p) /\ b = Len(q)
  BY RangeIs
<1>3. /\ r \in Seq(Msg) /\ Len(r) = a + b
      /\ \A j \in 1 .. a : r[j] = p[j]
      /\ \A j \in a + 1 .. a + b : r[j] = q[j - a]
  BY <1>1, <1>2, ConcatSeq
<1>4. ASSUME NEW j \in 1 .. a + b
      PROVE  \/ j \in 1 .. a /\ r[j] = p[j] /\ p[j] \in Range(p)
             \/ \E k \in 1 .. b : j = a + k /\ r[j] = q[k] /\ q[k] \in Range(q)
  <2>1. CASE j <= a
    <3>1. j \in 1 .. a
      BY <2>1
    <3> QED
      BY <1>2, <1>3, <3>1, RangeIs
  <2>2. CASE ~(j <= a)
    <3>1. PICK k \in 1 .. b : k = j - a /\ j = a + k /\ j \in a + 1 .. a + b
      <4>1. j - a \in 1 .. b /\ j = a + (j - a) /\ j \in a + 1 .. a + b
        BY <2>2
      <4> QED
        BY <4>1
    <3>2. r[j] = q[k] /\ q[k] \in Range(q)
      BY <1>2, <1>3, <3>1, RangeIs
    <3> QED
      BY <3>1, <3>2
  <2> QED
    BY <2>1, <2>2
<1>5. FineIn(r, sk)
  <2>1. SUFFICES ASSUME NEW i \in 1 .. a + b, NEW j \in 1 .. a + b, i < j PROVE Fine(r[i], r[j], sk)
    BY <1>3 DEF FineIn
  <2>2. CASE j \in 1 .. a /\ r[j] = p[j]
    <3>1. i \in 1 .. a
      BY <2>1, <2>2
    <3>2. r[i] = p[i]
      BY <1>3, <3>1
    <3> QED
      BY <1>2, <2>1, <2>2, <3>1, <3>2 DEF FineIn
  <2>3. ASSUME NEW k \in 1 .. b, j = a + k, r[j] = q[k], q[k] \in Range(q)
        PROVE  Fine(r[i], r[j], sk)
    <3>1. CASE r[i] \in Range(p)
      BY <2>3, <3>1 DEF FineFrom
    <3>2. ASSUME NEW h \in 1 .. b, i = a + h, r[i] = q[h] PROVE Fine(r[i], r[j], sk)
      <4>1. h < k
        BY <2>1, <2>3, <3>2
      <4> QED
        BY <1>2, <2>3, <3>2, <4>1 DEF FineIn
    <3> QED
      BY <1>4, <3>1, <3>2
  <2> QED
    BY <1>4, <2>2, <2>3
<1>6. Range(r) = Range(p) \cup Range(q)
  <2>1. ASSUME NEW x \in Range(r) PROVE x \in Range(p) \cup Range(q)
    <3>1. PICK j \in 1 .. a + b : r[j] = x
      BY <1>3, RangeIs
    <3> QED
      BY <1>4, <3>1
  <2>2. ASSUME NEW x \in Range(p) PROVE x \in Range(r)
    <3>1. PICK j \in 1 .. a : p[j] = x
      BY <1>2, RangeIs
    <3>2. j \in 1 .. a + b /\ r[j] = x
      BY <1>2, <1>3, <3>1
    <3> QED
      BY <1>3, <3>2, RangeIs
  <2>3. ASSUME NEW x \in Range(q) PROVE x \in Range(r)
    <3>1. PICK k \in 1 .. b : q[k] = x
      BY <1>2, RangeIs
    <3>2. PICK j \in a + 1 .. a + b : j - a = k
      <4>1. a + k \in a + 1 .. a + b /\ (a + k) - a = k
        OBVIOUS
      <4> QED
        BY <4>1
    <3>3. j \in 1 .. a + b /\ r[j] = x
      BY <1>3, <3>1, <3>2
    <3> QED
      BY <1>3, <3>3, RangeIs
  <2> QED
    BY <2>1, <2>2, <2>3
<1> QED
  BY <1>1, <1>3, <1>5, <1>6

(* What was read, is in the FIFO and is stored, as one sequence.           *)
LEMMA StreamIs ==
  ASSUME IInv
  PROVE  /\ Stream \in Seq(Msg) /\ FineIn(Stream, skipped)
         /\ Range(Stream) = Range(received) \cup Range(pipe) \cup Range(startup_buffer)
<1>1. received \in Seq(Msg) /\ pipe \in Seq(Msg) /\ startup_buffer \in Seq(Msg)
  BY DEF IInv, TypeSound
<1>2. /\ FineIn(received, skipped) /\ FineIn(pipe, skipped) /\ FineIn(startup_buffer, skipped)
      /\ FineFrom(received, pipe, skipped) /\ FineFrom(received, startup_buffer, skipped)
      /\ FineFrom(pipe, startup_buffer, skipped)
  BY DEF IInv, OrderSound, Ordered
<1>3. PICK p : p = received \o pipe
  OBVIOUS
<1>4. p \in Seq(Msg) /\ FineIn(p, skipped) /\ Range(p) = Range(received) \cup Range(pipe)
  BY <1>1, <1>2, <1>3, FineConcat
<1>5. FineFrom(p, startup_buffer, skipped)
  BY <1>2, <1>4 DEF FineFrom
<1>6. Stream = p \o startup_buffer
  BY <1>3 DEF Stream
<1> QED
  BY <1>1, <1>2, <1>4, <1>5, <1>6, FineConcat

(* A message that was placed is in one place.                              *)
LEMMA PlacedOnce ==
  ASSUME IInv, NEW m \in Msg, m.kind = "log", m \in Everywhere
  PROVE  Places(m) + (IF m \in lost THEN 1 ELSE 0) + (IF m \in dropped THEN 1 ELSE 0) = 1
<1>1. PICK q \in Seq(Msg) : /\ q = Stream /\ FineIn(q, skipped) /\ DOMAIN q = 1 .. Len(q) /\ Len(q) \in Nat
                            /\ Range(q) = Range(received) \cup Range(pipe) \cup Range(startup_buffer)
  BY StreamIs, RangeIs
<1>2. PICK D : D = {i \in 1 .. Len(q) : q[i] = m}
  OBVIOUS
<1>3. Places(m) = Cardinality(D)
  BY <1>1, <1>2 DEF Places
<1>4. m.id \in Nat /\ ~Fine(m, m, skipped)
  <2>1. \A n \in Nat : ~(n < n) /\ ~(n > n)
    OBVIOUS
  <2> QED
    BY <2>1, MsgIs DEF Fine
<1>5. \A i, j \in D : i = j
  <2>1. SUFFICES ASSUME NEW i \in D, NEW j \in D, i < j PROVE FALSE
    <3>1. \A i, j \in 1 .. Len(q) : i < j \/ j < i \/ i = j
      BY <1>1
    <3> QED
      BY <1>2, <3>1
  <2>2. Fine(q[i], q[j], skipped)
    BY <1>1, <1>2, <2>1 DEF FineIn
  <2> QED
    BY <1>2, <1>4, <2>2
<1>6. m \in Range(q) <=> D # {}
  BY <1>1, <1>2, RangeIs
<1>7. D # {} => Cardinality(D) = 1
  <2>1. SUFFICES ASSUME NEW i \in D PROVE Cardinality(D) = 1
    OBVIOUS
  <2>2. D = {i}
    BY <1>5
  <2> QED
    BY <2>2, FS_Singleton
<1>8. D = {} => Cardinality(D) = 0
  BY FS_EmptySet
<1>9. m \in Range(q) \/ m \in lost \/ m \in dropped
  BY <1>1 DEF Everywhere
<1>10. m \in lost => m \notin Range(q) /\ m \notin dropped
  BY <1>1 DEF IInv, PlaceSound
<1>11. m \in dropped => m \notin Range(q)
  BY <1>1 DEF IInv, PlaceSound
<1> QED
  BY <1>3, <1>6, <1>7, <1>8, <1>9, <1>10, <1>11

(* The invariant gives the property.                                       *)
LEMMA Implied ==
  ASSUME IInv
  PROVE  SentInOrder
<1>1. TypeOK
  BY DEF IInv, TypeSound
<1>2. MutualExclusion
  <2>1. SUFFICES ASSUME ready, ~freeing PROVE dlt_mutex + Cardinality(Holders) = 1
    BY DEF MutualExclusion
  <2>2. ~Starting /\ ~Idle(housekeeper)
    BY <2>1 DEF IInv, MainSound
  <2>3. ~Stopped
    BY <2>2 DEF Stopped
  <2>4. CASE dlt_mutex = 1 /\ Holders = {}
    BY <2>4, FS_EmptySet
  <2>5. ASSUME dlt_mutex = 0, NEW t \in Thread, Holders = {t}
        PROVE  dlt_mutex + Cardinality(Holders) = 1
    <3>1. Cardinality({t}) = 1
      BY FS_Singleton
    <3>2. Cardinality(Holders) = 1
      BY <2>5, <3>1, Zenon
    <3> QED
      BY <2>5, <3>2
  <2> QED
    BY <2>2, <2>3, <2>4, <2>5 DEF IInv, MutexSound
<1>3. SentOnce
  <2>1. SUFFICES ASSUME NEW t \in Logger, NEW n \in 1 .. logged[t], Idle(t) \/ n < logged[t], NEW m, m = LogMsg(t, n)
                 PROVE  Places(m) + (IF m \in lost THEN 1 ELSE 0) + (IF m \in dropped THEN 1 ELSE 0) = 1
    BY DEF SentOnce
  <2>2. logged[t] \in Nat
    BY DEF IInv, TypeSound
  <2>3. n \in Nat \ {0} /\ (n < logged[t] \/ n = logged[t])
    BY <2>2
  <2>4. Sent(t, n)
    BY <2>1, <2>3 DEF Sent, Unplaced, Idle
  <2>5. m \in Everywhere /\ m.kind = "log"
    BY <2>1, <2>3, <2>4 DEF IInv, PlaceSound, LogMsg
  <2> QED
    BY <2>5, PlacedOnce, EverywhereIs
<1>4. OvertakesOnlyAtReattach
  <2>1. Stream \in Seq(Msg) /\ FineIn(Stream, skipped) /\ DOMAIN Stream = 1 .. Len(Stream)
    BY StreamIs, RangeIs
  <2>2. SUFFICES ASSUME NEW i \in 1 .. Len(Stream), NEW j \in 1 .. Len(Stream), i < j,
                        Stream[i].kind = "log", Stream[j].kind = "log", Stream[i].from = Stream[j].from,
                        Stream[i].id > Stream[j].id
                 PROVE  Stream[i] \in skipped
    BY <2>1 DEF OvertakesOnlyAtReattach
  <2>3. Fine(Stream[i], Stream[j], skipped)
    BY <2>1, <2>2 DEF FineIn
  <2>4. Stream[i].id \in Nat /\ Stream[j].id \in Nat
    BY <2>1, MsgIs, RangeIs
  <2> QED
    BY <2>2, <2>3, <2>4 DEF Fine
<1> QED
  BY <1>1, <1>2, <1>3, <1>4 DEF SentInOrder

(* While threads log, resend, register, exit and the daemon crashes: every *)
(* message a thread has finished logging is in one place, in the order of  *)
(* its thread unless it skipped the resend, and the semaphore is held by   *)
(* one thread (dlt_user_log_send_log, dlt_user_log_resend_buffer).         *)
THEOREM SentInOrderTheorem ==
  ASSUME \A s \in Scenarios : ~s.lazy
  PROVE  Spec => []SentInOrder
<1>1. Init => IInv
  BY InitSound
<1>2. IInv /\ [Next]_vars => IInv'
  BY NextKeeps
<1>3. IInv => SentInOrder
  BY Implied
<1> QED
  BY <1>1, <1>2, <1>3, PTL DEF Spec
=============================================================================
