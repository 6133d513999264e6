-------------------------- MODULE DltUserOutcomeProofs --------------------------
(***************************************************************************)
(* What becomes of the messages that are lost, for any threads, sizes and  *)
(* crashes: every message the startup buffer refused is reported to the    *)
(* daemon, is counted in overflow_counter, or is in the hands of a thread  *)
(* that will count or report it.  It rests on the invariant of             *)
(* DltUserProofs.                                                          *)
(*                                                                         *)
(* The argument: the counter is read, reported and reset without a lock,   *)
(* so the sum is kept only while one thread logs at a time (AloneLogs,     *)
(* which the property assumes).  Then every thread at work on the counter  *)
(* holds the value it read (CountSound), an error is told from a full      *)
(* buffer (ErrorSound), and what the exit reports covers all that is still *)
(* stored, because no thread logs any more (ExitSound).                    *)
(***************************************************************************)
EXTENDS DltUserProofs

-----------------------------------------------------------------------------
(* What a step of a thread does to its calls: the innermost one goes on or *)
(* is replaced by the one it ends with, calls another, or returns.         *)

(* dlt_user_log_out_error_handling returns what the buffer says only when  *)
(* the message is stored; nobody passes on the message of an               *)
(* unregistration he was not given.                                        *)
Sane(e, f) ==
    /\ f.fn = "error_handling" => f.res \in {OK, ERROR}
    /\ f.m.kind = "unapp" => e.m.kind = "unapp"
Runs(t) ==
    /\ stack[t] # <<>> /\ StackType' /\ Others(t) /\ RetOthers(t)
    /\ \/ \E f \in Frames : Replaces(t, f) /\ Resumes(top(t), f) /\ Sane(top(t), f)
       \/ \E f, g \in Frames :
             /\ Pushes(t, f, g) /\ Resumes(top(t), f) /\ Sane(top(t), f) /\ Calls(f, g)
             /\ g.pc = "start" /\ g.res = OK
             /\ g.m.kind = "unapp" =>
                   top(t).m.kind = "unapp" \/ (f.fn = "main" /\ f.pc \in {"clear_forced", "clear"})
       \/ Pops(t)

(* The innermost call goes on.                                             *)
LEMMA RunsGoto ==
  ASSUME StackType, NEW t \in Thread, stack[t] # <<>>, NEW f \in Frames, Goto(t, f), RetOthers(t),
         Resumes(top(t), f), Sane(top(t), f)
  PROVE  Runs(t) /\ stack'[t] # <<>> /\ top(t)' = f /\ Len(stack'[t]) = Len(stack[t])
<1>1. StackType' /\ Others(t) /\ Replaces(t, f)
  BY GotoIs
<1>2. Len(stack'[t]) = Len(stack[t]) /\ stack'[t] # <<>>
  BY <1>1, StackIs DEF Replaces, StackType
<1>3. top(t)' = f
  BY <1>1, <1>2 DEF Replaces, top
<1> QED
  BY <1>1, <1>2, <1>3 DEF Runs

(* It goes on at another position.                                         *)
LEMMA RunsTo ==
  ASSUME StackType, NEW t \in Thread, stack[t] # <<>>, NEW pc \in Pcs, GotoPc(t, pc), RetOthers(t),
         top(t).fn # "error_handling"
  PROVE  /\ Runs(t) /\ stack'[t] # <<>> /\ Len(stack'[t]) = Len(stack[t])
         /\ top(t)'.fn = top(t).fn /\ top(t)'.pc = pc /\ top(t)'.m = top(t).m
         /\ top(t)'.n = top(t).n /\ top(t)'.fd = top(t).fd /\ top(t)'.res = top(t).res
<1>1. top(t) \in Frames
  BY StackIs
<1>2. PICK f \in Frames : /\ f = [top(t) EXCEPT !.pc = pc]
                          /\ f.fn = top(t).fn /\ f.pc = pc /\ f.m = top(t).m /\ f.fd = top(t).fd
                          /\ f.n = top(t).n /\ f.res = top(t).res
  BY <1>1, FrameAt
<1>3. Goto(t, f)
  BY <1>2 DEF GotoPc
<1>4. Resumes(top(t), f) /\ Sane(top(t), f)
  BY <1>2 DEF Resumes, Sane
<1>5. Runs(t) /\ stack'[t] # <<>> /\ top(t)' = f /\ Len(stack'[t]) = Len(stack[t])
  BY <1>2, <1>3, <1>4, RunsGoto
<1> QED
  BY <1>2, <1>5

(* It calls another.                                                       *)
LEMMA RunsCall ==
  ASSUME StackType, NEW t \in Thread, stack[t] # <<>>, NEW pc \in Pcs, NEW fn \in Fns, NEW m \in Msg,
         Call(t, pc, Frame(fn, m)), RetOthers(t), top(t).fn # "error_handling",
         \A f, g : f.fn = top(t).fn /\ f.pc = pc /\ g.fn = fn /\ g.m = m => Calls(f, g),
         m.kind = "unapp" =>
            top(t).m.kind = "unapp" \/ (top(t).fn = "main" /\ pc \in {"clear_forced", "clear"})
  PROVE  /\ Runs(t) /\ stack'[t] # <<>> /\ top(t)' = Frame(fn, m) /\ Len(stack'[t]) = Len(stack[t]) + 1
         /\ stack'[t][Len(stack[t])].fn = top(t).fn /\ stack'[t][Len(stack[t])].pc = pc
<1>1. PICK g \in Frames : g = Frame(fn, m) /\ g.fn = fn /\ g.pc = "start" /\ g.m = m /\ g.res = OK
  BY NewFrame
<1>2. /\ StackType' /\ Others(t)
      /\ \E f \in Frames : /\ Pushes(t, f, g) /\ f.fn = top(t).fn /\ f.pc = pc
                           /\ f.m = top(t).m /\ f.n = top(t).n
  BY <1>1, CallIs
<1>3. PICK f \in Frames : /\ Pushes(t, f, g) /\ f.fn = top(t).fn /\ f.pc = pc /\ f.m = top(t).m
  BY <1>2
<1>4. Resumes(top(t), f) /\ Sane(top(t), f) /\ Calls(f, g)
  BY <1>1, <1>3 DEF Resumes, Sane
<1>5. g.m.kind = "unapp" =>
         top(t).m.kind = "unapp" \/ (f.fn = "main" /\ f.pc \in {"clear_forced", "clear"})
  BY <1>1, <1>3
<1>6. Runs(t)
  BY <1>1, <1>2, <1>3, <1>4, <1>5 DEF Runs
<1>7. Len(stack'[t]) = Len(stack[t]) + 1 /\ stack'[t][Len(stack[t]) + 1] = g /\ stack'[t][Len(stack[t])] = f
  BY <1>3 DEF Pushes
<1>8. top(t)' = g
  BY <1>7 DEF top
<1>9. stack'[t] # <<>>
  BY <1>2, <1>7, StackIs DEF StackType
<1> QED
  BY <1>1, <1>3, <1>6, <1>7, <1>8, <1>9

(* It returns.                                                             *)
LEMMA RunsReturn ==
  ASSUME StackType, NEW t \in Thread, stack[t] # <<>>, ret \in [Thread -> Int], NEW r \in Int, Return(t, r)
  PROVE  /\ Runs(t) /\ Pops(t)
         /\ Len(stack[t]) > 1 /\ stack[t][Len(stack[t]) - 1].pc \in Awaited => ret'[t] = r
         /\ stack'[t] # <<>> => Len(stack[t]) > 1 /\ top(t)' = stack[t][Len(stack[t]) - 1]
         /\ stack'[t] = <<>> => Len(stack[t]) = 1
<1>1. /\ StackType' /\ Others(t) /\ Pops(t) /\ RetOthers(t)
      /\ Len(stack[t]) > 1 /\ stack[t][Len(stack[t]) - 1].pc \in Awaited => ret'[t] = r
  BY ReturnIs DEF RetOthers
<1>2. PICK n \in Nat \ {0} : n = Len(stack[t])
  BY StackIs
<1>3. Len(stack'[t]) = n - 1 /\ \A k \in 1 .. n - 1 : stack'[t][k] = stack[t][k]
  BY <1>1, <1>2 DEF Pops
<1>4. stack'[t] # <<>> <=> n - 1 > 0
  BY <1>1, <1>3 DEF StackType
<1>5. (n - 1 > 0 => n > 1 /\ n - 1 \in 1 .. n - 1) /\ (~(n - 1 > 0) => n = 1)
  OBVIOUS
<1>6. stack'[t] # <<>> => top(t)' = stack[t][n - 1]
  BY <1>3, <1>4, <1>5 DEF top
<1> QED
  BY <1>1, <1>2, <1>4, <1>5, <1>6 DEF Runs

(* The innermost call after such a step.                                   *)
LEMMA RunsTop ==
  ASSUME StackType, Shape, NEW t \in Thread, Runs(t), stack'[t] # <<>>
  PROVE  LET f == top(t)'
         IN  /\ f \in Frames
             /\ \/ Resumes(top(t), f) /\ Sane(top(t), f) /\ ~Pops(t)
                \/ /\ f.pc = "start" /\ f.res = OK /\ ~Pops(t)
                   /\ \E e \in Frames : Calls(e, f) /\ Resumes(top(t), e)
                \/ Calls(f, top(t)) /\ Pops(t) /\ Len(stack[t]) > 1
<1>1. PICK n \in Nat \ {0} : n = Len(stack[t])
  BY StackIs DEF Runs
<1>2. stack'[t] \in Seq(Frames) /\ Len(stack'[t]) \in Nat \ {0} /\ top(t)' = stack'[t][Len(stack'[t])]
  BY DEF Runs, StackType, top
<1>3. top(t)' \in Frames
  BY <1>2
<1>4. n # n - 1 /\ n + 1 # n - 1
  OBVIOUS
<1>5. ASSUME NEW f \in Frames, Replaces(t, f), Resumes(top(t), f), Sane(top(t), f)
      PROVE  top(t)' = f /\ ~Pops(t)
  BY <1>1, <1>2, <1>4, <1>5 DEF Replaces, Pops
<1>6. ASSUME NEW f \in Frames, NEW g \in Frames, Pushes(t, f, g)
      PROVE  top(t)' = g /\ ~Pops(t)
  BY <1>1, <1>2, <1>4, <1>6 DEF Pushes, Pops
<1>7. ASSUME Pops(t)
      PROVE  Calls(top(t)', top(t)) /\ n > 1
  <2>1. Len(stack'[t]) = n - 1 /\ \A k \in 1 .. n - 1 : stack'[t][k] = stack[t][k]
    BY <1>1, <1>7 DEF Pops
  <2>2. n - 1 \in 1 .. n - 1 /\ n > 1
    BY <1>2, <2>1
  <2>3. top(t)' = stack[t][n - 1]
    BY <1>2, <2>1, <2>2
  <2> QED
    BY <1>1, <2>2, <2>3, ShapeIs DEF Runs
<1> QED
  BY <1>1, <1>3, <1>5, <1>6, <1>7 DEF Runs

(* What dlt_user_log_out_error_handling will return is not that the buffer *)
(* is full, unless it is.                                                  *)
ErrorSound == \A t \in Thread : stack[t] # <<>> /\ top(t).fn = "error_handling" => top(t).res \in {OK, ERROR}

(* A step of a thread's calls starts dlt_user_log_out_error_handling anew, *)
(* or goes on in it with OK or an error: never with a full buffer.         *)
LEMMA RunsErrors ==
  ASSUME StackType, Shape, ErrorSound, NEW t \in Thread, Runs(t)
  PROVE  ErrorSound'
<1>1. ASSUME stack'[t] # <<>>, top(t)'.fn = "error_handling" PROVE top(t)'.res \in {OK, ERROR}
  <2>1. ~Calls(top(t)', top(t))
    BY <1>1 DEF Calls
  <2> QED
    BY <1>1, <2>1, RunsTop DEF Sane
<1>2. \A u \in Thread : u # t => stack'[u] = stack[u]
  BY DEF Runs, Others
<1> QED
  BY <1>1, <1>2 DEF ErrorSound, top

(* The calls that have to do with the number of lost messages.             *)
Tallies(f) ==
    \/ f.fn = "send_overflow" /\ f.pc \in {"write", "reset"}
    \/ f.fn = "send_log" /\ f.pc \in {"handled", "count", "close", "closed"}

(* They are entered from elsewhere by their own functions only.            *)
LEMMA RunsQuiet ==
  ASSUME StackType, Shape, NEW t \in Thread, Runs(t),
         \/ top(t).fn \in {"resend_buffer", "send_register", "reattach"}
         \/ top(t).fn = "error_handling" /\ ~Pops(t)
  PROVE  ~Tallies(top(t)) /\ (stack'[t] # <<>> => ~Tallies(top(t)'))
<1>1. ~Tallies(top(t))
  BY DEF Tallies
<1>2. ASSUME stack'[t] # <<>> PROVE ~Tallies(top(t)')
  <2> DEFINE f == top(t)'
  <2>1. CASE Resumes(top(t), f)
    BY <2>1 DEF Resumes, Tallies
  <2>2. CASE f.pc = "start"
    BY <2>2 DEF Tallies
  <2>3. CASE Calls(f, top(t)) /\ Pops(t)
    BY <2>3 DEF Calls, Tallies
  <2> HIDE DEF f
  <2>4. \/ Resumes(top(t), f)
        \/ f.pc = "start"
        \/ Calls(f, top(t)) /\ Pops(t)
    BY <1>2, RunsTop DEF f
  <2> QED
    BY <2>1, <2>2, <2>3, <2>4 DEF f
<1> QED
  BY <1>1, <1>2

(* A call at the bottom that is in progress stays there until the call     *)
(* above has returned.                                                     *)
LEMMA RunsBelow ==
  ASSUME StackType, NEW t \in Thread, Runs(t), Len(stack[t]) > 1
  PROVE  stack'[t] # <<>> /\ Bottom(t)' = Bottom(t)
<1>1. PICK n \in Nat \ {0} : n = Len(stack[t])
  BY StackIs DEF Runs
<1>2. 1 \in 1 .. n - 1 /\ n - 1 # 0 /\ n + 1 # 0
  <2>1. \A k \in Nat \ {0} : k > 1 => 1 \in 1 .. k - 1 /\ k - 1 # 0 /\ k + 1 # 0
    OBVIOUS
  <2>2. n > 1
    BY <1>1
  <2> QED
    BY <2>1, <2>2
<1>3. stack'[t] \in Seq(Frames)
  BY DEF Runs, StackType
<1>4. Len(stack'[t]) \in {n, n + 1, n - 1} /\ \A k \in 1 .. n - 1 : stack'[t][k] = stack[t][k]
  BY <1>1 DEF Runs, Replaces, Pushes, Pops
<1>5. stack'[t][1] = stack[t][1] /\ Len(stack'[t]) # 0
  BY <1>2, <1>4
<1> QED
  BY <1>3, <1>5 DEF Bottom

-----------------------------------------------------------------------------
(* The steps of the functions that any thread calls.                       *)
LEMMA CheckRuns ==
  ASSUME IInv, NEW t \in Thread, ErrorCheck(t)
  PROVE  Runs(t) /\ ~Pops(t) /\ stack'[t] # <<>> /\ top(t)'.fn = "error_handling" /\ top(t)'.m = top(t).m
<1>1. At(t, "error_handling", "start") /\ UNCHANGED ret
  BY DEF ErrorCheck
<1>2. PICK r \in {OK, ERROR} : r = IF buffer_size + 1 > scenario.ring THEN ERROR ELSE OK
  OBVIOUS
<1>3. StackType /\ Shape /\ stack[t] # <<>> /\ top(t) \in Frames /\ "push" \in Pcs /\ top(t).fn = "error_handling"
  BY <1>1, StartsFrom DEF Pcs
<1>4. r \in Int
  BY ResultsAre
<1>5. PICK f : f = [top(t) EXCEPT !.pc = "push", !.res = r]
  OBVIOUS
<1>6. f \in Frames /\ f.fn = top(t).fn /\ f.m = top(t).m /\ f.pc = "push" /\ f.res = r
  BY <1>3, <1>4, <1>5 DEF Frames
<1>7. Goto(t, f) /\ RetOthers(t)
  BY <1>1, <1>2, <1>5 DEF ErrorCheck, RetOthers
<1>8. Resumes(top(t), f) /\ Sane(top(t), f)
  BY <1>2, <1>6 DEF Resumes, Sane
<1>9. Runs(t) /\ stack'[t] # <<>> /\ top(t)' = f
  BY <1>3, <1>6, <1>7, <1>8, RunsGoto
<1>10. ~Pops(t)
  BY <1>3, <1>6, <1>7, GotoIs, ReplacesOne
<1> QED
  BY <1>3, <1>6, <1>9, <1>10

(* dlt_user_log_resend_buffer goes on with n messages left to send.        *)
LEMMA NextRuns ==
  ASSUME StackType, NEW t \in Thread, stack[t] # <<>>, top(t).fn = "resend_buffer",
         ret \in [Thread -> Int], NEW n \in Nat, ResendNext(t, n)
  PROVE  Runs(t)
<1>1. CASE Return(t, OK)
  BY <1>1, RunsReturn, ResultsAre
<1>2. CASE Goto(t, [top(t) EXCEPT !.pc = "loop", !.fd = NONE, !.n = n]) /\ UNCHANGED ret
  <2>1. PICK f : f = [top(t) EXCEPT !.pc = "loop", !.fd = NONE, !.n = n]
    OBVIOUS
  <2>2. top(t) \in Frames /\ "loop" \in Pcs /\ NONE \in Fds \cup {NONE}
    BY StackIs DEF Pcs
  <2>3. f \in Frames /\ f.fn = top(t).fn /\ f.m = top(t).m
    BY <2>1, <2>2 DEF Frames
  <2>4. Goto(t, f) /\ RetOthers(t)
    BY <1>2, <2>1 DEF RetOthers
  <2>5. Resumes(top(t), f) /\ Sane(top(t), f)
    BY <2>3 DEF Resumes, Sane
  <2> QED
    BY <2>3, <2>4, <2>5, RunsGoto
<1> QED
  BY <1>1, <1>2 DEF ResendNext

(* dlt_user_log_resend_buffer.                                             *)
LEMMA ResendRuns ==
  ASSUME IInv, NEW t \in Thread, dlt_user_log_resend_buffer(t)
  PROVE  Runs(t) /\ top(t).fn = "resend_buffer"
<1>0. At(t, "resend_buffer", top(t).pc) /\ stack[t] # <<>> /\ top(t).fn = "resend_buffer"
  BY DEF dlt_user_log_resend_buffer, ResendStart, ResendLoop, ResendWrite, ResendClose, ResendClosed, At
<1>1. /\ StackType /\ Shape /\ ret \in [Thread -> Int] /\ top(t) \in Frames /\ top(t).n \in Nat
      /\ FrameFits(top(t)) /\ dlt_log_handle \in Fds \cup {NONE}
  BY <1>0, StartsFrom
<1>2. CASE ResendStart(t)
  <2>1. Len(startup_buffer) \in Nat
    BY DEF IInv, TypeSound
  <2>2. \/ ResendNext(t, Len(startup_buffer))
        \/ Return(t, OK)
    BY <1>2 DEF ResendStart
  <2> QED
    BY <1>0, <1>1, <2>1, <2>2, NextRuns, RunsReturn, ResultsAre
<1>3. CASE ResendLoop(t)
  <2>1. top(t).n - 1 \in Nat
    <3>1. top(t).n > 0
      BY <1>0, <1>1, <1>3 DEF FrameFits, ResendLoop, At
    <3> QED
      BY <1>1, <3>1
  <2>2. CASE ResendNext(t, top(t).n - 1)
    BY <1>0, <1>1, <2>1, <2>2, NextRuns
  <2>3. CASE Goto(t, [top(t) EXCEPT !.pc = "write", !.fd = dlt_log_handle]) /\ UNCHANGED ret
    <3>1. PICK f : f = [top(t) EXCEPT !.pc = "write", !.fd = dlt_log_handle]
      OBVIOUS
    <3>2. f \in Frames /\ f.fn = top(t).fn /\ f.m = top(t).m
      BY <1>1, <3>1 DEF Frames, Pcs
    <3>3. Goto(t, f) /\ RetOthers(t)
      BY <2>3, <3>1 DEF RetOthers
    <3>4. Resumes(top(t), f) /\ Sane(top(t), f)
      BY <1>0, <3>2 DEF Resumes, Sane
    <3> QED
      BY <1>0, <1>1, <3>2, <3>3, <3>4, RunsGoto
  <2> QED
    BY <1>0, <1>3, <2>2, <2>3 DEF ResendLoop
<1>4. CASE ResendWrite(t)
  <2>1. top(t).n - 1 \in Nat
    <3>1. top(t).n > 0
      BY <1>0, <1>1, <1>4 DEF FrameFits, ResendWrite, At
    <3> QED
      BY <1>1, <3>1
  <2>2. PICK r \in Int : r = Out3(top(t).fd)
    BY Out3Is, ResultsAre
  <2>3. \/ GotoPc(t, "close") /\ UNCHANGED ret
        \/ ResendNext(t, top(t).n - 1)
        \/ Return(t, r)
    BY <1>4, <2>2 DEF ResendWrite
  <2>4. CASE GotoPc(t, "close") /\ UNCHANGED ret
    BY <1>0, <1>1, <2>4, RunsTo DEF Pcs, RetOthers
  <2> QED
    BY <1>0, <1>1, <2>1, <2>2, <2>3, <2>4, NextRuns, RunsReturn
<1>5. CASE ResendClose(t)
  BY <1>0, <1>1, <1>5, RunsTo DEF Pcs, RetOthers, ResendClose
<1>6. CASE ResendClosed(t)
  BY <1>0, <1>1, <1>6, RunsReturn, ResultsAre DEF ResendClosed
<1> QED
  BY <1>0, <1>2, <1>3, <1>4, <1>5, <1>6 DEF dlt_user_log_resend_buffer

(* dlt_user_log_send_register: in the end the message is written or given  *)
(* to dlt_user_log_out_error_handling.                                     *)
LEMMA RegisterRuns ==
  ASSUME IInv, NEW t \in Thread, dlt_user_log_send_register(t)
  PROVE  Runs(t) /\ top(t).fn = "send_register"
<1>0. At(t, "send_register", top(t).pc) /\ stack[t] # <<>> /\ top(t).fn = "send_register"
  BY DEF dlt_user_log_send_register, RegisterStart, RegisterWrite, At
<1>1. /\ StackType /\ Shape /\ ret \in [Thread -> Int] /\ top(t) \in Frames /\ top(t).m \in Msg
      /\ dlt_log_handle \in Fds \cup {NONE}
  BY <1>0, StartsFrom
<1>2. ASSUME NEW m \in Msg, m.kind = top(t).m.kind, TailCall(t, Frame("error_handling", m))
      PROVE  Runs(t)
  <2>1. PICK f \in Frames : f = Frame("error_handling", m) /\ f.fn = "error_handling" /\ f.m = m /\ f.res = OK
    BY NewFrame DEF Fns
  <2>2. Goto(t, f) /\ RetOthers(t)
    BY <1>2, <2>1 DEF TailCall, RetOthers
  <2>3. Resumes(top(t), f) /\ Sane(top(t), f)
    BY <1>0, <1>2, <2>1 DEF Resumes, Sane
  <2> QED
    BY <1>0, <1>1, <2>2, <2>3, RunsGoto
<1>3. CASE RegisterStart(t)
  <2>1. CASE Goto(t, [top(t) EXCEPT !.pc = "write", !.fd = dlt_log_handle]) /\ UNCHANGED ret
    <3>1. PICK f : f = [top(t) EXCEPT !.pc = "write", !.fd = dlt_log_handle]
      OBVIOUS
    <3>2. f \in Frames /\ f.fn = top(t).fn /\ f.m = top(t).m
      BY <1>1, <3>1 DEF Frames, Pcs
    <3>3. Goto(t, f) /\ RetOthers(t)
      BY <2>1, <3>1 DEF RetOthers
    <3>4. Resumes(top(t), f) /\ Sane(top(t), f)
      BY <1>0, <3>2 DEF Resumes, Sane
    <3> QED
      BY <1>0, <1>1, <3>2, <3>3, <3>4, RunsGoto
  <2>2. CASE top(t).m.kind = "context" /\ TailCall(t, Frame("error_handling", ContextMsg))
    <3>1. PICK m \in Msg : m = ContextMsg /\ m.kind = "context"
      BY ControlMessages
    <3>2. TailCall(t, Frame("error_handling", m)) /\ m.kind = top(t).m.kind
      BY <2>2, <3>1
    <3> QED
      BY <1>0, <1>2, <3>1, <3>2
  <2>3. CASE Return(t, ERROR)
    BY <1>0, <1>1, <2>3, RunsReturn, ResultsAre
  <2> QED
    BY <1>3, <2>1, <2>2, <2>3 DEF RegisterStart
<1>4. CASE RegisterWrite(t)
  <2>1. Return(t, OK) \/ TailCall(t, Frame("error_handling", top(t).m))
    BY <1>4 DEF RegisterWrite
  <2> QED
    BY <1>0, <1>1, <1>2, <2>1, RunsReturn, ResultsAre
<1> QED
  BY <1>0, <1>3, <1>4 DEF dlt_user_log_send_register

(* dlt_user_log_reattach_to_daemon.                                        *)
LEMMA ReattachRuns ==
  ASSUME IInv, NEW t \in Thread, dlt_user_log_reattach_to_daemon(t)
  PROVE  Runs(t) /\ top(t).fn = "reattach"
<1>0. At(t, "reattach", top(t).pc) /\ stack[t] # <<>> /\ top(t).fn = "reattach"
  BY DEF dlt_user_log_reattach_to_daemon, ReattachOpen, ReattachOpened, ReattachContexts, ReattachResend, At
<1>1. /\ StackType /\ Shape /\ ret \in [Thread -> Int] /\ top(t) \in Frames /\ top(t).m \in Msg
      /\ dlt_log_handle \in Fds \cup {NONE}
  BY <1>0, StartsFrom
<1>2. CASE ReattachOpen(t)
  <2> DEFINE free == {f \in Fds : fds[f] = CLOSED}
  <2>0. PICK fd : fd = CHOOSE f \in free : \A g \in free : f <= g
    OBVIOUS
  <2>1. \/ fd \in Fds /\ Goto(t, [top(t) EXCEPT !.pc = "opened", !.fd = fd]) /\ UNCHANGED ret
        \/ Return(t, OK)
    <3>1. free # {} => fd \in Fds
      <4>1. free \subseteq Fds
        OBVIOUS
      <4> HIDE DEF free
      <4> QED
        BY <2>0, <4>1, LowestFd
    <3>2. \/ free # {} /\ UNCHANGED ret /\ Goto(t, [top(t) EXCEPT !.pc = "opened", !.fd = fd])
          \/ Return(t, OK)
      BY <1>2, <2>0 DEF ReattachOpen
    <3> HIDE DEF free
    <3> QED
      BY <3>1, <3>2
  <2>2. CASE fd \in Fds /\ Goto(t, [top(t) EXCEPT !.pc = "opened", !.fd = fd]) /\ UNCHANGED ret
    <3>1. PICK f : f = [top(t) EXCEPT !.pc = "opened", !.fd = fd]
      OBVIOUS
    <3>2. f \in Frames /\ f.fn = top(t).fn /\ f.m = top(t).m
      BY <1>1, <2>2, <3>1 DEF Frames, Pcs
    <3>3. Goto(t, f) /\ RetOthers(t)
      BY <2>2, <3>1 DEF RetOthers
    <3>4. Resumes(top(t), f) /\ Sane(top(t), f)
      BY <1>0, <3>2 DEF Resumes, Sane
    <3> QED
      BY <1>0, <1>1, <3>2, <3>3, <3>4, RunsGoto
  <2> QED
    BY <1>0, <1>1, <2>1, <2>2, RunsReturn, ResultsAre
<1>3. CASE ReattachOpened(t)
  <2>1. PICK f0 \in Frames : f0 = Frame("reattach", AppMsg) /\ f0.fn = "reattach" /\ f0.m = AppMsg
    BY ControlMessages, NewFrame DEF Fns
  <2>2. PICK f : f = [f0 EXCEPT !.pc = "application"]
    OBVIOUS
  <2>3. f \in Frames /\ f.fn = "reattach" /\ f.pc = "application" /\ f.m = AppMsg
    BY <2>1, <2>2 DEF Frames, Pcs
  <2>4. PICK g \in Frames : /\ g = Frame("send_register", AppMsg) /\ g.fn = "send_register" /\ g.m = AppMsg
                            /\ g.pc = "start" /\ g.res = OK
    BY ControlMessages, NewFrame DEF Fns
  <2>5. stack' = [stack EXCEPT ![t] = Front(@) \o <<f, g>>] /\ RetOthers(t)
    BY <1>3, <2>1, <2>2, <2>4 DEF ReattachOpened, RetOthers
  <2>6. StackType' /\ Others(t) /\ Pushes(t, f, g)
    BY <1>0, <1>1, <2>3, <2>5, FrontPushes
  <2>7. Resumes(top(t), f) /\ Sane(top(t), f) /\ Calls(f, g) /\ g.m.kind # "unapp"
    BY <1>0, <2>3, <2>4, ControlMessages DEF Resumes, Sane, Calls
  <2> QED
    BY <1>0, <2>3, <2>4, <2>5, <2>6, <2>7 DEF Runs
<1>4. CASE ReattachContexts(t)
  <2>1. CASE Call(t, "context", Frame("send_register", ContextMsg)) /\ UNCHANGED ret
    <3>1. \A f, g : f.fn = "reattach" /\ f.pc = "context" /\ g.fn = "send_register" /\ g.m = ContextMsg => Calls(f, g)
      BY ControlMessages DEF Calls
    <3>2. "context" \in Pcs /\ "send_register" \in Fns
      BY DEF Pcs, Fns
    <3>3. RetOthers(t)
      BY <2>1 DEF RetOthers
    <3> QED
      BY <1>0, <1>1, <2>1, <3>1, <3>2, <3>3, RunsCall, ControlMessages
  <2> QED
    BY <1>0, <1>1, <1>4, <2>1, RunsReturn, ResultsAre DEF ReattachContexts
<1>5. CASE ReattachResend(t)
  <2>1. CASE TailCall(t, Frame("resend_buffer", ContextMsg))
    <3>1. PICK f \in Frames : f = Frame("resend_buffer", ContextMsg) /\ f.fn = "resend_buffer" /\ f.m = ContextMsg
      BY ControlMessages, NewFrame DEF Fns
    <3>2. Goto(t, f) /\ RetOthers(t)
      BY <2>1, <3>1 DEF TailCall, RetOthers
    <3>3. Resumes(top(t), f) /\ Sane(top(t), f)
      BY <1>0, <3>1, ControlMessages DEF Resumes, Sane
    <3> QED
      BY <1>0, <1>1, <3>2, <3>3, RunsGoto
  <2> QED
    BY <1>0, <1>1, <1>5, <2>1, RunsReturn, ResultsAre DEF ReattachResend
<1> QED
  BY <1>0, <1>2, <1>3, <1>4, <1>5 DEF dlt_user_log_reattach_to_daemon

(* dlt_user_log_send_overflow.                                             *)
LEMMA OverflowRuns ==
  ASSUME IInv, NEW t \in Thread, dlt_user_log_send_overflow(t)
  PROVE  /\ Runs(t) /\ top(t).fn = "send_overflow"
         /\ OverflowRead(t) => top(t)'.fn = "send_overflow" /\ top(t)'.pc = "write" /\ top(t)'.n = overflow_counter
         /\ OverflowWrite(t) => Pops(t) \/ (/\ top(t)'.fn = "send_overflow" /\ top(t)'.pc = "reset"
                                            /\ top(t)'.n = top(t).n /\ stack'[t] # <<>>)
         /\ OverflowReset(t) => Pops(t)
<1>0. At(t, "send_overflow", top(t).pc) /\ stack[t] # <<>> /\ top(t).fn = "send_overflow"
  BY DEF dlt_user_log_send_overflow, OverflowRead, OverflowWrite, OverflowReset, At
<1>1. /\ StackType /\ Shape /\ ret \in [Thread -> Int] /\ top(t) \in Frames /\ top(t).m \in Msg
      /\ dlt_log_handle \in Fds \cup {NONE} /\ overflow_counter \in Nat
  BY <1>0, StartsFrom
<1>2. CASE OverflowRead(t)
  <2>1. PICK f : f = [top(t) EXCEPT !.pc = "write", !.fd = dlt_log_handle, !.n = overflow_counter]
    OBVIOUS
  <2>2. f \in Frames /\ f.fn = top(t).fn /\ f.m = top(t).m /\ f.pc = "write" /\ f.n = overflow_counter
    BY <1>1, <2>1 DEF Frames, Pcs
  <2>3. Goto(t, f) /\ RetOthers(t)
    BY <1>2, <2>1 DEF OverflowRead, RetOthers
  <2>4. Resumes(top(t), f) /\ Sane(top(t), f)
    BY <1>0, <2>2 DEF Resumes, Sane
  <2>5. Runs(t) /\ top(t)' = f
    BY <1>0, <1>1, <2>2, <2>3, <2>4, RunsGoto
  <2> QED
    BY <1>0, <1>2, <2>2, <2>5 DEF OverflowRead, OverflowWrite, OverflowReset, At
<1>3. CASE OverflowWrite(t)
  <2>1. PICK r \in Int : r = Out2(top(t).fd)
    BY Out3Is, ResultsAre
  <2>2. (GotoPc(t, "reset") /\ UNCHANGED ret) \/ Return(t, r)
    BY <1>3, <2>1 DEF OverflowWrite
  <2>3. CASE GotoPc(t, "reset") /\ UNCHANGED ret
    <3>1. RetOthers(t) /\ "reset" \in Pcs /\ top(t).fn # "error_handling"
      BY <1>0, <2>3 DEF RetOthers, Pcs
    <3>2. /\ Runs(t) /\ stack'[t] # <<>> /\ top(t)'.fn = top(t).fn /\ top(t)'.pc = "reset"
          /\ top(t)'.n = top(t).n
      BY <1>0, <1>1, <2>3, <3>1, RunsTo
    <3> QED
      BY <1>0, <1>3, <3>2 DEF OverflowRead, OverflowWrite, OverflowReset, At
  <2>4. CASE Return(t, r)
    <3>1. Runs(t) /\ Pops(t)
      BY <1>0, <1>1, <2>4, RunsReturn
    <3> QED
      BY <1>0, <1>3, <3>1 DEF OverflowRead, OverflowWrite, OverflowReset, At
  <2> QED
    BY <2>2, <2>3, <2>4
<1>4. CASE OverflowReset(t)
  <2>1. Runs(t) /\ Pops(t)
    BY <1>0, <1>1, <1>4, RunsReturn, ResultsAre DEF OverflowReset
  <2> QED
    BY <1>0, <1>4, <2>1 DEF OverflowRead, OverflowWrite, OverflowReset, At
<1> QED
  BY <1>2, <1>3, <1>4 DEF dlt_user_log_send_overflow

(* The second section of dlt_user_log_out_error_handling.                  *)
LEMMA PushRuns ==
  ASSUME IInv, ErrorSound, NEW t \in Thread, ErrorPush(t)
  PROVE  /\ Runs(t) /\ Pops(t) /\ top(t).fn = "error_handling" /\ Len(stack[t]) > 1 /\ stack'[t] # <<>>
         /\ top(t)' = stack[t][Len(stack[t]) - 1] /\ Calls(top(t)', top(t))
         /\ top(t)'.pc \in Awaited => (ret'[t] = BUFFER_FULL <=> RingFull)
         /\ top(t)'.pc \in Awaited => ret'[t] \in {OK, ERROR, BUFFER_FULL}
<1>0. At(t, "error_handling", "push") /\ stack[t] # <<>> /\ top(t).fn = "error_handling"
  BY DEF ErrorPush, At
<1>1. /\ StackType /\ Shape /\ ret \in [Thread -> Int]
      /\ Len(stack[t]) > 1 => Calls(stack[t][Len(stack[t]) - 1], top(t))
  BY <1>0, StartsFrom
<1>2. PICK r : r = IF RingFull THEN BUFFER_FULL ELSE top(t).res
  OBVIOUS
<1>3. r \in {OK, ERROR, BUFFER_FULL} /\ (r = BUFFER_FULL <=> RingFull) /\ r \in Int
  <2>1. top(t).res \in {OK, ERROR}
    BY <1>0 DEF ErrorSound
  <2>2. OK # BUFFER_FULL /\ ERROR # BUFFER_FULL
    BY DEF OK, ERROR, BUFFER_FULL
  <2> QED
    BY <1>2, <2>1, <2>2, ResultsAre
<1>4. Return(t, r)
  BY <1>2 DEF ErrorPush
<1>5. Len(stack[t]) > 1
  BY <1>0, LibraryRuns DEF Callees
<1>6. /\ Runs(t) /\ Pops(t)
      /\ Len(stack[t]) > 1 /\ stack[t][Len(stack[t]) - 1].pc \in Awaited => ret'[t] = r
      /\ stack'[t] # <<>> => top(t)' = stack[t][Len(stack[t]) - 1]
      /\ stack'[t] = <<>> => Len(stack[t]) = 1
  BY <1>0, <1>1, <1>3, <1>4, RunsReturn
<1>7. Len(stack[t]) # 1
  <2>1. \A k \in Nat : k > 1 => k # 1
    OBVIOUS
  <2> QED
    BY <1>1, <1>5, <2>1, StackIs
<1> QED
  BY <1>0, <1>1, <1>3, <1>5, <1>6, <1>7

(* A call at the bottom goes on,                                           *)
LEMMA OnTo ==
  ASSUME StackType, NEW t \in Thread, stack[t] # <<>>, Len(stack[t]) = 1, NEW f \in Frames, Goto(t, f),
         RetOthers(t), f.fn = top(t).fn, f.m = top(t).m, top(t).fn # "error_handling"
  PROVE  /\ Runs(t) /\ stack'[t] # <<>> /\ Len(stack'[t]) = 1
         /\ top(t)' = f /\ Bottom(t)' = f /\ ~Pops(t)
<1>1. Resumes(top(t), f) /\ Sane(top(t), f)
  BY DEF Resumes, Sane
<1>2. Runs(t) /\ stack'[t] # <<>> /\ top(t)' = f /\ Len(stack'[t]) = Len(stack[t])
  BY <1>1, RunsGoto
<1>3. Len(stack'[t]) = 1
  BY <1>2
<1>4. Bottom(t)' = f
  BY <1>2, <1>3 DEF Bottom, top
<1>5. ~Pops(t)
  BY <1>3 DEF Pops
<1> QED
  BY <1>2, <1>3, <1>4, <1>5

(* goes on at another position,                                            *)
LEMMA OnToPc ==
  ASSUME StackType, NEW t \in Thread, stack[t] # <<>>, Len(stack[t]) = 1, NEW pc \in Pcs, GotoPc(t, pc),
         RetOthers(t), top(t).fn # "error_handling"
  PROVE  /\ Runs(t) /\ stack'[t] # <<>> /\ Len(stack'[t]) = 1 /\ ~Pops(t)
         /\ top(t)' = Bottom(t)' /\ top(t)'.fn = top(t).fn /\ top(t)'.pc = pc /\ top(t)'.m = top(t).m
<1>1. top(t) \in Frames
  BY StackIs
<1>2. PICK f \in Frames : f = [top(t) EXCEPT !.pc = pc] /\ f.fn = top(t).fn /\ f.pc = pc /\ f.m = top(t).m
  BY <1>1, FrameAt
<1>3. Goto(t, f)
  BY <1>2 DEF GotoPc
<1>4. Runs(t) /\ stack'[t] # <<>> /\ Len(stack'[t]) = 1 /\ top(t)' = f /\ Bottom(t)' = f /\ ~Pops(t)
  BY <1>2, <1>3, OnTo
<1> QED
  BY <1>2, <1>4

(* or calls another.                                                       *)
LEMMA OnCall ==
  ASSUME StackType, NEW t \in Thread, stack[t] # <<>>, Len(stack[t]) = 1, NEW pc \in Pcs, NEW fn \in Fns,
         NEW m \in Msg, Call(t, pc, Frame(fn, m)), RetOthers(t), top(t).fn # "error_handling",
         \A f, g : f.fn = top(t).fn /\ f.pc = pc /\ g.fn = fn /\ g.m = m => Calls(f, g),
         m.kind = "unapp" =>
            top(t).m.kind = "unapp" \/ (top(t).fn = "main" /\ pc \in {"clear_forced", "clear"})
  PROVE  /\ Runs(t) /\ stack'[t] # <<>> /\ Len(stack'[t]) = 2 /\ ~Pops(t)
         /\ top(t)' = Frame(fn, m) /\ top(t)'.fn = fn /\ top(t)'.pc = "start" /\ top(t)'.m = m
         /\ stack'[t][2] = top(t)'
         /\ Bottom(t)'.fn = top(t).fn /\ Bottom(t)'.pc = pc
<1>1. /\ Runs(t) /\ stack'[t] # <<>> /\ top(t)' = Frame(fn, m) /\ Len(stack'[t]) = Len(stack[t]) + 1
      /\ stack'[t][Len(stack[t])].fn = top(t).fn /\ stack'[t][Len(stack[t])].pc = pc
  BY RunsCall
<1>2. Len(stack'[t]) = 2 /\ Bottom(t)' = stack'[t][Len(stack[t])]
  BY <1>1 DEF Bottom
<1>3. ~Pops(t)
  BY <1>2 DEF Pops
<1>4. PICK g \in Frames : g = Frame(fn, m) /\ g.fn = fn /\ g.pc = "start" /\ g.m = m
  BY NewFrame
<1>5. stack'[t][2] = top(t)'
  BY <1>2 DEF top
<1> QED
  BY <1>1, <1>2, <1>3, <1>4, <1>5

(* It calls dlt_user_log_reattach_to_daemon if the handle is not open.     *)
LEMMA OnReattach ==
  ASSUME StackType, NEW t \in Thread, stack[t] # <<>>, Len(stack[t]) = 1, NEW pc \in Pcs, CallReattach(t, pc),
         RetOthers(t), top(t).fn # "error_handling",
         \A f, g : f.fn = top(t).fn /\ f.pc = pc /\ g.fn = "reattach" => Calls(f, g)
  PROVE  /\ Runs(t) /\ stack'[t] # <<>> /\ ~Pops(t) /\ Len(stack'[t]) \in {1, 2}
         /\ Bottom(t)'.pc = pc /\ Bottom(t)'.fn = top(t).fn
         /\ \/ top(t)'.fn = "reattach" /\ top(t)'.pc = "start"
            \/ top(t)' = Bottom(t)'
<1>1. CASE GotoPc(t, pc)
  BY <1>1, OnToPc
<1>2. CASE Call(t, pc, Frame("reattach", AppMsg))
  BY <1>2, OnCall, ControlMessages DEF Fns
<1> QED
  BY <1>1, <1>2 DEF CallReattach

-----------------------------------------------------------------------------
(* The steps of dlt_user_log_send_log.                                     *)

(* It gives the message to dlt_user_log_out_error_handling.                *)
LEMMA ErrorRuns ==
  ASSUME IInv, NEW t \in Logger, NEW pc, At(t, "send_log", pc), NEW r \in Int, LogError(t, r), RetOthers(t)
  PROVE  /\ Runs(t) /\ stack'[t] # <<>> /\ Len(stack'[t]) = 2 /\ ~Pops(t)
         /\ top(t)'.fn = "error_handling" /\ top(t)'.pc = "start"
         /\ Bottom(t)'.fn = "send_log" /\ Bottom(t)'.pc = "handled"
<1>1. /\ StackType /\ t \in Thread /\ stack[t] # <<>> /\ top(t).m \in Msg /\ top(t).fn = "send_log"
      /\ Len(stack[t]) = 1
  BY LogFrom
<1>2. "send_log" \in Fns /\ "error_handling" \in Fns /\ "handled" \in Pcs
  BY DEF Fns, Pcs
<1>3. PICK g \in Frames : /\ g = Frame("error_handling", top(t).m) /\ g.res = OK
                          /\ g.fn = "error_handling" /\ g.pc = "start" /\ g.m = top(t).m
  BY <1>1, <1>2, NewFrame
<1>4. PICK e \in Frames : e = Frame("send_log", top(t).m) /\ e.fn = "send_log" /\ e.m = top(t).m
  BY <1>1, <1>2, NewFrame
<1>5. PICK f : f = [e EXCEPT !.pc = "handled", !.res = r]
  OBVIOUS
<1>6. f \in Frames /\ f.fn = "send_log" /\ f.m = top(t).m /\ f.pc = "handled"
  BY <1>2, <1>4, <1>5 DEF Frames
<1>7. stack' = [stack EXCEPT ![t] = Front(@) \o <<f, g>>]
  BY <1>3, <1>4, <1>5 DEF LogError
<1>8. StackType' /\ Others(t) /\ Pushes(t, f, g)
  BY <1>1, <1>3, <1>6, <1>7, FrontPushes
<1>9. Calls(f, g) /\ Resumes(top(t), f) /\ Sane(top(t), f) /\ (g.m.kind = "unapp" => top(t).m.kind = "unapp")
  BY <1>1, <1>3, <1>6 DEF Calls, Resumes, Sane
<1>10. Runs(t)
  BY <1>1, <1>3, <1>6, <1>8, <1>9 DEF Runs
<1>11. Len(stack'[t]) = 2 /\ stack'[t][2] = g /\ stack'[t][1] = f
  BY <1>1, <1>8 DEF Pushes
<1>12. stack'[t] # <<>>
  BY <1>8, <1>11, <1>1 DEF StackType
<1>13. ~Pops(t)
  BY <1>1, <1>11 DEF Pops
<1> QED
  BY <1>3, <1>6, <1>10, <1>11, <1>12, <1>13 DEF top, Bottom

(* Up to the write: nothing has become of the message.                     *)
LEMMA LogBefore ==
  ASSUME IInv, NEW t \in Logger, LogReattach(t) \/ LogOverflow(t) \/ LogResend(t) \/ LogOut(t) \/ LogWrite(t)
  PROVE  /\ Runs(t) /\ t \in Thread /\ Len(stack[t]) = 1 /\ top(t) = Bottom(t) /\ top(t).fn = "send_log"
         /\ Unplaced(t) /\ ~Tallies(top(t))
         /\ stack'[t] # <<>> => ~Tallies(top(t)') /\ ~Pops(t)
<1>0. /\ At(t, "send_log", top(t).pc) /\ top(t).pc \in Early
  BY DEF LogReattach, LogOverflow, LogResend, LogOut, LogWrite, At, Early
<1>1. /\ t \in Thread /\ stack[t] # <<>> /\ StackType /\ Len(stack[t]) = 1 /\ top(t) = Bottom(t)
      /\ top(t) \in Frames /\ top(t).fn = "send_log" /\ Unplaced(t) /\ top(t).m \in Msg
      /\ ret \in [Thread -> Int] /\ dlt_log_handle \in Fds \cup {NONE}
  BY <1>0, LogFrom
<1>2. ~Tallies(top(t))
  BY <1>0, <1>1 DEF Tallies, Early
<1>3. {"overflow", "resend", "out", "write"} \subseteq Pcs /\ {"send_overflow", "resend_buffer"} \subseteq Fns
  BY DEF Pcs, Fns
<1>4. PICK m \in Msg : m = top(t).m
  BY <1>1
<1> DEFINE Goal == Runs(t) /\ (stack'[t] # <<>> => ~Tallies(top(t)') /\ ~Pops(t))
<1>5. ASSUME NEW pc \in {"overflow", "resend", "out"}, GotoPc(t, pc), RetOthers(t) PROVE Goal
  <2>1. Runs(t) /\ top(t)'.fn = "send_log" /\ top(t)'.pc = pc /\ ~Pops(t)
    BY <1>1, <1>3, <1>5, OnToPc
  <2> QED
    BY <2>1 DEF Tallies
<1>6. ASSUME LogReattach(t) PROVE Goal
  <2>1. \A f, g : f.fn = top(t).fn /\ f.pc = "overflow" /\ g.fn = "reattach" => Calls(f, g)
    BY <1>1 DEF Calls
  <2>2. CallReattach(t, "overflow") /\ RetOthers(t)
    BY <1>6 DEF LogReattach, RetOthers
  <2>3. /\ Runs(t) /\ ~Pops(t) /\ Bottom(t)'.pc = "overflow" /\ Bottom(t)'.fn = "send_log"
        /\ \/ top(t)'.fn = "reattach" /\ top(t)'.pc = "start"
           \/ top(t)' = Bottom(t)'
    BY <1>1, <1>3, <2>1, <2>2, OnReattach
  <2> QED
    BY <2>3 DEF Tallies
<1>7. ASSUME LogOverflow(t) PROVE Goal
  <2>1. RetOthers(t) /\ (GotoPc(t, "resend") \/ Call(t, "resend", Frame("send_overflow", m)))
    BY <1>4, <1>7 DEF LogOverflow, RetOthers
  <2>2. CASE Call(t, "resend", Frame("send_overflow", m))
    <3>1. \A f, g : f.fn = top(t).fn /\ f.pc = "resend" /\ g.fn = "send_overflow" /\ g.m = m => Calls(f, g)
      BY <1>1 DEF Calls
    <3>2. m.kind = "unapp" => top(t).m.kind = "unapp"
      BY <1>4
    <3>3. Runs(t) /\ ~Pops(t) /\ top(t)'.pc = "start"
      BY <1>1, <1>3, <2>1, <2>2, <3>1, <3>2, OnCall
    <3> QED
      BY <3>3 DEF Tallies
  <2> QED
    BY <1>5, <2>1, <2>2
<1>8. ASSUME LogResend(t) PROVE Goal
  <2>1. RetOthers(t) /\ (GotoPc(t, "out") \/ Call(t, "out", Frame("resend_buffer", m)))
    BY <1>1, <1>4, <1>8 DEF LogResend, RetOthers
  <2>2. CASE Call(t, "out", Frame("resend_buffer", m))
    <3>1. \A f, g : f.fn = top(t).fn /\ f.pc = "out" /\ g.fn = "resend_buffer" /\ g.m = m => Calls(f, g)
      BY <1>1 DEF Calls
    <3>2. m.kind = "unapp" => top(t).m.kind = "unapp"
      BY <1>4
    <3>3. Runs(t) /\ ~Pops(t) /\ top(t)'.pc = "start"
      BY <1>1, <1>3, <2>1, <2>2, <3>1, <3>2, OnCall
    <3> QED
      BY <3>3 DEF Tallies
  <2> QED
    BY <1>5, <2>1, <2>2
<1>9. ASSUME NEW r \in Int, LogError(t, r), RetOthers(t) PROVE Goal
  <2>1. Runs(t) /\ ~Pops(t) /\ top(t)'.fn = "error_handling"
    BY <1>0, <1>9, ErrorRuns
  <2> QED
    BY <2>1 DEF Tallies
<1>10. ASSUME LogOut(t) PROVE Goal
  <2>1. PICK r \in Int : r = ret[t]
    BY <1>1
  <2>2. RetOthers(t) /\ (LogError(t, r) \/ Goto(t, [top(t) EXCEPT !.pc = "write", !.fd = dlt_log_handle]))
    BY <1>10, <2>1 DEF LogOut, RetOthers
  <2>3. CASE Goto(t, [top(t) EXCEPT !.pc = "write", !.fd = dlt_log_handle])
    <3>1. PICK f : f = [top(t) EXCEPT !.pc = "write", !.fd = dlt_log_handle]
      OBVIOUS
    <3>2. f \in Frames /\ f.fn = top(t).fn /\ f.m = top(t).m /\ f.pc = "write"
      BY <1>1, <1>3, <3>1 DEF Frames
    <3>3. Goto(t, f)
      BY <2>3, <3>1
    <3>4. Runs(t) /\ top(t)' = f /\ ~Pops(t)
      BY <1>1, <2>2, <3>2, <3>3, OnTo
    <3> QED
      BY <1>1, <3>2, <3>4 DEF Tallies
  <2> QED
    BY <1>9, <2>2, <2>3
<1>11. ASSUME LogWrite(t) PROVE Goal
  <2>1. PICK r \in Int : r = Out3(top(t).fd)
    BY Out3Is, ResultsAre
  <2>2. Return(t, OK) \/ (LogError(t, r) /\ UNCHANGED ret)
    BY <1>11, <2>1 DEF LogWrite
  <2>3. CASE Return(t, OK)
    <3>1. Runs(t) /\ stack'[t] = <<>>
      <4>1. Runs(t) /\ (stack'[t] # <<>> => Len(stack[t]) > 1)
        BY <1>1, <2>3, RunsReturn, ResultsAre
      <4> QED
        BY <1>1, <4>1
    <3> QED
      BY <3>1
  <2> QED
    BY <1>9, <2>2, <2>3 DEF RetOthers
<1> QED
  BY <1>1, <1>2, <1>6, <1>7, <1>8, <1>10, <1>11

(* After dlt_user_log_out_error_handling.                                  *)
LEMMA LogAfter ==
  ASSUME IInv, NEW t \in Logger, LogHandled(t) \/ LogCount(t) \/ LogClose(t) \/ LogClosed(t)
  PROVE  /\ Runs(t) /\ t \in Thread /\ Len(stack[t]) = 1 /\ top(t) = Bottom(t) /\ top(t).fn = "send_log"
         /\ top(t).pc \in {"handled", "count", "close", "closed"}
         /\ stack'[t] # <<>> =>
               /\ ~Pops(t) /\ top(t)'.fn = "send_log" /\ top(t)'.m = top(t).m
               /\ \/ LogHandled(t) /\ ret[t] = BUFFER_FULL /\ top(t)'.pc = "count" /\ top(t)'.n = overflow_counter
                  \/ LogHandled(t) /\ ret[t] # BUFFER_FULL /\ top(t)'.pc = "close"
                  \/ LogClose(t) /\ top(t)'.pc = "closed"
         /\ LogHandled(t) /\ stack'[t] = <<>> => ret[t] # BUFFER_FULL
         /\ LogCount(t) => stack'[t] = <<>>
<1>0. /\ At(t, "send_log", top(t).pc) /\ top(t).pc \in {"handled", "count", "close", "closed"}
      /\ LogHandled(t) => top(t).pc = "handled"
      /\ LogCount(t) => top(t).pc = "count"
  BY DEF LogHandled, LogCount, LogClose, LogClosed, At
<1>1. /\ t \in Thread /\ stack[t] # <<>> /\ StackType /\ Len(stack[t]) = 1 /\ top(t) = Bottom(t)
      /\ top(t) \in Frames /\ top(t).fn = "send_log"
      /\ ret \in [Thread -> Int] /\ overflow_counter \in Nat
  BY <1>0, LogFrom
<1>2. {"close", "closed", "count"} \subseteq Pcs
  BY DEF Pcs
<1>3. ASSUME NEW r \in Int, Return(t, r) PROVE Runs(t) /\ stack'[t] = <<>>
  <2>1. Runs(t) /\ (stack'[t] # <<>> => Len(stack[t]) > 1)
    BY <1>1, <1>3, RunsReturn
  <2> QED
    BY <1>1, <2>1
<1>4. ASSUME NEW pc \in {"close", "closed"}, GotoPc(t, pc), UNCHANGED ret
      PROVE  Runs(t) /\ stack'[t] # <<>> /\ ~Pops(t) /\ top(t)'.fn = "send_log" /\ top(t)'.m = top(t).m /\ top(t)'.pc = pc
  <2>1. RetOthers(t) /\ pc \in Pcs
    BY <1>2, <1>4 DEF RetOthers
  <2> QED
    BY <1>1, <1>4, <2>1, OnToPc
<1>5. CASE LogHandled(t)
  <2>1. PICK r \in Int : r = IF ret[t] = OK THEN OK ELSE top(t).res
    BY <1>1, ResultsAre DEF Frames
  <2>2. \/ /\ ret[t] = BUFFER_FULL /\ UNCHANGED ret
           /\ Goto(t, [top(t) EXCEPT !.pc = "count", !.n = overflow_counter])
        \/ ret[t] # BUFFER_FULL /\ GotoPc(t, "close") /\ UNCHANGED ret
        \/ ret[t] # BUFFER_FULL /\ Return(t, r)
    BY <1>5, <2>1 DEF LogHandled
  <2>3. CASE /\ ret[t] = BUFFER_FULL /\ UNCHANGED ret
             /\ Goto(t, [top(t) EXCEPT !.pc = "count", !.n = overflow_counter])
    <3>1. PICK f : f = [top(t) EXCEPT !.pc = "count", !.n = overflow_counter]
      OBVIOUS
    <3>2. f \in Frames /\ f.fn = top(t).fn /\ f.m = top(t).m /\ f.pc = "count" /\ f.n = overflow_counter
      BY <1>1, <1>2, <3>1 DEF Frames
    <3>3. Goto(t, f) /\ RetOthers(t)
      BY <2>3, <3>1 DEF RetOthers
    <3>4. Runs(t) /\ stack'[t] # <<>> /\ top(t)' = f /\ ~Pops(t)
      BY <1>1, <3>2, <3>3, OnTo
    <3> QED
      BY <1>0, <1>1, <1>5, <2>3, <3>2, <3>4 DEF LogCount, At
  <2>4. CASE ret[t] # BUFFER_FULL /\ GotoPc(t, "close") /\ UNCHANGED ret
    BY <1>0, <1>1, <1>4, <1>5, <2>4 DEF LogCount, At
  <2>5. CASE ret[t] # BUFFER_FULL /\ Return(t, r)
    BY <1>0, <1>1, <1>3, <1>5, <2>5
  <2> QED
    BY <2>2, <2>3, <2>4, <2>5
<1>6. CASE LogCount(t)
  BY <1>0, <1>1, <1>3, <1>6, ResultsAre DEF LogCount, LogHandled, At
<1>7. CASE LogClose(t)
  <2>1. GotoPc(t, "closed") /\ UNCHANGED ret /\ ~LogHandled(t) /\ ~LogCount(t)
    BY <1>7 DEF LogClose, LogHandled, LogCount, At
  <2> QED
    BY <1>0, <1>1, <1>4, <1>7, <2>1
<1>8. CASE LogClosed(t)
  BY <1>0, <1>1, <1>3, <1>8, ResultsAre DEF LogClosed, LogHandled, LogCount, At
<1> QED
  BY <1>5, <1>6, <1>7, <1>8

-----------------------------------------------------------------------------
(* The steps of the housekeeper itself.                                    *)
LEMMA HousekeeperRuns ==
  ASSUME IInv, HousekeeperReattach \/ HousekeeperResend
  PROVE  /\ Runs(housekeeper) /\ Len(stack[housekeeper]) = 1 /\ top(housekeeper).fn = "housekeeper"
         /\ stack'[housekeeper] # <<>> /\ ~Pops(housekeeper) /\ ~Tallies(top(housekeeper)')
<1> DEFINE t == housekeeper
<1>1. t \in Thread /\ t # main /\ t \notin Logger
  BY Threads
<1>2. stack[t] # <<>> /\ StackType /\ Len(stack[t]) = 1 /\ top(t).fn = "housekeeper"
  BY <1>1, StartsFrom, ShapeIs DEF HousekeeperReattach, HousekeeperResend, At
<1>3. \A f, g : f.fn = top(t).fn /\ g.fn \in {"reattach", "resend_buffer"} => Calls(f, g)
  BY <1>2 DEF Calls
<1>4. "sleep" \in Pcs /\ "resend" \in Pcs /\ "resend_buffer" \in Fns /\ RetOthers(t) /\ AppMsg \in Msg
      /\ AppMsg.kind # "unapp"
  BY ControlMessages DEF Pcs, Fns, HousekeeperReattach, HousekeeperResend, RetOthers
<1>5. CASE HousekeeperReattach
  <2>1. /\ Runs(t) /\ stack'[t] # <<>> /\ ~Pops(t) /\ Bottom(t)'.fn = "housekeeper"
        /\ \/ top(t)'.fn = "reattach" /\ top(t)'.pc = "start"
           \/ top(t)' = Bottom(t)'
    BY <1>1, <1>2, <1>3, <1>4, <1>5, OnReattach DEF HousekeeperReattach
  <2> QED
    BY <1>2, <2>1 DEF Tallies
<1>6. CASE HousekeeperResend
  <2>1. CASE GotoPc(t, "sleep")
    <3>1. Runs(t) /\ stack'[t] # <<>> /\ ~Pops(t) /\ top(t)'.fn = "housekeeper"
      BY <1>1, <1>2, <1>4, <2>1, OnToPc
    <3> QED
      BY <1>2, <3>1 DEF Tallies
  <2>2. CASE Call(t, "sleep", Frame("resend_buffer", AppMsg))
    <3>1. Runs(t) /\ stack'[t] # <<>> /\ ~Pops(t) /\ top(t)'.fn = "resend_buffer"
      BY <1>1, <1>2, <1>3, <1>4, <2>2, OnCall
    <3> QED
      BY <1>2, <3>1 DEF Tallies
  <2> QED
    BY <1>6, <2>1, <2>2 DEF HousekeeperResend
<1> QED
  BY <1>5, <1>6

-----------------------------------------------------------------------------
(* The steps of the thread that sets up logging and later exits.           *)

(* It goes on at pc,                                                       *)
LEMMA MainToPc ==
  ASSUME IInv, NEW old, At(main, "main", old), NEW pc \in Pcs, GotoPc(main, pc), RetOthers(main)
  PROVE  /\ Runs(main) /\ stack'[main] # <<>> /\ ~Pops(main) /\ ~Tallies(top(main)')
         /\ Bottom(main).pc = old /\ Bottom(main)'.pc = pc /\ top(main)'.fn = "main"
<1>1. /\ main \in Thread /\ StackType /\ stack[main] # <<>> /\ Len(stack[main]) = 1
      /\ top(main) = Bottom(main) /\ top(main).fn = "main"
  BY MainFrom
<1>2. /\ Runs(main) /\ stack'[main] # <<>> /\ ~Pops(main)
      /\ top(main)' = Bottom(main)' /\ top(main)'.fn = "main" /\ top(main)'.pc = pc
  BY <1>1, OnToPc
<1> QED
  BY <1>1, <1>2 DEF Tallies, At

(* goes on with another number of rounds,                                  *)
LEMMA MainTo ==
  ASSUME IInv, NEW old, At(main, "main", old), RetOthers(main),
         NEW f \in Frames, f.fn = top(main).fn, f.m = top(main).m, Goto(main, f)
  PROVE  /\ Runs(main) /\ stack'[main] # <<>> /\ ~Pops(main) /\ ~Tallies(top(main)')
         /\ Bottom(main).pc = old /\ Bottom(main)'.pc = f.pc
<1>1. /\ main \in Thread /\ StackType /\ stack[main] # <<>> /\ Len(stack[main]) = 1
      /\ top(main) = Bottom(main) /\ top(main).fn = "main"
  BY MainFrom
<1>2. Runs(main) /\ stack'[main] # <<>> /\ ~Pops(main) /\ top(main)' = f /\ Bottom(main)' = f
  BY <1>1, OnTo
<1> QED
  BY <1>1, <1>2 DEF Tallies, At

(* or calls a function of the library.                                     *)
LEMMA MainCallRuns ==
  ASSUME IInv, NEW old, At(main, "main", old), NEW pc \in Pcs, pc \notin {"start", "join", "release"},
         NEW fn \in Callees, NEW m \in Msg, Call(main, pc, Frame(fn, m)), RetOthers(main),
         fn \in {"send_register", "error_handling"} => m.kind \in {"app", "context", "unapp"},
         m.kind = "unapp" => pc \in {"clear_forced", "clear"}
  PROVE  /\ Runs(main) /\ stack'[main] # <<>> /\ ~Pops(main) /\ ~Tallies(top(main)')
         /\ Bottom(main).pc = old /\ Bottom(main)'.pc = pc
         /\ top(main)'.fn = fn /\ top(main)'.pc = "start" /\ top(main)'.m = m
<1>1. /\ main \in Thread /\ StackType /\ stack[main] # <<>> /\ Len(stack[main]) = 1
      /\ top(main) = Bottom(main) /\ top(main).fn = "main"
  BY MainFrom
<1>2. fn \in Fns
  BY DEF Fns, Callees
<1>3. \A f, g : f.fn = top(main).fn /\ f.pc = pc /\ g.fn = fn /\ g.m = m => Calls(f, g)
  BY <1>1 DEF Calls, Callees
<1>4. /\ Runs(main) /\ stack'[main] # <<>> /\ ~Pops(main)
      /\ top(main)'.fn = fn /\ top(main)'.pc = "start" /\ top(main)'.m = m /\ Bottom(main)'.pc = pc
  BY <1>1, <1>2, <1>3, OnCall
<1> QED
  BY <1>1, <1>4 DEF Tallies, At

(* The order of its positions, as far as it matters here.                  *)
Leaving == {"unregister", "clear", "free", "join", "release"}
Proceeds(p, q) ==
    /\ q # "start"
    /\ q = "registered" => p = "start"
    /\ q = "add_context" => p = "registered"
    /\ q = "run" => p = "add_context"
    /\ p \in Leaving => q \in Leaving
    /\ q \in Leaving => p \in Leaving \cup {"recount"}

(* What each step of main does to its calls: from "start" and from         *)
(* "add_context" it registers.                                             *)
LEMMA MainRuns ==
  ASSUME IInv, MainThread
  PROVE  /\ Runs(main) /\ Len(stack[main]) = 1 /\ top(main) = Bottom(main) /\ top(main).fn = "main"
         /\ stack'[main] # <<>> =>
               /\ ~Pops(main) /\ ~Tallies(top(main)') /\ Proceeds(Bottom(main).pc, Bottom(main)'.pc)
               /\ Bottom(main)'.pc = "registered" => top(main)'.fn = "send_register" /\ top(main)'.m = AppMsg
               /\ Bottom(main)'.pc = "run" => top(main)'.fn = "send_register" /\ top(main)'.m = ContextMsg
<1> DEFINE Goal == stack'[main] # <<>> =>
               /\ ~Pops(main) /\ ~Tallies(top(main)') /\ Proceeds(Bottom(main).pc, Bottom(main)'.pc)
               /\ Bottom(main)'.pc = "registered" => top(main)'.fn = "send_register" /\ top(main)'.m = AppMsg
               /\ Bottom(main)'.pc = "run" => top(main)'.fn = "send_register" /\ top(main)'.m = ContextMsg
<1>0. PICK old : At(main, "main", old)
  BY DEF MainThread, dlt_register_app, dlt_register_context, MainExit, dlt_unregister_app_flush_buffered_logs,
         dlt_unregister_app_util, dlt_user_atexit_handler, ExitCount, BlowOut, BlowOverflow, BlowResend,
         BlownOut, ExitRecount, dlt_free, FreeStart, FreeClose, FreeBuffer
<1>1. /\ main \in Thread /\ StackType /\ stack[main] # <<>> /\ Len(stack[main]) = 1
      /\ top(main) = Bottom(main) /\ top(main).fn = "main" /\ top(main).n \in Nat /\ ret \in [Thread -> Int]
  BY <1>0, MainFrom
<1>2. ASSUME NEW p, At(main, "main", p), NEW q \in Pcs, GotoPc(main, q), UNCHANGED ret,
             Proceeds(p, q), q \notin {"registered", "run"}
      PROVE  Runs(main) /\ Goal
  <2>1. RetOthers(main)
    BY <1>2 DEF RetOthers
  <2> QED
    BY <1>2, <2>1, MainToPc
<1>3. ASSUME NEW p, At(main, "main", p), NEW q \in Pcs, q \notin {"start", "join", "release"},
             NEW fn \in Callees, NEW m \in Msg, Call(main, q, Frame(fn, m)), UNCHANGED ret,
             fn \in {"send_register", "error_handling"} => m.kind \in {"app", "context", "unapp"},
             m.kind = "unapp" => q \in {"clear_forced", "clear"},
             Proceeds(p, q), q = "registered" => fn = "send_register" /\ m = AppMsg,
             q = "run" => fn = "send_register" /\ m = ContextMsg
      PROVE  Runs(main) /\ Goal
  <2>1. RetOthers(main)
    BY <1>3 DEF RetOthers
  <2> QED
    BY <1>3, <2>1, MainCallRuns
<1>4. ASSUME dlt_register_app PROVE Runs(main) /\ Goal
  <2>1. CASE /\ At(main, "main", "start") /\ Call(main, "registered", Frame("send_register", AppMsg))
             /\ UNCHANGED ret
    BY <1>3, <2>1, MainPcs, ControlMessages DEF Proceeds, Leaving
  <2>2. CASE /\ At(main, "main", "registered") /\ Call(main, "add_context", Frame("resend_buffer", AppMsg))
             /\ UNCHANGED ret
    BY <1>3, <2>2, MainPcs, ControlMessages DEF Proceeds, Leaving
  <2>3. CASE At(main, "main", "registered") /\ GotoPc(main, "add_context") /\ UNCHANGED ret
    BY <1>2, <2>3, MainPcs DEF Proceeds, Leaving
  <2> QED
    BY <1>4, <2>1, <2>2, <2>3 DEF dlt_register_app
<1>5. ASSUME dlt_register_context PROVE Runs(main) /\ Goal
  BY <1>3, <1>5, MainPcs, ControlMessages DEF Proceeds, Leaving, dlt_register_context
<1>6. ASSUME MainExit PROVE Runs(main) /\ Goal
  <2>1. PICK pc \in {"flush", "atexit"} : GotoPc(main, pc) /\ At(main, "main", "run") /\ UNCHANGED ret
    BY <1>6 DEF MainExit
  <2> QED
    BY <1>2, <2>1, MainPcs DEF Proceeds, Leaving
<1>7. ASSUME dlt_unregister_app_flush_buffered_logs PROVE Runs(main) /\ Goal
  <2>1. CASE /\ At(main, "main", "flush") /\ Call(main, "flushed", Frame("resend_buffer", AppMsg))
             /\ UNCHANGED ret
    BY <1>3, <2>1, MainPcs, ControlMessages DEF Proceeds, Leaving
  <2>2. CASE At(main, "main", "flush") /\ GotoPc(main, "forced") /\ UNCHANGED ret
    BY <1>2, <2>2, MainPcs DEF Proceeds, Leaving
  <2>3. ASSUME NEW pc \in {"flush", "forced"}, At(main, "main", "flushed"), GotoPc(main, pc), UNCHANGED ret
        PROVE  Runs(main) /\ Goal
    BY <1>2, <2>3, MainPcs DEF Proceeds, Leaving
  <2> QED
    BY <1>7, <2>1, <2>2, <2>3 DEF dlt_unregister_app_flush_buffered_logs
<1>8. ASSUME dlt_unregister_app_util PROVE Runs(main) /\ Goal
  <2>1. PICK force \in BOOLEAN :
         \/ /\ At(main, "main", IF force THEN "forced" ELSE "unregister") /\ UNCHANGED ret
            /\ Call(main, IF force THEN "clear_forced" ELSE "clear", Frame("send_register", UnregisterMsg))
         \/ /\ At(main, "main", IF force THEN "clear_forced" ELSE "clear") /\ UNCHANGED ret
            /\ GotoPc(main, IF force THEN "atexit" ELSE "free")
    BY <1>8 DEF dlt_unregister_app_util
  <2>2. CASE force
    <3>1. CASE At(main, "main", "forced") /\ UNCHANGED ret /\ Call(main, "clear_forced", Frame("send_register", UnregisterMsg))
      BY <1>3, <3>1, MainPcs, ControlMessages DEF Proceeds, Leaving
    <3>2. CASE At(main, "main", "clear_forced") /\ UNCHANGED ret /\ GotoPc(main, "atexit")
      BY <1>2, <3>2, MainPcs DEF Proceeds, Leaving
    <3> QED
      BY <2>1, <2>2, <3>1, <3>2
  <2>3. CASE ~force
    <3>1. CASE At(main, "main", "unregister") /\ UNCHANGED ret /\ Call(main, "clear", Frame("send_register", UnregisterMsg))
      BY <1>3, <3>1, MainPcs, ControlMessages DEF Proceeds, Leaving
    <3>2. CASE At(main, "main", "clear") /\ UNCHANGED ret /\ GotoPc(main, "free")
      BY <1>2, <3>2, MainPcs DEF Proceeds, Leaving
    <3> QED
      BY <2>1, <2>3, <3>1, <3>2
  <2> QED
    BY <2>2, <2>3
<1>9. ASSUME dlt_user_atexit_handler PROVE Runs(main) /\ Goal
  <2>0. ASSUME NEW p \in {"blow_resend", "blown_out"}, At(main, "main", p), UNCHANGED ret,
               Goto(main, [top(main) EXCEPT !.pc = "blow_out", !.n = @ + 1])
        PROVE  Runs(main) /\ Goal
    <3>1. PICK f : f = [top(main) EXCEPT !.pc = "blow_out", !.n = @ + 1]
      OBVIOUS
    <3>2. f \in Frames /\ f.fn = top(main).fn /\ f.m = top(main).m /\ f.pc = "blow_out"
      <4>1. top(main) \in Frames /\ top(main).n + 1 \in Nat /\ "blow_out" \in Pcs
        BY <1>0, <1>1, MainFrom, MainPcs
      <4> QED
        BY <3>1, <4>1 DEF Frames
    <3>5. Goto(main, f) /\ RetOthers(main)
      BY <2>0, <3>1 DEF RetOthers
    <3>3. Proceeds(p, "blow_out")
      BY <2>0 DEF Proceeds, Leaving
    <3>4. /\ Runs(main) /\ stack'[main] # <<>> /\ ~Pops(main) /\ ~Tallies(top(main)')
          /\ Bottom(main).pc = p /\ Bottom(main)'.pc = "blow_out"
      BY <2>0, <3>2, <3>5, MainTo
    <3> QED
      BY <3>3, <3>4
  <2>1. CASE ExitCount
    <3>1. \E pc \in {"recount", "blow_out"} : GotoPc(main, pc) /\ At(main, "main", "atexit") /\ UNCHANGED ret
      BY <2>1 DEF ExitCount
    <3> QED
      BY <1>2, <3>1, MainPcs DEF Proceeds, Leaving
  <2>2. CASE BlowOut
    <3>1. At(main, "main", "blow_out") /\ UNCHANGED ret
      BY <2>2 DEF BlowOut
    <3>2. CASE GotoPc(main, "recount")
      BY <1>2, <3>1, <3>2, MainPcs DEF Proceeds, Leaving
    <3>3. CASE GotoPc(main, "blow_overflow")
      BY <1>2, <3>1, <3>3, MainPcs DEF Proceeds, Leaving
    <3>4. CASE Call(main, "blow_overflow", Frame("reattach", AppMsg))
      BY <1>3, <3>1, <3>4, MainPcs, ControlMessages DEF Proceeds, Leaving
    <3> QED
      BY <2>2, <3>2, <3>3, <3>4 DEF BlowOut, CallReattach
  <2>3. CASE BlowOverflow
    <3>1. At(main, "main", "blow_overflow") /\ UNCHANGED ret
      BY <2>3 DEF BlowOverflow
    <3>2. CASE GotoPc(main, "blow_resend")
      BY <1>2, <3>1, <3>2, MainPcs DEF Proceeds, Leaving
    <3>3. CASE Call(main, "blow_resend", Frame("send_overflow", AppMsg))
      BY <1>3, <3>1, <3>3, MainPcs, ControlMessages DEF Proceeds, Leaving
    <3> QED
      BY <2>3, <3>2, <3>3 DEF BlowOverflow
  <2>4. CASE BlowResend
    <3>1. At(main, "main", "blow_resend") /\ UNCHANGED ret
      BY <2>4 DEF BlowResend
    <3>2. CASE Call(main, "blown_out", Frame("resend_buffer", AppMsg))
      BY <1>3, <3>1, <3>2, MainPcs, ControlMessages DEF Proceeds, Leaving
    <3> QED
      BY <2>0, <2>4, <3>1, <3>2 DEF BlowResend
  <2>5. CASE BlownOut
    <3>1. At(main, "main", "blown_out") /\ UNCHANGED ret
      BY <2>5 DEF BlownOut
    <3>2. CASE GotoPc(main, "recount")
      BY <1>2, <3>1, <3>2, MainPcs DEF Proceeds, Leaving
    <3>3. GotoPc(main, "recount") \/ Goto(main, [top(main) EXCEPT !.pc = "blow_out", !.n = @ + 1])
      BY <2>5 DEF BlownOut, GotoPc
    <3> QED
      BY <2>0, <3>1, <3>2, <3>3
  <2>6. CASE ExitRecount
    BY <1>2, <2>6, MainPcs DEF Proceeds, Leaving, ExitRecount
  <2> QED
    BY <1>9, <2>1, <2>2, <2>3, <2>4, <2>5, <2>6 DEF dlt_user_atexit_handler
<1>10. ASSUME dlt_free PROVE Runs(main) /\ Goal
  <2>1. CASE FreeStart
    BY <1>2, <2>1, MainPcs DEF Proceeds, Leaving, FreeStart
  <2>2. CASE FreeClose
    BY <1>2, <2>2, MainPcs DEF Proceeds, Leaving, FreeClose
  <2>3. CASE FreeBuffer
    <3>1. Runs(main) /\ (stack'[main] # <<>> => Len(stack[main]) > 1)
      BY <1>1, <2>3, RunsReturn, ResultsAre DEF FreeBuffer
    <3>2. stack'[main] = <<>>
      BY <1>1, <3>1
    <3> QED
      BY <3>1, <3>2
  <2> QED
    BY <1>10, <2>1, <2>2, <2>3 DEF dlt_free
<1> QED
  BY <1>1, <1>4, <1>5, <1>6, <1>7, <1>8, <1>9, <1>10 DEF MainThread

-----------------------------------------------------------------------------
(* The steps with which threads begin and end.                             *)

(* dlt_init goes on.                                                       *)
LEMMA InitRuns ==
  ASSUME IInv, NEW t \in Thread, InitFlag(t) \/ InitCommon(t)
  PROVE  /\ t = main /\ Starting /\ Runs(main) /\ ~Pops(main) /\ stack'[main] # <<>> /\ UNCHANGED ret
         /\ Bottom(main)' = Bottom(main) /\ ~Tallies(top(main)) /\ ~Tallies(top(main)')
         /\ (\A u \in Logger : Idle(u)) /\ top(main).fn = "init" /\ top(main)'.fn = "init"
         /\ Len(stack'[main]) = Len(stack[main])
<1>1. At(t, "init", top(t).pc) /\ stack[t] # <<>> /\ top(t).fn = "init"
  BY DEF InitFlag, InitCommon, At
<1>2. t = main /\ Starting /\ (\A u \in Logger : Idle(u)) /\ (top(main).pc = "start" => ~initialised /\ ~freeing)
  BY <1>1, InitIs DEF IInv, MainSound
<1>3. StackType /\ main \in Thread
  BY <1>1, StartsFrom, Threads
<1>4. \E pc \in {"common", "connect"} : GotoPc(main, pc) /\ UNCHANGED ret
  BY <1>1, <1>2 DEF InitFlag, InitCommon, At
<1>5. {"common", "connect"} \subseteq Pcs /\ (UNCHANGED ret => RetOthers(main))
  BY DEF Pcs, RetOthers
<1>6. /\ Runs(main) /\ stack'[main] # <<>> /\ top(main)'.fn = top(main).fn
      /\ Len(stack'[main]) = Len(stack[main])
  BY <1>1, <1>2, <1>3, <1>4, <1>5, RunsTo
<1>7. Bottom(main)' = Bottom(main)
  <2>1. Len(stack[main]) > 1
    BY <1>2 DEF Starting
  <2> QED
    BY <1>3, <1>6, <2>1, RunsBelow
<1>8. ~Pops(main)
  BY <1>2, <1>6 DEF Starting, Pops
<1> QED
  BY <1>1, <1>2, <1>4, <1>6, <1>7, <1>8 DEF Tallies

(* dlt_init is done, and the housekeeper begins.                           *)
LEMMA Connected ==
  ASSUME IInv, NEW t \in Thread, InitConnect(t)
  PROVE  /\ t = main /\ Starting /\ ~Starting' /\ main \in Thread /\ housekeeper \in Thread
         /\ \A u \in Logger : stack[u] = <<>> /\ stack'[u] = <<>>
         /\ Len(stack'[main]) = 1 /\ stack'[main][1] = stack[main][1] /\ top(main)' = Bottom(main)
         /\ Bottom(main).fn = "main" /\ Bottom(main).pc = "start"
         /\ stack[housekeeper] = <<>> /\ Len(stack'[housekeeper]) = 1
         /\ top(housekeeper)' = stack'[housekeeper][1] /\ stack'[housekeeper][1].fn = "housekeeper"
         /\ stack'[housekeeper][1].m = AppMsg
<1>1. /\ At(t, "init", "connect") /\ stack' = dlt_start_threads([stack EXCEPT ![t] = Front(@)])
  BY DEF InitConnect
<1>2. /\ t = main /\ Starting /\ top(main).pc = "connect" /\ Bottom(main).pc = "start"
      /\ \A u \in Logger : Idle(u)
  BY <1>1, InitIs
<1>3. /\ main \in Thread /\ main \notin Logger /\ main # housekeeper /\ housekeeper \in Thread
      /\ StackType /\ stack[main] # <<>> /\ Len(stack[main]) = 2
      /\ Bottom(main).fn = "main" /\ stack[main] \in Seq(Frames)
  BY <1>1, <1>2, Threads, StartsFrom, ShapeIs DEF Starting, Outer, StackType
<1>4. stack[housekeeper] = <<>>
  BY <1>2 DEF IInv, MainSound, Idle
<1>5. PICK b \in Seq(Frames) : b = Front(stack[main]) /\ Len(b) = 1 /\ b[1] = stack[main][1]
  <2>1. PICK q \in Seq(Frames) : q = stack[main] /\ Len(q) = 2
    BY <1>3
  <2>2. Front(q) \in Seq(Frames) /\ Len(Front(q)) = Len(q) - 1 /\ \A k \in 1 .. Len(q) - 1 : Front(q)[k] = q[k]
    BY <2>1 DEF Front
  <2>3. Len(Front(q)) = 1 /\ Front(q)[1] = q[1]
    BY <2>1, <2>2
  <2> QED
    BY <2>1, <2>2, <2>3
<1>6. PICK h \in Frames : h = [Frame("housekeeper", AppMsg) EXCEPT !.pc = "sleep"]
                          /\ h.fn = "housekeeper" /\ h.m = AppMsg
  <2>1. "housekeeper" \in Fns /\ "sleep" \in Pcs /\ AppMsg \in Msg
    BY ControlMessages DEF Fns, Pcs
  <2>2. PICK g \in Frames : g = Frame("housekeeper", AppMsg) /\ g.fn = "housekeeper" /\ g.m = AppMsg
    BY <2>1, NewFrame
  <2>3. PICK h \in Frames : h = [g EXCEPT !.pc = "sleep"] /\ h.fn = g.fn /\ h.m = g.m
    BY <2>1, FrameAt
  <2> QED
    BY <2>2, <2>3
<1>7. PICK s \in Seq(Frames) : s = <<h>> /\ Len(s) = 1 /\ s[1] = h
  <2>1. <<h>> \in Seq(Frames) /\ Len(<<h>>) = 1 /\ <<h>>[1] = h
    OBVIOUS
  <2> QED
    BY <2>1
<1>8. stack' = [[stack EXCEPT ![main] = b] EXCEPT ![housekeeper] = s]
  BY <1>1, <1>2, <1>5, <1>6, <1>7 DEF dlt_start_threads
<1>9. /\ stack'[main] = b /\ stack'[housekeeper] = s
      /\ \A u \in Logger : stack'[u] = <<>>
  BY <1>2, <1>3, <1>8, Threads DEF StackType, Idle
<1>10. ~Starting'
  <2>1. Len(stack'[main]) = 1
    BY <1>5, <1>9
  <2> QED
    BY <2>1 DEF Starting
<1> QED
  BY <1>2, <1>3, <1>4, <1>5, <1>6, <1>7, <1>9, <1>10 DEF top, Bottom, Idle

(* pthread_cancel ends the housekeeper.                                    *)
LEMMA CancelledIs ==
  ASSUME IInv, HousekeeperCancelled
  PROVE  /\ Others(housekeeper) /\ stack'[housekeeper] = <<>> /\ At(main, "main", "join")
         /\ main # housekeeper /\ housekeeper \in Thread /\ housekeeper \notin Logger
<1>1. /\ At(main, "main", "join") /\ stack' = [stack EXCEPT ![housekeeper] = <<>>]
  BY DEF HousekeeperCancelled, Cancelled
<1>2. StackType /\ main # housekeeper /\ housekeeper \in Thread /\ housekeeper \notin Logger
  BY <1>1, MainFrom, Threads
<1>3. PICK s \in Seq(Frames) : s = <<>>
  <2>1. <<>> \in Seq(Frames)
    OBVIOUS
  <2> QED
    BY <2>1
<1>4. stack' = [stack EXCEPT ![housekeeper] = s]
  BY <1>1, <1>3
<1>5. Others(housekeeper) /\ stack'[housekeeper] = s
  BY <1>2, <1>4, OneStack
<1> QED
  BY <1>1, <1>2, <1>3, <1>5

(* A thread logs.                                                          *)
LEMMA LogsIs ==
  ASSUME IInv, NEW t \in Logger, Log(t)
  PROVE  /\ t \in Thread /\ t # main /\ Others(t) /\ stack[t] = <<>> /\ stack'[t] # <<>> /\ Len(stack'[t]) = 1
         /\ stack'[t][1].fn = "send_log" /\ stack'[t][1].pc = "start" /\ top(t)' = stack'[t][1]
         /\ stack'[t][1].m = LogMsg(t, logged[t] + 1) /\ logged[t] \in Nat
         /\ At(main, "main", "run")
<1>1. /\ Idle(t) /\ At(main, "main", "run")
      /\ stack' = [stack EXCEPT ![t] = <<Frame("send_log", LogMsg(t, logged[t] + 1))>> \o <<>>]
  BY DEF Log, IInv, TypeSound
<1>2. /\ t \in Thread /\ t # main /\ StackType /\ stack[t] = <<>>
  BY <1>1, MainFrom, Threads DEF Idle
<1>3. logged[t] \in Nat
  BY DEF IInv, TypeSound
<1>4. PICK m \in Msg : m = LogMsg(t, logged[t] + 1)
  <2>1. "log" \in Kinds /\ logged[t] + 1 \in Nat
    BY <1>3 DEF Kinds
  <2>2. LogMsg(t, logged[t] + 1) \in Msg
    BY <1>2, <2>1 DEF LogMsg, Msg
  <2> QED
    BY <2>2
<1>5. PICK f \in Frames : f = Frame("send_log", m) /\ f.fn = "send_log" /\ f.pc = "start" /\ f.m = m
  <2>1. "send_log" \in Fns
    BY DEF Fns
  <2> QED
    BY <2>1, NewFrame
<1>6. PICK s \in Seq(Frames) : s = <<f>> \o <<>> /\ Len(s) = 1 /\ s[1] = f /\ s # <<>>
  <2>1. \E q \in Seq(Frames) : q = <<f>> \o <<>> /\ Len(q) = 1 /\ q[1] = f
    <3>1. <<f>> \in Seq(Frames) /\ Len(<<f>>) = 1 /\ <<f>>[1] = f
      OBVIOUS
    <3>2. <<>> \in Seq(Frames) /\ Len(<<>>) = 0
      OBVIOUS
    <3>3. PICK p \in Seq(Frames), q \in Seq(Frames) :
             p = <<f>> /\ q = <<>> /\ Len(p) = 1 /\ p[1] = f /\ Len(q) = 0
      BY <3>1, <3>2
    <3>4. p \o q \in Seq(Frames) /\ Len(p \o q) = 1 /\ (p \o q)[1] = f
      <4>1. 1 \in 1 .. Len(p) /\ Len(p) + Len(q) = 1
        BY <3>3
      <4> QED
        BY <3>3, <4>1, ConcatSeq
    <3>5. p = <<f>> /\ q = <<>>
      BY <3>3, Zenon
    <3>6. p \o q = <<f>> \o <<>>
      BY <3>5, Zenon
    <3> QED
      BY <3>4, <3>6, Zenon
  <2>2. \A q \in Seq(Frames) : Len(q) = 1 => q # <<>>
    <3>1. Len(<<>>) # 1
      OBVIOUS
    <3> QED
      BY <3>1, Zenon
  <2> QED
    BY <2>1, <2>2
<1>7. Others(t) /\ stack'[t] = s
  BY <1>1, <1>2, <1>4, <1>5, <1>6, OneStack
<1> QED
  BY <1>1, <1>2, <1>3, <1>4, <1>5, <1>6, <1>7 DEF top

(* dlt_free is done.                                                       *)
LEMMA FreedIs ==
  ASSUME IInv, FreeBuffer
  PROVE  \A u \in Thread : stack'[u] = <<>>
<1>1. At(main, "main", "release") /\ Return(main, OK)
  BY DEF FreeBuffer
<1>2. /\ main \in Thread /\ main \notin Logger /\ main # housekeeper /\ housekeeper \in Thread
      /\ StackType /\ stack[main] # <<>> /\ Len(stack[main]) = 1 /\ ret \in [Thread -> Int]
      /\ (\A u \in Logger : Idle(u)) /\ MainIs("release")
  BY <1>1, MainFrom
<1>3. /\ Runs(main) /\ (stack'[main] # <<>> => Len(stack[main]) > 1)
  BY <1>1, <1>2, RunsReturn, ResultsAre
<1>4. stack'[main] = <<>> /\ Others(main)
  BY <1>2, <1>3 DEF Runs
<1>5. Idle(housekeeper)
  BY <1>2 DEF IInv, MainSound
<1> QED
  BY <1>2, <1>4, <1>5, Threads DEF Others, Idle

-----------------------------------------------------------------------------
(* While one thread logs, the losses reported and those counted since, as  *)
(* long as the count is not about to be reset, are the log messages the    *)
(* full buffer refused, except the one whose thread has yet to count it.   *)
AloneLogs == Cardinality({t \in Logger : scenario.limit[t] > 0}) <= 1
CountFits(t) == stack[t] # <<>> =>
    /\ top(t).fn = "send_overflow" /\ top(t).pc \in {"write", "reset"} => top(t).n = overflow_counter
    /\ top(t).fn = "send_log" /\ top(t).pc = "count" => top(t).n = overflow_counter /\ top(t).m \in dropped
    /\ top(t).fn = "send_log" /\ top(t).pc = "handled" => (ret[t] = BUFFER_FULL <=> top(t).m \in dropped)
    /\ top(t).fn = "send_log" /\ top(t).pc \in {"close", "closed"} => top(t).m \notin dropped
Counted == dropped \ Uncounted
CountSound ==
    /\ IsFiniteSet(dropped)
    /\ Starting => overflow_counter = 0
    /\ AloneLogs => /\ \A t \in Thread : CountFits(t)
                    /\ reported + (IF BeingReset = {} THEN overflow_counter ELSE 0) = Cardinality(Counted)

(* The functions of the threads themselves are at the bottom.              *)
LEMMA AtBottom ==
  ASSUME StackType, Shape, NEW t \in Thread, NEW k \in 1 .. Len(stack[t]),
         stack[t][k].fn \in {"main", "housekeeper", "send_log"}
  PROVE  k = 1 /\ stack[t][k] = Bottom(t) /\ Bottom(t).fn = Outer(t)
<1>1. PICK n \in Nat : n = Len(stack[t])
  BY StackIs
<1>2. k = 1
  <2>1. SUFFICES ASSUME k # 1 PROVE FALSE
    OBVIOUS
  <2>2. PICK j \in 1 .. n - 1 : j + 1 = k
    <3>1. k - 1 \in 1 .. n - 1 /\ (k - 1) + 1 = k
      BY <1>1, <2>1
    <3> QED
      BY <3>1
  <2>3. Calls(stack[t][j], stack[t][k])
    BY <1>1, <2>2 DEF Shape
  <2> QED
    BY <2>3 DEF Calls
<1>3. stack[t] # <<>>
  BY <1>1, StackIs
<1> QED
  BY <1>2, <1>3 DEF Bottom, Shape

(* The calls with the number of lost messages are those of a thread that   *)
(* logs, or of main, which is in a call of the library.                    *)
Busy(t) == (t \in Logger /\ stack[t] # <<>>) \/ (t = main /\ Len(stack[main]) > 1)

(* Only a thread that is busy carries a number of lost messages from       *)
(* overflow_counter.                                                       *)
LEMMA TalliesBusy ==
  ASSUME IInv, NEW t \in Thread, stack[t] # <<>>, Tallies(top(t))
  PROVE  Busy(t)
<1>1. StackType /\ Shape
  BY DEF IInv, TypeSound
<1>2. PICK n \in Nat \ {0} : n = Len(stack[t]) /\ (n > 1 => Calls(stack[t][n - 1], top(t)))
  BY <1>1, ShapeIs
<1>3. t \in Logger \/ t = main \/ t = housekeeper
  BY Threads
<1>4. CASE top(t).fn = "send_log"
  <2>1. n \in 1 .. Len(stack[t]) /\ stack[t][n].fn = "send_log"
    BY <1>2, <1>4 DEF top
  <2>2. Outer(t) = "send_log"
    BY <1>1, <2>1, AtBottom
  <2> QED
    BY <1>3, <2>2 DEF Outer, Busy
<1>5. CASE top(t).fn = "send_overflow"
  <2>1. n > 1
    BY <1>2, <1>5, LibraryRuns DEF Callees
  <2>2. n - 1 \in 1 .. Len(stack[t]) /\ stack[t][n - 1].fn \in {"send_log", "main"}
    <3>1. stack[t][n - 1].fn \in {"send_log", "main"}
      BY <1>2, <1>5, <2>1 DEF Calls
    <3>2. \A i \in Nat : i > 1 => i - 1 \in 1 .. i
      OBVIOUS
    <3> QED
      BY <1>2, <2>1, <3>1, <3>2
  <2>3. Outer(t) \in {"send_log", "main"}
    BY <1>1, <2>2, AtBottom
  <2> QED
    BY <1>2, <1>3, <2>1, <2>3 DEF Outer, Busy
<1> QED
  BY <1>4, <1>5 DEF Tallies

(* Of those there is one at a time.                                        *)
LEMMA OneBusy ==
  ASSUME IInv, AloneLogs, NEW t \in Thread, NEW u \in Thread, Busy(t), Busy(u)
  PROVE  t = u
<1>1. main \notin Logger
  BY Threads
<1>2. ASSUME NEW v \in Logger, stack[v] # <<>> PROVE Len(stack[main]) = 1
  BY <1>2 DEF IInv, MainSound, Idle
<1>3. CASE t \in Logger /\ u \in Logger
  <2>1. stack[t] # <<>> /\ stack[u] # <<>>
    BY <1>1, <1>3 DEF Busy
  <2> DEFINE S == {v \in Logger : scenario.limit[v] > 0}
  <2>2. t \in S /\ u \in S
    <3>1. ASSUME NEW v \in Logger, stack[v] # <<>> PROVE v \in S
      <4>1. logged[v] > 0 /\ logged[v] <= scenario.limit[v] /\ logged[v] \in Nat
        BY <3>1 DEF IInv, PlaceSound, TypeSound
      <4>2. scenario.limit[v] \in Nat
        BY UserAssumption DEF IInv, TypeSound, TypeOK, Scenario
      <4> QED
        BY <4>1, <4>2
    <3> QED
      BY <1>3, <2>1, <3>1
  <2>3. IsFiniteSet(S) /\ Cardinality(S) \in Nat
    BY UserAssumption, FS_Subset, FS_CardinalityType
  <2>4. Cardinality(S) <= 1
    BY DEF AloneLogs
  <2> HIDE DEF S
  <2>5. Cardinality(S) = 1
    <3>1. Cardinality(S) # 0
      BY <2>2, <2>3, FS_EmptySet
    <3> QED
      BY <2>3, <2>4, <3>1
  <2>6. \E x : S = {x}
    BY <2>3, <2>5, FS_Singleton
  <2> QED
    BY <2>2, <2>6
<1>4. CASE t = main /\ u \in Logger
  <2>1. Len(stack[main]) > 1 /\ stack[u] # <<>>
    BY <1>1, <1>4 DEF Busy
  <2>2. Len(stack[main]) = 1
    BY <1>2, <1>4, <2>1
  <2> QED
    BY <2>1, <2>2
<1>5. CASE t \in Logger /\ u = main
  <2>1. Len(stack[main]) > 1 /\ stack[t] # <<>>
    BY <1>1, <1>5 DEF Busy
  <2>2. Len(stack[main]) = 1
    BY <1>2, <1>5, <2>1
  <2> QED
    BY <2>1, <2>2
<1> QED
  BY <1>3, <1>4, <1>5 DEF Busy

(* So no other thread has to do with it.                                   *)
LEMMA Alone ==
  ASSUME IInv, AloneLogs, NEW t \in Thread, Busy(t)
  PROVE  /\ \A u \in Thread : u # t /\ stack[u] # <<>> => ~Tallies(top(u))
         /\ \A u \in BeingReset : u = t
<1>1. \A u \in Thread : u # t /\ stack[u] # <<>> => ~Tallies(top(u))
  BY OneBusy, TalliesBusy
<1>2. \A u \in BeingReset : u \in Thread /\ stack[u] # <<>> /\ Tallies(top(u))
  BY DEF BeingReset, At, Tallies
<1> QED
  BY <1>1, <1>2

(* The losses stay counted when nothing of it changes.                     *)
LEMMA CountKeeps ==
  ASSUME CountSound, NEW t \in Thread, Others(t), RetOthers(t),
         UNCHANGED <<scenario, overflow_counter, reported, dropped>>, Starting' => Starting,
         AloneLogs => CountFits(t)', BeingReset' = BeingReset, Uncounted' = Uncounted
  PROVE  CountSound'
<1>1. AloneLogs' <=> AloneLogs
  BY DEF AloneLogs
<1>2. ASSUME AloneLogs, NEW u \in Thread PROVE CountFits(u)'
  <2>1. CASE u = t
    BY <1>2, <2>1
  <2>2. CASE u # t
    <3>1. CountFits(u)
      BY <1>2 DEF CountSound
    <3>2. stack'[u] = stack[u] /\ ret'[u] = ret[u]
      BY <2>2 DEF Others, RetOthers
    <3> QED
      BY <3>1, <3>2 DEF CountFits, top
  <2> QED
    BY <2>1, <2>2
<1>3. Counted' = Counted
  BY DEF Counted
<1> QED
  BY <1>1, <1>2, <1>3 DEF CountSound

(* Which threads reset the count,                                          *)
LEMMA ResetSame ==
  ASSUME NEW t \in Thread, Others(t),
         At(t, "send_overflow", "reset")' <=> At(t, "send_overflow", "reset")
  PROVE  BeingReset' = BeingReset
BY DEF BeingReset, Others, At, top

(* and which losses are not counted yet.                                   *)
LEMMA UncountedSame ==
  ASSUME IInv, IInv', NEW t \in Thread, Others(t), UNCHANGED <<logged, dropped>>, stack[t] # <<>>,
         t \in Logger /\ stack'[t] = <<>> => Bottom(t).m \notin dropped
  PROVE  Uncounted' = Uncounted
<1>1. \A u \in Logger : u \in Thread
  BY Threads
<1>2. ASSUME t \in Logger, stack'[t] # <<>> PROVE stack'[t][1].m = stack[t][1].m
  BY <1>2 DEF IInv, PlaceSound, Bottom
<1>3. ASSUME NEW m \in dropped, NEW u \in Logger
      PROVE  (stack'[u] # <<>> /\ stack'[u][1].m = m) <=> (stack[u] # <<>> /\ stack[u][1].m = m)
  BY <1>1, <1>2, <1>3 DEF Others, Bottom
<1> QED
  BY <1>3 DEF Uncounted, Idle

(* A step that has nothing to do with it.                                  *)
LEMMA CountQuiet ==
  ASSUME IInv, IInv', CountSound, NEW t \in Thread, Runs(t), ~Tallies(top(t)),
         stack'[t] # <<>> => ~Tallies(top(t)'),
         UNCHANGED <<scenario, logged, overflow_counter, reported, dropped>>, Starting' => Starting,
         t \in Logger /\ stack'[t] = <<>> => Bottom(t).m \notin dropped
  PROVE  CountSound'
<1>1. Others(t) /\ RetOthers(t) /\ stack[t] # <<>>
  BY DEF Runs
<1>2. CountFits(t)'
  BY DEF CountFits, Tallies
<1>3. BeingReset' = BeingReset
  <2>1. ~At(t, "send_overflow", "reset")
    BY DEF At, Tallies
  <2>2. ~At(t, "send_overflow", "reset")'
    BY DEF At, Tallies
  <2> QED
    BY <1>1, <2>1, <2>2, ResetSame
<1>4. Uncounted' = Uncounted
  BY <1>1, UncountedSame
<1> QED
  BY <1>1, <1>2, <1>3, <1>4, CountKeeps

(* Only main can be starting, until its call of dlt_init has returned.     *)
LEMMA StartingEnds ==
  ASSUME IInv, NEW t \in Thread, Runs(t),
         t = main /\ Len(stack[main]) = 1 /\ stack'[main] # <<>> => Bottom(main)'.pc # "start"
  PROVE  Starting' => Starting
<1>1. CASE t # main
  BY <1>1, Threads DEF Runs, Others, Starting, MainIs, Bottom
<1>2. CASE t = main
  <2>1. SUFFICES ASSUME Starting', ~Starting PROVE FALSE
    OBVIOUS
  <2>2. StackType /\ Shape /\ stack[main] # <<>>
    BY <1>2 DEF IInv, TypeSound, Runs
  <2>3. PICK n \in Nat \ {0} : n = Len(stack[main]) /\ (n > 1 => Calls(Bottom(main), stack[main][2]))
    BY <1>2, <2>2, ShapeIs
  <2>4. CASE n > 1
    <3>1. Bottom(main).pc = "start"
      BY <1>2, <2>1, <2>2, <2>3, <2>4, RunsBelow DEF Starting, MainIs
    <3>2. n # 2
      BY <2>1, <2>2, <2>3, <3>1 DEF Starting, MainIs
    <3>3. stack[main][2].fn = "init"
      <4>1. Bottom(main).fn = "main"
        BY <1>2, <2>2, ShapeIs DEF Outer
      <4> QED
        BY <2>3, <2>4, <3>1, <4>1 DEF Calls
    <3>4. Calls(stack[main][2], stack[main][3])
      <4>1. \A i \in Nat \ {0} : i > 1 /\ i # 2 => 2 \in 1 .. i - 1 /\ 2 + 1 = 3
        OBVIOUS
      <4>2. 2 \in 1 .. Len(stack[main]) - 1 /\ 2 + 1 = 3
        BY <2>3, <2>4, <3>2, <4>1
      <4> QED
        BY <1>2, <2>2, <4>2 DEF Shape
    <3> QED
      BY <3>3, <3>4 DEF Calls
  <2>5. CASE n = 1
    BY <1>2, <2>1, <2>3, <2>5 DEF Starting, MainIs
  <2>6. \A i \in Nat \ {0} : i > 1 \/ i = 1
    OBVIOUS
  <2> QED
    BY <2>3, <2>4, <2>5, <2>6
<1> QED
  BY <1>1, <1>2

-----------------------------------------------------------------------------
(* A call of the library runs above another.                               *)
LEMMA Above ==
  ASSUME IInv, NEW t \in Thread, Runs(t), top(t).fn \in Callees
  PROVE  /\ Len(stack[t]) > 1 /\ Len(stack[t]) # 1 /\ stack'[t] # <<>> /\ Bottom(t)' = Bottom(t)
         /\ Starting' => Starting
<1>1. StackType /\ stack[t] # <<>> /\ Len(stack[t]) > 1
  BY LibraryRuns DEF Runs, IInv, TypeSound
<1>2. \A n \in Nat : n > 1 => n # 1
  OBVIOUS
<1>3. Len(stack[t]) # 1
  BY <1>1, <1>2, StackIs
<1> QED
  BY <1>1, <1>3, RunsBelow, StartingEnds

(* The functions that do not touch the number of lost messages.            *)
LEMMA CountPlain ==
  ASSUME IInv, IInv', CountSound, UNCHANGED scenario, NEW t \in Thread,
         \/ dlt_user_log_resend_buffer(t)
         \/ dlt_user_log_send_register(t)
         \/ dlt_user_log_reattach_to_daemon(t)
         \/ ErrorCheck(t)
  PROVE  CountSound'
<1>1. /\ Runs(t) /\ top(t).fn \in Callees
      /\ \/ top(t).fn \in {"resend_buffer", "send_register", "reattach"}
         \/ top(t).fn = "error_handling" /\ ~Pops(t)
  BY ResendRuns, RegisterRuns, ReattachRuns, CheckRuns DEF Callees, ErrorCheck, At
<1>2. ~Tallies(top(t)) /\ (stack'[t] # <<>> => ~Tallies(top(t)'))
  BY <1>1, RunsQuiet DEF IInv, TypeSound
<1>3. stack'[t] # <<>> /\ (Starting' => Starting)
  BY <1>1, Above
<1>4. UNCHANGED <<logged, overflow_counter, reported, dropped>>
  BY DEF dlt_user_log_resend_buffer, ResendStart, ResendLoop, ResendWrite, ResendClose, ResendClosed,
         dlt_user_log_send_register, RegisterStart, RegisterWrite, dlt_user_log_reattach_to_daemon,
         ReattachOpen, ReattachOpened, ReattachContexts, ReattachResend, ErrorCheck, shared, hist
<1> QED
  BY <1>1, <1>2, <1>3, <1>4, CountQuiet

(* A message is stored, or refused: then its thread has yet to count it.   *)
LEMMA CountPush ==
  ASSUME IInv, IInv', ErrorSound, CountSound, UNCHANGED scenario, NEW t \in Thread, ErrorPush(t)
  PROVE  CountSound'
<1>1. /\ Runs(t) /\ Pops(t) /\ top(t).fn = "error_handling" /\ Len(stack[t]) > 1 /\ stack'[t] # <<>>
      /\ top(t)' = stack[t][Len(stack[t]) - 1] /\ Calls(top(t)', top(t))
      /\ top(t)'.pc \in Awaited => (ret'[t] = BUFFER_FULL <=> RingFull)
  BY PushRuns
<1>2. /\ At(t, "error_handling", "push") /\ UNCHANGED <<logged, overflow_counter, reported>>
      /\ RingFull => dropped' = IF top(t).m.kind = "log" THEN dropped \cup {top(t).m} ELSE dropped
      /\ ~RingFull => dropped' = dropped
  BY DEF ErrorPush, hist, shared
<1>3. /\ top(t).m.kind = "log" =>
            t \in Logger /\ Len(stack[t]) = 2 /\ Bottom(t).pc = "handled" /\ top(t).m = Bottom(t).m
      /\ t \in Logger /\ top(t).m.kind # "log" => Len(stack[t]) > 2
  BY <1>2, PushedIs
<1>4. Starting' => Starting
  BY <1>1, Above DEF Callees
<1>5. /\ StackType /\ Shape /\ top(t) \in Frames /\ top(t).m \in Msg
      /\ Others(t) /\ RetOthers(t) /\ stack[t] # <<>> /\ Bottom(t)' = Bottom(t)
  BY <1>1, <1>2, StartsFrom, Above DEF Runs, Callees
<1>6. ~Tallies(top(t))
  BY <1>1 DEF Tallies
<1>7. CASE top(t).m.kind # "log"
  <2>1. ~Tallies(top(t)')
    <3>1. PICK n \in Nat \ {0} : n = Len(stack[t]) /\ n > 1
      BY <1>1, <1>5, StackIs
    <3>2. n - 1 \in 1 .. n /\ (n > 2 => n - 1 # 1)
      <4>1. \A i \in Nat \ {0} : i > 1 => i - 1 \in 1 .. i /\ (i > 2 => i - 1 # 1)
        OBVIOUS
      <4> QED
        BY <3>1, <4>1
    <3>3. top(t)'.fn # "send_log"
      <4>1. SUFFICES ASSUME top(t)'.fn = "send_log" PROVE FALSE
        OBVIOUS
      <4>2. n - 1 = 1 /\ Outer(t) = "send_log"
        BY <1>1, <1>5, <3>1, <3>2, <4>1, AtBottom
      <4>3. t \in Logger
        BY <4>2, Threads DEF Outer
      <4> QED
        BY <1>3, <1>7, <3>1, <3>2, <4>2, <4>3
    <3>4. top(t)'.fn # "send_overflow"
      BY <1>1 DEF Calls
    <3> QED
      BY <3>3, <3>4 DEF Tallies
  <2>2. dropped' = dropped
    BY <1>2, <1>7
  <2> QED
    BY <1>1, <1>2, <1>4, <1>6, <2>1, <2>2, CountQuiet
<1>8. CASE top(t).m.kind = "log"
  <2>1. /\ t \in Logger /\ Len(stack[t]) = 2 /\ top(t).m = Bottom(t).m /\ Bottom(t).pc = "handled"
        /\ Bottom(t).fn = "send_log"
    BY <1>3, <1>5, <1>8, ShapeIs, Threads DEF Outer
  <2>2. top(t)' = Bottom(t)
    BY <1>1, <2>1 DEF Bottom
  <2>3. PICK m \in Msg : m = top(t).m
    BY <1>5
  <2>4. m \notin dropped
    <3>1. Unplaced(t)
      BY <1>1, <1>5 DEF Unplaced
    <3>2. m \notin Everywhere
      BY <2>1, <2>3, <3>1, UnplacedIs
    <3> QED
      BY <3>2 DEF Everywhere
  <2>5. IsFiniteSet(dropped)'
    <3>1. IsFiniteSet(dropped) /\ IsFiniteSet({m})
      BY FS_Singleton DEF CountSound
    <3>2. IsFiniteSet(dropped \cup {m})
      BY <3>1, FS_Union
    <3> QED
      BY <1>2, <2>3, <3>1, <3>2
  <2>6. Uncounted' \ {m} = Uncounted
    <3>1. ASSUME NEW u \in Logger, NEW x
          PROVE  (stack'[u] # <<>> /\ stack'[u][1].m = x) <=> (stack[u] # <<>> /\ stack[u][1].m = x)
      <4>1. u \in Thread
        BY Threads
      <4> QED
        BY <1>1, <1>5, <4>1 DEF Others, Bottom
    <3>2. dropped' \ {m} = dropped
      BY <1>2, <2>3, <2>4
    <3> QED
      BY <3>1, <3>2 DEF Uncounted, Idle
  <2>7. m \in dropped' => m \in Uncounted'
    BY <1>1, <1>5, <2>1, <2>3 DEF Uncounted, Idle, Bottom
  <2>8. Counted' = Counted
    <3>1. dropped' \ {m} = dropped
      BY <1>2, <2>3, <2>4
    <3> QED
      BY <2>6, <2>7, <3>1 DEF Counted
  <2>9. BeingReset' = BeingReset
    BY <1>1, <1>5, <2>1, <2>2, ResetSame DEF At
  <2>10. ASSUME AloneLogs PROVE \A u \in Thread : CountFits(u)'
    <3>1. \A u \in Thread : u # t /\ stack[u] # <<>> => ~Tallies(top(u))
      BY <1>5, <2>1, <2>10, Alone DEF Busy
    <3>2. ASSUME NEW u \in Thread, u # t PROVE CountFits(u)'
      BY <1>5, <3>1, <3>2 DEF Others, CountFits, Tallies, top
    <3>3. CountFits(t)'
      <4>1. top(t)'.fn = "send_log" /\ top(t)'.pc = "handled" /\ top(t)'.m = m
        BY <2>1, <2>2, <2>3
      <4>2. ret'[t] = BUFFER_FULL <=> RingFull
        BY <1>1, <4>1 DEF Awaited
      <4>3. RingFull <=> m \in dropped'
        BY <1>2, <1>8, <2>3, <2>4
      <4> QED
        BY <4>1, <4>2, <4>3 DEF CountFits
    <3> QED
      BY <3>2, <3>3
  <2>11. AloneLogs' <=> AloneLogs
    BY DEF AloneLogs
  <2>12. overflow_counter' = overflow_counter /\ reported' = reported
    BY <1>2
  <2> QED
    BY <1>4, <2>5, <2>8, <2>9, <2>10, <2>11, <2>12 DEF CountSound
<1> QED
  BY <1>7, <1>8

(* The count is read, reported, and reset.                                 *)
LEMMA CountOverflow ==
  ASSUME IInv, IInv', CountSound, UNCHANGED scenario, NEW t \in Thread, dlt_user_log_send_overflow(t)
  PROVE  CountSound'
<1>1. /\ Runs(t) /\ top(t).fn = "send_overflow"
      /\ OverflowRead(t) => top(t)'.fn = "send_overflow" /\ top(t)'.pc = "write" /\ top(t)'.n = overflow_counter
      /\ OverflowWrite(t) => Pops(t) \/ (/\ top(t)'.fn = "send_overflow" /\ top(t)'.pc = "reset"
                                         /\ top(t)'.n = top(t).n /\ stack'[t] # <<>>)
      /\ OverflowReset(t) => Pops(t)
  BY OverflowRuns
<1>2. stack[t] # <<>> /\ stack'[t] # <<>> /\ (Starting' => Starting) /\ Len(stack[t]) > 1 /\ StackType /\ Shape
  BY <1>1, Above DEF Runs, Callees, IInv, TypeSound
<1>3. Others(t) /\ RetOthers(t)
  BY <1>1 DEF Runs
<1>4. UNCHANGED <<logged, dropped>>
  BY DEF dlt_user_log_send_overflow, OverflowRead, OverflowWrite, OverflowReset, shared, hist
<1>5. Uncounted' = Uncounted
  BY <1>2, <1>3, <1>4, UncountedSame
<1>6. ASSUME Pops(t) PROVE ~Tallies(top(t)')
  <2>1. ~Resumes(top(t), top(t)') \/ Pops(t)
    BY <1>6
  <2>2. Calls(top(t)', top(t))
    BY <1>1, <1>2, <1>6, RunsTop
  <2> QED
    BY <1>1, <2>2 DEF Calls, Tallies
<1>7. CASE OverflowRead(t)
  <2>1. top(t).pc = "start" /\ UNCHANGED <<overflow_counter, reported>>
    BY <1>7 DEF OverflowRead, At, shared, hist
  <2>2. CountFits(t)'
    BY <1>1, <1>7, <2>1 DEF CountFits
  <2>3. BeingReset' = BeingReset
    BY <1>1, <1>3, <1>7, <2>1, ResetSame DEF At
  <2> QED
    BY <1>2, <1>3, <1>4, <1>5, <2>1, <2>2, <2>3, CountKeeps
<1>8. ASSUME AloneLogs, top(t).pc \in {"write", "reset"}
      PROVE  /\ \A u \in Thread : u # t => CountFits(u)'
             /\ top(t).n = overflow_counter
             /\ \A u \in BeingReset : u = t
             /\ \A u \in BeingReset' : u = t
  <2>1. Tallies(top(t))
    BY <1>1, <1>8 DEF Tallies
  <2>2. /\ \A u \in Thread : u # t /\ stack[u] # <<>> => ~Tallies(top(u))
        /\ \A u \in BeingReset : u = t
    BY <1>2, <1>8, <2>1, TalliesBusy, Alone
  <2>3. ASSUME NEW u \in Thread, u # t PROVE CountFits(u)' /\ u \notin BeingReset'
    <3>1. stack'[u] = stack[u] /\ (stack[u] # <<>> => ~Tallies(top(u)))
      BY <1>3, <2>2, <2>3 DEF Others
    <3> QED
      BY <3>1 DEF CountFits, Tallies, top, BeingReset, At
  <2>4. top(t).n = overflow_counter
    BY <1>1, <1>2, <1>8 DEF CountSound, CountFits
  <2>5. \A u \in BeingReset' : u \in Thread
    BY DEF BeingReset
  <2> QED
    BY <2>2, <2>3, <2>4, <2>5
<1>9. AloneLogs' <=> AloneLogs
  BY DEF AloneLogs
<1>10. Counted' = Counted /\ IsFiniteSet(dropped)'
  BY <1>4, <1>5 DEF Counted, CountSound
<1>11. CASE OverflowWrite(t)
  <2>1. /\ top(t).pc = "write" /\ UNCHANGED overflow_counter
        /\ \/ GotoPc(t, "reset") /\ reported' = reported + top(t).n
           \/ Pops(t) /\ reported' = reported
    <3>1. PICK r \in Int : r = Out2(top(t).fd)
      BY Out3Is, ResultsAre
    <3>2. /\ reported' = IF r = OK THEN reported + top(t).n ELSE reported
          /\ (r = OK /\ GotoPc(t, "reset")) \/ (r # OK /\ Return(t, r))
      BY <1>11, <3>1 DEF OverflowWrite
    <3>3. Return(t, r) => Pops(t)
      <4>1. ret \in [Thread -> Int]
        BY DEF IInv, TypeSound
      <4> QED
        BY <1>2, <3>1, <4>1, ReturnIs
    <3> QED
      BY <1>11, <3>2, <3>3 DEF OverflowWrite, At, shared
  <2>2. CASE Pops(t) /\ reported' = reported
    <3>1. ~Tallies(top(t)')
      BY <1>6, <2>2
    <3>2. CountFits(t)'
      BY <3>1 DEF CountFits, Tallies
    <3>3. BeingReset' = BeingReset
      BY <1>3, <2>1, <3>1, ResetSame DEF At, Tallies
    <3> QED
      BY <1>2, <1>3, <1>4, <1>5, <2>1, <2>2, <3>2, <3>3, CountKeeps
  <2>3. CASE GotoPc(t, "reset") /\ reported' = reported + top(t).n
    <3>1. top(t)'.fn = "send_overflow" /\ top(t)'.pc = "reset" /\ top(t)'.n = top(t).n
      <4>1. "reset" \in Pcs
        BY DEF Pcs
      <4>2. ~Pops(t)
        <5>1. \E f \in Frames : Replaces(t, f)
          BY <1>2, <2>3, <4>1, GotoPcIs
        <5> QED
          BY <1>2, <5>1, ReplacesOne
      <4> QED
        BY <1>1, <1>11, <4>2
    <3>2. ASSUME AloneLogs
          PROVE  /\ \A u \in Thread : CountFits(u)'
                 /\ reported' + (IF BeingReset' = {} THEN overflow_counter' ELSE 0) = Cardinality(Counted')
      <4>1. top(t).n = overflow_counter /\ (\A u \in BeingReset : u = t) /\ \A u \in Thread : u # t => CountFits(u)'
        BY <1>8, <2>1, <3>2
      <4>2. CountFits(t)'
        BY <2>1, <3>1, <4>1 DEF CountFits
      <4>3. t \in BeingReset'
        BY <1>2, <3>1 DEF BeingReset, At
      <4>4. t \notin BeingReset
        BY <2>1 DEF BeingReset, At
      <4>5. BeingReset = {} /\ BeingReset' # {}
        BY <4>1, <4>3, <4>4
      <4>6. reported \in Nat /\ overflow_counter \in Nat
        BY DEF IInv, TypeSound, TypeOK
      <4>7. reported + overflow_counter = Cardinality(Counted)
        BY <3>2, <4>5 DEF CountSound
      <4> QED
        BY <1>10, <2>1, <2>3, <4>1, <4>2, <4>5, <4>6, <4>7
    <3> QED
      BY <1>2, <1>9, <1>10, <2>1, <3>2 DEF CountSound
  <2> QED
    BY <2>1, <2>2, <2>3
<1>12. CASE OverflowReset(t)
  <2>1. top(t).pc = "reset" /\ overflow_counter' = 0 /\ reported' = reported /\ Pops(t)
    BY <1>1, <1>12 DEF OverflowReset, At, hist
  <2>2. ~Tallies(top(t)')
    BY <1>6, <2>1
  <2>3. ASSUME AloneLogs
        PROVE  /\ \A u \in Thread : CountFits(u)'
               /\ reported' + (IF BeingReset' = {} THEN overflow_counter' ELSE 0) = Cardinality(Counted')
    <3>1. (\A u \in BeingReset' : u = t) /\ \A u \in Thread : u # t => CountFits(u)'
      BY <1>8, <2>1, <2>3
    <3>2. CountFits(t)'
      BY <2>2 DEF CountFits, Tallies
    <3>3. t \in BeingReset /\ t \notin BeingReset'
      BY <1>1, <1>2, <2>1, <2>2 DEF BeingReset, At, Tallies
    <3>4. BeingReset # {} /\ BeingReset' = {}
      BY <3>1, <3>3
    <3>5. reported \in Nat
      BY DEF IInv, TypeSound
    <3>6. reported + 0 = Cardinality(Counted)
      BY <2>3, <3>4 DEF CountSound
    <3> QED
      BY <1>10, <2>1, <3>1, <3>2, <3>4, <3>6
  <2> QED
    BY <1>9, <1>10, <2>1, <2>3 DEF CountSound
<1> QED
  BY <1>7, <1>11, <1>12 DEF dlt_user_log_send_overflow

(* dlt_user_log_send_log: a message that was refused is counted.           *)
LEMMA CountLog ==
  ASSUME IInv, IInv', CountSound, UNCHANGED scenario, NEW t \in Logger, dlt_user_log_send_log(t)
  PROVE  CountSound'
<1>1. CASE LogReattach(t) \/ LogOverflow(t) \/ LogResend(t) \/ LogOut(t) \/ LogWrite(t)
  <2>1. /\ Runs(t) /\ t \in Thread /\ Len(stack[t]) = 1 /\ top(t) = Bottom(t)
        /\ Unplaced(t) /\ ~Tallies(top(t)) /\ (stack'[t] # <<>> => ~Tallies(top(t)'))
    BY <1>1, LogBefore
  <2>2. UNCHANGED <<logged, overflow_counter, reported, dropped>>
    BY <1>1 DEF LogReattach, LogOverflow, LogResend, LogOut, LogWrite, shared, hist
  <2>3. Bottom(t).m \notin dropped
    <3>1. PICK m \in Msg : m = Bottom(t).m
      BY <2>1, StackIs DEF IInv, TypeSound, Frames, Runs
    <3>2. m \notin Everywhere
      BY <2>1, <3>1, UnplacedIs
    <3> QED
      BY <3>1, <3>2 DEF Everywhere
  <2>4. Starting' => Starting
    BY <2>1, StartingEnds, Threads
  <2> QED
    BY <2>1, <2>2, <2>3, <2>4, CountQuiet
<1>2. CASE LogHandled(t) \/ LogCount(t) \/ LogClose(t) \/ LogClosed(t)
  <2>1. /\ Runs(t) /\ t \in Thread /\ Len(stack[t]) = 1 /\ top(t) = Bottom(t) /\ top(t).fn = "send_log"
        /\ top(t).pc \in {"handled", "count", "close", "closed"}
        /\ stack'[t] # <<>> =>
              /\ ~Pops(t) /\ top(t)'.fn = "send_log" /\ top(t)'.m = top(t).m
              /\ \/ LogHandled(t) /\ ret[t] = BUFFER_FULL /\ top(t)'.pc = "count" /\ top(t)'.n = overflow_counter
                 \/ LogHandled(t) /\ ret[t] # BUFFER_FULL /\ top(t)'.pc = "close"
                 \/ LogClose(t) /\ top(t)'.pc = "closed"
        /\ LogHandled(t) /\ stack'[t] = <<>> => ret[t] # BUFFER_FULL
        /\ LogCount(t) => stack'[t] = <<>>
    BY <1>2, LogAfter
  <2>2. /\ UNCHANGED <<logged, reported, dropped>>
        /\ LogHandled(t) => top(t).pc = "handled"
        /\ LogCount(t) => top(t).pc = "count" /\ overflow_counter' = top(t).n + 1
        /\ LogClose(t) => top(t).pc = "close"
        /\ LogClosed(t) => top(t).pc = "closed"
        /\ ~LogCount(t) => overflow_counter' = overflow_counter
    BY <1>2 DEF LogHandled, LogCount, LogClose, LogClosed, shared, hist, At
  <2>3. /\ Others(t) /\ RetOthers(t) /\ stack[t] # <<>> /\ (Starting' => Starting)
    BY <2>1, StartingEnds, Threads DEF Runs
  <2>4. BeingReset' = BeingReset
    BY <2>1, <2>3, ResetSame DEF At
  <2>5. CASE ~LogCount(t)
    <3>1. ASSUME AloneLogs
          PROVE  CountFits(t)' /\ (stack'[t] = <<>> => Bottom(t).m \notin dropped)
      <4>1. CountFits(t)
        BY <2>1, <3>1 DEF CountSound
      <4>2. /\ top(t).pc = "handled" => (ret[t] = BUFFER_FULL <=> top(t).m \in dropped)
            /\ top(t).pc \in {"close", "closed"} => top(t).m \notin dropped
        BY <2>1, <2>3, <4>1 DEF CountFits
      <4>3. stack'[t] = <<>> => top(t).m \notin dropped
        BY <1>2, <2>1, <2>2, <2>5, <4>2
      <4>4. stack'[t] # <<>> =>
               /\ top(t)'.fn = "send_log" /\ top(t)'.pc \in {"count", "close", "closed"}
               /\ top(t)'.pc = "count" => top(t)'.n = overflow_counter' /\ top(t)'.m \in dropped'
               /\ top(t)'.pc \in {"close", "closed"} => top(t)'.m \notin dropped'
        BY <2>1, <2>2, <2>5, <4>2
      <4> QED
        BY <2>1, <4>3, <4>4 DEF CountFits
    <3>2. CASE AloneLogs
      <4>1. Uncounted' = Uncounted
        BY <2>1, <2>2, <2>3, <3>1, <3>2, UncountedSame
      <4> QED
        BY <2>1, <2>2, <2>3, <2>4, <2>5, <3>1, <4>1, CountKeeps
    <3>3. CASE ~AloneLogs
      BY <2>2, <2>3, <2>5, <3>3 DEF CountSound, AloneLogs
    <3> QED
      BY <3>2, <3>3
  <2>6. CASE LogCount(t)
    <3>1. stack'[t] = <<>> /\ top(t).pc = "count" /\ overflow_counter' = top(t).n + 1 /\ ~Starting'
      <4>1. ~Starting
        <5>1. \E u \in Logger : ~Idle(u)
          BY <2>3 DEF Idle
        <5>2. Len(stack[main]) = 1
          BY <5>1 DEF IInv, MainSound
        <5> QED
          BY <5>2 DEF Starting
      <4> QED
        BY <2>1, <2>2, <2>3, <2>6, <4>1
    <3>2. ASSUME AloneLogs
          PROVE  /\ \A u \in Thread : CountFits(u)'
                 /\ reported' + (IF BeingReset' = {} THEN overflow_counter' ELSE 0) = Cardinality(Counted')
      <4>1. /\ \A u \in Thread : u # t /\ stack[u] # <<>> => ~Tallies(top(u))
            /\ \A u \in BeingReset : u = t
        BY <2>1, <2>3, <3>2, Alone DEF Busy
      <4>2. \A u \in Thread : CountFits(u)'
        <5>1. ASSUME NEW u \in Thread, u # t PROVE CountFits(u)'
          BY <2>3, <4>1, <5>1 DEF Others, CountFits, Tallies, top
        <5>2. CountFits(t)'
          BY <3>1 DEF CountFits
        <5> QED
          BY <5>1, <5>2
      <4>3. BeingReset = {}
        BY <2>1, <4>1 DEF BeingReset, At
      <4>4. PICK m : m = top(t).m /\ m \in dropped /\ top(t).n = overflow_counter
        BY <2>1, <2>3, <3>1, <3>2 DEF CountSound, CountFits
      <4>5. ASSUME NEW u \in Logger, u # t, stack[u] # <<>> PROVE FALSE
        BY <2>1, <2>3, <3>2, <4>5, OneBusy, Threads DEF Busy
      <4>6. Uncounted = {m}
        BY <2>1, <2>3, <4>4, <4>5 DEF Uncounted, Idle, Bottom
      <4>7. Uncounted' = {}
        BY <2>3, <3>1, <4>5, Threads DEF Uncounted, Idle, Others
      <4>8. Counted' = Counted \cup {m} /\ m \notin Counted /\ IsFiniteSet(Counted)
        <5>1. IsFiniteSet(dropped)
          BY DEF CountSound
        <5>2. IsFiniteSet(Counted)
          BY <5>1, FS_Subset DEF Counted
        <5> QED
          BY <2>2, <4>4, <4>6, <4>7, <5>2 DEF Counted
      <4>9. Cardinality(Counted') = Cardinality(Counted) + 1
        BY <4>8, FS_AddElement
      <4>10. reported + overflow_counter = Cardinality(Counted) /\ reported \in Nat /\ overflow_counter \in Nat
        BY <3>2, <4>3 DEF CountSound, IInv, TypeSound, TypeOK
      <4> QED
        BY <2>2, <2>4, <3>1, <4>2, <4>3, <4>4, <4>9, <4>10
    <3>3. AloneLogs' <=> AloneLogs
      BY DEF AloneLogs
    <3> QED
      BY <2>2, <3>1, <3>2, <3>3 DEF CountSound
  <2> QED
    BY <2>5, <2>6
<1> QED
  BY <1>1, <1>2 DEF dlt_user_log_send_log

(* The threads main and housekeeper.                                       *)
LEMMA CountThreads ==
  ASSUME IInv, IInv', CountSound, UNCHANGED scenario,
         MainThread \/ HousekeeperReattach \/ HousekeeperResend
  PROVE  CountSound'
<1>1. PICK t \in {main, housekeeper} :
         /\ t \in Thread /\ t \notin Logger /\ Runs(t) /\ ~Tallies(top(t))
         /\ stack'[t] # <<>> => ~Tallies(top(t)')
         /\ Starting' => Starting
  <2>1. CASE MainThread
    <3>1. /\ Runs(main) /\ top(main).fn = "main"
          /\ stack'[main] # <<>> => ~Tallies(top(main)') /\ Bottom(main)'.pc # "start"
      BY <2>1, MainRuns DEF Proceeds
    <3>2. Starting' => Starting
      BY <3>1, StartingEnds, Threads
    <3>3. ~Tallies(top(main))
      BY <3>1 DEF Tallies
    <3> QED
      BY <3>1, <3>2, <3>3, Threads
  <2>2. CASE HousekeeperReattach \/ HousekeeperResend
    <3>1. Runs(housekeeper) /\ top(housekeeper).fn = "housekeeper" /\ ~Tallies(top(housekeeper)')
      BY <2>2, HousekeeperRuns
    <3>2. Starting' => Starting
      BY <3>1, StartingEnds, Threads
    <3>3. ~Tallies(top(housekeeper))
      BY <3>1 DEF Tallies
    <3> QED
      BY <3>1, <3>2, <3>3, Threads
  <2> QED
    BY <2>1, <2>2
<1>2. UNCHANGED <<logged, overflow_counter, reported, dropped>>
  BY DEF MainThread, dlt_register_app, dlt_register_context, MainExit, dlt_unregister_app_flush_buffered_logs,
         dlt_unregister_app_util, dlt_user_atexit_handler, ExitCount, BlowOut, BlowOverflow, BlowResend,
         BlownOut, ExitRecount, dlt_free, FreeStart, FreeClose, FreeBuffer, HousekeeperReattach,
         HousekeeperResend, shared, hist
<1> QED
  BY <1>1, <1>2, CountQuiet

(* dlt_init creates the count.                                             *)
LEMMA CountInit ==
  ASSUME IInv, IInv', CountSound, UNCHANGED scenario, NEW t \in Thread, InitFlag(t) \/ InitCommon(t)
  PROVE  CountSound'
<1>1. /\ t = main /\ Starting /\ Runs(main) /\ stack'[main] # <<>>
      /\ ~Tallies(top(main)) /\ ~Tallies(top(main)')
  BY InitRuns
<1>2. UNCHANGED <<logged, overflow_counter, reported, dropped>>
  BY <1>1 DEF InitFlag, InitCommon, CountSound, hist
<1> QED
  BY <1>1, <1>2, CountQuiet, Threads

(* The housekeeper begins.                                                 *)
LEMMA CountConnect ==
  ASSUME IInv, CountSound, UNCHANGED scenario, NEW t \in Thread, InitConnect(t)
  PROVE  CountSound'
<1>1. /\ t = main /\ ~Starting' /\ main \in Thread /\ housekeeper \in Thread
      /\ \A u \in Logger : stack[u] = <<>> /\ stack'[u] = <<>>
      /\ Len(stack'[main]) = 1 /\ top(main)' = Bottom(main)
      /\ Bottom(main).fn = "main" /\ stack[housekeeper] = <<>>
      /\ top(housekeeper)' = stack'[housekeeper][1] /\ stack'[housekeeper][1].fn = "housekeeper"
  BY Connected
<1>2. UNCHANGED <<overflow_counter, reported, dropped>> /\ top(main).fn = "init"
  BY <1>1 DEF InitConnect, hist, At
<1>3. \A u \in Thread : CountFits(u)' /\ u \notin BeingReset /\ u \notin BeingReset'
  <2>1. CountFits(main)' /\ main \notin BeingReset /\ main \notin BeingReset'
    BY <1>1, <1>2 DEF CountFits, BeingReset, At
  <2>2. CountFits(housekeeper)' /\ housekeeper \notin BeingReset /\ housekeeper \notin BeingReset'
    BY <1>1 DEF CountFits, BeingReset, At
  <2>3. \A u \in Logger : CountFits(u)' /\ u \notin BeingReset /\ u \notin BeingReset'
    BY <1>1 DEF CountFits, BeingReset, At
  <2> QED
    BY <2>1, <2>2, <2>3, Threads
<1>4. BeingReset' = BeingReset
  <2>1. \A u \in BeingReset : u \in Thread
    BY DEF BeingReset
  <2>2. \A u \in BeingReset' : u \in Thread
    BY DEF BeingReset
  <2> QED
    BY <1>3, <2>1, <2>2
<1>5. Uncounted' = Uncounted
  BY <1>1, <1>2 DEF Uncounted, Idle
<1> QED
  BY <1>1, <1>2, <1>3, <1>4, <1>5 DEF CountSound, Counted, AloneLogs

(* The housekeeper ends.                                                   *)
LEMMA CountCancelled ==
  ASSUME IInv, CountSound, UNCHANGED scenario, HousekeeperCancelled
  PROVE  CountSound'
<1>1. /\ Others(housekeeper) /\ stack'[housekeeper] = <<>> /\ main # housekeeper /\ housekeeper \in Thread
      /\ housekeeper \notin Logger
  BY CancelledIs
<1>2. UNCHANGED <<overflow_counter, reported, dropped, ret>> /\ RetOthers(housekeeper)
  BY DEF HousekeeperCancelled, hist, RetOthers
<1>3. CountFits(housekeeper)'
  BY <1>1 DEF CountFits
<1>4. Starting' => Starting
  BY <1>1, Threads DEF Starting, MainIs, Bottom, Others
<1>5. BeingReset' = BeingReset
  <2>1. ~At(housekeeper, "send_overflow", "reset")'
    BY <1>1 DEF At
  <2>2. ~At(housekeeper, "send_overflow", "reset")
    <3>1. SUFFICES ASSUME At(housekeeper, "send_overflow", "reset") PROVE FALSE
      OBVIOUS
    <3>2. Busy(housekeeper)
      BY <1>1, <3>1, TalliesBusy DEF At, Tallies
    <3> QED
      BY <1>1, <3>2 DEF Busy
  <2> QED
    BY <1>1, <2>1, <2>2, ResetSame
<1>6. Uncounted' = Uncounted
  <2>1. \A u \in Logger : stack'[u] = stack[u]
    BY <1>1, Threads DEF Others
  <2> QED
    BY <1>2, <2>1 DEF Uncounted, Idle
<1> QED
  BY <1>1, <1>2, <1>3, <1>4, <1>5, <1>6, CountKeeps

(* A thread logs another message: it has not been refused before.          *)
LEMMA CountBegins ==
  ASSUME IInv, CountSound, UNCHANGED scenario, NEW t \in Logger, Log(t)
  PROVE  CountSound'
<1>1. /\ t \in Thread /\ t # main /\ Others(t) /\ stack[t] = <<>> /\ stack'[t] # <<>>
      /\ top(t)'.fn = "send_log" /\ top(t)'.pc = "start"
      /\ stack'[t][1].m = LogMsg(t, logged[t] + 1) /\ logged[t] \in Nat
  BY LogsIs
<1>2. UNCHANGED <<overflow_counter, reported, dropped, ret>> /\ RetOthers(t)
  BY DEF Log, shared, hist, RetOthers
<1>3. CountFits(t)'
  BY <1>1 DEF CountFits
<1>4. Starting' => Starting
  BY <1>1, Threads DEF Starting, MainIs, Bottom, Others
<1>5. BeingReset' = BeingReset
  BY <1>1, ResetSame DEF At
<1>6. Uncounted' = Uncounted
  <2>1. LogMsg(t, logged[t] + 1) \notin dropped
    <3>1. SUFFICES ASSUME LogMsg(t, logged[t] + 1) \in dropped PROVE FALSE
      OBVIOUS
    <3>2. Sent(t, logged[t] + 1)
      BY <3>1 DEF IInv, PlaceSound, Everywhere, LogMsg
    <3>3. \A n \in Nat : ~(n + 1 < n) /\ n + 1 # n
      OBVIOUS
    <3> QED
      BY <1>1, <3>2, <3>3 DEF Sent
  <2>2. \A u \in Logger : u # t => stack'[u] = stack[u]
    BY <1>1, Threads DEF Others
  <2> QED
    BY <1>1, <1>2, <2>1, <2>2 DEF Uncounted, Idle
<1> QED
  BY <1>1, <1>2, <1>3, <1>4, <1>5, <1>6, CountKeeps

(* The daemon does not lose what was refused before.                       *)
LEMMA CountSame ==
  ASSUME CountSound, UNCHANGED <<scenario, stack, ret, overflow_counter, reported, dropped>>
  PROVE  CountSound'
<1>1. \A u \in Thread : CountFits(u)' <=> CountFits(u)
  BY DEF CountFits, top
<1>2. BeingReset' = BeingReset /\ Uncounted' = Uncounted
  BY DEF BeingReset, Uncounted, At, top, Idle
<1>3. Starting' <=> Starting
  BY DEF Starting, MainIs, Bottom
<1> QED
  BY <1>1, <1>2, <1>3 DEF CountSound, Counted, AloneLogs

(* A step of the system keeps the losses counted, and what                 *)
(* dlt_user_log_out_error_handling will return.                            *)
LEMMA ErrorNext ==
  ASSUME IInv, ErrorSound, Next
  PROVE  ErrorSound'
<1>0. StackType /\ Shape
  BY DEF IInv, TypeSound
<1>1. ASSUME NEW t \in Thread, Runs(t) PROVE ErrorSound'
  BY <1>0, <1>1, RunsErrors
<1>2. ASSUME NEW t \in Thread, Library(t) PROVE ErrorSound'
  <2>1. CASE InitFlag(t) \/ InitCommon(t)
    BY <1>1, <2>1, InitRuns, Threads
  <2>2. CASE InitConnect(t)
    <3>1. /\ \A u \in Logger : stack'[u] = <<>>
          /\ top(main)' = Bottom(main) /\ Bottom(main).fn = "main"
          /\ top(housekeeper)' = stack'[housekeeper][1] /\ stack'[housekeeper][1].fn = "housekeeper"
      BY <2>2, Connected
    <3> QED
      BY <3>1, Threads DEF ErrorSound
  <2>3. CASE \/ dlt_user_log_reattach_to_daemon(t) \/ dlt_user_log_resend_buffer(t)
             \/ dlt_user_log_send_register(t) \/ dlt_user_log_send_overflow(t)
             \/ dlt_user_log_out_error_handling(t)
    BY <1>1, <2>3, ReattachRuns, ResendRuns, RegisterRuns, OverflowRuns, CheckRuns, PushRuns
       DEF dlt_user_log_out_error_handling
  <2> QED
    BY <1>2, <2>1, <2>2, <2>3 DEF Library, dlt_init
<1>3. ASSUME NEW t \in Logger, Log(t) PROVE ErrorSound'
  <2>1. Others(t) /\ top(t)'.fn = "send_log"
    BY <1>3, LogsIs
  <2> QED
    BY <2>1 DEF ErrorSound, Others, top
<1>4. ASSUME NEW t \in Logger, dlt_user_log_send_log(t) PROVE ErrorSound'
  BY <1>1, <1>4, LogBefore, LogAfter DEF dlt_user_log_send_log
<1>5. ASSUME dlt_user_housekeeperthread_function PROVE ErrorSound'
  BY <1>1, <1>5, HousekeeperRuns, Threads DEF dlt_user_housekeeperthread_function
<1>6. ASSUME HousekeeperCancelled PROVE ErrorSound'
  <2>1. Others(housekeeper) /\ stack'[housekeeper] = <<>>
    BY <1>6, CancelledIs
  <2> QED
    BY <2>1 DEF ErrorSound, Others, top
<1>7. ASSUME MainThread PROVE ErrorSound'
  BY <1>1, <1>7, MainRuns, Threads
<1>8. ASSUME DaemonRead \/ DaemonCrash \/ DaemonStart \/ Terminated PROVE ErrorSound'
  <2>1. stack' = stack
    BY <1>8 DEF DaemonRead, DaemonCrash, DaemonStart, Terminated, vars, threads
  <2> QED
    BY <2>1 DEF ErrorSound, top
<1> QED
  BY <1>2, <1>3, <1>4, <1>5, <1>6, <1>7, <1>8 DEF Next

(* The number of losses is right after every step.                         *)
LEMMA CountNext ==
  ASSUME IInv, IInv', ErrorSound, CountSound, Next
  PROVE  CountSound'
<1>0. UNCHANGED scenario
  BY DEF Next
<1>1. ASSUME NEW t \in Thread, Library(t) PROVE CountSound'
  <2>1. CASE dlt_init(t)
    BY <1>0, <2>1, CountInit, CountConnect DEF dlt_init
  <2>2. CASE dlt_user_log_send_overflow(t)
    BY <1>0, <2>2, CountOverflow
  <2>3. CASE dlt_user_log_out_error_handling(t)
    BY <1>0, <2>3, CountPlain, CountPush DEF dlt_user_log_out_error_handling
  <2>4. CASE dlt_user_log_reattach_to_daemon(t) \/ dlt_user_log_resend_buffer(t) \/ dlt_user_log_send_register(t)
    BY <1>0, <2>4, CountPlain
  <2> QED
    BY <1>1, <2>1, <2>2, <2>3, <2>4 DEF Library
<1>2. ASSUME NEW t \in Logger, Log(t) \/ dlt_user_log_send_log(t) PROVE CountSound'
  BY <1>0, <1>2, CountBegins, CountLog
<1>3. ASSUME dlt_user_housekeeperthread_function \/ MainThread PROVE CountSound'
  BY <1>0, <1>3, CountThreads DEF dlt_user_housekeeperthread_function
<1>4. ASSUME HousekeeperCancelled PROVE CountSound'
  BY <1>0, <1>4, CountCancelled
<1>5. ASSUME DaemonRead \/ DaemonCrash \/ DaemonStart \/ Terminated PROVE CountSound'
  BY <1>0, <1>5, CountSame DEF DaemonRead, DaemonCrash, DaemonStart, Terminated, vars, threads, shared, hist
<1> QED
  BY <1>1, <1>2, <1>3, <1>4, <1>5 DEF Next

-----------------------------------------------------------------------------
(* Which steps change what the threads share.                              *)
LEMMA LibraryChanges ==
  ASSUME NEW t \in Thread, Library(t)
  PROVE  /\ UNCHANGED <<knows, daemon, crashes, exitReport, contexts>>
         /\ startup_buffer' = startup_buffer \/ ErrorPush(t) \/ ResendWrite(t) \/ InitCommon(t)
         /\ pipe' = pipe \/ ResendWrite(t) \/ RegisterWrite(t) \/ OverflowWrite(t)
         /\ fds' = fds \/ ReattachOpen(t) \/ InitConnect(t) \/ ResendClose(t)
         /\ \/ dlt_log_handle' = dlt_log_handle
            \/ ReattachOpen(t) \/ ReattachOpened(t) \/ ResendClosed(t) \/ InitConnect(t)
         /\ refused' = refused \/ ErrorPush(t)
<1> DEFINE Goal ==
         /\ UNCHANGED <<knows, daemon, crashes, exitReport, contexts>>
         /\ startup_buffer' = startup_buffer \/ ErrorPush(t) \/ ResendWrite(t) \/ InitCommon(t)
         /\ pipe' = pipe \/ ResendWrite(t) \/ RegisterWrite(t) \/ OverflowWrite(t)
         /\ fds' = fds \/ ReattachOpen(t) \/ InitConnect(t) \/ ResendClose(t)
         /\ \/ dlt_log_handle' = dlt_log_handle
            \/ ReattachOpen(t) \/ ReattachOpened(t) \/ ResendClosed(t) \/ InitConnect(t)
         /\ refused' = refused \/ ErrorPush(t)
<1>1. ASSUME InitFlag(t) PROVE Goal
  BY <1>1 DEF InitFlag, shared, world, hist
<1>2. ASSUME InitCommon(t) PROVE Goal
  BY <1>2 DEF InitCommon, shared, world, hist
<1>3. ASSUME InitConnect(t) PROVE Goal
  BY <1>3 DEF InitConnect, shared, world, hist
<1>4. ASSUME ReattachOpen(t) PROVE Goal
  BY <1>4 DEF ReattachOpen, shared, world, hist
<1>5. ASSUME ReattachOpened(t) PROVE Goal
  BY <1>5 DEF ReattachOpened, shared, world, hist
<1>6. ASSUME ReattachContexts(t) PROVE Goal
  BY <1>6 DEF ReattachContexts, shared, world, hist
<1>7. ASSUME ReattachResend(t) PROVE Goal
  BY <1>7 DEF ReattachResend, shared, world, hist
<1>8. ASSUME ResendStart(t) PROVE Goal
  BY <1>8 DEF ResendStart, shared, world, hist
<1>9. ASSUME ResendLoop(t) PROVE Goal
  BY <1>9 DEF ResendLoop, shared, world, hist
<1>10. ASSUME ResendWrite(t) PROVE Goal
  BY <1>10 DEF ResendWrite, shared, world, hist
<1>11. ASSUME ResendClose(t) PROVE Goal
  BY <1>11 DEF ResendClose, shared, world, hist
<1>12. ASSUME ResendClosed(t) PROVE Goal
  BY <1>12 DEF ResendClosed, shared, world, hist
<1>13. ASSUME RegisterStart(t) PROVE Goal
  BY <1>13 DEF RegisterStart, shared, world, hist
<1>14. ASSUME RegisterWrite(t) PROVE Goal
  BY <1>14 DEF RegisterWrite, shared, world, hist
<1>15. ASSUME OverflowRead(t) PROVE Goal
  BY <1>15 DEF OverflowRead, shared, world, hist
<1>16. ASSUME OverflowWrite(t) PROVE Goal
  BY <1>16 DEF OverflowWrite, shared, world, hist
<1>17. ASSUME OverflowReset(t) PROVE Goal
  BY <1>17 DEF OverflowReset, shared, world, hist
<1>18. ASSUME ErrorCheck(t) PROVE Goal
  BY <1>18 DEF ErrorCheck, shared, world, hist
<1>19. ASSUME ErrorPush(t) PROVE Goal
  BY <1>19 DEF ErrorPush, shared, world, hist
<1> HIDE DEF Goal
<1>20. Goal
  BY <1>1, <1>2, <1>3, <1>4, <1>5, <1>6, <1>7, <1>8, <1>9, <1>10, <1>11, <1>12, <1>13, <1>14, <1>15, <1>16, <1>17, <1>18, <1>19
     DEF Library, dlt_init, dlt_user_log_reattach_to_daemon, dlt_user_log_resend_buffer,
         dlt_user_log_send_register, dlt_user_log_send_overflow, dlt_user_log_out_error_handling
<1> QED
  BY <1>20 DEF Goal

(* The steps of a thread that logs,                                        *)
LEMMA LogChanges ==
  ASSUME NEW t \in Logger, Log(t) \/ dlt_user_log_send_log(t)
  PROVE  /\ UNCHANGED <<knows, daemon, crashes, exitReport, contexts, startup_buffer, refused>>
         /\ pipe' = pipe \/ LogWrite(t)
         /\ fds' = fds \/ LogClose(t)
         /\ dlt_log_handle' = dlt_log_handle \/ LogClosed(t)
<1> DEFINE Goal ==
         /\ UNCHANGED <<knows, daemon, crashes, exitReport, contexts, startup_buffer, refused>>
         /\ pipe' = pipe \/ LogWrite(t)
         /\ fds' = fds \/ LogClose(t)
         /\ dlt_log_handle' = dlt_log_handle \/ LogClosed(t)
<1>1. ASSUME Log(t) PROVE Goal
  BY <1>1 DEF Log, shared, world, hist
<1>2. ASSUME LogReattach(t) PROVE Goal
  BY <1>2 DEF LogReattach, shared, world, hist
<1>3. ASSUME LogOverflow(t) PROVE Goal
  BY <1>3 DEF LogOverflow, shared, world, hist
<1>4. ASSUME LogResend(t) PROVE Goal
  BY <1>4 DEF LogResend, shared, world, hist
<1>5. ASSUME LogOut(t) PROVE Goal
  BY <1>5 DEF LogOut, shared, world, hist
<1>6. ASSUME LogWrite(t) PROVE Goal
  BY <1>6 DEF LogWrite, shared, world, hist
<1>7. ASSUME LogHandled(t) PROVE Goal
  BY <1>7 DEF LogHandled, shared, world, hist
<1>8. ASSUME LogCount(t) PROVE Goal
  BY <1>8 DEF LogCount, shared, world, hist
<1>9. ASSUME LogClose(t) PROVE Goal
  BY <1>9 DEF LogClose, shared, world, hist
<1>10. ASSUME LogClosed(t) PROVE Goal
  BY <1>10 DEF LogClosed, shared, world, hist
<1> HIDE DEF Goal
<1>11. Goal
  BY <1>1, <1>2, <1>3, <1>4, <1>5, <1>6, <1>7, <1>8, <1>9, <1>10 DEF dlt_user_log_send_log
<1> QED
  BY <1>11 DEF Goal

(* of main and of the housekeeper.                                         *)
LEMMA ThreadChanges ==
  ASSUME MainThread \/ dlt_user_housekeeperthread_function \/ HousekeeperCancelled
  PROVE  /\ UNCHANGED <<knows, daemon, crashes, pipe, refused>>
         /\ exitReport' = exitReport \/ ExitRecount
         /\ startup_buffer' = startup_buffer \/ FreeBuffer
         /\ fds' = fds \/ FreeClose
         /\ dlt_log_handle' = dlt_log_handle \/ FreeClose
         /\ contexts' = contexts \/ FreeBuffer \/ (dlt_register_context /\ contexts')
<1> DEFINE Goal ==
         /\ UNCHANGED <<knows, daemon, crashes, pipe, refused>>
         /\ exitReport' = exitReport \/ ExitRecount
         /\ startup_buffer' = startup_buffer \/ FreeBuffer
         /\ fds' = fds \/ FreeClose
         /\ dlt_log_handle' = dlt_log_handle \/ FreeClose
         /\ contexts' = contexts \/ FreeBuffer \/ (dlt_register_context /\ contexts')
<1>1. ASSUME dlt_register_app PROVE Goal
  BY <1>1 DEF dlt_register_app, shared, world, hist
<1>2. ASSUME dlt_register_context PROVE Goal
  BY <1>2 DEF dlt_register_context, shared, world, hist
<1>3. ASSUME MainExit PROVE Goal
  BY <1>3 DEF MainExit, shared, world, hist
<1>4. ASSUME dlt_unregister_app_flush_buffered_logs PROVE Goal
  BY <1>4 DEF dlt_unregister_app_flush_buffered_logs, shared, world, hist
<1>5. ASSUME dlt_unregister_app_util PROVE Goal
  BY <1>5 DEF dlt_unregister_app_util, shared, world, hist
<1>6. ASSUME ExitCount PROVE Goal
  BY <1>6 DEF ExitCount, shared, world, hist
<1>7. ASSUME BlowOut PROVE Goal
  BY <1>7 DEF BlowOut, shared, world, hist
<1>8. ASSUME BlowOverflow PROVE Goal
  BY <1>8 DEF BlowOverflow, shared, world, hist
<1>9. ASSUME BlowResend PROVE Goal
  BY <1>9 DEF BlowResend, shared, world, hist
<1>10. ASSUME BlownOut PROVE Goal
  BY <1>10 DEF BlownOut, shared, world, hist
<1>11. ASSUME ExitRecount PROVE Goal
  BY <1>11 DEF ExitRecount, shared, world, hist
<1>12. ASSUME FreeStart PROVE Goal
  BY <1>12 DEF FreeStart, shared, world, hist
<1>13. ASSUME FreeClose PROVE Goal
  BY <1>13 DEF FreeClose, shared, world, hist
<1>14. ASSUME FreeBuffer PROVE Goal
  BY <1>14 DEF FreeBuffer, shared, world, hist
<1>15. ASSUME HousekeeperReattach PROVE Goal
  BY <1>15 DEF HousekeeperReattach, shared, world, hist
<1>16. ASSUME HousekeeperResend PROVE Goal
  BY <1>16 DEF HousekeeperResend, shared, world, hist
<1>17. ASSUME HousekeeperCancelled PROVE Goal
  BY <1>17 DEF HousekeeperCancelled, shared, world, hist
<1> HIDE DEF Goal
<1>18. Goal
  BY <1>1, <1>2, <1>3, <1>4, <1>5, <1>6, <1>7, <1>8, <1>9, <1>10, <1>11, <1>12, <1>13, <1>14, <1>15, <1>16, <1>17
     DEF MainThread, dlt_user_atexit_handler, dlt_free, dlt_user_housekeeperthread_function
<1> QED
  BY <1>18 DEF Goal

-----------------------------------------------------------------------------
(* The steps of the system, by what they do to the calls in progress.      *)
LEMMA Steps ==
  ASSUME IInv, ErrorSound, Next
  PROVE  \/ stack' = stack /\ ret' = ret
         \/ \E t \in Thread : Runs(t) /\ (t = main => Len(stack[main]) > 1 \/ MainThread)
         \/ \E t \in Thread : InitConnect(t)
         \/ HousekeeperCancelled
         \/ \E t \in Logger : Log(t)
<1> DEFINE Goal ==
         \/ stack' = stack /\ ret' = ret
         \/ \E t \in Thread : Runs(t) /\ (t = main => Len(stack[main]) > 1 \/ MainThread)
         \/ \E t \in Thread : InitConnect(t)
         \/ HousekeeperCancelled
         \/ \E t \in Logger : Log(t)
<1>1. ASSUME NEW t \in Thread, Library(t) PROVE Goal
  <2>1. ASSUME Runs(t), top(t).fn \in Callees PROVE Goal
    <3>1. Len(stack[t]) > 1
      BY <2>1, Above
    <3> QED
      BY <2>1, <3>1
  <2>2. CASE InitFlag(t) \/ InitCommon(t)
    <3>1. t = main /\ Runs(main) /\ Len(stack[main]) = 2
      BY <2>2, InitRuns DEF Starting
    <3>2. Len(stack[main]) > 1
      BY <3>1
    <3> QED
      BY <3>1, <3>2, Threads
  <2>3. CASE InitConnect(t)
    BY <2>3
  <2>4. CASE \/ dlt_user_log_reattach_to_daemon(t) \/ dlt_user_log_resend_buffer(t)
             \/ dlt_user_log_send_register(t) \/ dlt_user_log_send_overflow(t)
             \/ dlt_user_log_out_error_handling(t)
    <3>1. Runs(t) /\ top(t).fn \in Callees
      BY <2>4, ReattachRuns, ResendRuns, RegisterRuns, OverflowRuns, CheckRuns, PushRuns
         DEF dlt_user_log_out_error_handling, Callees, ErrorCheck, At
    <3> QED
      BY <2>1, <3>1
  <2> HIDE DEF Goal
  <2> QED
    BY <1>1, <2>2, <2>3, <2>4 DEF Library, dlt_init
<1>2. ASSUME NEW t \in Logger, Log(t) \/ dlt_user_log_send_log(t) PROVE Goal
  BY <1>2, LogBefore, LogAfter, Threads DEF dlt_user_log_send_log
<1>3. ASSUME dlt_user_housekeeperthread_function PROVE Goal
  BY <1>3, HousekeeperRuns, Threads DEF dlt_user_housekeeperthread_function
<1>4. ASSUME MainThread PROVE Goal
  BY <1>4, MainRuns, Threads
<1>5. ASSUME DaemonRead \/ DaemonCrash \/ DaemonStart \/ Terminated PROVE Goal
  BY <1>5 DEF DaemonRead, DaemonCrash, DaemonStart, Terminated, vars, threads
<1>6. ASSUME HousekeeperCancelled PROVE Goal
  BY <1>6
<1> HIDE DEF Goal
<1>7. Goal
  BY <1>1, <1>2, <1>3, <1>4, <1>5, <1>6 DEF Next
<1> QED
  BY <1>7 DEF Goal

(* What main does at the bottom.                                           *)
LEMMA MainSteps ==
  ASSUME IInv, ErrorSound, Next, stack'[main] # <<>>
  PROVE  \/ stack[main] # <<>> /\ Bottom(main)' = Bottom(main)
         \/ MainThread
<1>0. StackType /\ main \in Thread /\ main # housekeeper /\ main \notin Logger
  BY Threads DEF IInv, TypeSound
<1>1. CASE stack' = stack
  BY <1>1 DEF Bottom
<1>2. ASSUME NEW t \in Thread, Runs(t), t = main => Len(stack[main]) > 1
      PROVE  stack[main] # <<>> /\ Bottom(main)' = Bottom(main)
  <2>1. CASE t = main
    BY <1>0, <1>2, <2>1, RunsBelow DEF Runs
  <2>2. CASE t # main
    BY <1>0, <1>2, <2>2 DEF Runs, Others, Bottom
  <2> QED
    BY <2>1, <2>2
<1>3. ASSUME NEW t \in Thread, InitConnect(t) PROVE stack[main] # <<>> /\ Bottom(main)' = Bottom(main)
  BY <1>3, Connected DEF Bottom, Starting, MainIs
<1>4. ASSUME HousekeeperCancelled PROVE stack[main] # <<>> /\ Bottom(main)' = Bottom(main)
  BY <1>0, <1>4, CancelledIs DEF Others, Bottom
<1>5. ASSUME NEW t \in Logger, Log(t) PROVE stack[main] # <<>> /\ Bottom(main)' = Bottom(main)
  BY <1>0, <1>5, LogsIs DEF Others, Bottom
<1> QED
  BY <1>1, <1>2, <1>3, <1>4, <1>5, Steps

-----------------------------------------------------------------------------
(* The exit handler counts what is in the startup buffer, and from then on *)
(* nobody logs.                                                            *)
LeavingNow == stack[main] # <<>> /\ Bottom(main).pc \in Leaving
ExitSound ==
    LeavingNow => exitReport \in Nat /\ Cardinality(Range(startup_buffer) \cap Messages) <= exitReport

(* There are at most as many messages as places.                           *)
LEMMA RangeCount ==
  ASSUME NEW q \in Seq(Msg)
  PROVE  IsFiniteSet(Range(q)) /\ Cardinality(Range(q)) <= Len(q) /\ Cardinality(Range(q)) \in Nat
<1>1. PICK n \in Nat : n = Len(q)
  BY RangeIs
<1>2. q \in [1 .. n -> Range(q)] /\ \A x \in Range(q) : \E i \in 1 .. n : q[i] = x
  BY <1>1, RangeIs
<1>3. q \in Surjection(1 .. n, Range(q))
  BY <1>2 DEF Surjection
<1>4. IsFiniteSet(1 .. n) /\ Cardinality(1 .. n) = n
  <2>1. \A k \in Nat : 1 \in Int /\ k \in Int /\ (IF 1 > k THEN 0 ELSE k - 1 + 1) = k
    OBVIOUS
  <2> QED
    BY <2>1, FS_Interval
<1>5. IsFiniteSet(Range(q)) /\ Cardinality(Range(q)) <= Cardinality(1 .. n)
  BY <1>3, <1>4, FS_Surjection
<1> QED
  BY <1>1, <1>4, <1>5, FS_CardinalityType

(* A part of it is not more.                                               *)
LEMMA PartCount ==
  ASSUME NEW q \in Seq(Msg), NEW S, S \subseteq Range(q)
  PROVE  IsFiniteSet(S) /\ Cardinality(S) \in Nat /\ Cardinality(S) <= Len(q)
<1>1. IsFiniteSet(Range(q)) /\ Cardinality(Range(q)) <= Len(q) /\ Cardinality(Range(q)) \in Nat /\ Len(q) \in Nat
  BY RangeCount, RangeIs
<1>2. IsFiniteSet(S) /\ Cardinality(S) <= Cardinality(Range(q))
  BY <1>1, FS_Subset
<1>3. Cardinality(S) \in Nat
  BY <1>2, FS_CardinalityType
<1> QED
  BY <1>1, <1>2, <1>3

(* Nobody adds a log message once the exit handler has counted.            *)
LEMMA LeavingShrinks ==
  ASSUME IInv, Next, LeavingNow
  PROVE  Range(startup_buffer') \cap Messages \subseteq Range(startup_buffer) \cap Messages
<1>0. startup_buffer \in Seq(Msg)
  BY DEF IInv, TypeSound
<1>1. ~MainIs("run") /\ ~Starting
  BY DEF LeavingNow, MainIs, Starting, Leaving
<1>2. ASSUME NEW t \in Thread, ErrorPush(t)
      PROVE  Range(startup_buffer') \cap Messages \subseteq Range(startup_buffer) \cap Messages
  <2>1. At(t, "error_handling", "push") /\ stack[t] # <<>>
    BY <1>2 DEF ErrorPush, At
  <2>2. PICK m \in Msg : m = top(t).m
    BY <2>1, StartsFrom
  <2>3. m.kind # "log"
    <3>1. SUFFICES ASSUME m.kind = "log" PROVE FALSE
      OBVIOUS
    <3>2. t \in Logger
      BY <2>1, <2>2, <3>1, PushedIs
    <3> QED
      BY <1>1, <2>1, <3>2 DEF IInv, MainSound, Idle
  <2>4. m \notin Messages
    BY <2>3 DEF Messages, LogMsg
  <2>5. startup_buffer' = startup_buffer \/ startup_buffer' = Append(startup_buffer, m)
    BY <1>2, <2>2 DEF ErrorPush
  <2> QED
    BY <1>0, <2>4, <2>5, AppendIs
<1>3. ASSUME NEW t \in Thread, ResendWrite(t)
      PROVE  Range(startup_buffer') \cap Messages \subseteq Range(startup_buffer) \cap Messages
  <2>1. startup_buffer # <<>>
    BY <1>3 DEF ResendWrite, IInv, MutexSound
  <2>2. startup_buffer' = startup_buffer \/ startup_buffer' = Tail(startup_buffer)
    BY <1>3 DEF ResendWrite, RemoveSent
  <2> QED
    BY <1>0, <2>1, <2>2, TailIs
<1>4. ASSUME NEW t \in Thread, InitCommon(t) PROVE FALSE
  BY <1>1, <1>4, InitRuns
<1>5. ASSUME FreeBuffer
      PROVE  Range(startup_buffer') \cap Messages \subseteq Range(startup_buffer) \cap Messages
  <2>1. PICK e \in Seq(Msg) : e = <<>>
    <3>1. <<>> \in Seq(Msg)
      OBVIOUS
    <3> QED
      BY <3>1
  <2>2. startup_buffer' = e
    BY <1>5, <2>1 DEF FreeBuffer
  <2> QED
    BY <2>1, <2>2, RangeIs
<1>6. \/ startup_buffer' = startup_buffer
      \/ \E t \in Thread : ErrorPush(t) \/ ResendWrite(t) \/ InitCommon(t)
      \/ FreeBuffer
  <2>1. CASE \E t \in Thread : Library(t)
    BY <2>1, LibraryChanges
  <2>2. CASE \E t \in Logger : Log(t) \/ dlt_user_log_send_log(t)
    BY <2>2, LogChanges
  <2>3. CASE MainThread \/ dlt_user_housekeeperthread_function \/ HousekeeperCancelled
    BY <2>3, ThreadChanges
  <2>4. CASE DaemonRead \/ DaemonCrash \/ DaemonStart \/ Terminated
    BY <2>4 DEF DaemonRead, DaemonCrash, DaemonStart, Terminated, vars, shared
  <2> QED
    BY <2>1, <2>2, <2>3, <2>4 DEF Next
<1> QED
  BY <1>2, <1>3, <1>4, <1>5, <1>6

(* The report covers what is left, after every step.                       *)
LEMMA ExitNext ==
  ASSUME IInv, ErrorSound, ExitSound, Next
  PROVE  ExitSound'
<1>0. startup_buffer \in Seq(Msg)
  BY DEF IInv, TypeSound
<1>1. SUFFICES ASSUME LeavingNow'
               PROVE  exitReport' \in Nat /\ Cardinality(Range(startup_buffer') \cap Messages) <= exitReport'
  BY DEF ExitSound, Messages, LogMsg
<1>2. CASE ExitRecount
  <2>1. exitReport' = Len(startup_buffer) /\ startup_buffer' = startup_buffer
    BY <1>2 DEF ExitRecount, shared
  <2> QED
    BY <1>0, <2>1, PartCount, RangeIs
<1>3. CASE ~ExitRecount
  <2>1. LeavingNow
    <3>1. \/ stack[main] # <<>> /\ Bottom(main)' = Bottom(main)
          \/ MainThread
      BY <1>1, MainSteps DEF LeavingNow
    <3>2. CASE MainThread
      <4>1. Bottom(main).pc \in Leaving \cup {"recount"} /\ stack[main] # <<>> /\ top(main) = Bottom(main)
        BY <1>1, <3>2, MainRuns DEF LeavingNow, Proceeds, Runs
      <4>2. top(main).pc # "recount"
        BY <1>3, <3>2 DEF MainThread, dlt_register_app, dlt_register_context, MainExit,
           dlt_unregister_app_flush_buffered_logs, dlt_unregister_app_util, dlt_user_atexit_handler, ExitCount,
           BlowOut, BlowOverflow, BlowResend, BlownOut, dlt_free, FreeStart, FreeClose, FreeBuffer, At
      <4> QED
        BY <4>1, <4>2 DEF LeavingNow
    <3> QED
      BY <1>1, <3>1, <3>2 DEF LeavingNow
  <2>2. exitReport' = exitReport
    <3>1. CASE \E t \in Thread : Library(t)
      BY <3>1, LibraryChanges
    <3>2. CASE \E t \in Logger : Log(t) \/ dlt_user_log_send_log(t)
      BY <3>2, LogChanges
    <3>3. CASE MainThread \/ dlt_user_housekeeperthread_function \/ HousekeeperCancelled
      BY <1>3, <3>3, ThreadChanges
    <3>4. CASE DaemonRead \/ DaemonCrash \/ DaemonStart \/ Terminated
      BY <3>4 DEF DaemonRead, DaemonCrash, DaemonStart, Terminated, vars, hist
    <3> QED
      BY <3>1, <3>2, <3>3, <3>4 DEF Next
  <2>3. PICK n \in Nat : n = exitReport /\ Cardinality(Range(startup_buffer) \cap Messages) <= n
    BY <2>1 DEF ExitSound
  <2> DEFINE S == Range(startup_buffer) \cap Messages
             T == Range(startup_buffer') \cap Messages
  <2>4. T \subseteq S /\ S \subseteq Range(startup_buffer) /\ T \subseteq Range(startup_buffer)
    BY <2>1, LeavingShrinks
  <2>5. IsFiniteSet(S) /\ Cardinality(S) \in Nat /\ Cardinality(T) \in Nat
    BY <1>0, <2>4, PartCount
  <2>6. Cardinality(S) <= n
    BY <2>3
  <2> HIDE DEF S, T
  <2>7. Cardinality(T) <= Cardinality(S)
    BY <2>4, <2>5, FS_Subset
  <2>8. Cardinality(T) <= n
    BY <2>5, <2>6, <2>7
  <2> QED
    BY <2>2, <2>3, <2>8 DEF T
<1> QED
  BY <1>2, <1>3

-----------------------------------------------------------------------------
(* The beginning: nothing is lost.                                         *)
LEMMA LossesBegin ==
  ASSUME Init
  PROVE  ErrorSound /\ CountSound /\ ExitSound
<1>1. /\ overflow_counter = 0 /\ dropped = {} /\ reported = 0
  BY DEF Init
<1>2. /\ \A u \in Logger : stack[u] = <<>>
      /\ stack[main] # <<>> => top(main).fn \in {"init", "main"}
      /\ stack[housekeeper] # <<>> => top(housekeeper).fn = "housekeeper"
      /\ \A q : MainIs(q) => q \in {"start", "run"}
  <2>1. CASE InitFresh
    BY <2>1, FreshStacks
  <2>2. ASSUME NEW up, InitRegistered(up)
        PROVE  /\ \A u \in Logger : stack[u] = <<>>
               /\ top(main).fn = "main" /\ top(housekeeper).fn = "housekeeper"
               /\ \A q : MainIs(q) => q = "run"
    BY <2>2, RegisteredStacks
  <2> QED
    BY <2>1, <2>2 DEF Init
<1>3. ErrorSound
  BY <1>2, Threads DEF ErrorSound
<1>4. CountSound
  <2>1. \A u \in Thread : CountFits(u) /\ ~At(u, "send_overflow", "reset")
    BY <1>2, Threads DEF CountFits, At
  <2>2. BeingReset = {} /\ Counted = {}
    BY <1>1, <2>1 DEF BeingReset, Counted
  <2>3. IsFiniteSet({}) /\ Cardinality({}) = 0
    BY FS_EmptySet
  <2> QED
    BY <1>1, <2>1, <2>2, <2>3 DEF CountSound
<1>5. ExitSound
  <2>1. ~LeavingNow
    BY <1>2 DEF LeavingNow, Leaving, MainIs
  <2> QED
    BY <2>1 DEF ExitSound
<1> QED
  BY <1>3, <1>4, <1>5

(* What the invariant says of the losses.                                  *)
LEMMA LossesImplied ==
  ASSUME IInv, CountSound, ExitSound
  PROVE  LossesAreReported
<1>1. ASSUME AloneLogs
      PROVE  overflow_counter + reported =
                Cardinality(dropped \ Uncounted)
                + (IF BeingReset = {} THEN 0 ELSE top(CHOOSE t \in BeingReset : TRUE).n)
  <2>1. PICK n : n = Cardinality(dropped \ Uncounted)
    OBVIOUS
  <2>2. reported + (IF BeingReset = {} THEN overflow_counter ELSE 0) = n
    BY <1>1, <2>1 DEF CountSound, Counted
  <2>3. overflow_counter \in Nat /\ reported \in Nat
    BY DEF IInv, TypeSound, TypeOK
  <2>4. CASE BeingReset = {}
    BY <2>1, <2>2, <2>3, <2>4
  <2>5. CASE BeingReset # {}
    <3>1. PICK t : t = CHOOSE u \in BeingReset : TRUE
      OBVIOUS
    <3>2. t \in BeingReset
      BY <2>5, <3>1
    <3>3. t \in Thread /\ At(t, "send_overflow", "reset")
      BY <3>2 DEF BeingReset
    <3>4. top(t).n = overflow_counter
      BY <1>1, <3>3 DEF CountSound, CountFits, At
    <3>5. n = reported
      BY <2>2, <2>3, <2>5
    <3>6. overflow_counter + reported = n + overflow_counter
      BY <2>3, <3>5
    <3>7. (IF BeingReset = {} THEN 0 ELSE top(CHOOSE u \in BeingReset : TRUE).n) = overflow_counter
      BY <2>5, <3>1, <3>4
    <3> QED
      BY <2>1, <3>6, <3>7
  <2> QED
    BY <2>4, <2>5
<1>2. LossesAreCounted
  BY <1>1 DEF LossesAreCounted, AloneLogs
<1>3. ExitReports
  <2>1. SUFFICES ASSUME At(main, "main", "release")
                 PROVE  Cardinality(Range(startup_buffer) \cap Messages) <= exitReport
    BY DEF ExitReports
  <2>2. LeavingNow
    BY <2>1, MainFrom DEF LeavingNow, Leaving, At
  <2> QED
    BY <2>2 DEF ExitSound
<1> QED
  BY <1>2, <1>3 DEF LossesAreReported

(* However messages, retries and crashes interleave: while one thread      *)
(* logs, each log message the full startup buffer refused is counted until *)
(* the count has been written to the daemon, and the exit handler reports  *)
(* at least the log messages dlt_free throws away                          *)
(* (dlt_user_log_send_log, dlt_user_atexit_handler).                       *)
THEOREM LossesAreReportedTheorem ==
  ASSUME \A s \in Scenarios : ~s.lazy
  PROVE  Spec => []LossesAreReported
<1> DEFINE Inv == IInv /\ ErrorSound /\ CountSound /\ ExitSound
<1>1. Init => Inv
  BY InitSound, LossesBegin
<1>2. Inv /\ [Next]_vars => Inv'
  <2> SUFFICES ASSUME Inv, [Next]_vars PROVE Inv'
    OBVIOUS
  <2>1. IInv'
    BY NextKeeps
  <2>2. CASE Next
    BY <2>1, <2>2, ErrorNext, CountNext, ExitNext
  <2>3. CASE UNCHANGED vars
    <3>1. UNCHANGED <<scenario, stack, ret, overflow_counter, reported, dropped, startup_buffer, exitReport>>
      BY <2>3 DEF vars, shared, threads, hist
    <3>2. ErrorSound'
      BY <3>1 DEF ErrorSound, top
    <3>3. CountSound'
      BY <3>1, CountSame
    <3>4. ExitSound'
      BY <3>1 DEF ExitSound, LeavingNow, Bottom, Messages
    <3> QED
      BY <2>1, <3>2, <3>3, <3>4
  <2> QED
    BY <2>2, <2>3
<1>3. Inv => LossesAreReported
  BY LossesImplied
<1> QED
  BY <1>1, <1>2, <1>3, PTL DEF Spec

-----------------------------------------------------------------------------
(***************************************************************************)
(* When all is quiet and the application is connected, the daemon knows    *)
(* the application and its context, whatever crashed and whoever           *)
(* re-attached, unless the startup buffer refused a registration.          *)
(*                                                                         *)
(* The argument: while the handle leads to the daemon that is up, every    *)
(* registration is read, on its way, stored in the startup buffer, or some *)
(* thread owes it: it is inside the function that sends it, or has still   *)
(* to send the contexts it re-registers.  The handle leads to a new daemon *)
(* only through a re-attach, which owes both from then on.  A descriptor   *)
(* between open and its use is known to one thread, so that nobody closes  *)
(* it, and the handle is closed only while some thread forgets it.         *)
(***************************************************************************)

(* What a thread inside a function does next is a step of that function.   *)
Does(t) ==
    \/ top(t).fn = "reattach" /\ dlt_user_log_reattach_to_daemon(t)
    \/ top(t).fn = "resend_buffer" /\ dlt_user_log_resend_buffer(t)
    \/ top(t).fn = "send_register" /\ dlt_user_log_send_register(t)
    \/ top(t).fn = "send_overflow" /\ dlt_user_log_send_overflow(t)
    \/ top(t).fn = "error_handling" /\ dlt_user_log_out_error_handling(t)
    \/ top(t).fn = "send_log" /\ t \in Logger /\ dlt_user_log_send_log(t)
    \/ top(t).fn = "housekeeper" /\ t = housekeeper /\ (HousekeeperReattach \/ HousekeeperResend)
    \/ top(t).fn = "main" /\ t = main /\ MainThread

Sets(t) ==
    /\ t = main /\ Starting
    /\ stack'[main] # <<>> /\ top(main).fn = "init" /\ top(main)'.fn \in {"init", "main"}
    /\ InitFlag(main) \/ InitCommon(main) \/ InitConnect(main)

(* A step of one of the library's functions runs the calls of the thread   *)
(* that is inside that function.                                           *)
LEMMA LibraryDoes ==
  ASSUME IInv, ErrorSound, NEW t \in Thread,
         \/ dlt_user_log_reattach_to_daemon(t) \/ dlt_user_log_resend_buffer(t)
         \/ dlt_user_log_send_register(t) \/ dlt_user_log_send_overflow(t)
         \/ dlt_user_log_out_error_handling(t)
  PROVE  Runs(t) /\ Does(t)
<1>1. ASSUME dlt_user_log_out_error_handling(t) PROVE Runs(t) /\ top(t).fn = "error_handling"
  <2>1. ASSUME ErrorCheck(t) PROVE Runs(t) /\ top(t).fn = "error_handling"
    <3>1. top(t).fn = "error_handling"
      BY <2>1 DEF ErrorCheck, At
    <3> QED
      BY <2>1, <3>1, CheckRuns
  <2>2. ASSUME ErrorPush(t) PROVE Runs(t) /\ top(t).fn = "error_handling"
    BY <2>2, PushRuns
  <2> QED
    BY <1>1, <2>1, <2>2 DEF dlt_user_log_out_error_handling
<1> QED
  BY <1>1, ReattachRuns, ResendRuns, RegisterRuns, OverflowRuns DEF Does

(* Seen from one thread, a step of the program leaves its calls alone,     *)
(* runs them, sets the application up in dlt_init, or cancels the          *)
(* housekeeper.                                                            *)
LEMMA StepOf ==
  ASSUME IInv, ErrorSound, Next, NEW t \in Thread, stack[t] # <<>>
  PROVE  \/ stack'[t] = stack[t] /\ ret'[t] = ret[t]
         \/ Runs(t) /\ Does(t)
         \/ Sets(t)
         \/ t = housekeeper /\ HousekeeperCancelled /\ stack'[t] = <<>>
<1> DEFINE Goal ==
         \/ stack'[t] = stack[t] /\ ret'[t] = ret[t]
         \/ Runs(t) /\ Does(t)
         \/ Sets(t)
         \/ t = housekeeper /\ HousekeeperCancelled /\ stack'[t] = <<>>
<1>1. ASSUME NEW u \in Thread, Runs(u), Does(u) PROVE Goal
  <2>1. u # t => stack'[t] = stack[t] /\ ret'[t] = ret[t]
    BY <1>1 DEF Runs, Others, RetOthers
  <2> QED
    BY <1>1, <2>1
<1>2. ASSUME NEW u \in Thread, Library(u) PROVE Goal
  <2>1. ASSUME InitFlag(u) \/ InitCommon(u) PROVE Goal
    <3>1. /\ u = main /\ Starting /\ Runs(main) /\ stack'[main] # <<>>
          /\ top(main).fn = "init" /\ top(main)'.fn = "init"
      BY <2>1, InitRuns
    <3>2. u # t => stack'[t] = stack[t] /\ ret'[t] = ret[t]
      BY <3>1 DEF Runs, Others, RetOthers
    <3> QED
      BY <2>1, <3>1, <3>2 DEF Sets
  <2>2. ASSUME InitConnect(u) PROVE Goal
    <3>1. /\ u = main /\ Starting /\ Len(stack'[main]) = 1 /\ top(main)' = Bottom(main) /\ Bottom(main).fn = "main"
          /\ stack[housekeeper] = <<>> /\ \A l \in Logger : stack[l] = <<>>
      BY <2>2, Connected
    <3>2. t = main
      BY <3>1, Threads
    <3>3. stack'[main] # <<>>
      <4>1. Len(<<>>) = 0
        OBVIOUS
      <4>2. Len(stack'[main]) = 1
        BY <3>1
      <4> QED
        BY <4>1, <4>2
    <3>4. top(main).fn = "init"
      BY <2>2, <3>1 DEF InitConnect, At
    <3> QED
      BY <2>2, <3>1, <3>2, <3>3, <3>4 DEF Sets
  <2> HIDE DEF Goal
  <2>3. CASE dlt_init(u)
    BY <2>1, <2>2, <2>3 DEF dlt_init
  <2>4. CASE ~dlt_init(u)
    BY <1>1, <1>2, <2>4, LibraryDoes DEF Library
  <2> QED
    BY <2>3, <2>4
<1>3. ASSUME NEW u \in Logger, Log(u) PROVE Goal
  <2>1. Others(u) /\ u # t
    BY <1>3, LogsIs
  <2>2. ret' = ret
    BY <1>3 DEF Log
  <2> QED
    BY <2>1, <2>2 DEF Others
<1>4. ASSUME NEW u \in Logger, dlt_user_log_send_log(u) PROVE Goal
  <2>1. Runs(u) /\ top(u).fn = "send_log" /\ u \in Thread
    BY <1>4, LogBefore, LogAfter DEF dlt_user_log_send_log
  <2>2. Does(u)
    BY <1>4, <2>1 DEF Does
  <2> QED
    BY <1>1, <2>1, <2>2
<1>5. ASSUME HousekeeperReattach \/ HousekeeperResend PROVE Goal
  <2>1. Runs(housekeeper) /\ top(housekeeper).fn = "housekeeper" /\ housekeeper \in Thread
    BY <1>5, HousekeeperRuns, Threads
  <2>2. Does(housekeeper)
    BY <1>5, <2>1 DEF Does
  <2> QED
    BY <1>1, <2>1, <2>2
<1>6. ASSUME MainThread PROVE Goal
  <2>1. Runs(main) /\ top(main).fn = "main" /\ main \in Thread
    BY <1>6, MainRuns, Threads
  <2>2. Does(main)
    BY <1>6, <2>1 DEF Does
  <2> QED
    BY <1>1, <2>1, <2>2
<1>7. ASSUME HousekeeperCancelled PROVE Goal
  <2>1. Others(housekeeper) /\ stack'[housekeeper] = <<>> /\ ret' = ret
    BY <1>7, CancelledIs DEF HousekeeperCancelled
  <2> QED
    BY <1>7, <2>1 DEF Others
<1>8. ASSUME DaemonRead \/ DaemonCrash \/ DaemonStart \/ Terminated PROVE Goal
  BY <1>8 DEF DaemonRead, DaemonCrash, DaemonStart, Terminated, vars, threads
<1> HIDE DEF Goal
<1>9. Goal
  BY <1>2, <1>3, <1>4, <1>5, <1>6, <1>7, <1>8 DEF Next, dlt_user_housekeeperthread_function
<1> QED
  BY <1>9 DEF Goal

(* A thread that did nothing begins to log, or is the housekeeper created. *)
LEMMA Wakes ==
  ASSUME IInv, ErrorSound, Next, NEW t \in Thread, stack[t] = <<>>, stack'[t] # <<>>
  PROVE  /\ Len(stack'[t]) = 1 /\ top(t)' = stack'[t][1]
         /\ \/ t \in Logger /\ Log(t) /\ stack'[t][1].fn = "send_log" /\ stack'[t][1].m.kind = "log"
            \/ t = housekeeper /\ InitConnect(main) /\ stack'[t][1].fn = "housekeeper" /\ stack'[t][1].m = AppMsg
<1>1. ~Runs(t) /\ stack'[t] # stack[t]
  BY DEF Runs
<1>2. ASSUME NEW u \in Thread, Runs(u) PROVE FALSE
  BY <1>1, <1>2 DEF Runs, Others
<1>3. ~HousekeeperCancelled
  BY <1>1, CancelledIs DEF Others
<1>4. ASSUME NEW u \in Thread, InitConnect(u)
      PROVE  /\ Len(stack'[t]) = 1 /\ top(t)' = stack'[t][1]
             /\ t = housekeeper /\ InitConnect(main) /\ stack'[t][1].fn = "housekeeper" /\ stack'[t][1].m = AppMsg
  <2>1. /\ u = main /\ Starting /\ Len(stack'[housekeeper]) = 1 /\ top(housekeeper)' = stack'[housekeeper][1]
        /\ stack'[housekeeper][1].fn = "housekeeper" /\ stack'[housekeeper][1].m = AppMsg
        /\ \A l \in Logger : stack'[l] = <<>>
    BY <1>4, Connected
  <2>2. t # main
    BY <2>1 DEF Starting, MainIs
  <2> QED
    BY <1>4, <2>1, <2>2, Threads
<1>5. ASSUME NEW u \in Logger, Log(u)
      PROVE  /\ Len(stack'[t]) = 1 /\ top(t)' = stack'[t][1]
             /\ t \in Logger /\ Log(t) /\ stack'[t][1].fn = "send_log" /\ stack'[t][1].m.kind = "log"
  <2>1. /\ Others(u) /\ Len(stack'[u]) = 1 /\ top(u)' = stack'[u][1] /\ stack'[u][1].fn = "send_log"
        /\ stack'[u][1].m = LogMsg(u, logged[u] + 1)
    BY <1>5, LogsIs
  <2>2. t = u
    BY <1>1, <2>1 DEF Others
  <2> QED
    BY <1>5, <2>1, <2>2 DEF LogMsg
<1> QED
  BY <1>1, <1>2, <1>3, <1>4, <1>5, Steps

-----------------------------------------------------------------------------
(* The descriptors: which steps change them, and the handle.               *)
Opens(t) == ReattachOpen(t) \/ ReattachOpened(t) \/ InitConnect(t)
Forgets(t) == ResendClose(t) \/ ResendClosed(t) \/ LogClose(t) \/ LogClosed(t) \/ FreeClose

(* Only open, in a re-attach or in dlt_init, and the four places that      *)
(* close or forget the handle touch a descriptor or the handle.            *)
LEMMA FdsNext ==
  ASSUME Next
  PROVE  \/ UNCHANGED <<fds, dlt_log_handle>>
         \/ \E t \in Thread : Opens(t) \/ Forgets(t)
<1> DEFINE Goal ==
         \/ UNCHANGED <<fds, dlt_log_handle>>
         \/ \E t \in Thread : Opens(t) \/ Forgets(t)
<1>1. ASSUME NEW t \in Thread, Library(t) PROVE Goal
  BY <1>1, LibraryChanges DEF Opens, Forgets
<1>2. ASSUME NEW t \in Logger, Log(t) \/ dlt_user_log_send_log(t) PROVE Goal
  BY <1>2, LogChanges, Threads DEF Forgets
<1>3. ASSUME MainThread \/ dlt_user_housekeeperthread_function \/ HousekeeperCancelled PROVE Goal
  BY <1>3, ThreadChanges, Threads DEF Forgets
<1>4. ASSUME DaemonRead \/ DaemonCrash \/ DaemonStart \/ Terminated PROVE Goal
  BY <1>4 DEF DaemonRead, DaemonCrash, DaemonStart, Terminated, vars, shared, world
<1> HIDE DEF Goal
<1>5. Goal
  BY <1>1, <1>2, <1>3, <1>4 DEF Next
<1> QED
  BY <1>5 DEF Goal

(* What they make of them.                                                 *)
LEMMA OpensIs ==
  ASSUME IInv, NEW t \in Thread, Opens(t)
  PROVE  /\ UNCHANGED <<daemon, crashes>> /\ (daemon # DOWN \/ fds' = fds)
         /\ ReattachOpen(t) => dlt_log_handle' = NONE
         /\ ReattachOpened(t) => dlt_log_handle' = top(t).fd
         /\ InitConnect(t) => dlt_log_handle' = NONE \/ (dlt_log_handle' \in Fds /\ fds'[dlt_log_handle'] = daemon)
         /\ \/ fds' = fds
            \/ \E f \in Fds : /\ fds' = [fds EXCEPT ![f] = daemon] /\ daemon # DOWN
                              /\ ReattachOpen(t) \/ InitConnect(t)
                              /\ ReattachOpen(t) => fds[f] = CLOSED
<1>0. fds \in [Fds -> 0..(MaxCrash + 1)]
  BY DEF IInv, TypeSound, TypeOK
<1> DEFINE Goal ==
         /\ UNCHANGED <<daemon, crashes>> /\ (daemon # DOWN \/ fds' = fds)
         /\ ReattachOpen(t) => dlt_log_handle' = NONE
         /\ ReattachOpened(t) => dlt_log_handle' = top(t).fd
         /\ InitConnect(t) => dlt_log_handle' = NONE \/ (dlt_log_handle' \in Fds /\ fds'[dlt_log_handle'] = daemon)
         /\ \/ fds' = fds
            \/ \E f \in Fds : /\ fds' = [fds EXCEPT ![f] = daemon] /\ daemon # DOWN
                              /\ ReattachOpen(t) \/ InitConnect(t)
                              /\ ReattachOpen(t) => fds[f] = CLOSED
<1>1. ASSUME ReattachOpen(t) PROVE Goal
  <2>1. ~ReattachOpened(t) /\ ~InitConnect(t) /\ dlt_log_handle' = NONE /\ UNCHANGED <<daemon, crashes>>
    BY <1>1 DEF ReattachOpen, ReattachOpened, InitConnect, At
  <2> DEFINE free == {f \in Fds : fds[f] = CLOSED}
  <2>2. CASE daemon # DOWN /\ free # {}
    <3>1. PICK f \in Fds : f = (CHOOSE x \in free : \A g \in free : x <= g) /\ fds[f] = CLOSED
      <4>1. (CHOOSE x \in free : \A g \in free : x <= g) \in free
        BY <2>2, LowestFd
      <4> QED
        BY <4>1
    <3>2. fds' = [fds EXCEPT ![f] = daemon]
      BY <1>1, <2>2, <3>1 DEF ReattachOpen
    <3> QED
      BY <1>1, <2>1, <2>2, <3>1, <3>2
  <2>3. CASE ~(daemon # DOWN /\ free # {})
    <3>1. fds' = fds
      BY <1>1, <2>3 DEF ReattachOpen
    <3> QED
      BY <1>1, <2>1, <3>1
  <2> QED
    BY <2>2, <2>3
<1>2. ASSUME ReattachOpened(t) PROVE Goal
  BY <1>2 DEF ReattachOpen, ReattachOpened, InitConnect, At, world
<1>3. ASSUME InitConnect(t) PROVE Goal
  <2>1. ~ReattachOpened(t) /\ ~ReattachOpen(t) /\ UNCHANGED <<daemon, crashes>> /\ dlt_initialize_fifo_connection
    BY <1>3 DEF ReattachOpen, ReattachOpened, InitConnect, At
  <2>2. MinFd \in Fds
    BY UserAssumption, LowestFd DEF MinFd
  <2> QED
    BY <1>0, <1>3, <2>1, <2>2 DEF dlt_initialize_fifo_connection
<1> HIDE DEF Goal
<1>4. Goal
  BY <1>1, <1>2, <1>3 DEF Opens
<1> QED
  BY <1>4 DEF Goal

(* Whoever closes closes the descriptor of the handle and no other; he     *)
(* forgets the handle in the same step or goes to the step that does.      *)
LEMMA ForgetsIs ==
  ASSUME IInv, NEW t \in Thread, Forgets(t)
  PROVE  /\ UNCHANGED <<daemon, crashes>>
         /\ \/ dlt_log_handle' = NONE /\ fds' = fds
            \/ /\ fds' = (IF dlt_log_handle \in Fds THEN [fds EXCEPT ![dlt_log_handle] = CLOSED] ELSE fds)
               /\ \/ dlt_log_handle' = NONE
                  \/ dlt_log_handle' = dlt_log_handle /\ (ResendClose(t) \/ LogClose(t))
<1>0. fds \in [Fds -> 0..(MaxCrash + 1)]
  BY DEF IInv, TypeSound, TypeOK
<1>1. DOMAIN fds = Fds
  BY <1>0
<1> DEFINE Goal ==
         /\ UNCHANGED <<daemon, crashes>>
         /\ \/ dlt_log_handle' = NONE /\ fds' = fds
            \/ /\ fds' = (IF dlt_log_handle \in Fds THEN [fds EXCEPT ![dlt_log_handle] = CLOSED] ELSE fds)
               /\ \/ dlt_log_handle' = NONE
                  \/ dlt_log_handle' = dlt_log_handle /\ (ResendClose(t) \/ LogClose(t))
<1>2. ASSUME ResendClose(t) \/ LogClose(t) PROVE Goal
  BY <1>1, <1>2 DEF ResendClose, LogClose, Close, shared
<1>3. ASSUME ResendClosed(t) \/ LogClosed(t) PROVE Goal
  BY <1>3 DEF ResendClosed, LogClosed, world
<1>4. ASSUME FreeClose PROVE Goal
  BY <1>1, <1>4 DEF FreeClose, Close
<1> HIDE DEF Goal
<1>5. Goal
  BY <1>2, <1>3, <1>4 DEF Forgets
<1> QED
  BY <1>5 DEF Goal

(* The runs of the daemon are counted by its crashes, and no descriptor    *)
(* leads to one that is still to come.                                     *)
RunSound ==
    /\ daemon # DOWN => daemon = crashes + 1
    /\ \A f \in Fds : fds[f] <= (IF daemon = DOWN THEN crashes ELSE daemon)

(* Every step keeps the count of the daemon's runs.                        *)
LEMMA RunNext ==
  ASSUME IInv, RunSound, Next
  PROVE  RunSound'
<1>0. /\ fds \in [Fds -> 0..(MaxCrash + 1)] /\ crashes \in Nat /\ daemon \in Nat /\ CLOSED = 0 /\ DOWN = 0
      /\ \A f \in Fds : fds[f] \in Int
  BY UserAssumption DEF IInv, TypeSound, TypeOK, Scenario, CLOSED, DOWN
<1>1. ASSUME UNCHANGED <<daemon, crashes>>, \A f \in Fds : fds'[f] = fds[f] \/ fds'[f] = CLOSED \/ fds'[f] = daemon
      PROVE  RunSound'
  BY <1>0, <1>1 DEF RunSound
<1>2. ASSUME NEW t \in Thread, Opens(t) PROVE RunSound'
  BY <1>0, <1>1, <1>2, OpensIs
<1>3. ASSUME NEW t \in Thread, Forgets(t) PROVE RunSound'
  BY <1>0, <1>1, <1>3, ForgetsIs
<1>4. ASSUME UNCHANGED <<fds, dlt_log_handle>> PROVE RunSound'
  <2>1. \/ UNCHANGED <<daemon, crashes>>
        \/ DaemonCrash \/ DaemonStart
    BY LibraryChanges, LogChanges, ThreadChanges DEF Next, DaemonRead, Terminated, vars, world
  <2>2. ASSUME DaemonCrash PROVE RunSound'
    BY <1>0, <1>4, <2>2 DEF DaemonCrash, RunSound
  <2>3. ASSUME DaemonStart PROVE RunSound'
    BY <1>0, <1>4, <2>3 DEF DaemonStart, RunSound
  <2> QED
    BY <1>0, <1>1, <1>4, <2>1, <2>2, <2>3
<1> QED
  BY <1>2, <1>3, <1>4, FdsNext

(* A re-attach, step by step.                                              *)
LEMMA ReattachSteps ==
  ASSUME IInv, NEW t \in Thread
  PROVE  /\ ReattachOpen(t) =>
              \/ Pops(t) /\ fds' = fds
              \/ \E g \in Frames : /\ Replaces(t, g) /\ g.fn = "reattach" /\ g.pc = "opened" /\ g.m = top(t).m
                                    /\ g.fd \in Fds /\ fds[g.fd] = CLOSED /\ daemon # DOWN
                                    /\ fds' = [fds EXCEPT ![g.fd] = daemon]
         /\ ReattachOpened(t) =>
              \E f, g \in Frames : /\ Pushes(t, f, g) /\ f.fn = "reattach" /\ f.pc = "application"
                                   /\ g.fn = "send_register" /\ g.m = AppMsg
         /\ ReattachContexts(t) =>
              \/ Pops(t) /\ (ret[t] < ERROR \/ ~appID \/ ~contexts)
              \/ \E f, g \in Frames : /\ Pushes(t, f, g) /\ f.fn = "reattach" /\ f.pc = "context"
                                      /\ g.fn = "send_register" /\ g.m = ContextMsg
         /\ ReattachResend(t) =>
              \/ Pops(t)
              \/ \E g \in Frames : Replaces(t, g) /\ g.fn = "resend_buffer" /\ g.m = ContextMsg
<1>0. \A pc : At(t, "reattach", pc) => /\ StackType /\ Shape /\ stack[t] # <<>> /\ top(t) \in Frames
                                      /\ ret \in [Thread -> Int] /\ top(t).fn = "reattach" /\ OK \in Int
  BY StartsFrom, ResultsAre
<1>1. ASSUME ReattachOpen(t)
      PROVE  \/ Pops(t) /\ fds' = fds
             \/ \E g \in Frames : /\ Replaces(t, g) /\ g.fn = "reattach" /\ g.pc = "opened" /\ g.m = top(t).m
                                   /\ g.fd \in Fds /\ fds[g.fd] = CLOSED /\ daemon # DOWN
                                   /\ fds' = [fds EXCEPT ![g.fd] = daemon]
  <2>0. At(t, "reattach", "start")
    BY <1>1 DEF ReattachOpen
  <2> DEFINE free == {f \in Fds : fds[f] = CLOSED}
  <2>1. CASE ~(daemon # DOWN /\ free # {})
    BY <1>0, <1>1, <2>0, <2>1, RunsReturn DEF ReattachOpen
  <2>2. CASE daemon # DOWN /\ free # {}
    <3>1. PICK fd : fd = (CHOOSE x \in free : \A g \in free : x <= g)
      OBVIOUS
    <3>2. fd \in free
      BY <2>2, <3>1, LowestFd
    <3>3. PICK g : g = [top(t) EXCEPT !.pc = "opened", !.fd = fd]
      OBVIOUS
    <3>4. g \in Frames /\ g.fn = "reattach" /\ g.pc = "opened" /\ g.m = top(t).m /\ g.fd = fd
      BY <1>0, <2>0, <3>2, <3>3 DEF Frames, Pcs
    <3>5. Goto(t, g) /\ fds' = [fds EXCEPT ![fd] = daemon]
      BY <1>1, <2>2, <3>1, <3>3 DEF ReattachOpen
    <3>6. Replaces(t, g)
      BY <1>0, <2>0, <3>4, <3>5, GotoIs
    <3> QED
      BY <2>2, <3>2, <3>4, <3>5, <3>6
  <2> QED
    BY <2>1, <2>2
<1>2. ASSUME ReattachOpened(t)
      PROVE  \E f, g \in Frames : /\ Pushes(t, f, g) /\ f.fn = "reattach" /\ f.pc = "application"
                                  /\ g.fn = "send_register" /\ g.m = AppMsg
  <2>0. At(t, "reattach", "opened")
    BY <1>2 DEF ReattachOpened
  <2>1. PICK f0 \in Frames : f0 = Frame("reattach", AppMsg) /\ f0.fn = "reattach"
    BY ControlMessages, NewFrame DEF Fns
  <2>2. PICK f : f = [f0 EXCEPT !.pc = "application"]
    OBVIOUS
  <2>3. f \in Frames /\ f.fn = "reattach" /\ f.pc = "application"
    BY <2>1, <2>2 DEF Frames, Pcs
  <2>4. PICK g \in Frames : g = Frame("send_register", AppMsg) /\ g.fn = "send_register" /\ g.m = AppMsg
    BY ControlMessages, NewFrame DEF Fns
  <2>5. stack' = [stack EXCEPT ![t] = Front(@) \o <<f, g>>]
    BY <1>2, <2>1, <2>2, <2>4 DEF ReattachOpened
  <2>6. Pushes(t, f, g)
    BY <1>0, <2>0, <2>3, <2>5, FrontPushes
  <2> QED
    BY <2>3, <2>4, <2>6
<1>3. ASSUME ReattachContexts(t)
      PROVE  \/ Pops(t) /\ (ret[t] < ERROR \/ ~appID \/ ~contexts)
             \/ \E f, g \in Frames : /\ Pushes(t, f, g) /\ f.fn = "reattach" /\ f.pc = "context"
                                     /\ g.fn = "send_register" /\ g.m = ContextMsg
  <2>0. At(t, "reattach", "application")
    BY <1>3 DEF ReattachContexts
  <2>1. \/ Return(t, OK) /\ (ret[t] < ERROR \/ ~appID \/ ~contexts)
        \/ Call(t, "context", Frame("send_register", ContextMsg))
    BY <1>3 DEF ReattachContexts
  <2>2. PICK g \in Frames : g = Frame("send_register", ContextMsg) /\ g.fn = "send_register" /\ g.m = ContextMsg
    BY ControlMessages, NewFrame DEF Fns
  <2>3. ASSUME Call(t, "context", Frame("send_register", ContextMsg))
        PROVE  \E f \in Frames : Pushes(t, f, g) /\ f.fn = "reattach" /\ f.pc = "context"
    <3>1. Call(t, "context", g)
      BY <2>2, <2>3
    <3>2. "context" \in Pcs
      BY DEF Pcs
    <3> QED
      BY <1>0, <2>0, <3>1, <3>2, CallIs
  <2>4. Return(t, OK) => Pops(t)
    BY <1>0, <2>0, RunsReturn
  <2> QED
    BY <2>1, <2>2, <2>3, <2>4
<1>4. ASSUME ReattachResend(t)
      PROVE  \/ Pops(t)
             \/ \E g \in Frames : Replaces(t, g) /\ g.fn = "resend_buffer" /\ g.m = ContextMsg
  <2>0. At(t, "reattach", "context")
    BY <1>4 DEF ReattachResend
  <2>1. Return(t, OK) \/ TailCall(t, Frame("resend_buffer", ContextMsg))
    BY <1>4 DEF ReattachResend
  <2>2. PICK g \in Frames : g = Frame("resend_buffer", ContextMsg) /\ g.fn = "resend_buffer" /\ g.m = ContextMsg
    BY ControlMessages, NewFrame DEF Fns
  <2>3. ASSUME TailCall(t, Frame("resend_buffer", ContextMsg)) PROVE Replaces(t, g)
    <3>1. Goto(t, g)
      BY <2>2, <2>3 DEF TailCall
    <3> QED
      BY <1>0, <2>0, <3>1, GotoIs
  <2>4. Return(t, OK) => Pops(t)
    BY <1>0, <2>0, RunsReturn
  <2> QED
    BY <2>1, <2>2, <2>3, <2>4
<1> QED
  BY <1>1, <1>2, <1>3, <1>4

(* A thread has a descriptor it opened and did not yet store only by its   *)
(* own step, and one that closed the handle next forgets it.               *)
LEMMA OpenedBy ==
  ASSUME IInv, ErrorSound, Next, NEW t \in Thread, At(t, "reattach", "opened")', ~ReattachOpen(t)
  PROVE  stack'[t] = stack[t] /\ stack[t] # <<>> /\ At(t, "reattach", "opened")
<1>0. StackType /\ Shape /\ stack'[t] # <<>> /\ top(t)'.fn = "reattach" /\ top(t)'.pc = "opened"
  BY DEF IInv, TypeSound, At
<1>1. stack[t] # <<>>
  BY <1>0, Wakes
<1>2. ASSUME Runs(t), Does(t) PROVE FALSE
  <2>1. \/ Resumes(top(t), top(t)') /\ ~Pops(t)
        \/ Calls(top(t)', top(t))
    BY <1>0, <1>2, RunsTop
  <2>2. ~Calls(top(t)', top(t))
    BY <1>0 DEF Calls
  <2>3. top(t).fn = "reattach" /\ ~Pops(t)
    BY <1>0, <2>1, <2>2 DEF Resumes
  <2>4. ReattachOpened(t) \/ ReattachContexts(t) \/ ReattachResend(t)
    BY <1>2, <2>3 DEF Does, dlt_user_log_reattach_to_daemon
  <2>5. ReattachOpened(t) => \E f, g \in Frames : Pushes(t, f, g) /\ g.fn = "send_register"
    BY <1>0, ReattachSteps
  <2>6. ReattachContexts(t) => Pops(t) \/ \E f, g \in Frames : Pushes(t, f, g) /\ g.fn = "send_register"
    BY ReattachSteps
  <2>7. ReattachResend(t) => Pops(t) \/ \E g \in Frames : Replaces(t, g) /\ g.fn = "resend_buffer"
    BY ReattachSteps
  <2>8. \A f, g \in Frames : Pushes(t, f, g) => top(t)' = g
    BY DEF Pushes, top
  <2>9. \A g \in Frames : Replaces(t, g) => top(t)' = g
    BY DEF Replaces, top
  <2> QED
    BY <1>0, <2>3, <2>4, <2>5, <2>6, <2>7, <2>8, <2>9
<1>3. ~Sets(t)
  BY <1>0 DEF Sets
<1>4. stack'[t] = stack[t]
  BY <1>0, <1>1, <1>2, <1>3, StepOf
<1> QED
  BY <1>0, <1>1, <1>4 DEF At, top

(* A thread between close and the assignment that follows it does nothing  *)
(* but forget the handle.                                                  *)
LEMMA ClosedLeaves ==
  ASSUME IInv, ErrorSound, Next, NEW t \in Thread, stack[t] # <<>>, top(t).pc = "closed"
  PROVE  stack'[t] = stack[t] \/ dlt_log_handle' = NONE
<1> DEFINE Goal == stack'[t] = stack[t] \/ dlt_log_handle' = NONE
<1>1. ASSUME dlt_user_log_reattach_to_daemon(t) PROVE Goal
  BY <1>1 DEF dlt_user_log_reattach_to_daemon, ReattachOpen, ReattachOpened, ReattachContexts, ReattachResend, At
<1>2. ASSUME dlt_user_log_resend_buffer(t) PROVE Goal
  BY <1>2 DEF dlt_user_log_resend_buffer, ResendStart, ResendLoop, ResendWrite, ResendClose, ResendClosed, At
<1>3. ASSUME dlt_user_log_send_register(t) PROVE Goal
  BY <1>3 DEF dlt_user_log_send_register, RegisterStart, RegisterWrite, At
<1>4. ASSUME dlt_user_log_send_overflow(t) PROVE Goal
  BY <1>4 DEF dlt_user_log_send_overflow, OverflowRead, OverflowWrite, OverflowReset, At
<1>5. ASSUME dlt_user_log_out_error_handling(t) PROVE Goal
  BY <1>5 DEF dlt_user_log_out_error_handling, ErrorCheck, ErrorPush, At
<1>6. ASSUME dlt_user_log_send_log(t) PROVE Goal
  BY <1>6 DEF dlt_user_log_send_log, LogReattach, LogOverflow, LogResend, LogOut, LogWrite, LogHandled, LogCount,
              LogClose, LogClosed, At
<1>7. ASSUME t = housekeeper, HousekeeperReattach \/ HousekeeperResend PROVE Goal
  BY <1>7 DEF HousekeeperReattach, HousekeeperResend, At
<1>8. ASSUME t = main, MainThread PROVE Goal
  BY <1>8 DEF MainThread, dlt_register_app, dlt_register_context, MainExit, dlt_unregister_app_flush_buffered_logs,
              dlt_unregister_app_util, dlt_user_atexit_handler, ExitCount, BlowOut, BlowOverflow, BlowResend, BlownOut,
              ExitRecount, dlt_free, FreeStart, FreeClose, FreeBuffer, At
<1>9. ~Sets(t)
  BY DEF Sets, InitFlag, InitCommon, InitConnect, At
<1>10. ~(t = housekeeper /\ HousekeeperCancelled)
  BY DEF HousekeeperCancelled, Cancelled, CancellationPoint, At
<1> HIDE DEF Goal
<1>11. ASSUME Does(t) PROVE Goal
  BY <1>1, <1>2, <1>3, <1>4, <1>5, <1>6, <1>7, <1>8, <1>11 DEF Does
<1>12. stack'[t] = stack[t] \/ Does(t)
  BY <1>9, <1>10, StepOf
<1> QED
  BY <1>11, <1>12 DEF Goal

(* A descriptor between open and its use is open, is not the handle, and   *)
(* is one thread's own; the handle is open, or some thread forgets it.     *)
FdFits(t) ==
    At(t, "reattach", "opened") =>
        /\ top(t).fd \in Fds /\ fds[top(t).fd] # CLOSED /\ dlt_log_handle # top(t).fd
        /\ \A u \in Thread : u # t /\ At(u, "reattach", "opened") => top(u).fd # top(t).fd
HandleFits ==
    dlt_log_handle # NONE => fds[dlt_log_handle] # CLOSED \/ \E t \in Thread : stack[t] # <<>> /\ top(t).pc = "closed"
FdSound == (\A t \in Thread : FdFits(t)) /\ HandleFits

(* The thread that opens one,                                              *)
LEMMA FdOpens ==
  ASSUME IInv, ErrorSound, FdSound, Next, NEW t \in Thread, ReattachOpen(t)
  PROVE  FdSound'
<1>0. /\ fds \in [Fds -> 0..(MaxCrash + 1)] /\ StackType /\ NONE \notin Fds
      /\ CLOSED = 0 /\ DOWN = 0
  BY UserAssumption DEF IInv, TypeSound, TypeOK, NONE, CLOSED, DOWN
<1>1. Others(t) /\ dlt_log_handle' = NONE
  <2>1. Runs(t)
    BY ReattachRuns DEF dlt_user_log_reattach_to_daemon
  <2>2. dlt_log_handle' = NONE
    BY DEF ReattachOpen
  <2> QED
    BY <2>1, <2>2 DEF Runs
<1>2. ASSUME NEW u \in Thread, u # t, At(u, "reattach", "opened")'
      PROVE  /\ At(u, "reattach", "opened") /\ top(u)' = top(u)
             /\ top(u).fd \in Fds /\ fds[top(u).fd] # CLOSED
  BY <1>1, <1>2 DEF Others, At, top, FdSound, FdFits
<1>3. CASE Pops(t) /\ fds' = fds
  <2>1. ~At(t, "reattach", "opened")'
    <3>1. SUFFICES ASSUME At(t, "reattach", "opened")' PROVE FALSE
      OBVIOUS
    <3>2. stack'[t] # <<>> /\ top(t)'.fn = "reattach" /\ top(t)'.pc = "opened"
      BY <3>1 DEF At
    <3>3. Shape /\ Runs(t)
      BY ReattachRuns DEF IInv, dlt_user_log_reattach_to_daemon
    <3>4. Calls(top(t)', top(t)) \/ ~Pops(t)
      BY <1>0, <3>2, <3>3, RunsTop
    <3> QED
      BY <1>3, <3>2, <3>4 DEF Calls
  <2> QED
    BY <1>0, <1>1, <1>2, <1>3, <2>1 DEF FdSound, FdFits, HandleFits
<1>4. CASE ~(Pops(t) /\ fds' = fds)
  <2>1. PICK g \in Frames : /\ Replaces(t, g) /\ g.fd \in Fds /\ fds[g.fd] = CLOSED /\ daemon # DOWN
                            /\ fds' = [fds EXCEPT ![g.fd] = daemon]
    BY <1>4, ReattachSteps
  <2>2. top(t)' = g
    BY <2>1 DEF Replaces, top
  <2>3. \A f \in Fds : fds'[f] = IF f = g.fd THEN daemon ELSE fds[f]
    BY <1>0, <2>1
  <2>4. \A u \in Thread : u # t /\ At(u, "reattach", "opened")' => top(u)'.fd # g.fd
    BY <1>2, <2>1
  <2>5. ASSUME NEW u \in Thread PROVE FdFits(u)'
    <3>1. CASE u = t
      BY <1>0, <1>1, <2>1, <2>2, <2>3, <2>4, <3>1 DEF FdFits
    <3>2. ASSUME u # t, At(u, "reattach", "opened")'
          PROVE  /\ top(u)'.fd \in Fds /\ fds'[top(u)'.fd] # CLOSED /\ dlt_log_handle' # top(u)'.fd
                 /\ \A v \in Thread : v # u /\ At(v, "reattach", "opened")' => top(v)'.fd # top(u)'.fd
      <4>1. top(u)'.fd \in Fds /\ fds'[top(u)'.fd] # CLOSED /\ dlt_log_handle' # top(u)'.fd
        BY <1>0, <1>1, <1>2, <2>1, <2>3, <3>2
      <4>2. ASSUME NEW v \in Thread, v # u, At(v, "reattach", "opened")' PROVE top(v)'.fd # top(u)'.fd
        <5>1. CASE v = t
          BY <2>2, <2>4, <3>2, <5>1
        <5>2. CASE v # t
          BY <1>2, <3>2, <4>2, <5>2 DEF FdSound, FdFits
        <5> QED
          BY <5>1, <5>2
      <4> QED
        BY <4>1, <4>2
    <3> QED
      BY <3>1, <3>2 DEF FdFits
  <2> QED
    BY <1>1, <2>5 DEF FdSound, HandleFits
<1> QED
  BY <1>3, <1>4

(* and the others.                                                         *)
LEMMA FdNext ==
  ASSUME IInv, ErrorSound, FdSound, Next
  PROVE  FdSound'
<1>0. /\ fds \in [Fds -> 0..(MaxCrash + 1)] /\ StackType /\ NONE \notin Fds /\ daemon \in Nat
      /\ CLOSED = 0 /\ DOWN = 0 /\ dlt_log_handle \in Fds \cup {NONE}
  BY UserAssumption DEF IInv, TypeSound, TypeOK, NONE, CLOSED, DOWN
<1>1. CASE \E t \in Thread : ReattachOpen(t)
  BY <1>1, FdOpens
<1>2. CASE \A t \in Thread : ~ReattachOpen(t)
  <2>1. ASSUME NEW t \in Thread, At(t, "reattach", "opened")'
        PROVE  /\ stack'[t] = stack[t] /\ At(t, "reattach", "opened") /\ top(t)' = top(t)
               /\ top(t).fd \in Fds /\ fds[top(t).fd] # CLOSED /\ dlt_log_handle # top(t).fd
    <3>1. stack'[t] = stack[t] /\ At(t, "reattach", "opened")
      BY <1>2, <2>1, OpenedBy
    <3>2. top(t)' = top(t)
      BY <3>1 DEF top
    <3> QED
      BY <3>1, <3>2 DEF FdSound, FdFits
  <2>2. ASSUME \A t \in Thread : At(t, "reattach", "opened")' =>
                  fds'[top(t).fd] # CLOSED /\ dlt_log_handle' # top(t).fd
        PROVE  \A t \in Thread : FdFits(t)'
    BY <2>1, <2>2 DEF FdSound, FdFits
  <2>3. CASE UNCHANGED <<fds, dlt_log_handle>>
    <3>1. HandleFits'
      <4>1. ASSUME NEW t \in Thread, stack[t] # <<>>, top(t).pc = "closed", dlt_log_handle' # NONE
            PROVE  stack'[t] # <<>> /\ top(t)'.pc = "closed"
        BY <4>1, ClosedLeaves DEF top
      <4> QED
        BY <2>3, <4>1 DEF FdSound, HandleFits
    <3> QED
      BY <2>1, <2>2, <2>3, <3>1 DEF FdSound
  <2>4. ASSUME NEW u \in Thread, ReattachOpened(u) PROVE FdSound'
    <3>1. /\ dlt_log_handle' = top(u).fd /\ fds' = fds /\ At(u, "reattach", "opened")
      BY <2>4 DEF ReattachOpened, world
    <3>2. top(u).fd \in Fds /\ fds[top(u).fd] # CLOSED
      BY <3>1 DEF FdSound, FdFits
    <3>3. ~At(u, "reattach", "opened")'
      <4>1. PICK f \in Frames, g \in Frames : Pushes(u, f, g) /\ g.fn = "send_register"
        BY <2>4, ReattachSteps
      <4>2. top(u)' = g
        BY <4>1 DEF Pushes, top
      <4> QED
        BY <4>1, <4>2 DEF At
    <3>4. \A t \in Thread : At(t, "reattach", "opened")' => fds'[top(t).fd] # CLOSED /\ dlt_log_handle' # top(t).fd
      BY <2>1, <3>1, <3>3 DEF FdSound, FdFits
    <3> QED
      BY <2>2, <3>1, <3>2, <3>4 DEF FdSound, HandleFits
  <2>5. ASSUME NEW u \in Thread, InitConnect(u) PROVE FdSound'
    <3>1. \A t \in Thread : ~At(t, "reattach", "opened")'
      <4>1. stack[housekeeper] = <<>> /\ (\A l \in Logger : stack[l] = <<>>) /\ u = main /\ At(main, "init", "connect")
        BY <2>5, Connected DEF InitConnect
      <4> QED
        BY <2>1, <4>1, Threads DEF At
    <3>2. dlt_log_handle' # NONE => fds'[dlt_log_handle'] # CLOSED
      <4>1. dlt_log_handle' = NONE \/ (dlt_log_handle' \in Fds /\ fds'[dlt_log_handle'] = daemon)
        BY <2>5, OpensIs DEF Opens
      <4>2. daemon = DOWN => dlt_log_handle' = NONE
        BY <2>5 DEF InitConnect, dlt_initialize_fifo_connection
      <4> QED
        BY <1>0, <4>1, <4>2
    <3> QED
      BY <3>1, <3>2 DEF FdSound, FdFits, HandleFits
  <2>6. ASSUME NEW u \in Thread, Forgets(u) PROVE FdSound'
    <3>1. \A t \in Thread : At(t, "reattach", "opened")' => fds'[top(t).fd] # CLOSED /\ dlt_log_handle' # top(t).fd
      BY <1>0, <2>1, <2>6, ForgetsIs
    <3>2. HandleFits'
      <4>1. CASE dlt_log_handle' = NONE
        BY <4>1 DEF HandleFits
      <4>2. CASE dlt_log_handle' # NONE
        <5>1. ResendClose(u) \/ LogClose(u)
          BY <2>6, <4>2, ForgetsIs
        <5>2. stack[u] # <<>> /\ GotoPc(u, "closed") /\ "closed" \in Pcs
          BY <5>1 DEF ResendClose, LogClose, At, Pcs
        <5>3. PICK f \in Frames : Replaces(u, f) /\ f.pc = "closed"
          BY <1>0, <5>2, GotoPcIs
        <5>4. top(u)' = f /\ stack'[u] # <<>>
          <6>1. Len(stack[u]) > 0 /\ Len(stack'[u]) = Len(stack[u])
            BY <1>0, <5>2, <5>3, StackIs DEF Replaces
          <6>2. Len(<<>>) = 0
            OBVIOUS
          <6>3. stack'[u] # <<>>
            BY <6>1, <6>2
          <6> QED
            BY <5>3, <6>3 DEF Replaces, top
        <5> QED
          BY <5>3, <5>4 DEF HandleFits
      <4> QED
        BY <4>1, <4>2
    <3> QED
      BY <2>2, <3>1, <3>2 DEF FdSound
  <2> QED
    BY <1>2, <2>3, <2>4, <2>5, <2>6, FdsNext DEF Opens
<1> QED
  BY <1>1, <1>2

-----------------------------------------------------------------------------
(* A registration, step by step.                                           *)
LEMMA RegisterSteps ==
  ASSUME IInv, NEW t \in Thread, dlt_user_log_send_register(t)
  PROVE  /\ stack[t] # <<>> /\ top(t).fn = "send_register"
         /\ \/ /\ Pops(t)
               /\ Len(stack[t]) > 1 /\ stack[t][Len(stack[t]) - 1].pc \in Awaited => ret'[t] \in {OK, ERROR}
               /\ ~appID \/ (RegisterWrite(t) /\ pipe' = Append(pipe, top(t).m))
            \/ /\ ~Pops(t)
               /\ \E g \in Frames : /\ Replaces(t, g) /\ g.fn \in {"send_register", "error_handling"}
                                    /\ appID => g.m = top(t).m
<1> DEFINE Goal ==
            \/ /\ Pops(t)
               /\ Len(stack[t]) > 1 /\ stack[t][Len(stack[t]) - 1].pc \in Awaited => ret'[t] \in {OK, ERROR}
               /\ ~appID \/ (RegisterWrite(t) /\ pipe' = Append(pipe, top(t).m))
            \/ /\ ~Pops(t)
               /\ \E g \in Frames : /\ Replaces(t, g) /\ g.fn \in {"send_register", "error_handling"}
                                    /\ appID => g.m = top(t).m
<1>0. \E pc \in {"start", "write"} : At(t, "send_register", pc)
  BY DEF dlt_user_log_send_register, RegisterStart, RegisterWrite
<1>1. /\ StackType /\ stack[t] # <<>> /\ top(t) \in Frames /\ top(t).m \in Msg /\ ret \in [Thread -> Int]
      /\ top(t).fn = "send_register" /\ OK \in Int /\ ERROR \in Int /\ dlt_log_handle \in Fds \cup {NONE}
  BY <1>0, StartsFrom, ResultsAre
<1>2. ASSUME NEW g \in Frames, Goto(t, g), g.fn \in {"send_register", "error_handling"}, appID => g.m = top(t).m
      PROVE  Goal
  <2>1. Replaces(t, g)
    BY <1>1, <1>2, GotoIs
  <2>2. ~Pops(t)
    BY <1>1, <2>1, PopsOne
  <2> QED
    BY <1>2, <2>1, <2>2
<1>3. ASSUME NEW m \in Msg, TailCall(t, Frame("error_handling", m)), appID => m = top(t).m PROVE Goal
  <2>1. PICK g \in Frames : g = Frame("error_handling", m) /\ g.fn = "error_handling" /\ g.m = m
    BY NewFrame DEF Fns
  <2>2. Goto(t, g)
    BY <1>3, <2>1 DEF TailCall
  <2> HIDE DEF Goal
  <2> QED
    BY <1>2, <1>3, <2>1, <2>2
<1>4. ASSUME NEW r \in {OK, ERROR}, Return(t, r), ~appID \/ (RegisterWrite(t) /\ pipe' = Append(pipe, top(t).m))
      PROVE  Goal
  BY <1>1, <1>4, RunsReturn
<1>5. ASSUME RegisterStart(t) PROVE Goal
  <2>1. \/ appID /\ Goto(t, [top(t) EXCEPT !.pc = "write", !.fd = dlt_log_handle])
        \/ ~appID /\ TailCall(t, Frame("error_handling", ContextMsg))
        \/ ~appID /\ Return(t, ERROR)
    BY <1>5 DEF RegisterStart
  <2>2. ASSUME appID, Goto(t, [top(t) EXCEPT !.pc = "write", !.fd = dlt_log_handle]) PROVE Goal
    <3>1. PICK g : g = [top(t) EXCEPT !.pc = "write", !.fd = dlt_log_handle]
      OBVIOUS
    <3>2. g \in Frames /\ g.fn = top(t).fn /\ g.m = top(t).m
      BY <1>1, <3>1 DEF Frames, Pcs
    <3>3. Goto(t, g)
      BY <2>2, <3>1
    <3> HIDE DEF Goal
    <3> QED
      BY <1>1, <1>2, <3>2, <3>3
  <2> HIDE DEF Goal
  <2> QED
    BY <1>3, <1>4, <2>1, <2>2, ControlMessages
<1>6. ASSUME RegisterWrite(t) PROVE Goal
  <2>1. PICK r : r = IF top(t).m.kind = "unapp" THEN Out2(top(t).fd) ELSE Out3(top(t).fd)
    OBVIOUS
  <2>2. /\ Write(top(t).fd, top(t).m, r)
        /\ IF r = OK THEN Return(t, OK) ELSE TailCall(t, Frame("error_handling", top(t).m))
    BY <1>6, <2>1 DEF RegisterWrite
  <2> HIDE DEF Goal
  <2>3. CASE r = OK
    BY <1>4, <1>6, <2>2, <2>3 DEF Write
  <2>4. CASE r # OK
    BY <1>1, <1>3, <2>2, <2>4
  <2> QED
    BY <2>3, <2>4
<1> HIDE DEF Goal
<1>7. Goal
  BY <1>5, <1>6 DEF dlt_user_log_send_register
<1> QED
  BY <1>1, <1>7 DEF Goal

(* What was refused stays so.                                              *)
LEMMA RefusedBy ==
  ASSUME Next
  PROVE  refused' = refused \/ \E t \in Thread : ErrorPush(t)
<1> DEFINE Goal == refused' = refused \/ \E t \in Thread : ErrorPush(t)
<1>1. ASSUME NEW t \in Thread, Library(t) PROVE Goal
  BY <1>1, LibraryChanges
<1>2. ASSUME NEW t \in Logger, Log(t) \/ dlt_user_log_send_log(t) PROVE Goal
  BY <1>2, LogChanges
<1>3. ASSUME MainThread \/ dlt_user_housekeeperthread_function \/ HousekeeperCancelled PROVE Goal
  BY <1>3, ThreadChanges
<1>4. ASSUME DaemonRead \/ DaemonCrash \/ DaemonStart \/ Terminated PROVE Goal
  BY <1>4 DEF DaemonRead, DaemonCrash, DaemonStart, Terminated, vars, hist
<1> HIDE DEF Goal
<1>5. Goal
  BY <1>1, <1>2, <1>3, <1>4 DEF Next
<1> QED
  BY <1>5 DEF Goal

(* Once the startup buffer has refused a registration, that stays known.   *)
LEMMA RefusedStays ==
  ASSUME Next, refused
  PROVE  refused'
<1>1. ASSUME NEW t \in Thread, ErrorPush(t) PROVE refused'
  <2>1. refused' = (refused \/ top(t).m.kind \in {"app", "context"}) \/ refused' = refused
    BY <1>1 DEF ErrorPush
  <2> QED
    BY <2>1
<1>2. CASE refused' = refused
  BY <1>2
<1> QED
  BY <1>1, <1>2, RefusedBy

(* The registrations a re-attach has sent returned no error that ends it,  *)
(* unless one was refused.                                                 *)
RetSound == \A t \in Thread : At(t, "reattach", "application") => ret[t] >= ERROR \/ refused

(* Every step keeps what a re-attach reads as the result of registering.   *)
LEMMA RetNext ==
  ASSUME IInv, ErrorSound, RetSound, Next
  PROVE  RetSound'
<1> SUFFICES ASSUME NEW t \in Thread, At(t, "reattach", "application")'
             PROVE  ret'[t] >= ERROR \/ refused'
  BY DEF RetSound
<1>0. StackType /\ Shape /\ stack'[t] # <<>> /\ top(t)'.fn = "reattach" /\ top(t)'.pc = "application"
  BY DEF IInv, TypeSound, At
<1>1. stack[t] # <<>>
  BY <1>0, Wakes
<1>2. CASE stack'[t] = stack[t] /\ ret'[t] = ret[t]
  <2>1. At(t, "reattach", "application")
    BY <1>0, <1>1, <1>2 DEF At, top
  <2> QED
    BY <1>2, <2>1, RefusedStays DEF RetSound
<1>3. ASSUME Runs(t), Does(t) PROVE ret'[t] >= ERROR \/ refused'
  <2>1. \/ Resumes(top(t), top(t)') /\ ~Pops(t)
        \/ Calls(top(t)', top(t)) /\ Pops(t) /\ Len(stack[t]) > 1
    BY <1>0, <1>3, RunsTop
  <2>2. ASSUME Resumes(top(t), top(t)'), ~Pops(t) PROVE FALSE
    <3>1. top(t).fn = "reattach"
      BY <1>0, <2>2 DEF Resumes
    <3>2. dlt_user_log_reattach_to_daemon(t)
      BY <1>3, <3>1 DEF Does
    <3>3. \A f, g \in Frames : Pushes(t, f, g) => top(t)' = g
      BY DEF Pushes, top
    <3>4. \A g \in Frames : Replaces(t, g) => top(t)' = g
      BY DEF Replaces, top
    <3>5. CASE ReattachOpen(t)
      BY <1>0, <2>2, <3>4, <3>5, ReattachSteps
    <3>6. CASE ReattachOpened(t)
      BY <1>0, <3>3, <3>6, ReattachSteps
    <3>7. CASE ReattachContexts(t)
      BY <1>0, <2>2, <3>3, <3>7, ReattachSteps
    <3>8. CASE ReattachResend(t)
      BY <1>0, <2>2, <3>4, <3>8, ReattachSteps
    <3> QED
      BY <3>2, <3>5, <3>6, <3>7, <3>8 DEF dlt_user_log_reattach_to_daemon
  <2>3. ASSUME Calls(top(t)', top(t)), Pops(t), Len(stack[t]) > 1 PROVE ret'[t] >= ERROR \/ refused'
    <3>1. top(t).fn \in {"send_register", "error_handling"} /\ top(t).m.kind \in {"app", "context"}
      BY <1>0, <2>3 DEF Calls
    <3>2. top(t)' = stack[t][Len(stack[t]) - 1]
      <4>1. Len(stack[t]) \in Nat /\ Len(stack'[t]) = Len(stack[t]) - 1
        BY <1>0, <2>3, StackIs DEF Pops
      <4> QED
        BY <2>3, <4>1 DEF Pops, top
    <3>3. CASE top(t).fn = "send_register"
      <4>1. ret'[t] \in {OK, ERROR}
        BY <1>0, <1>3, <2>3, <3>2, <3>3, RegisterSteps DEF Does, Awaited
      <4> QED
        BY <4>1 DEF OK, ERROR
    <3>4. CASE top(t).fn = "error_handling"
      <4>1. ErrorCheck(t) \/ ErrorPush(t)
        BY <1>3, <3>4 DEF Does, dlt_user_log_out_error_handling
      <4>2. ErrorPush(t)
        BY <2>3, <4>1, CheckRuns
      <4>3. ret'[t] \in {OK, ERROR, BUFFER_FULL} /\ (ret'[t] = BUFFER_FULL <=> RingFull)
        BY <1>0, <4>2, PushRuns DEF Awaited
      <4>4. RingFull => refused'
        BY <3>1, <4>2 DEF ErrorPush
      <4> QED
        BY <4>3, <4>4 DEF OK, ERROR, BUFFER_FULL
    <3> QED
      BY <3>1, <3>3, <3>4
  <2> QED
    BY <2>1, <2>2, <2>3
<1>4. ~Sets(t)
  BY <1>0 DEF Sets
<1> QED
  BY <1>0, <1>1, <1>2, <1>3, <1>4, StepOf

-----------------------------------------------------------------------------
(* main has set the application up, and has not begun to exit.             *)
SetUp == MainIs("registered") \/ MainIs("add_context") \/ MainIs("run")
Serving == MainIs("start") \/ SetUp

(* An application that serves did so before the step: nothing leads back   *)
(* from the exit, and the set-up begins once.                              *)
LEMMA ServingBefore ==
  ASSUME IInv, ErrorSound, Next
  PROVE  /\ Serving' => Serving /\ ~FreeBuffer
         /\ SetUp' => SetUp \/ (MainIs("start") /\ MainIs("registered")')
<1>1. CASE ~MainThread
  <2>1. stack'[main] # <<>> => stack[main] # <<>> /\ Bottom(main)' = Bottom(main)
    BY <1>1, MainSteps
  <2> QED
    BY <1>1, <2>1 DEF Serving, SetUp, MainIs, MainThread, dlt_free
<1>2. CASE MainThread
  <2>1. stack'[main] # <<>> => Proceeds(Bottom(main).pc, Bottom(main)'.pc) /\ stack[main] # <<>>
    BY <1>2, MainRuns DEF Runs
  <2>2. FreeBuffer => stack'[main] = <<>>
    BY FreedIs, Threads
  <2> QED
    BY <2>1, <2>2 DEF Serving, SetUp, MainIs, Proceeds
<1> QED
  BY <1>1, <1>2

(* The context is in the list from its registration on.                    *)
ContextSound ==
    /\ MainIs("start") \/ MainIs("registered") => ~contexts
    /\ MainIs("run") => contexts

(* The list of contexts changes only where a context is registered and     *)
(* where the exit frees it.                                                *)
LEMMA ContextsBy ==
  ASSUME Next
  PROVE  contexts' = contexts \/ FreeBuffer \/ (dlt_register_context /\ contexts')
<1> DEFINE Goal == contexts' = contexts \/ FreeBuffer \/ (dlt_register_context /\ contexts')
<1>1. ASSUME NEW t \in Thread, Library(t) PROVE Goal
  BY <1>1, LibraryChanges
<1>2. ASSUME NEW t \in Logger, Log(t) \/ dlt_user_log_send_log(t) PROVE Goal
  BY <1>2, LogChanges
<1>3. ASSUME MainThread \/ dlt_user_housekeeperthread_function \/ HousekeeperCancelled PROVE Goal
  BY <1>3, ThreadChanges
<1>4. ASSUME DaemonRead \/ DaemonCrash \/ DaemonStart \/ Terminated PROVE Goal
  BY <1>4 DEF DaemonRead, DaemonCrash, DaemonStart, Terminated, vars, shared
<1> HIDE DEF Goal
<1>5. Goal
  BY <1>1, <1>2, <1>3, <1>4 DEF Next
<1> QED
  BY <1>5 DEF Goal

(* Every step keeps the list of contexts as far as main has come.          *)
LEMMA ContextNext ==
  ASSUME IInv, ErrorSound, ContextSound, Next
  PROVE  ContextSound'
<1>1. contexts' = contexts \/ FreeBuffer \/ (dlt_register_context /\ contexts')
  BY ContextsBy
<1>2. CASE stack'[main] = <<>>
  BY <1>2 DEF ContextSound, MainIs
<1>3. ASSUME stack'[main] # <<>>, dlt_register_context PROVE ContextSound'
  <2>1. At(main, "main", "add_context") /\ contexts'
    BY <1>3 DEF dlt_register_context
  <2>2. top(main) = Bottom(main) /\ Proceeds(Bottom(main).pc, Bottom(main)'.pc)
    BY <1>3, MainRuns DEF MainThread
  <2> QED
    BY <2>1, <2>2 DEF ContextSound, MainIs, Proceeds, At
<1>4. ASSUME stack'[main] # <<>>, ~dlt_register_context PROVE ContextSound'
  <2>1. ~FreeBuffer
    BY <1>4, FreedIs, Threads
  <2>2. contexts' = contexts
    BY <1>1, <1>4, <2>1
  <2>3. CASE ~MainThread
    <3>1. stack[main] # <<>> /\ Bottom(main)' = Bottom(main)
      BY <1>4, <2>3, MainSteps
    <3> QED
      BY <2>2, <3>1 DEF ContextSound, MainIs
  <2>4. CASE MainThread
    <3>1. /\ top(main) = Bottom(main) /\ stack[main] # <<>> /\ top(main).fn = "main"
          /\ Proceeds(Bottom(main).pc, Bottom(main)'.pc)
      BY <1>4, <2>4, MainRuns DEF Runs
    <3>2. top(main).pc # "add_context"
      BY <1>4, <2>4 DEF MainThread, dlt_register_app, MainExit, dlt_unregister_app_flush_buffered_logs,
         dlt_unregister_app_util, dlt_user_atexit_handler, ExitCount, BlowOut, BlowOverflow, BlowResend, BlownOut,
         ExitRecount, dlt_free, FreeStart, FreeClose, FreeBuffer, At
    <3>3. Bottom(main)'.pc # "run" /\ Bottom(main)'.pc # "start"
      BY <3>1, <3>2 DEF Proceeds
    <3>4. Bottom(main)'.pc = "registered" => Bottom(main).pc = "start"
      BY <3>1 DEF Proceeds
    <3> QED
      BY <2>2, <3>1, <3>3, <3>4 DEF ContextSound, MainIs
  <2> QED
    BY <2>3, <2>4
<1> QED
  BY <1>2, <1>3, <1>4

-----------------------------------------------------------------------------
(* What is written to the FIFO was in the startup buffer, is the message   *)
(* of some thread's call, or reports losses; what is stored is the message *)
(* of a call.                                                              *)
InCall(x) == \E t \in Thread : stack[t] # <<>> /\ x = top(t).m

(* The FIFO changes when the daemon reads or crashes, and when a thread    *)
(* writes the head of the startup buffer, the message of a call or the     *)
(* losses.                                                                 *)
LEMMA PipeBy ==
  ASSUME IInv, Next
  PROVE  \/ pipe' = pipe \/ DaemonRead \/ (DaemonCrash /\ pipe' = <<>>)
         \/ \E m \in Msg : /\ pipe' = Append(pipe, m)
                           /\ \/ InCall(m)
                              \/ m.kind = "overflow"
                              \/ startup_buffer # <<>> /\ m = Head(startup_buffer)
<1> DEFINE Appends == \E m \in Msg : /\ pipe' = Append(pipe, m)
                                     /\ \/ InCall(m)
                                        \/ m.kind = "overflow"
                                        \/ startup_buffer # <<>> /\ m = Head(startup_buffer)
<1> DEFINE Goal == pipe' = pipe \/ DaemonRead \/ (DaemonCrash /\ pipe' = <<>>) \/ Appends
<1>0. startup_buffer \in Seq(Msg)
  BY DEF IInv, TypeSound
<1>1. ASSUME NEW t \in Thread, ResendWrite(t) PROVE pipe' = pipe \/ Appends
  <2>1. startup_buffer # <<>>
    BY <1>1 DEF IInv, MutexSound, ResendWrite
  <2>2. Head(startup_buffer) \in Msg
    BY <1>0, <2>1, TailIs
  <2>3. pipe' = pipe \/ pipe' = Append(pipe, Head(startup_buffer))
    BY <1>1 DEF ResendWrite, Write
  <2> QED
    BY <2>1, <2>2, <2>3
<1>2. ASSUME NEW t \in Thread, RegisterWrite(t) PROVE pipe' = pipe \/ Appends
  <2>1. stack[t] # <<>> /\ top(t).m \in Msg
    BY <1>2, StartsFrom DEF RegisterWrite
  <2>2. pipe' = pipe \/ pipe' = Append(pipe, top(t).m)
    BY <1>2 DEF RegisterWrite, Write
  <2> QED
    BY <2>1, <2>2 DEF InCall
<1>3. ASSUME NEW t \in Thread, OverflowWrite(t) PROVE pipe' = pipe \/ Appends
  <2>1. top(t).n \in Nat
    BY <1>3, StartsFrom DEF OverflowWrite
  <2>2. pipe' = pipe \/ pipe' = Append(pipe, OverflowMsg(top(t).n))
    BY <1>3 DEF OverflowWrite, Write
  <2> QED
    BY <2>1, <2>2, ControlMessages
<1>4. ASSUME NEW t \in Thread, LogWrite(t) PROVE pipe' = pipe \/ Appends
  <2>1. stack[t] # <<>> /\ top(t).m \in Msg
    BY <1>4, StartsFrom DEF LogWrite
  <2>2. pipe' = pipe \/ pipe' = Append(pipe, top(t).m)
    BY <1>4 DEF LogWrite, Write
  <2> QED
    BY <2>1, <2>2 DEF InCall
<1> HIDE DEF Appends
<1>5. ASSUME NEW t \in Thread, Library(t) PROVE Goal
  BY <1>1, <1>2, <1>3, <1>5, LibraryChanges
<1>6. ASSUME NEW t \in Logger, Log(t) \/ dlt_user_log_send_log(t) PROVE Goal
  BY <1>4, <1>6, LogChanges, Threads
<1>7. ASSUME MainThread \/ dlt_user_housekeeperthread_function \/ HousekeeperCancelled PROVE Goal
  BY <1>7, ThreadChanges
<1>8. ASSUME DaemonRead \/ DaemonCrash \/ DaemonStart \/ Terminated PROVE Goal
  BY <1>8 DEF DaemonCrash, DaemonStart, Terminated, vars, world
<1> HIDE DEF Goal
<1>9. Goal
  BY <1>5, <1>6, <1>7, <1>8 DEF Next
<1> QED
  BY <1>9 DEF Goal, Appends

(* The startup buffer is emptied as a whole, gives its head to the FIFO,   *)
(* or takes the message of a call that could not write it.                 *)
LEMMA BufferBy ==
  ASSUME IInv, Next
  PROVE  \/ startup_buffer' = startup_buffer
         \/ startup_buffer' = <<>> /\ (FreeBuffer \/ \E t \in Thread : InitCommon(t))
         \/ \E t \in Thread : ResendWrite(t) /\ Out3(top(t).fd) = OK /\ startup_buffer # <<>>
                              /\ startup_buffer' = Tail(startup_buffer)
                              /\ pipe' = Append(pipe, Head(startup_buffer))
         \/ \E t \in Thread : /\ ErrorPush(t) /\ stack[t] # <<>> /\ top(t).m \in Msg
                              /\ startup_buffer' = Append(startup_buffer, top(t).m)
<1> DEFINE Goal ==
         \/ startup_buffer' = startup_buffer
         \/ startup_buffer' = <<>> /\ (FreeBuffer \/ \E t \in Thread : InitCommon(t))
         \/ \E t \in Thread : ResendWrite(t) /\ Out3(top(t).fd) = OK /\ startup_buffer # <<>>
                              /\ startup_buffer' = Tail(startup_buffer)
                              /\ pipe' = Append(pipe, Head(startup_buffer))
         \/ \E t \in Thread : /\ ErrorPush(t) /\ stack[t] # <<>> /\ top(t).m \in Msg
                              /\ startup_buffer' = Append(startup_buffer, top(t).m)
<1>1. ASSUME NEW t \in Thread, ResendWrite(t) PROVE Goal
  <2>1. startup_buffer # <<>>
    BY <1>1 DEF IInv, MutexSound, ResendWrite
  <2>2. \/ startup_buffer' = startup_buffer
        \/ /\ Out3(top(t).fd) = OK /\ startup_buffer' = Tail(startup_buffer)
           /\ pipe' = Append(pipe, Head(startup_buffer))
    BY <1>1 DEF ResendWrite, RemoveSent, Write
  <2> QED
    BY <1>1, <2>1, <2>2
<1>2. ASSUME NEW t \in Thread, ErrorPush(t) PROVE Goal
  <2>1. stack[t] # <<>> /\ top(t).m \in Msg
    BY <1>2, StartsFrom DEF ErrorPush
  <2>2. startup_buffer' = startup_buffer \/ startup_buffer' = Append(startup_buffer, top(t).m)
    BY <1>2 DEF ErrorPush
  <2> QED
    BY <1>2, <2>1, <2>2
<1>3. ASSUME NEW t \in Thread, InitCommon(t) PROVE Goal
  BY <1>3 DEF InitCommon
<1>4. ASSUME FreeBuffer PROVE Goal
  BY <1>4 DEF FreeBuffer
<1>5. ASSUME startup_buffer' = startup_buffer PROVE Goal
  BY <1>5
<1> HIDE DEF Goal
<1>6. ASSUME NEW t \in Thread, Library(t) PROVE Goal
  BY <1>1, <1>2, <1>3, <1>5, <1>6, LibraryChanges
<1>7. ASSUME NEW t \in Logger, Log(t) \/ dlt_user_log_send_log(t) PROVE Goal
  BY <1>5, <1>7, LogChanges
<1>8. ASSUME MainThread \/ dlt_user_housekeeperthread_function \/ HousekeeperCancelled PROVE Goal
  BY <1>4, <1>5, <1>8, ThreadChanges
<1>9. ASSUME DaemonRead \/ DaemonCrash \/ DaemonStart \/ Terminated PROVE Goal
  BY <1>5, <1>9 DEF DaemonRead, DaemonCrash, DaemonStart, Terminated, vars, shared
<1>10. Goal
  BY <1>6, <1>7, <1>8, <1>9 DEF Next
<1> QED
  BY <1>10 DEF Goal

(* Nothing unregisters the application before the exit.                    *)
PlainCalls == \A t \in Thread : \A j \in 1 .. Len(stack[t]) : stack[t][j].m.kind # "unapp"
PlainQueues == \A x \in Range(pipe) \cup Range(startup_buffer) : x.kind # "unapp"
NoUnapp == Serving => PlainCalls /\ PlainQueues

(* A thread whose calls unregister nothing calls nothing that does, unless *)
(* it is main at its exit.                                                 *)
LEMMA PlainRuns ==
  ASSUME IInv, PlainCalls, NEW t \in Thread, Runs(t), ~(MainIs("clear_forced") \/ MainIs("clear"))',
         NEW j \in 1 .. Len(stack'[t])
  PROVE  stack'[t][j].m.kind # "unapp"
<1>0. StackType /\ Shape /\ StackType' /\ stack[t] # <<>>
  BY DEF IInv, TypeSound, Runs
<1>1. PICK n \in Nat \ {0} : n = Len(stack[t])
  BY <1>0, ShapeIs
<1>2. top(t) = stack[t][n] /\ top(t).m.kind # "unapp"
  BY <1>1 DEF PlainCalls, top
<1>3. \A k \in 1 .. n - 1 : stack[t][k].m.kind # "unapp"
  BY <1>1 DEF PlainCalls
<1>4. ASSUME NEW f \in Frames, Replaces(t, f), Sane(top(t), f) PROVE stack'[t][j].m.kind # "unapp"
  <2>1. Len(stack'[t]) = n /\ stack'[t][n] = f /\ \A k \in 1 .. n - 1 : stack'[t][k] = stack[t][k]
    BY <1>1, <1>4 DEF Replaces
  <2>2. j = n \/ j \in 1 .. n - 1
    BY <2>1
  <2> QED
    BY <1>2, <1>3, <1>4, <2>1, <2>2 DEF Sane
<1>5. ASSUME NEW f \in Frames, NEW g \in Frames, Pushes(t, f, g), Resumes(top(t), f), Sane(top(t), f), Calls(f, g),
             g.m.kind = "unapp" =>
                   top(t).m.kind = "unapp" \/ (f.fn = "main" /\ f.pc \in {"clear_forced", "clear"})
      PROVE  stack'[t][j].m.kind # "unapp"
  <2>1. /\ Len(stack'[t]) = n + 1 /\ stack'[t][n] = f /\ stack'[t][n + 1] = g
        /\ \A k \in 1 .. n - 1 : stack'[t][k] = stack[t][k]
    BY <1>1, <1>5 DEF Pushes
  <2>2. j = n \/ j = n + 1 \/ j \in 1 .. n - 1
    BY <2>1
  <2>3. ASSUME f.fn = "main", f.pc \in {"clear_forced", "clear"} PROVE FALSE
    <3>1. top(t).fn = "main"
      BY <1>5, <2>3 DEF Resumes
    <3>2. n = 1 /\ top(t) = Bottom(t) /\ Bottom(t).fn = Outer(t)
      BY <1>0, <1>1, <3>1, ShapeIs
    <3>3. t = main
      BY <3>1, <3>2 DEF Outer
    <3>4. stack'[main][1] = f /\ Len(stack'[main]) = 2
      BY <2>1, <3>2, <3>3
    <3>5. stack'[main] # <<>>
      <4>1. Len(<<>>) = 0
        OBVIOUS
      <4> QED
        BY <3>4, <4>1
    <3> QED
      BY <2>3, <3>4, <3>5 DEF MainIs, Bottom
  <2> QED
    BY <1>2, <1>3, <1>5, <2>1, <2>2, <2>3 DEF Sane
<1>6. ASSUME Pops(t) PROVE stack'[t][j].m.kind # "unapp"
  <2>1. Len(stack'[t]) = n - 1 /\ \A k \in 1 .. n - 1 : stack'[t][k] = stack[t][k]
    BY <1>1, <1>6 DEF Pops
  <2> QED
    BY <1>3, <2>1
<1> QED
  BY <1>4, <1>5, <1>6 DEF Runs

(* Before the exit, no step puts an unregistration into a call.            *)
LEMMA PlainCallsNext ==
  ASSUME IInv, ErrorSound, Next, PlainCalls, ~(MainIs("clear_forced") \/ MainIs("clear"))'
  PROVE  PlainCalls'
<1> SUFFICES ASSUME NEW t \in Thread, NEW j \in 1 .. Len(stack'[t])
             PROVE  stack'[t][j].m.kind # "unapp"
  BY DEF PlainCalls
<1>1. CASE stack[t] = <<>>
  <2>1. stack'[t] # <<>>
    <3>1. Len(<<>>) = 0 /\ 1 .. 0 = {}
      OBVIOUS
    <3> QED
      BY <3>1
  <2>2. j = 1 /\ stack'[t][1].m.kind # "unapp"
    <3>1. /\ Len(stack'[t]) = 1
          /\ stack'[t][1].m.kind = "log" \/ stack'[t][1].m = AppMsg
      BY <1>1, <2>1, Wakes
    <3>2. j = 1
      BY <3>1
    <3> QED
      BY <3>1, <3>2, ControlMessages
  <2> QED
    BY <2>2
<1>2. CASE stack[t] # <<>>
  <2>1. CASE stack'[t] = stack[t]
    BY <2>1 DEF PlainCalls
  <2>2. CASE Runs(t)
    BY <2>2, PlainRuns
  <2>3. ASSUME Sets(t) PROVE stack'[t][j].m.kind # "unapp"
    <3>1. CASE InitFlag(main) \/ InitCommon(main)
      BY <2>3, <3>1, InitRuns, PlainRuns DEF Sets
    <3>2. CASE InitConnect(main)
      <4>1. t = main /\ Len(stack'[main]) = 1 /\ stack'[main][1] = stack[main][1] /\ Len(stack[main]) = 2
        BY <2>3, <3>2, Connected DEF Sets, Starting
      <4>2. j = 1 /\ 1 \in 1 .. Len(stack[main])
        BY <4>1
      <4> QED
        BY <4>1, <4>2 DEF PlainCalls
    <3> QED
      BY <2>3, <3>1, <3>2 DEF Sets
  <2>4. CASE stack'[t] = <<>>
    BY <2>4
  <2> QED
    BY <1>2, <2>1, <2>2, <2>3, <2>4, StepOf
<1> QED
  BY <1>1, <1>2

(* Before the exit, no step puts an unregistration into a call, the FIFO   *)
(* or the startup buffer.                                                  *)
LEMMA UnappNext ==
  ASSUME IInv, ErrorSound, NoUnapp, Next
  PROVE  NoUnapp'
<1> SUFFICES ASSUME Serving'
             PROVE  PlainCalls' /\ PlainQueues'
  BY DEF NoUnapp
<1>0. pipe \in Seq(Msg) /\ startup_buffer \in Seq(Msg) /\ StackType
  BY DEF IInv, TypeSound
<1>1. PlainCalls /\ PlainQueues
  BY ServingBefore DEF NoUnapp
<1>2. ~(MainIs("clear_forced") \/ MainIs("clear"))'
  BY DEF Serving, SetUp, MainIs
<1>3. PlainCalls'
  BY <1>1, <1>2, PlainCallsNext
<1>4. \A x : InCall(x) => x.kind # "unapp"
  BY <1>0, <1>1, StackIs DEF InCall, PlainCalls, top
<1>5. ASSUME NEW x \in Range(pipe') PROVE x.kind # "unapp"
  <2>1. CASE pipe' = pipe
    BY <1>1, <2>1 DEF PlainQueues
  <2>2. CASE DaemonRead
    <3>1. pipe # <<>> /\ pipe' = Tail(pipe)
      BY <2>2 DEF DaemonRead
    <3> QED
      BY <1>0, <1>1, <3>1, TailIs DEF PlainQueues
  <2>3. CASE pipe' = <<>>
    <3>1. PICK q \in Seq(Msg) : q = <<>>
      <4>1. <<>> \in Seq(Msg)
        OBVIOUS
      <4> QED
        BY <4>1
    <3>2. Range(q) = {}
      BY <3>1, RangeIs
    <3> QED
      BY <2>3, <3>1, <3>2
  <2>4. ASSUME NEW m \in Msg, pipe' = Append(pipe, m),
               \/ InCall(m) \/ m.kind = "overflow" \/ (startup_buffer # <<>> /\ m = Head(startup_buffer))
        PROVE  x.kind # "unapp"
    <3>1. x = m \/ x \in Range(pipe)
      BY <1>0, <2>4, AppendIs
    <3>2. startup_buffer # <<>> => Head(startup_buffer) \in Range(startup_buffer)
      BY <1>0, TailIs
    <3> QED
      BY <1>1, <1>4, <2>4, <3>1, <3>2 DEF PlainQueues
  <2> QED
    BY <2>1, <2>2, <2>3, <2>4, PipeBy
<1>6. ASSUME NEW x \in Range(startup_buffer') PROVE x.kind # "unapp"
  <2>1. CASE startup_buffer' = startup_buffer
    BY <1>1, <2>1 DEF PlainQueues
  <2>2. CASE startup_buffer # <<>> /\ startup_buffer' = Tail(startup_buffer)
    BY <1>0, <1>1, <2>2, TailIs DEF PlainQueues
  <2>3. CASE startup_buffer' = <<>>
    <3>1. PICK q \in Seq(Msg) : q = <<>>
      <4>1. <<>> \in Seq(Msg)
        OBVIOUS
      <4> QED
        BY <4>1
    <3>2. Range(q) = {}
      BY <3>1, RangeIs
    <3> QED
      BY <2>3, <3>1, <3>2
  <2>4. ASSUME NEW t \in Thread, stack[t] # <<>>, top(t).m \in Msg, startup_buffer' = Append(startup_buffer, top(t).m)
        PROVE  x.kind # "unapp"
    <3>1. x = top(t).m \/ x \in Range(startup_buffer)
      BY <1>0, <2>4, AppendIs
    <3> QED
      BY <1>1, <1>4, <2>4, <3>1 DEF PlainQueues, InCall
  <2> QED
    BY <2>1, <2>2, <2>3, <2>4, BufferBy
<1> QED
  BY <1>3, <1>5, <1>6 DEF PlainQueues

-----------------------------------------------------------------------------
(* The handle leads to the daemon that is up.                              *)
Live == dlt_log_handle # NONE /\ daemon # DOWN /\ fds[dlt_log_handle] = daemon

(* The handle comes to lead to the daemon that is up only where a thread   *)
(* has opened the FIFO.                                                    *)
LEMMA LiveBegins ==
  ASSUME IInv, RunSound, Next, Live', ~Live
  PROVE  \E t \in Thread : ReattachOpened(t) \/ InitConnect(t)
<1>0. /\ fds \in [Fds -> 0..(MaxCrash + 1)] /\ crashes \in Nat /\ daemon \in Nat /\ CLOSED = 0 /\ DOWN = 0
      /\ dlt_log_handle \in Fds \cup {NONE} /\ \A f \in Fds : fds[f] \in Int
  BY UserAssumption DEF IInv, TypeSound, TypeOK, Scenario, CLOSED, DOWN
<1>1. ASSUME UNCHANGED <<fds, dlt_log_handle>> PROVE FALSE
  <2>1. UNCHANGED daemon \/ DaemonCrash \/ DaemonStart
    BY LibraryChanges, LogChanges, ThreadChanges DEF Next, DaemonRead, Terminated, vars, world
  <2>2. ~UNCHANGED daemon
    BY <1>1 DEF Live
  <2>3. ~DaemonCrash
    BY DEF DaemonCrash, Live
  <2>4. ASSUME DaemonStart PROVE FALSE
    <3>1. daemon = DOWN /\ daemon' = crashes + 1
      BY <2>4 DEF DaemonStart
    <3>2. dlt_log_handle \in Fds /\ fds[dlt_log_handle] = crashes + 1
      BY <1>0, <1>1, <3>1 DEF Live
    <3>3. fds[dlt_log_handle] <= crashes
      BY <3>1, <3>2 DEF RunSound
    <3> QED
      BY <1>0, <3>2, <3>3
  <2> QED
    BY <2>1, <2>2, <2>3, <2>4
<1>2. ASSUME NEW t \in Thread, Opens(t) PROVE ReattachOpened(t) \/ InitConnect(t)
  BY <1>2, OpensIs DEF Opens, Live
<1>3. ASSUME NEW t \in Thread, Forgets(t) PROVE FALSE
  <2>1. /\ dlt_log_handle' = dlt_log_handle /\ daemon' = daemon
        /\ fds' = (IF dlt_log_handle \in Fds THEN [fds EXCEPT ![dlt_log_handle] = CLOSED] ELSE fds)
    BY <1>3, ForgetsIs DEF Live
  <2>2. dlt_log_handle \in Fds
    BY <1>0, <2>1 DEF Live
  <2>3. fds'[dlt_log_handle'] = CLOSED
    BY <1>0, <2>1, <2>2
  <2> QED
    BY <1>0, <2>3 DEF Live
<1> QED
  BY <1>1, <1>2, <1>3, FdsNext

(* A registration that the daemon has read, that is on its way, that is    *)
(* stored, or that some thread still has to send.                          *)
RegMsg(k) == IF k = "app" THEN AppMsg ELSE ContextMsg
Told(k) == k \in knows \/ RegMsg(k) \in Range(pipe)
Kept(k) == RegMsg(k) \in Range(startup_buffer)
OwesIn(e, k) ==
    \/ e.fn \in {"send_register", "error_handling"} /\ e.m = RegMsg(k)
    \/ k = "context" /\ e.fn = "reattach" /\ e.pc = "application"
Owes(t, k) == \E j \in 1 .. Len(stack[t]) : OwesIn(stack[t][j], k)
Due(k) == Told(k) \/ Kept(k) \/ \E t \in Thread : Owes(t, k)
Wanted(k) == k = "app" \/ contexts
KnownSound == SetUp /\ Live /\ ~refused => \A k \in {"app", "context"} : Wanted(k) => Due(k)

(* A registration is a message, and says what it registers.                *)
LEMMA RegMsgIs ==
  ASSUME NEW k \in {"app", "context"}
  PROVE  RegMsg(k) \in Msg /\ RegMsg(k).kind = k
BY ControlMessages DEF RegMsg

(* What was told is known or on its way, unless the daemon crashes.        *)
LEMMA ToldStays ==
  ASSUME IInv, NoUnapp, Serving, Next, ~DaemonCrash, NEW k \in {"app", "context"}, Told(k)
  PROVE  Told(k)'
<1>0. pipe \in Seq(Msg)
  BY DEF IInv, TypeSound
<1>1. knows' = knows \/ DaemonRead
  BY LibraryChanges, LogChanges, ThreadChanges DEF Next, DaemonStart, Terminated, vars, world
<1>2. CASE DaemonRead
  <2>1. /\ pipe # <<>> /\ pipe' = Tail(pipe)
        /\ knows' = CASE Head(pipe).kind \in {"app", "context"} -> knows \cup {Head(pipe).kind}
                      [] Head(pipe).kind = "unapp" -> {}
                      [] OTHER -> knows
    BY <1>2 DEF DaemonRead
  <2>2. Range(pipe) = {Head(pipe)} \cup Range(Tail(pipe))
    BY <1>0, <2>1, TailIs
  <2>3. Head(pipe).kind # "unapp"
    BY <2>2 DEF NoUnapp, PlainQueues
  <2>4. knows \subseteq knows' /\ (Head(pipe).kind = k => k \in knows')
    BY <2>1, <2>3
  <2> QED
    BY <2>1, <2>2, <2>4, RegMsgIs DEF Told, RegMsg
<1>3. CASE ~DaemonRead
  <2>1. pipe' = pipe \/ \E m \in Msg : pipe' = Append(pipe, m)
    BY <1>3, PipeBy
  <2>2. Range(pipe) \subseteq Range(pipe')
    BY <1>0, <2>1, AppendIs
  <2> QED
    BY <1>1, <1>3, <2>2 DEF Told, RegMsg
<1> QED
  BY <1>2, <1>3

(* What was stored is stored or on its way.                                *)
LEMMA KeptStays ==
  ASSUME IInv, SetUp, Next, ~FreeBuffer, NEW k \in {"app", "context"}, Kept(k)
  PROVE  Told(k)' \/ Kept(k)'
<1>0. pipe \in Seq(Msg) /\ startup_buffer \in Seq(Msg)
  BY DEF IInv, TypeSound
<1>1. CASE startup_buffer' = startup_buffer
  BY <1>1 DEF Kept, RegMsg
<1>2. ASSUME NEW t \in Thread, InitCommon(t) PROVE FALSE
  <2>1. MainIs("start")
    BY <1>2, InitRuns DEF Starting
  <2> QED
    BY <2>1 DEF SetUp, MainIs
<1>3. ASSUME startup_buffer # <<>>, startup_buffer' = Tail(startup_buffer), pipe' = Append(pipe, Head(startup_buffer))
      PROVE  Told(k)' \/ Kept(k)'
  <2>1. Range(startup_buffer) = {Head(startup_buffer)} \cup Range(Tail(startup_buffer)) /\ Head(startup_buffer) \in Msg
    BY <1>0, <1>3, TailIs
  <2>2. Head(startup_buffer) \in Range(pipe')
    BY <1>0, <1>3, <2>1, AppendIs
  <2> QED
    BY <1>3, <2>1, <2>2 DEF Told, Kept, RegMsg
<1>4. ASSUME NEW m \in Msg, startup_buffer' = Append(startup_buffer, m) PROVE Kept(k)'
  <2>1. Range(startup_buffer) \subseteq Range(startup_buffer')
    BY <1>0, <1>4, AppendIs
  <2> QED
    BY <2>1 DEF Kept, RegMsg
<1> QED
  BY <1>1, <1>2, <1>3, <1>4, BufferBy

(* A thread that owes a registration owes it still, has it stored or has   *)
(* it written.                                                             *)
LEMMA OwesLower ==
  ASSUME StackType, NEW t \in Thread, Runs(t), NEW k, NEW j \in 1 .. Len(stack[t]) - 1, OwesIn(stack[t][j], k)
  PROVE  Owes(t, k)'
<1>1. PICK n \in Nat : n = Len(stack[t])
  BY StackIs
<1>2. \A i \in 1 .. n - 1 : stack'[t][i] = stack[t][i]
  BY <1>1 DEF Runs, Replaces, Pushes, Pops
<1>3. Len(stack'[t]) \in {n - 1, n, n + 1}
  BY <1>1 DEF Runs, Replaces, Pushes, Pops
<1>4. j \in 1 .. Len(stack'[t]) /\ stack'[t][j] = stack[t][j]
  BY <1>1, <1>2, <1>3
<1> QED
  BY <1>4 DEF Owes, OwesIn, RegMsg

(* A thread owes what its innermost call owes.                             *)
LEMMA OwesTop ==
  ASSUME StackType, NEW t \in Thread, stack[t] # <<>>, NEW g \in Frames,
         Replaces(t, g) \/ (\E f \in Frames : Pushes(t, f, g)), NEW k, OwesIn(g, k)
  PROVE  Owes(t, k)'
<1>1. PICK n \in Nat \ {0} : n = Len(stack[t])
  BY StackIs
<1>2. \/ n \in 1 .. Len(stack'[t]) /\ stack'[t][n] = g
      \/ n + 1 \in 1 .. Len(stack'[t]) /\ stack'[t][n + 1] = g
  BY <1>1 DEF Replaces, Pushes
<1> QED
  BY <1>2 DEF Owes, OwesIn, RegMsg

(* A thread that owes a registration still owes it after any step, or has  *)
(* written it to the FIFO or stored it, unless the startup buffer refuses  *)
(* it.                                                                     *)
LEMMA OwesStays ==
  ASSUME IInv, ErrorSound, RetSound, Next, SetUp, ~refused', NEW k \in {"app", "context"}, Wanted(k),
         NEW t \in Thread, Owes(t, k)
  PROVE  Told(k)' \/ Kept(k)' \/ Owes(t, k)'
<1>0. /\ StackType /\ Shape /\ appID /\ ~Starting /\ pipe \in Seq(Msg) /\ startup_buffer \in Seq(Msg)
      /\ RegMsg(k) \in Msg /\ RegMsg(k).kind = k
  BY RegMsgIs DEF IInv, TypeSound, MainSound, SetUp, Starting, MainIs
<1>1. PICK j \in 1 .. Len(stack[t]) : OwesIn(stack[t][j], k)
  BY DEF Owes
<1>2. stack[t] # <<>>
  <2>1. Len(<<>>) = 0 /\ 1 .. 0 = {}
    OBVIOUS
  <2> QED
    BY <1>1, <2>1
<1>3. CASE stack'[t] = stack[t]
  BY <1>3 DEF Owes, OwesIn, RegMsg
<1>4. ~Sets(t)
  BY <1>0 DEF Sets
<1>5. ~HousekeeperCancelled
  <2>1. SUFFICES ASSUME HousekeeperCancelled PROVE FALSE
    OBVIOUS
  <2>2. At(main, "main", "join")
    BY <2>1, CancelledIs
  <2> QED
    BY <2>2, MainFrom DEF SetUp
<1>6. ASSUME Runs(t), Does(t), OwesIn(top(t), k) PROVE Told(k)' \/ Kept(k)' \/ Owes(t, k)'
  <2>1. CASE top(t).fn = "send_register"
    <3>1. dlt_user_log_send_register(t) /\ top(t).m = RegMsg(k)
      BY <1>6, <2>1 DEF Does, OwesIn
    <3>2. CASE Pops(t)
      <4>1. pipe' = Append(pipe, top(t).m)
        <5>1. \A g \in Frames : ~Replaces(t, g)
          BY <1>0, <3>2, PopsOne
        <5> QED
          BY <1>0, <3>1, <3>2, <5>1, RegisterSteps
      <4>2. RegMsg(k) \in Range(pipe')
        BY <1>0, <3>1, <4>1, AppendIs
      <4> QED
        BY <4>2 DEF Told, RegMsg
    <3>3. CASE ~Pops(t)
      <4>1. PICK g \in Frames : Replaces(t, g) /\ g.fn \in {"send_register", "error_handling"} /\ g.m = top(t).m
        BY <1>0, <3>1, <3>3, RegisterSteps
      <4> QED
        BY <1>0, <1>2, <3>1, <4>1, OwesTop DEF OwesIn
    <3> QED
      BY <3>2, <3>3
  <2>2. CASE top(t).fn = "error_handling"
    <3>1. top(t).m = RegMsg(k) /\ (ErrorCheck(t) \/ ErrorPush(t))
      BY <1>6, <2>2 DEF Does, OwesIn, dlt_user_log_out_error_handling
    <3>2. ASSUME ErrorCheck(t) PROVE Owes(t, k)'
      <4>1. /\ stack'[t] # <<>> /\ top(t)'.fn = "error_handling" /\ top(t)'.m = top(t).m
        BY <3>2, CheckRuns
      <4>2. StackType'
        BY <1>6 DEF Runs
      <4>3. Len(stack'[t]) \in Nat \ {0}
        BY <4>1, <4>2 DEF StackType
      <4>4. Len(stack'[t]) \in 1 .. Len(stack'[t])
        BY <4>3
      <4> QED
        BY <3>1, <4>1, <4>4 DEF Owes, OwesIn, top, RegMsg
    <3>3. ASSUME ErrorPush(t) PROVE Kept(k)'
      <4>1. ~RingFull
        BY <1>0, <3>1, <3>3 DEF ErrorPush
      <4>2. startup_buffer' = Append(startup_buffer, top(t).m)
        BY <3>3, <4>1 DEF ErrorPush
      <4>3. RegMsg(k) \in Range(startup_buffer')
        BY <1>0, <3>1, <4>2, AppendIs
      <4> QED
        BY <4>3 DEF Kept, RegMsg
    <3> QED
      BY <3>1, <3>2, <3>3
  <2>3. CASE k = "context" /\ top(t).fn = "reattach" /\ top(t).pc = "application"
    <3>1. contexts /\ RegMsg(k) = ContextMsg
      BY <2>3 DEF Wanted, RegMsg
    <3>2. ~(ret[t] < ERROR)
      <4>1. At(t, "reattach", "application") /\ ~refused
        BY <1>2, <2>3, RefusedStays DEF At
      <4>2. ret[t] >= ERROR /\ ret[t] \in Int
        BY <4>1 DEF RetSound, IInv, TypeSound
      <4> QED
        BY <4>2 DEF ERROR
    <3>3. ReattachContexts(t)
      BY <1>6, <2>3 DEF Does, dlt_user_log_reattach_to_daemon, ReattachOpen, ReattachOpened, ReattachResend, At
    <3>4. PICK f \in Frames, g \in Frames : Pushes(t, f, g) /\ g.fn = "send_register" /\ g.m = ContextMsg
      BY <1>0, <3>1, <3>2, <3>3, ReattachSteps
    <3> QED
      BY <1>0, <1>2, <3>1, <3>4, OwesTop DEF OwesIn
  <2> QED
    BY <1>6, <2>1, <2>2, <2>3 DEF OwesIn
<1>7. ASSUME Runs(t), Does(t), ~OwesIn(top(t), k) PROVE Owes(t, k)'
  <2>1. j # Len(stack[t])
    BY <1>1, <1>7 DEF top
  <2>2. j \in 1 .. Len(stack[t]) - 1
    BY <1>0, <1>1, <2>1, StackIs
  <2> QED
    BY <1>0, <1>1, <1>7, <2>2, OwesLower
<1> QED
  BY <1>2, <1>3, <1>4, <1>5, <1>6, <1>7, StepOf

-----------------------------------------------------------------------------
(* A step that finds the application set up and connected keeps what is    *)
(* due, and one that connects it makes both registrations due.             *)
LEMMA DueStays ==
  ASSUME IInv, ErrorSound, RetSound, NoUnapp, Next, SetUp, SetUp', ~refused', ~DaemonCrash,
         NEW k \in {"app", "context"}, Wanted(k), Due(k)
  PROVE  Due(k)'
<1>1. Serving /\ ~FreeBuffer
  BY ServingBefore DEF Serving
<1>2. ASSUME Told(k) PROVE Due(k)'
  BY <1>1, <1>2, ToldStays DEF Due
<1>3. ASSUME Kept(k) PROVE Due(k)'
  BY <1>1, <1>3, KeptStays DEF Due
<1>4. ASSUME NEW t \in Thread, Owes(t, k) PROVE Due(k)'
  BY <1>4, OwesStays DEF Due
<1> QED
  BY <1>2, <1>3, <1>4 DEF Due

(* A re-attach that opened the FIFO owes every registration from then on.  *)
LEMMA DueBegins ==
  ASSUME IInv, NEW t \in Thread, ReattachOpened(t), NEW k \in {"app", "context"}
  PROVE  Due(k)'
<1>0. StackType /\ stack[t] # <<>>
  BY DEF IInv, TypeSound, ReattachOpened, At
<1>1. PICK f \in Frames, g \in Frames : /\ Pushes(t, f, g) /\ f.fn = "reattach" /\ f.pc = "application"
                                        /\ g.fn = "send_register" /\ g.m = AppMsg
  BY ReattachSteps
<1>2. CASE k = "app"
  <2>1. OwesIn(g, k)
    BY <1>1, <1>2 DEF OwesIn, RegMsg
  <2> QED
    BY <1>0, <1>1, <2>1, OwesTop DEF Due
<1>3. CASE k = "context"
  <2>1. PICK n \in Nat \ {0} : n = Len(stack[t])
    BY <1>0, StackIs
  <2>2. n \in 1 .. Len(stack'[t]) /\ stack'[t][n] = f
    BY <1>1, <2>1 DEF Pushes
  <2>3. OwesIn(f, k)
    BY <1>1, <1>3 DEF OwesIn
  <2>4. Owes(t, k)'
    BY <2>2, <2>3 DEF Owes, OwesIn, RegMsg
  <2> QED
    BY <2>4 DEF Due
<1> QED
  BY <1>2, <1>3

(* dlt_register_context owes the registration of the context it adds to    *)
(* the list.                                                               *)
LEMMA ContextDue ==
  ASSUME IInv, dlt_register_context
  PROVE  Due("context")'
<1>1. At(main, "main", "add_context") /\ Call(main, "run", Frame("send_register", ContextMsg))
  BY DEF dlt_register_context
<1>2. main \in Thread /\ StackType /\ stack[main] # <<>>
  BY <1>1, MainFrom
<1>3. PICK g \in Frames : g = Frame("send_register", ContextMsg) /\ g.fn = "send_register" /\ g.m = ContextMsg
  BY ControlMessages, NewFrame DEF Fns
<1>4. Call(main, "run", g) /\ "run" \in Pcs
  BY <1>1, <1>3 DEF Pcs
<1>5. \E f \in Frames : Pushes(main, f, g)
  BY <1>2, <1>4, CallIs
<1>6. OwesIn(g, "context")
  BY <1>3 DEF OwesIn, RegMsg
<1>7. Owes(main, "context")'
  BY <1>2, <1>5, <1>6, OwesTop
<1> QED
  BY <1>2, <1>7 DEF Due

(* When main leaves dlt_register_app, the registration of the application  *)
(* has been told, is stored, or is owed.                                   *)
LEMMA AppDue ==
  ASSUME IInv, ErrorSound, Next, MainIs("start"), MainIs("registered")'
  PROVE  Due("app")'
<1>1. stack'[main] # <<>> /\ Bottom(main)'.pc = "registered" /\ ~(Bottom(main)' = Bottom(main))
  BY DEF MainIs
<1>2. MainThread
  BY <1>1, MainSteps
<1>3. top(main)'.fn = "send_register" /\ top(main)'.m = AppMsg /\ Runs(main) /\ main \in Thread
  BY <1>1, <1>2, MainRuns, Threads
<1>4. Len(stack'[main]) \in 1 .. Len(stack'[main])
  <2>1. stack'[main] \in Seq(Frames)
    BY <1>3 DEF Runs, StackType
  <2>2. Len(stack'[main]) \in Nat \ {0}
    BY <1>1, <2>1
  <2> QED
    BY <2>2
<1>5. Owes(main, "app")'
  BY <1>3, <1>4 DEF Owes, OwesIn, RegMsg, top
<1> QED
  BY <1>3, <1>5 DEF Due

(* Every step keeps each registration told, stored or owed while the       *)
(* handle leads to the daemon that is up.                                  *)
LEMMA KnownNext ==
  ASSUME IInv, ErrorSound, RunSound, RetSound, NoUnapp, ContextSound, KnownSound, Next
  PROVE  KnownSound'
<1> SUFFICES ASSUME SetUp', Live', ~refused', NEW k \in {"app", "context"}, Wanted(k)'
             PROVE  Due(k)'
  BY DEF KnownSound, Wanted
<1>1. ~refused /\ ~DaemonCrash
  BY RefusedStays DEF DaemonCrash, Live
<1>2. CASE ~SetUp
  <2>1. MainIs("start") /\ MainIs("registered")'
    BY <1>2, ServingBefore
  <2>2. ~contexts'
    BY <2>1, ContextNext DEF ContextSound
  <2>3. k = "app"
    BY <2>2 DEF Wanted
  <2> QED
    BY <2>1, <2>3, AppDue
<1>3. CASE SetUp /\ ~Live
  <2>1. PICK t \in Thread : ReattachOpened(t) \/ InitConnect(t)
    BY <1>3, LiveBegins
  <2>2. ~InitConnect(t)
    <3>1. InitConnect(t) => MainIs("start")
      BY Connected DEF Starting
    <3> QED
      BY <1>3, <3>1 DEF SetUp, MainIs
  <2> QED
    BY <2>1, <2>2, DueBegins
<1>4. CASE SetUp /\ Live /\ Wanted(k)
  <2>1. Due(k)
    BY <1>1, <1>4 DEF KnownSound
  <2> QED
    BY <1>1, <1>4, <2>1, DueStays
<1>5. CASE SetUp /\ Live /\ ~Wanted(k)
  <2>1. k = "context" /\ ~contexts /\ contexts'
    BY <1>5 DEF Wanted
  <2>2. dlt_register_context
    <3>1. ~FreeBuffer
      BY <1>5, ServingBefore DEF Serving
    <3>2. contexts' = contexts \/ dlt_register_context
      BY <3>1, ContextsBy
    <3> QED
      BY <2>1, <3>2, Zenon
  <2> QED
    BY <2>1, <2>2, ContextDue
<1> QED
  BY <1>2, <1>3, <1>4, <1>5

-----------------------------------------------------------------------------
(* The beginning: what is registered is known.                             *)
LEMMA KnownBegins ==
  ASSUME Init
  PROVE  RunSound /\ FdSound /\ RetSound /\ NoUnapp /\ ContextSound /\ KnownSound
<1>0. CLOSED = 0 /\ DOWN = 0 /\ NONE \notin Fds /\ main \in Thread /\ housekeeper \in Thread /\ MinFd \in Fds
  BY UserAssumption, LowestFd, Threads DEF CLOSED, DOWN, NONE, MinFd
<1>1. crashes = 0 /\ pipe = <<>> /\ (InitFresh \/ \E up \in BOOLEAN : InitRegistered(up))
  BY DEF Init
<1>2. RunSound
  <2>1. CASE InitFresh
    BY <1>0, <1>1, <2>1 DEF InitFresh, RunSound
  <2>2. ASSUME NEW up \in BOOLEAN, InitRegistered(up) PROVE RunSound
    BY <1>0, <1>1, <2>2 DEF InitRegistered, RunSound
  <2> QED
    BY <1>1, <2>1, <2>2
<1>3. \A t \in Thread : ~At(t, "reattach", "opened") /\ ~At(t, "reattach", "application")
  <2>1. CASE InitFresh
    BY <2>1, FreshStacks, Threads DEF At
  <2>2. ASSUME NEW up \in BOOLEAN, InitRegistered(up)
        PROVE  \A t \in Thread : ~At(t, "reattach", "opened") /\ ~At(t, "reattach", "application")
    BY <2>2, RegisteredStacks, Threads DEF At
  <2> QED
    BY <1>1, <2>1, <2>2
<1>4. FdSound
  <2>1. CASE InitFresh
    <3>1. dlt_log_handle = NONE
      BY <2>1 DEF InitFresh
    <3> QED
      BY <1>3, <3>1 DEF FdSound, FdFits, HandleFits
  <2>2. ASSUME NEW up \in BOOLEAN, InitRegistered(up) PROVE FdSound
    <3>1. dlt_log_handle # NONE => fds[dlt_log_handle] # CLOSED
      BY <1>0, <2>2 DEF InitRegistered
    <3> QED
      BY <1>3, <3>1 DEF FdSound, FdFits, HandleFits
  <2> QED
    BY <1>1, <2>1, <2>2
<1>5. RetSound
  BY <1>3 DEF RetSound
<1>6. NoUnapp
  <2>1. PlainCalls
    <3> SUFFICES ASSUME NEW t \in Thread, NEW j \in 1 .. Len(stack[t])
                 PROVE  stack[t][j].m = AppMsg
      BY ControlMessages DEF PlainCalls
    <3>1. \A fn : Frame(fn, AppMsg).m = AppMsg
      BY DEF Frame
    <3>2. \A fn, pc : [Frame(fn, AppMsg) EXCEPT !.pc = pc].m = AppMsg
      BY DEF Frame
    <3>3. ASSUME NEW f, stack[t] = <<f>>, f.m = AppMsg PROVE stack[t][j].m = AppMsg
      BY <3>3
    <3>4. ASSUME NEW f, NEW g, stack[t] = <<f, g>>, f.m = AppMsg, g.m = AppMsg PROVE stack[t][j].m = AppMsg
      BY <3>4
    <3>5. stack[t] # <<>>
      <4>1. Len(<<>>) = 0 /\ 1 .. 0 = {}
        OBVIOUS
      <4> QED
        BY <4>1
    <3>6. CASE InitFresh
      <4>1. stack[t] = <<Frame("main", AppMsg), Frame("init", AppMsg)>>
        BY <3>5, <3>6 DEF InitFresh
      <4> QED
        BY <3>1, <3>4, <4>1
    <3>7. ASSUME NEW up \in BOOLEAN, InitRegistered(up) PROVE stack[t][j].m = AppMsg
      <4>1. \/ stack[t] = <<[Frame("main", AppMsg) EXCEPT !.pc = "run"]>>
            \/ stack[t] = <<[Frame("housekeeper", AppMsg) EXCEPT !.pc = "sleep"]>>
        BY <3>5, <3>7 DEF InitRegistered
      <4>2. PICK f : f = [Frame("main", AppMsg) EXCEPT !.pc = "run"]
        OBVIOUS
      <4>3. PICK g : g = [Frame("housekeeper", AppMsg) EXCEPT !.pc = "sleep"]
        OBVIOUS
      <4>4. f.m = AppMsg /\ g.m = AppMsg
        BY <3>2, <4>2, <4>3
      <4>5. stack[t] = <<f>> \/ stack[t] = <<g>>
        BY <4>1, <4>2, <4>3
      <4> QED
        BY <3>3, <4>4, <4>5
    <3> QED
      BY <1>1, <3>6, <3>7
  <2>2. PlainQueues
    <3>1. \A x \in Range(startup_buffer) : x.kind = "log"
      BY BufferBegins DEF LogMsg
    <3>2. Range(pipe) = {}
      <4>1. PICK q \in Seq(Msg) : q = <<>>
        <5>1. <<>> \in Seq(Msg)
          OBVIOUS
        <5> QED
          BY <5>1
      <4> QED
        BY <1>1, <4>1, RangeIs
    <3> QED
      BY <3>1, <3>2 DEF PlainQueues
  <2> QED
    BY <2>1, <2>2 DEF NoUnapp
<1>7. ContextSound
  <2>1. CASE InitFresh
    <3>1. ~contexts /\ \A q : MainIs(q) => q = "start"
      BY <2>1, FreshStacks DEF InitFresh
    <3> QED
      BY <3>1 DEF ContextSound
  <2>2. ASSUME NEW up \in BOOLEAN, InitRegistered(up) PROVE ContextSound
    <3>1. contexts /\ \A q : MainIs(q) => q = "run"
      BY <2>2, RegisteredStacks DEF InitRegistered
    <3> QED
      BY <3>1 DEF ContextSound
  <2> QED
    BY <1>1, <2>1, <2>2
<1>8. KnownSound
  <2>1. CASE InitFresh
    <3>1. ~SetUp
      BY <2>1, FreshStacks DEF SetUp
    <3> QED
      BY <3>1 DEF KnownSound
  <2>2. ASSUME NEW up \in BOOLEAN, InitRegistered(up) PROVE KnownSound
    <3>1. Live => knows = {"app", "context"}
      BY <2>2 DEF InitRegistered, Live
    <3> QED
      BY <3>1 DEF KnownSound, Due, Told
  <2> QED
    BY <1>1, <2>1, <2>2
<1> QED
  BY <1>2, <1>4, <1>5, <1>6, <1>7, <1>8

(* What the invariant says when all is quiet.                              *)
LEMMA KnownImplied ==
  ASSUME IInv, FdSound, ContextSound, KnownSound
  PROVE  KnownToDaemon
<1> SUFFICES ASSUME Quiet, ~refused
             PROVE  knows = {"app", "context"}
  BY DEF KnownToDaemon
<1>0. /\ StackType /\ Shape /\ knows \subseteq {"app", "context"} /\ CLOSED = 0 /\ DOWN = 0
      /\ pipe = <<>> /\ startup_buffer = <<>>
  BY DEF IInv, TypeSound, TypeOK, CLOSED, DOWN, Quiet
<1>1. /\ \A t \in Logger : stack[t] = <<>>
      /\ stack[main] # <<>> /\ top(main).fn = "main" /\ top(main).pc = "run"
      /\ stack[housekeeper] # <<>> /\ top(housekeeper).fn = "housekeeper" /\ top(housekeeper).pc = "sleep"
  BY DEF Quiet, At, Idle
<1>2. SetUp /\ contexts
  <2>1. MainIs("run")
    <3>1. At(main, "main", "run")
      BY DEF Quiet
    <3> QED
      BY <3>1, MainFrom
  <2> QED
    BY <2>1 DEF SetUp, ContextSound
<1>3. Live
  <2>1. \A t \in Thread : stack[t] # <<>> => top(t).pc # "closed"
    BY <1>1, Threads
  <2>2. dlt_log_handle # NONE /\ fds[dlt_log_handle] = daemon
    BY DEF Quiet
  <2>3. fds[dlt_log_handle] # CLOSED
    BY <2>1, <2>2 DEF FdSound, HandleFits
  <2> QED
    BY <1>0, <2>2, <2>3 DEF Live
<1>4. ASSUME NEW t \in Thread, NEW k PROVE ~Owes(t, k)
  <2>1. CASE stack[t] = <<>>
    <3>1. Len(<<>>) = 0 /\ 1 .. 0 = {}
      OBVIOUS
    <3> QED
      BY <2>1, <3>1 DEF Owes
  <2>2. CASE stack[t] # <<>>
    <3>1. top(t).fn \in {"main", "housekeeper"}
      BY <1>1, <2>2, Threads
    <3>2. Len(stack[t]) = 1 /\ top(t) = Bottom(t)
      BY <1>0, <2>2, <3>1, ShapeIs
    <3>3. \A j \in 1 .. Len(stack[t]) : stack[t][j] = top(t)
      BY <3>2 DEF Bottom
    <3> QED
      BY <3>1, <3>3 DEF Owes, OwesIn
  <2> QED
    BY <2>1, <2>2
<1>5. Range(pipe) = {} /\ Range(startup_buffer) = {}
  <2>1. PICK q \in Seq(Msg) : q = <<>>
    <3>1. <<>> \in Seq(Msg)
      OBVIOUS
    <3> QED
      BY <3>1
  <2> QED
    BY <1>0, <2>1, RangeIs
<1>6. ASSUME NEW k \in {"app", "context"} PROVE k \in knows
  <2>1. Due(k)
    BY <1>2, <1>3 DEF KnownSound, Wanted
  <2> QED
    BY <1>4, <1>5, <2>1 DEF Due, Told, Kept
<1> QED
  BY <1>0, <1>6

(* Whoever re-attaches, whatever the daemon's crashes destroy: when all is *)
(* quiet and the application is connected, the daemon knows it and its     *)
(* context, unless the full startup buffer refused a registration          *)
(* (dlt_user_log_reattach_to_daemon, dlt_user_log_out_error_handling).     *)
THEOREM KnownToDaemonTheorem ==
  ASSUME \A s \in Scenarios : ~s.lazy
  PROVE  Spec => []KnownToDaemon
<1> DEFINE Inv == /\ IInv /\ ErrorSound /\ RunSound /\ FdSound /\ RetSound /\ NoUnapp /\ ContextSound
                  /\ KnownSound
<1>1. Init => Inv
  BY InitSound, LossesBegin, KnownBegins
<1>2. Inv /\ [Next]_vars => Inv'
  <2> SUFFICES ASSUME Inv, [Next]_vars PROVE Inv'
    OBVIOUS
  <2>1. IInv'
    BY NextKeeps
  <2>2. CASE Next
    BY <2>1, <2>2, ErrorNext, RunNext, FdNext, RetNext, UnappNext, ContextNext, KnownNext
  <2>3. CASE UNCHANGED vars
    <3>1. /\ UNCHANGED <<dlt_log_handle, contexts, startup_buffer, stack, ret>>
          /\ UNCHANGED <<fds, daemon, crashes, pipe, knows, refused>>
      BY <2>3 DEF vars, shared, threads, world, hist
    <3>2. ErrorSound' /\ RetSound'
      BY <3>1 DEF ErrorSound, RetSound, At, top
    <3>3. RunSound' /\ FdSound'
      BY <3>1 DEF RunSound, FdSound, FdFits, HandleFits, At, top
    <3>4. NoUnapp' /\ ContextSound'
      BY <3>1 DEF NoUnapp, Serving, SetUp, MainIs, Bottom, PlainCalls, PlainQueues, ContextSound
    <3>5. KnownSound'
      BY <3>1 DEF KnownSound, SetUp, MainIs, Bottom, Live, Wanted, Due, Told, Kept, Owes, OwesIn, RegMsg
    <3> QED
      BY <2>1, <3>2, <3>3, <3>4, <3>5
  <2> QED
    BY <2>2, <2>3
<1>3. Inv => KnownToDaemon
  BY KnownImplied
<1> QED
  BY <1>1, <1>2, <1>3, PTL DEF Spec
==============================================================================
