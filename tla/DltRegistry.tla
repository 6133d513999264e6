---------------------------- MODULE DltRegistry ----------------------------
(***************************************************************************)
(* The daemon's registry of applications and contexts: two arrays sorted   *)
(* by id (dlt_daemon_common.c), the descriptor each application is reached *)
(* through, the log level and trace status of every context, the handlers  *)
(* of the user messages and of the control requests that change them, and  *)
(* the runtime configuration the tables are stored in and loaded from.     *)
(*                                                                         *)
(* The daemon is one thread, so a handler is one step.  What makes the     *)
(* registry hard is that descriptors are small integers the kernel reuses: *)
(* an entry that keeps a number after the descriptor was closed names      *)
(* whatever is opened next.  fds is the kernel's table; open and accept    *)
(* return its lowest free number.                                          *)
(*                                                                         *)
(* A process is identified by its pid and never comes back; an application *)
(* that restarts is a new process with the same application id.  What the  *)
(* daemon writes to a process is applied to its slots at once: the pipe    *)
(* keeps the order, so this is the state once the process has read it.     *)
(***************************************************************************)
EXTENDS Integers, Sequences, FiniteSets, SequencesExt, FiniteSetsExt

CONSTANTS
    Pid,            \* processes, positive numbers: 0 means "pid unknown"
    MaxFd,          \* the descriptors are 0 and DLT_FD_MINIMUM..MaxFd
    ContextDefault, \* [ll, ts]: ContextLogLevel and ContextTraceStatus
    Scenarios       \* what surrounds the daemon, see below

DLT_FD_INIT == -1
DLT_FD_MINIMUM == 3
DLT_USER_NOT_SET == -2
DLT_DEFAULT == -1
DLT_USER_INITIAL == [ll |-> 4, ts |-> 0]

Kind == {"ll", "ts"}                    \* log level, trace status
MaxOf == [ll |-> 6, ts |-> 1]           \* DLT_LOG_VERBOSE, DLT_TRACE_STATUS_ON

Fd == {0} \cup DLT_FD_MINIMUM..MaxFd

(***************************************************************************)
(* How the daemon is built and configured, and what happens around it:     *)
(*   sockets    DLT_IPC is UNIX_SOCKET rather than FIFO                    *)
(*   enforce    the ForceContextLogLevelAndTraceStatus option              *)
(*   injection  the InjectionMode option                                   *)
(*   files      the daemon opens log files (offline trace, log storage)    *)
(*   clients    a client comes and goes                                    *)
(*   requests   clients ask to set log levels and trace status             *)
(*   reinits    a process may call dlt_free and dlt_init again, once       *)
(*   fills      a write to a live process may fail with EAGAIN             *)
(*   stdin      descriptor 0 accepts a write                               *)
(***************************************************************************)
Option == {"sockets", "enforce", "injection", "files", "clients", "requests",
           "reinits", "fills", "stdin"}

(***************************************************************************)
(* A scenario is                                                           *)
(*   options    a set of these                                             *)
(*   appOf      the processes there are, and the application id of each    *)
(*   ctids      context ids, positive numbers: 0 is a cleared id           *)
(*   offers     the [ll, ts] pairs processes register contexts with        *)
(*   requests   [ll, ts]: the bytes clients ask to set                     *)
(*   slots      bound: contexts a process ever registers                   *)
(*   restarts   bound: daemon restarts                                     *)
(***************************************************************************)
IsScenario(s) ==
    /\ s.options \subseteq Option
    /\ DOMAIN s.appOf \subseteq Pid /\ \A p \in DOMAIN s.appOf : s.appOf[p] \in Nat \ {0}
    /\ s.ctids \subseteq Nat \ {0}
    /\ \A v \in s.offers, k \in Kind : v[k] \in DLT_USER_NOT_SET..MaxOf[k]
    /\ \A k \in Kind : s.requests[k] \subseteq 0..255
    /\ s.slots \in Nat /\ s.restarts \in Nat

(* What a descriptor can be besides a channel to a process. *)
Free == 0
Client == -1
File == -2
Stdin == -3
Broken == -4                            \* the process closed its end

NotStored == <<>>                       \* the file is absent: none is written empty

ASSUME RegistryAssumption ==
    /\ Pid \subseteq Nat \ {0}
    /\ MaxFd \in Nat
    /\ \A k \in Kind : ContextDefault[k] \in 0..MaxOf[k]
    /\ \A s \in Scenarios : IsScenario(s)

VARIABLES
    applications,   \* sorted by apid: [apid, pid, num_contexts, user_handle, owns]
    contexts,       \* sorted by (apid, ctid): [apid, ctid, ll, ts, pos, user_handle, predefined]
    defaults,       \* [ll, ts]: default_log_level, default_trace_status
    cfgLoaded,      \* runtime_context_cfg_loaded
    connectionState,\* 1 once a client is connected
    fds,            \* [Fd -> what is open there]
    proc,           \* [Pid -> the process as the user library keeps it]
    stored,         \* [apps, ctxs]: the two runtime configuration files
    restarts,
    scenario        \* fixed at the start

fixed == scenario
options == scenario.options
AppOf == scenario.appOf

vars == <<applications, contexts, defaults, cfgLoaded, connectionState, fds,
          proc, stored, restarts, fixed>>

UseSockets == "sockets" \in options
EnforceLLAndTS == "enforce" \in options

(***************************************************************************)
(* A handler works on a record of the state it may change, so that a loop  *)
(* that fails half way is a fold over it.  full: the processes whose pipe  *)
(* is full while the handler runs.                                         *)
(***************************************************************************)
World(full) ==
    [apps |-> applications, ctxs |-> contexts, defaults |-> defaults,
     fds |-> fds, proc |-> proc, conn |-> connectionState, full |-> full]

Becomes(w) ==
    /\ applications' = w.apps
    /\ contexts' = w.ctxs
    /\ defaults' = w.defaults
    /\ fds' = w.fds
    /\ proc' = w.proc
    /\ connectionState' = w.conn

Fullness == IF "fills" \in options THEN SUBSET Pid ELSE {{}}

(***************************************************************************)
(* Look-up.  The code binary-searches the sorted arrays; TablesAgree below *)
(* is what makes that find the entry there is.                             *)
(***************************************************************************)
application_find(w, apid) == SelectInSeq(w.apps, LAMBDA a : a.apid = apid)

context_find(w, apid, ctid) ==
    SelectInSeq(w.ctxs, LAMBDA c : c.apid = apid /\ c.ctid = ctid)

Before(x, y) == x.apid < y.apid \/ (x.apid = y.apid /\ x.ctid < y.ctid)

(* qsort of a sorted array with one entry added: the entry comes after     *)
(* the ones that precede it in the order.                                  *)
SortedApplications(s, e) ==
    InsertAt(s, 1 + Cardinality({i \in DOMAIN s : s[i].apid < e.apid}), e)

SortedContexts(s, e) ==
    InsertAt(s, 1 + Cardinality({i \in DOMAIN s : Before(s[i], e)}), e)

(***************************************************************************)
(* Descriptors and handles.                                                *)
(***************************************************************************)
FreeFds(w) == {f \in Fd : w.fds[f] = Free}
Lowest(w) == Min(FreeFds(w))

Close(table, f) == IF f \in Fd THEN [table EXCEPT ![f] = Free] ELSE table

(* s with F applied to every entry; the concatenation makes it a tuple. *)
Each(s, F(_)) == <<>> \o [i \in DOMAIN s |-> F(s[i])]

Forget(s, f) ==
    Each(s, LAMBDA e : IF e.user_handle = f
                       THEN [e EXCEPT !.user_handle = DLT_FD_INIT] ELSE e)

invalidate_fd(w, f) ==
    [w EXCEPT !.apps = Forget(@, f), !.ctxs = Forget(@, f)]

application_reset_user_handle(w, i) ==
    LET a == w.apps[i]
    IN  IF a.user_handle = DLT_FD_INIT THEN w
        ELSE [w EXCEPT
                !.ctxs = Forget(@, a.user_handle),
                !.fds = IF a.owns THEN Close(@, a.user_handle) ELSE @,
                !.apps[i] = [a EXCEPT !.user_handle = DLT_FD_INIT,
                                      !.owns = FALSE]]

(* dlt_user_log_out2/3: what writev on the handle reports. *)
Outcome(w, h) ==
    IF h \notin Fd THEN "invalid"
    ELSE LET owner == w.fds[h]
         IN  CASE owner = Free -> "EBADF"
               [] owner = Stdin -> IF "stdin" \in options THEN "ok" ELSE "EBADF"
               [] owner \in {Client, File} -> "ok"
               [] owner = Broken -> "EPIPE"
               [] OTHER -> IF ~w.proc[owner].alive THEN "EPIPE"
                           ELSE IF owner \in w.full THEN "EAGAIN" ELSE "ok"

(***************************************************************************)
(* The tables.                                                             *)
(***************************************************************************)
NewApplication(apid) ==
    [apid |-> apid, pid |-> 0, num_contexts |-> 0,
     user_handle |-> DLT_FD_INIT, owns |-> FALSE]

(* The descriptor application_add reaches pid through: the connection the  *)
(* message came in on, or the process's pipe opened for writing, which     *)
(* fails when nobody holds its reading end any more.                       *)
OpenUserHandle(w, i, pid, fd) ==
    LET opens == ~UseSockets /\ w.proc[pid].alive /\ FreeFds(w) # {}
        h == IF UseSockets THEN fd
             ELSE IF opens THEN Lowest(w) ELSE DLT_FD_INIT
        inv == invalidate_fd(w, h)
    IN  [inv EXCEPT
            !.fds = IF opens THEN [@ EXCEPT ![h] = pid] ELSE @,
            !.apps[i].user_handle = h,
            !.apps[i].owns = opens,
            !.apps[i].pid = pid]

application_add(w, apid, pid, fd) ==
    LET w1 == IF application_find(w, apid) # 0 THEN w
              ELSE [w EXCEPT !.apps = SortedApplications(@, NewApplication(apid))]
        i == application_find(w1, apid)
        w2 == IF w1.apps[i].pid = pid THEN w1
              ELSE [application_reset_user_handle(w1, i) EXCEPT !.apps[i].pid = 0]
    IN  IF w2.apps[i].user_handle = DLT_FD_INIT /\ pid # 0
        THEN OpenUserHandle(w2, i, pid, fd) ELSE w2

application_del(w, i) ==
    LET r == application_reset_user_handle(w, i)
    IN  [r EXCEPT !.apps = RemoveAt(@, i)]

Capped(w, v, k) ==
    IF EnforceLLAndTS /\ v[k] > w.defaults[k] THEN w.defaults[k] ELSE v[k]

AddableContext(w, apid, v) ==
    /\ \A k \in Kind : v[k] \in DLT_DEFAULT..MaxOf[k]
    /\ application_find(w, apid) # 0

(* mutant: a context that is there already is counted again *)
context_add_CountsAlways(w, apid, ctid, v, pos, h, keep) ==
    LET j == context_find(w, apid, ctid)
        new == [apid |-> apid, ctid |-> ctid,
                ll |-> Capped(w, v, "ll"), ts |-> Capped(w, v, "ts"),
                pos |-> pos, user_handle |-> h, predefined |-> (h = 0)]
        counted == [w EXCEPT !.apps[application_find(w, apid)].num_contexts = @ + 1]
    IN  IF j = 0 THEN [counted EXCEPT !.ctxs = SortedContexts(@, new)]
        ELSE [counted EXCEPT !.ctxs[j] = new]

(* v: [ll, ts].  An existing entry keeps its values when the runtime       *)
(* configuration was loaded, and takes pos, handle and predefined anew.    *)
context_add(w, apid, ctid, v, pos, h, keep) ==
    LET j == context_find(w, apid, ctid)
        new == [apid |-> apid, ctid |-> ctid,
                ll |-> Capped(w, v, "ll"), ts |-> Capped(w, v, "ts"),
                pos |-> pos, user_handle |-> h, predefined |-> (h = 0)]
    IN  IF j = 0
        THEN [w EXCEPT !.ctxs = SortedContexts(@, new),
                       !.apps[application_find(w, apid)].num_contexts = @ + 1]
        ELSE [w EXCEPT !.ctxs[j] =
                IF keep THEN [new EXCEPT !.ll = w.ctxs[j].ll,
                                         !.ts = w.ctxs[j].ts]
                ELSE new]

context_del(w, j) ==
    LET i == application_find(w, w.ctxs[j].apid)
        rest == [w EXCEPT !.ctxs = RemoveAt(@, j)]
    IN  IF i = 0 THEN rest
        ELSE [rest EXCEPT !.apps[i].num_contexts = @ - 1]

(***************************************************************************)
(* Messages to the processes.                                              *)
(***************************************************************************)
user_send_log_state(w, i) ==
    LET h == w.apps[i].user_handle
        out == Outcome(w, h)
    IN  IF out = "ok" /\ w.fds[h] \in Pid
        THEN [w EXCEPT !.proc[w.fds[h]].told = w.conn]
        ELSE IF out = "EPIPE" THEN application_reset_user_handle(w, i) ELSE w

user_send_all_log_state(w) ==
    FoldLeftDomain(LAMBDA acc, i :
                      IF acc.apps[i].user_handle >= DLT_FD_MINIMUM
                      THEN user_send_log_state(acc, i) ELSE acc,
                   w, w.apps)

Effective(w, c) ==
    [k \in Kind |-> IF c[k] = DLT_DEFAULT THEN w.defaults[k] ELSE c[k]]

(* The receiving process stores the two values in the slot the message     *)
(* names, if it has one.                                                   *)
Deliver(w, p, pos, v) ==
    IF pos \in DOMAIN w.proc[p].slots
    THEN [w EXCEPT !.proc[p].slots[pos].ll = v.ll,
                   !.proc[p].slots[pos].ts = v.ts]
    ELSE w

user_send_log_level(w, j) ==
    LET c == w.ctxs[j]
        out == Outcome(w, c.user_handle)
        i == application_find(w, c.apid)
    IN  IF out = "ok" /\ w.fds[c.user_handle] \in Pid
        THEN Deliver(w, w.fds[c.user_handle], c.pos, Effective(w, c))
        ELSE IF out = "EPIPE" /\ i # 0
        THEN application_reset_user_handle(w, i) ELSE w

(* mutant: only contexts with both values at default are told *)
user_send_default_update_BothDefault(w) ==
    FoldLeftDomain(LAMBDA acc, j :
                      IF /\ acc.ctxs[j].user_handle >= DLT_FD_MINIMUM
                         /\ \A k \in Kind : acc.ctxs[j][k] = DLT_DEFAULT
                      THEN user_send_log_level(acc, j) ELSE acc,
                   w, w.ctxs)

user_send_default_update(w) ==
    FoldLeftDomain(LAMBDA acc, j :
                      IF /\ acc.ctxs[j].user_handle >= DLT_FD_MINIMUM
                         /\ \E k \in Kind : acc.ctxs[j][k] = DLT_DEFAULT
                      THEN user_send_log_level(acc, j) ELSE acc,
                   w, w.ctxs)

(* all_log_level_update, all_trace_status_update: the new value is kept    *)
(* whether or not the write succeeds.                                      *)
user_send_all_update(w, k, val) ==
    FoldLeftDomain(LAMBDA acc, j :
                      IF acc.ctxs[j].user_handle >= DLT_FD_MINIMUM
                      THEN user_send_log_level(
                              [acc EXCEPT !.ctxs[j][k] = val], j) ELSE acc,
                   w, w.ctxs)

(***************************************************************************)
(* Initial state: the daemon has just started without a stored             *)
(* configuration and no process has registered yet.                        *)
(***************************************************************************)
NewProcess ==
    [alive |-> TRUE, registered |-> FALSE, attached |-> TRUE,
     todo |-> {}, slots |-> <<>>, told |-> -1, renewed |-> FALSE]

NoFds == [f \in Fd |-> IF f = 0 THEN Stdin ELSE Free]

Init ==
    /\ applications = <<>>
    /\ contexts = <<>>
    /\ defaults = ContextDefault
    /\ cfgLoaded = FALSE
    /\ connectionState = 0
    /\ fds = NoFds
    /\ proc = [p \in Pid |-> NewProcess]
    /\ stored = [apps |-> NotStored, ctxs |-> NotStored]
    /\ restarts = 0
    /\ scenario \in Scenarios

(***************************************************************************)
(* Messages of the processes.  The daemon may read a message after its     *)
(* sender died: no guard asks whether the process is still alive.          *)
(***************************************************************************)
ConnectionsOf(p) == {f \in Fd : fds[f] = p}

(* With sockets the daemon reads p's messages from p's connection. *)
CanSpeak(p) == proc[p].attached /\ (UseSockets => ConnectionsOf(p) # {})

RcvFd(p) == IF UseSockets THEN Min(ConnectionsOf(p)) ELSE DLT_FD_INIT

ProcessRegisterApplication(w, p) ==
    LET w1 == application_add(w, AppOf[p], p, RcvFd(p))
    IN  user_send_log_state(w1, application_find(w1, AppOf[p]))

(* dlt_register_app sends nothing when the id is registered already. *)
RegisterApplication(p) ==
    /\ CanSpeak(p) /\ ~proc[p].registered
    /\ \E full \in Fullness :
          Becomes(ProcessRegisterApplication(
             [World(full) EXCEPT !.proc[p].registered = TRUE], p))
    /\ UNCHANGED <<cfgLoaded, stored, restarts, fixed>>

(* v: what the message offers, NOT_SET where the process left it open. *)
ProcessRegisterContext(w, p, ctid, v, pos) ==
    LET set == [k \in Kind |-> IF v[k] = DLT_USER_NOT_SET THEN DLT_DEFAULT
                               ELSE v[k]]
        i == application_find(w, AppOf[p])
        added == context_add(w, AppOf[p], ctid, set, pos,
                             w.apps[i].user_handle, cfgLoaded)
        j == context_find(added, AppOf[p], ctid)
    IN  IF ~AddableContext(w, AppOf[p], set) THEN w
        ELSE IF /\ added.ctxs[j].user_handle >= DLT_FD_MINIMUM
                /\ \E k \in Kind : set[k] = DLT_DEFAULT
             THEN user_send_log_level(added, j) ELSE added

(* dlt_register_context_ll_ts: a fresh slot, never one used before.  The   *)
(* loop of a re-attach in progress gets to it as well.                     *)
RegisterContext(p, ctid, v) ==
    /\ CanSpeak(p) /\ proc[p].registered
    /\ Len(proc[p].slots) < scenario.slots
    /\ LET pos == Len(proc[p].slots) + 1
           slot == [ctid |-> ctid,
                    ll |-> IF v.ll = DLT_USER_NOT_SET
                           THEN DLT_USER_INITIAL.ll ELSE v.ll,
                    ts |-> v.ts]
       IN  \E full \in Fullness :
             Becomes(ProcessRegisterContext(
                [World(full) EXCEPT !.proc[p].slots = Append(@, slot),
                                    !.proc[p].todo = IF @ = {} THEN @ ELSE @ \cup {pos}],
                p, ctid, v, pos))
    /\ UNCHANGED <<cfgLoaded, stored, restarts, fixed>>

(* dlt_user_log_reattach_to_daemon, after the daemon restarted: the        *)
(* application first, then every slot in use, in order, without values of  *)
(* its own.  The lock is released for each: other messages come between.   *)
Reattach(p) ==
    /\ ~proc[p].attached /\ proc[p].alive /\ proc[p].registered
    /\ UseSockets => ConnectionsOf(p) # {}
    /\ \E full \in Fullness :
          Becomes(ProcessRegisterApplication(
             [World(full) EXCEPT
                !.proc[p].attached = TRUE,
                !.proc[p].todo = {s \in DOMAIN proc[p].slots :
                                     proc[p].slots[s].ctid # 0}], p))
    /\ UNCHANGED <<cfgLoaded, stored, restarts, fixed>>

ReregisterContext(p) ==
    /\ CanSpeak(p) /\ proc[p].todo # {}
    /\ LET s == Min(proc[p].todo)
           unset == [k \in Kind |-> DLT_USER_NOT_SET]
           w0(full) == [World(full) EXCEPT !.proc[p].todo = @ \ {s}]
       IN  \E full \in Fullness :
             Becomes(IF proc[p].registered /\ proc[p].slots[s].ctid # 0
                     THEN ProcessRegisterContext(w0(full), p,
                             proc[p].slots[s].ctid, unset, s)
                     ELSE w0(full))
    /\ UNCHANGED <<cfgLoaded, stored, restarts, fixed>>

(* All contexts at offset_base.. are deleted, last one first, where        *)
(* offset_base is the sum of num_contexts of the applications before it.   *)
UnregisterApplication(p) ==
    /\ CanSpeak(p) /\ proc[p].registered
    /\ LET w == [World({}) EXCEPT !.proc[p].registered = FALSE]
           i == application_find(w, AppOf[p])
           base == FoldLeft(LAMBDA sum, a : sum + a.num_contexts, 0,
                            SubSeq(w.apps, 1, i - 1))
           n == w.apps[i].num_contexts
           deleted == FoldLeft(LAMBDA acc, d : context_del(acc, base + d), w,
                               [d \in 1..n |-> n + 1 - d])
       IN  Becomes(IF i = 0 THEN w ELSE application_del(deleted, i))
    /\ UNCHANGED <<cfgLoaded, stored, restarts, fixed>>

ProcessUnregisterContext(w, apid, ctid) ==
    LET j == context_find(w, apid, ctid)
    IN  IF j # 0 /\ ~w.ctxs[j].predefined THEN context_del(w, j) ELSE w

UnregisterContext(p, s) ==
    /\ CanSpeak(p) /\ proc[p].registered
    /\ proc[p].slots[s].ctid # 0
    /\ LET slot == [ctid |-> 0, ll |-> DLT_USER_INITIAL.ll,
                    ts |-> DLT_USER_INITIAL.ts]
       IN  Becomes(ProcessUnregisterContext(
              [World({}) EXCEPT !.proc[p].slots[s] = slot],
              AppOf[p], proc[p].slots[s].ctid))
    /\ UNCHANGED <<cfgLoaded, stored, restarts, fixed>>

(***************************************************************************)
(* Processes come and go.                                                  *)
(***************************************************************************)
(* What a dead process was told matters to nobody: its slots only keep the *)
(* positions its messages name.                                            *)
ProcessDies(p) ==
    /\ proc[p].alive
    /\ proc' = [proc EXCEPT
                   ![p].alive = FALSE, ![p].told = -1,
                   ![p].slots = Each(@, LAMBDA s : [s EXCEPT !.ll = 0, !.ts = 0])]
    /\ UNCHANGED <<applications, contexts, defaults, cfgLoaded,
                   connectionState, fds, stored, restarts, fixed>>

(* mutant: the registry keeps the number the new connection gets *)
AppConnect_NotInvalidated(p) ==
    /\ UseSockets /\ proc[p].alive /\ ConnectionsOf(p) = {}
    /\ FreeFds(World({})) # {}
    /\ Becomes([World({}) EXCEPT !.fds[Lowest(World({}))] = p])
    /\ UNCHANGED <<cfgLoaded, stored, restarts, fixed>>

(* accept() on the application socket. *)
AppConnect(p) ==
    /\ UseSockets /\ proc[p].alive /\ ConnectionsOf(p) = {}
    /\ LET w == World({})
           f == Lowest(w)
       IN  /\ FreeFds(w) # {}
           /\ Becomes([invalidate_fd(w, f) EXCEPT !.fds[f] = p])
    /\ UNCHANGED <<cfgLoaded, stored, restarts, fixed>>

(* dlt_free followed by dlt_init: the process gives up its pipe or its     *)
(* connection and starts over with an empty library, under the same pid.   *)
(* dlt_free does not unregister the application.                           *)
Reinit(p) ==
    /\ "reinits" \in options /\ proc[p].alive /\ proc[p].registered
    /\ ~proc[p].renewed             \* bound
    /\ proc' = [proc EXCEPT ![p] = [NewProcess EXCEPT !.renewed = TRUE]]
    /\ fds' = [f \in Fd |-> IF fds[f] = p THEN Broken ELSE fds[f]]
    /\ UNCHANGED <<applications, contexts, defaults, cfgLoaded,
                   connectionState, stored, restarts, fixed>>

HasClient(table) == \E f \in Fd : table[f] = Client

(* dlt_daemon_close_socket when f has reached its end of file.  The number *)
(* stays in the registry.                                                  *)
AppClosed(f) ==
    /\ UseSockets
    /\ fds[f] = Broken \/ (fds[f] \in Pid /\ ~proc[fds[f]].alive)
    /\ LET closed == [World({}) EXCEPT !.fds = Close(@, f)]
       IN  Becomes(IF HasClient(fds) THEN closed
                   ELSE user_send_all_log_state([closed EXCEPT !.conn = 0]))
    /\ UNCHANGED <<cfgLoaded, stored, restarts, fixed>>

(* The event handler on POLLERR or POLLNVAL: only clients go through       *)
(* dlt_daemon_close_socket, an application's connection is just closed.    *)
AppDropped(f) ==
    /\ UseSockets
    /\ fds[f] = Broken \/ (fds[f] \in Pid /\ ~proc[fds[f]].alive)
    /\ fds' = Close(fds, f)
    /\ UNCHANGED <<applications, contexts, defaults, cfgLoaded,
                   connectionState, proc, stored, restarts, fixed>>

(***************************************************************************)
(* Everything else that takes a descriptor.                                *)
(***************************************************************************)
(* mutant: the applications are told before the state is set *)
ClientConnect_TellsFirst ==
    /\ "clients" \in options /\ ~HasClient(fds)
    /\ FreeFds(World({})) # {}
    /\ LET f == Lowest(World({}))
           told == user_send_all_log_state(invalidate_fd(World({}), f))
       IN  Becomes([told EXCEPT !.fds[f] = Client, !.conn = 1])
    /\ UNCHANGED <<cfgLoaded, stored, restarts, fixed>>

(* dlt_daemon_process_client_connect for the first client, which may be    *)
(* gone when the ring buffer has been sent to it: the applications are     *)
(* told 1 all the same.                                                    *)
ClientConnect ==
    /\ "clients" \in options /\ ~HasClient(fds)
    /\ FreeFds(World({})) # {}
    /\ LET f == Lowest(World({}))
       IN  \E full \in Fullness, end \in {Client, Free} :
             Becomes(user_send_all_log_state(
                [invalidate_fd(World(full), f) EXCEPT !.fds[f] = end,
                                                      !.conn = 1]))
    /\ UNCHANGED <<cfgLoaded, stored, restarts, fixed>>

(* The last client leaves: dlt_daemon_close_socket tells the applications. *)
ClientClosed(f) ==
    /\ fds[f] = Client
    /\ \E full \in Fullness :
          Becomes(user_send_all_log_state(
             [World(full) EXCEPT !.fds = Close(@, f), !.conn = 0]))
    /\ UNCHANGED <<cfgLoaded, stored, restarts, fixed>>

(* A log file of the offline trace or the log storage: fopen consults no   *)
(* registry.                                                               *)
OpenFile ==
    /\ "files" \in options /\ \A f \in Fd : fds[f] # File
    /\ FreeFds(World({})) # {}
    /\ fds' = [fds EXCEPT ![Lowest(World({}))] = File]
    /\ UNCHANGED <<applications, contexts, defaults, cfgLoaded,
                   connectionState, proc, stored, restarts, fixed>>

CloseFile(f) ==
    /\ fds[f] = File
    /\ fds' = Close(fds, f)
    /\ UNCHANGED <<applications, contexts, defaults, cfgLoaded,
                   connectionState, proc, stored, restarts, fixed>>

(***************************************************************************)
(* Control requests.  byte: the value as it arrives, an unsigned octet;    *)
(* 255 is DLT_LOG_DEFAULT and DLT_TRACE_STATUS_DEFAULT.                    *)
(***************************************************************************)
Int8(byte) == IF byte > 127 THEN byte - 256 ELSE byte

getStatus(byte, limit) == IF byte <= limit THEN byte ELSE limit

Granted(k, byte) ==
    Int8(IF EnforceLLAndTS THEN getStatus(byte, ContextDefault[k]) ELSE byte)

(* dlt_daemon_send_log_level, dlt_daemon_send_trace_status: the old value  *)
(* comes back when the process could not be told.                          *)
send_value(w, j, k, val) ==
    LET h == w.ctxs[j].user_handle
        set == [w EXCEPT !.ctxs[j][k] = val]
        sent == IF h >= DLT_FD_MINIMUM THEN user_send_log_level(set, j) ELSE set
        told == h >= DLT_FD_MINIMUM /\ Outcome(w, h) = "ok"
    IN  IF told THEN sent ELSE [sent EXCEPT !.ctxs[j][k] = w.ctxs[j][k]]

(* The contexts a request names: one of them, or all of an application, or *)
(* all with the same context id.                                           *)
Targets ==
    LET Ids == {<<contexts[j].apid, contexts[j].ctid>> : j \in DOMAIN contexts}
    IN  {{j \in DOMAIN contexts : contexts[j].apid = x[1] /\ contexts[j].ctid = x[2]} :
            x \in Ids}
        \cup {{j \in DOMAIN contexts : contexts[j].apid = x[1]} : x \in Ids}
        \cup {{j \in DOMAIN contexts : contexts[j].ctid = x[2]} : x \in Ids}

(* control_set_log_level, control_set_trace_status: any octet is accepted. *)
ControlSet(k, byte) ==
    /\ \E targets \in Targets, full \in Fullness :
          Becomes(FoldLeftDomain(
             LAMBDA acc, j : IF j \in targets
                             THEN send_value(acc, j, k, Granted(k, byte))
                             ELSE acc,
             World(full), contexts))
    /\ UNCHANGED <<cfgLoaded, stored, restarts, fixed>>

ControlSetDefault(k, byte) ==
    /\ byte <= MaxOf[k]
    /\ \E full \in Fullness :
          Becomes(user_send_default_update(
             [World(full) EXCEPT !.defaults[k] = Granted(k, byte)]))
    /\ UNCHANGED <<cfgLoaded, stored, restarts, fixed>>

ControlSetAll(k, byte) ==
    /\ byte <= MaxOf[k] \/ byte = 255
    /\ \E full \in Fullness :
          Becomes(user_send_all_update(World(full), k, Granted(k, byte)))
    /\ UNCHANGED <<cfgLoaded, stored, restarts, fixed>>

ResetToFactoryDefault ==
    /\ stored' = [apps |-> NotStored, ctxs |-> NotStored]
    /\ \E full \in Fullness :
          Becomes(user_send_default_update(
             [World(full) EXCEPT !.defaults = ContextDefault]))
    /\ UNCHANGED <<cfgLoaded, restarts, fixed>>

(* dlt_daemon_control_callsw_cinjection.  On a pipe error it closes the    *)
(* number the context holds and forgets it in this context only.           *)
CallSWCInjection(j) ==
    /\ "injection" \in options
    /\ \E full \in Fullness :
          LET w == World(full)
              h == contexts[j].user_handle
          IN  Becomes(IF Outcome(w, h) \in {"EPIPE", "EBADF"}
                      THEN [w EXCEPT !.fds = Close(@, h),
                                     !.ctxs[j].user_handle = DLT_FD_INIT]
                      ELSE w)
    /\ UNCHANGED <<cfgLoaded, stored, restarts, fixed>>

(***************************************************************************)
(* The runtime configuration.  A table without entries is not written: the *)
(* file keeps what it held.                                                *)
(***************************************************************************)
StoredApps ==
    IF applications = <<>> THEN stored.apps
    ELSE [i \in DOMAIN applications |-> applications[i].apid]

StoredCtxs ==
    IF contexts = <<>> THEN stored.ctxs
    ELSE [j \in DOMAIN contexts |->
            [apid |-> contexts[j].apid, ctid |-> contexts[j].ctid,
             ll |-> contexts[j].ll, ts |-> contexts[j].ts]]

(* When the second file cannot be written the handler does what            *)
(* ResetToFactoryDefault does; when the first cannot, nothing.             *)
StoreConfig ==
    /\ restarts < scenario.restarts       \* what is stored later is never loaded
    /\ stored' = [apps |-> StoredApps, ctxs |-> StoredCtxs]
    /\ UNCHANGED <<applications, contexts, defaults, cfgLoaded,
                   connectionState, fds, proc, restarts, fixed>>

(* contexts_load stops at the first line context_add refuses. *)
ContextsLoad(w, lines) ==
    FoldLeft(LAMBDA acc, c :
                IF acc.ok /\ AddableContext(acc.w, c.apid, c)
                THEN [acc EXCEPT !.w = context_add(@, c.apid, c.ctid, c, 0, 0, FALSE)]
                ELSE [acc EXCEPT !.ok = FALSE],
             [w |-> w, ok |-> TRUE], lines)

(* The daemon ends and starts again with the files as they are then: its   *)
(* descriptors are gone and the processes find their channel broken.       *)
StartWith(files) ==
    LET empty == [World({}) EXCEPT
                     !.apps = <<>>, !.ctxs = <<>>, !.defaults = ContextDefault,
                     !.fds = NoFds, !.conn = 0,
                     !.proc = [p \in Pid |->
                        [proc[p] EXCEPT !.attached = ~proc[p].registered,
                                        !.todo = {}]]]
        withApps == IF files.apps = NotStored THEN empty
                    ELSE FoldLeft(LAMBDA acc, a : application_add(acc, a, 0, DLT_FD_INIT),
                                  empty, files.apps)
        both == files.apps # NotStored /\ files.ctxs # NotStored
        load == IF both THEN ContextsLoad(withApps, files.ctxs)
                ELSE [w |-> withApps, ok |-> FALSE]
    IN  /\ Becomes(load.w)
        /\ cfgLoaded' = load.ok
        /\ stored' = files
        /\ UNCHANGED fixed

Restart ==
    /\ restarts < scenario.restarts
    /\ restarts' = restarts + 1
    /\ StartWith(stored)

(* The daemon dies between writing the two files. *)
CrashWhileStoring ==
    /\ restarts < scenario.restarts
    /\ restarts' = restarts + 1
    /\ StartWith([stored EXCEPT !.apps = StoredApps])

(***************************************************************************)
(* The specification.                                                      *)
(***************************************************************************)
Asked(k) == IF "requests" \in options THEN scenario.requests[k] ELSE {}

Next ==
    \/ \E p \in DOMAIN AppOf :
          \/ RegisterApplication(p) \/ UnregisterApplication(p)
          \/ Reattach(p) \/ ReregisterContext(p)
          \/ ProcessDies(p) \/ AppConnect(p) \/ Reinit(p)
          \/ \E c \in scenario.ctids, v \in scenario.offers : RegisterContext(p, c, v)
          \/ \E s \in DOMAIN proc[p].slots : UnregisterContext(p, s)
    \/ \E f \in Fd : AppClosed(f) \/ ClientClosed(f) \/ AppDropped(f) \/ CloseFile(f)
    \/ ClientConnect \/ OpenFile
    \/ \E k \in Kind : \E byte \in Asked(k) :
          ControlSet(k, byte) \/ ControlSetDefault(k, byte) \/ ControlSetAll(k, byte)
    \/ \E j \in DOMAIN contexts : CallSWCInjection(j)
    \/ ResetToFactoryDefault \/ StoreConfig \/ Restart \/ CrashWhileStoring

Spec == Init /\ [][Next]_vars

(***************************************************************************)
(* Properties.                                                             *)
(***************************************************************************)
Handle == {DLT_FD_INIT} \cup Fd
Value == -128..127

(* Type invariant. *)
TypeOK ==
    /\ \A i \in DOMAIN applications : applications[i] \in
          [apid : Nat, pid : Pid \cup {0}, num_contexts : Nat,
           user_handle : Handle, owns : BOOLEAN]
    /\ \A j \in DOMAIN contexts : contexts[j] \in
          [apid : Nat, ctid : scenario.ctids, ll : Value, ts : Value, pos : Nat,
           user_handle : Handle, predefined : BOOLEAN]
    /\ \A k \in Kind : defaults[k] \in 0..MaxOf[k]
    /\ cfgLoaded \in BOOLEAN
    /\ connectionState \in {0, 1}
    /\ fds \in [Fd -> Pid \cup {Free, Client, File, Stdin, Broken}]
    /\ \A p \in Pid : /\ proc[p].told \in {-1, 0, 1}
                       /\ proc[p].todo \subseteq DOMAIN proc[p].slots
    /\ restarts \in 0..scenario.restarts
    /\ scenario \in Scenarios

(* The two arrays agree with each other, whatever sequence of              *)
(* registrations, restarts and half-written files produced them: strictly  *)
(* sorted, so that bsearch finds an entry that is there; every context     *)
(* belongs to a registered application; and num_contexts counts exactly    *)
(* its contexts, so that the block unregister_application deletes at       *)
(* offset_base is the application's own.                                   *)
TablesAgree ==
    /\ \A i, j \in DOMAIN applications :
          i < j => applications[i].apid < applications[j].apid
    /\ \A i, j \in DOMAIN contexts : i < j => Before(contexts[i], contexts[j])
    /\ \A j \in DOMAIN contexts :
          \E i \in DOMAIN applications : applications[i].apid = contexts[j].apid
    /\ \A i \in DOMAIN applications :
          applications[i].num_contexts =
             Cardinality({j \in DOMAIN contexts : contexts[j].apid = applications[i].apid})

(* A context is written to through its application's descriptor or not at  *)
(* all: reset_user_handle and invalidate_fd leave no context behind with a *)
(* number its application no longer has.                                   *)
ContextFollowsApplication ==
    \A j \in DOMAIN contexts :
       contexts[j].user_handle >= DLT_FD_MINIMUM =>
          \E i \in DOMAIN applications :
             /\ applications[i].apid = contexts[j].apid
             /\ applications[i].user_handle = contexts[j].user_handle

(* A number kept in the registry never names somebody else's descriptor:   *)
(* it is the channel to the application's process, or one that was closed  *)
(* and not reused.  This is what the invalidate_fd calls are for.          *)
NeverWrongDescriptor ==
    /\ \A i \in DOMAIN applications :
          applications[i].user_handle >= DLT_FD_MINIMUM =>
             fds[applications[i].user_handle] \in
                {applications[i].pid, Broken, Free}
    /\ \A j \in DOMAIN contexts :
          contexts[j].user_handle >= DLT_FD_MINIMUM =>
             fds[contexts[j].user_handle] \notin {Client, File}

(* With FIFOs the registry owns the pipes it opens: every pipe the daemon  *)
(* holds open is the handle of exactly one application that will close it  *)
(* (none leaks when an application id moves to another process), and no    *)
(* application is left with a number that is already closed, which it      *)
(* would close a second time.  Not claimed in injection mode, where a      *)
(* failed injection closes the application's number.                       *)
PipesOwned ==
    ~UseSockets /\ "injection" \notin options =>
       /\ \A f \in Fd : fds[f] \in Pid \cup {Broken} =>
             Cardinality({i \in DOMAIN applications :
                             applications[i].user_handle = f /\ applications[i].owns}) = 1
       /\ \A i \in DOMAIN applications :
             applications[i].owns /\ applications[i].user_handle # DLT_FD_INIT =>
                fds[applications[i].user_handle] \in Pid \cup {Broken}

(* The channel p is listening on. *)
ChannelTo(p, h) == h >= DLT_FD_MINIMUM /\ fds[h] = p

(* An application whose process is alive and has registered since the      *)
(* daemon started can be reached: its entry holds the process's channel,   *)
(* whatever else connected, died or registered in between.  Not claimed in *)
(* injection mode, nor for a process that initialised its library again:   *)
(* the daemon does not open the pipe again for a pid it knows.             *)
RegisteredReachable ==
  "injection" \notin options =>
    \A i \in DOMAIN applications : \A p \in Pid :
       (/\ applications[i].pid = p /\ proc[p].alive /\ proc[p].registered /\ proc[p].attached
        /\ ~proc[p].renewed)
          => ChannelTo(p, applications[i].user_handle)

(* An application that can be reached knows whether a client listens: the  *)
(* state it was told last is the daemon's connectionState, however clients *)
(* and registrations interleave, as long as no pipe is full (a log state   *)
(* that does not fit is not sent again).                                   *)
LogStateTold ==
    "fills" \notin options =>
       \A i \in DOMAIN applications : \A p \in Pid :
          (/\ applications[i].pid = p /\ proc[p].alive
           /\ ChannelTo(p, applications[i].user_handle))
             => proc[p].told = connectionState

(* The levels the daemon reports are the ones in force: a reachable        *)
(* context's slot in its process holds the effective log level and trace   *)
(* status of the table entry, across default changes, set-all, factory     *)
(* resets and daemon restarts with a stored configuration.  Claimed while  *)
(* no pipe is full, for processes that do not share an application id.     *)
LevelsInForce ==
    "fills" \notin options /\ IsInjective(AppOf) =>
       \A j \in DOMAIN contexts : \A p \in DOMAIN AppOf :
          (/\ AppOf[p] = contexts[j].apid /\ proc[p].alive
           /\ ChannelTo(p, contexts[j].user_handle))
             => /\ contexts[j].pos \in DOMAIN proc[p].slots
                /\ LET slot == proc[p].slots[contexts[j].pos]
                   IN  /\ slot.ctid \in {contexts[j].ctid, 0}
                       /\ slot.ctid # 0 =>
                            \A k \in Kind : slot[k] = Effective(World({}), contexts[j])[k]

(* dlt-daemon.h on enforceContextLLAndTS: "Enforce log-level, trace-status  *)
(* not to exceed contextLogLevel", in the process that logs and not only   *)
(* in the daemon's table, however the context was registered and whatever  *)
(* the clients ask for.                                                    *)
EnforcedInForce ==
    EnforceLLAndTS =>
       \A p \in Pid : \A s \in DOMAIN proc[p].slots :
          (/\ proc[p].alive /\ proc[p].registered /\ proc[p].attached /\ proc[p].todo = {}
           /\ proc[p].slots[s].ctid # 0)
             => proc[p].slots[s].ll <= ContextDefault.ll

(* The tables: the parts above that relate the two arrays. *)
TablesSound == TypeOK /\ TablesAgree /\ ContextFollowsApplication

(* The descriptors: no number in the registry names somebody else's        *)
(* channel, and with FIFOs each pipe has exactly one owner.                *)
HandlesSound == NeverWrongDescriptor /\ PipesOwned

(* The channels: a registered process can be reached and knows whether a   *)
(* client listens.                                                         *)
ProcessesReached == RegisteredReachable /\ LogStateTold

(* The levels: what the daemon reports is in force in the process, and     *)
(* within what is enforced.                                                *)
LevelsSound == LevelsInForce /\ EnforcedInForce
=============================================================================
