----------------------------- MODULE DltContexts -----------------------------
(***************************************************************************)
(* The contexts of one application: their log levels between the user      *)
(* library (dlt_user.c), the environment (dlt_env_ll.c) and the daemon     *)
(* (dlt-daemon.c), and what the daemon sends back: levels and injections,  *)
(* which the library's receiver thread hands to callbacks.                 *)
(*                                                                         *)
(* One thread of the application calls the library; a call changes the     *)
(* table of contexts under the semaphore and then writes to the daemon.    *)
(* The receiver thread calls a callback after it has given the semaphore   *)
(* back.  Messages go in order and are not lost; DltUser and DltReceiver   *)
(* are about those that do not fit, and DltRegistry about several          *)
(* applications.  Trace status follows the log level everywhere.           *)
(***************************************************************************)
EXTENDS Integers, Sequences, FiniteSets, SequencesExt, Functions

CONSTANTS
    ContextIds,         \* ids of contexts, positive numbers
    LogLevels,          \* levels that are set
    Services,           \* service ids of injections
    Environments,       \* values of DLT_INITIAL_LOG_LEVEL: sequences of items
    InitialLevel,       \* DLT_USER_INITIAL_LOG_LEVEL
    DefaultLevel,       \* the daemon's default log level
    MaxSlots,           \* bound: contexts that are registered, one after the other
    MaxEvents           \* bound: calls of the application and requests of clients

ASSUME ContextsAssumption ==
    /\ ContextIds \subseteq Nat \ {0} /\ IsFiniteSet(ContextIds) /\ LogLevels \subseteq 0..6
    /\ InitialLevel \in 0..6 /\ DefaultLevel \in 0..6
    /\ \A env \in Environments :
          env \in Seq([app : Nat, ctx : Nat, level : -1..6, form : {"number", "word", "unreadable"}])
    /\ MaxSlots \in Nat /\ MaxEvents \in Nat

NotSet == -2            \* DLT_USER_LOG_LEVEL_NOT_SET
DLT_LOG_DEFAULT == -1
NoCell == -9            \* log_level_ptr is NULL
EmptyId == 0
ThisApp == 1            \* the id of the application

VARIABLES
    environment,    \* [app, ctx, level, form] per item, fixed at the start
    slots,          \* dlt_ll_ts; told: history, the level its callback was last told
    handles,        \* per context id: log_level_pos, 0 if it is not registered
    caller,         \* the calling thread: the message it still has to write
    toDaemon,
    toUser,
    tables,         \* the daemon's contexts: position and level
    receiver,       \* the receiver thread: the callback it is about to call
    invoked,        \* history: injections callbacks were called for
    registered,     \* history: [ctx, asked, level] of the last registration
    events

contextVars == <<environment, slots, handles, caller, toDaemon, toUser, tables, receiver, invoked,
                 registered, events>>

(***************************************************************************)
(* The environment.                                                        *)
(***************************************************************************)
(* A level in words takes the semicolon with it, and then fails unless it  *)
(* is the last.                                                            *)
dlt_env_extract_ll(env, i) ==
    CASE env[i].form = "number" -> [ok |-> TRUE, level |-> env[i].level]
      [] env[i].form = "word" -> [ok |-> i = Len(env), level |-> env[i].level]
      [] env[i].form = "unreadable" -> [ok |-> FALSE, level |-> 0]

(* The items up to the first that fails, and that one as far as it was     *)
(* read.                                                                   *)
dlt_env_extract_ll_set(env) ==
    LET failed == SelectInSeq([i \in DOMAIN env |-> dlt_env_extract_ll(env, i)], LAMBDA r : ~r.ok)
    IN  [i \in 1..(IF failed = 0 THEN Len(env) ELSE failed) |->
            [app |-> env[i].app, ctx |-> env[i].ctx, level |-> dlt_env_extract_ll(env, i).level]]

dlt_env_ll_item_get_matching_prio(item, apid, ctid) ==
    CASE item.app = EmptyId /\ item.ctx = EmptyId -> 1
      [] item.app = EmptyId /\ item.ctx = ctid -> 2
      [] item.app = apid /\ item.ctx = EmptyId -> 3
      [] item.app = apid /\ item.ctx = ctid -> 4
      [] OTHER -> 0

dlt_env_adjust_ll_from_env(items, apid, ctid, ll) ==
    FoldLeft(LAMBDA acc, item :
                LET p == dlt_env_ll_item_get_matching_prio(item, apid, ctid)
                IN  IF p > acc.prio THEN [prio |-> p, res |-> item.level] ELSE acc,
             [prio |-> 0, res |-> ll], items).res

(***************************************************************************)
(* Calls of the application.                                               *)
(***************************************************************************)
NoMessage == [is |-> "none", ctx |-> 0, pos |-> 0, level |-> 0]
Message(is, ctx, pos, level) == [is |-> is, ctx |-> ctx, pos |-> pos, level |-> level]

Calls == caller = NoMessage /\ events < MaxEvents /\ events' = events + 1

Slot(ctx, level) ==
    [ctx |-> ctx, level |-> level, cell |-> level, injections |-> <<>>, changed |-> 0,
     told |-> NotSet]

(* mutant: the slot of a context that was unregistered is used again *)
NewPosition_Reuses ==
    LET gone == SelectInSeq(slots, LAMBDA s : s.ctx = EmptyId)
    IN  IF gone = 0 THEN Len(slots) + 1 ELSE gone
(* Always a new one. *)
NewPosition == Len(slots) + 1

dlt_register_context_ll_ts_llccb(c, asked) ==
    /\ Calls /\ handles[c] = 0 /\ NewPosition <= MaxSlots
    /\ LET env == dlt_env_adjust_ll_from_env(dlt_env_extract_ll_set(environment), ThisApp, c, NotSet)
           loglevel == IF env # NotSet THEN env ELSE asked
           slot == Slot(c, IF loglevel = NotSet THEN InitialLevel ELSE loglevel)
       IN  /\ slots' = [p \in 1..(IF NewPosition > Len(slots) THEN NewPosition ELSE Len(slots)) |->
                           IF p = NewPosition THEN slot ELSE slots[p]]
           /\ handles' = [handles EXCEPT ![c] = NewPosition]
           /\ caller' = Message("register", c, NewPosition, loglevel)
           /\ registered' = [ctx |-> c, asked |-> asked, level |-> loglevel]
    /\ UNCHANGED <<environment, toDaemon, toUser, tables, receiver, invoked>>

dlt_unregister_context(c) ==
    /\ Calls /\ handles[c] # 0
    /\ slots' = [slots EXCEPT ![handles[c]] =
                    [Slot(EmptyId, InitialLevel) EXCEPT !.cell = NoCell]]
    /\ handles' = [handles EXCEPT ![c] = 0]
    /\ caller' = Message("unregister", c, 0, 0)
    /\ UNCHANGED <<environment, toDaemon, toUser, tables, receiver, invoked, registered>>

(* Each service once; the number of the call tells callbacks apart. *)
dlt_register_injection_callback_with_id(c, s) ==
    /\ Calls /\ handles[c] # 0
    /\ LET new == [service |-> s, callback |-> [ctx |-> c, service |-> s, number |-> events]]
           table == slots[handles[c]].injections
           k == SelectInSeq(table, LAMBDA e : e.service = s)
       IN  slots' = [slots EXCEPT ![handles[c]].injections =
                        IF k = 0 THEN Append(table, new) ELSE [table EXCEPT ![k] = new]]
    /\ UNCHANGED <<environment, handles, caller, toDaemon, toUser, tables, receiver, invoked,
                   registered>>

dlt_register_log_level_changed_callback(c) ==
    /\ Calls /\ handles[c] # 0
    /\ slots' = [slots EXCEPT ![handles[c]].changed = events, ![handles[c]].told = NotSet]
    /\ UNCHANGED <<environment, handles, caller, toDaemon, toUser, tables, receiver, invoked,
                   registered>>

(* For every slot, and where it has one, its cell. *)
dlt_set_application_ll_ts_limit(level) ==
    /\ Calls /\ slots # <<>>
    /\ slots' = [p \in DOMAIN slots |->
                    [slots[p] EXCEPT !.level = level, !.cell = IF @ = NoCell THEN @ ELSE level]]
    /\ caller' = Message("limit", 0, 0, level)
    /\ UNCHANGED <<environment, handles, toDaemon, toUser, tables, receiver, invoked, registered>>

(* The message of the call, after the semaphore was given back. *)
WritesToDaemon ==
    /\ caller # NoMessage
    /\ toDaemon' = Append(toDaemon, caller) /\ caller' = NoMessage
    /\ UNCHANGED <<environment, slots, handles, toUser, tables, receiver, invoked, registered, events>>

(***************************************************************************)
(* The daemon.                                                             *)
(***************************************************************************)
Unknown == [pos |-> 0, level |-> DLT_LOG_DEFAULT]

LevelMessage(k) ==
    [is |-> "level", pos |-> k.pos, ctx |-> 0,
     level |-> IF k.level = DLT_LOG_DEFAULT THEN DefaultLevel ELSE k.level,
     service |-> 0, number |-> 0]

Sends(messages) == toUser' = toUser \o messages

(* A level is answered only where it was left open. *)
DaemonRegisters(m) ==
    LET k == [pos |-> m.pos, level |-> IF m.level = NotSet THEN DLT_LOG_DEFAULT ELSE m.level]
    IN  /\ tables' = [tables EXCEPT ![m.ctx] = k]
        /\ Sends(IF k.level = DLT_LOG_DEFAULT THEN <<LevelMessage(k)>> ELSE <<>>)

DaemonUnregisters(m) == tables' = [tables EXCEPT ![m.ctx] = Unknown] /\ UNCHANGED toUser

(* The contexts of the application as they stand in the daemon's array. *)
InOrder(those) ==
    CHOOSE order \in [1..Cardinality(those) -> those] :
        \A i, j \in DOMAIN order : i < j => order[i] < order[j]

(* Every context of the application is told its level. *)
dlt_daemon_process_user_message_set_app_ll_ts(m) ==
    LET those == {c \in ContextIds : tables[c] # Unknown}
        new == [c \in ContextIds |-> IF c \in those THEN [tables[c] EXCEPT !.level = m.level]
                                     ELSE tables[c]]
        order == InOrder(those)
    IN  tables' = new /\ Sends([i \in DOMAIN order |-> LevelMessage(new[order[i]])])

DaemonReads ==
    /\ toDaemon # <<>> /\ toDaemon' = Tail(toDaemon)
    /\ LET m == Head(toDaemon)
       IN  \/ m.is = "register" /\ DaemonRegisters(m)
           \/ m.is = "unregister" /\ DaemonUnregisters(m)
           \/ m.is = "limit" /\ dlt_daemon_process_user_message_set_app_ll_ts(m)
    /\ UNCHANGED <<environment, slots, handles, caller, receiver, invoked, registered, events>>

Requests == events < MaxEvents /\ events' = events + 1

ClientSetsLevel(c, level) ==
    /\ Requests /\ tables[c] # Unknown
    /\ tables' = [tables EXCEPT ![c].level = level]
    /\ Sends(<<LevelMessage(tables'[c])>>)
    /\ UNCHANGED <<environment, slots, handles, caller, toDaemon, receiver, invoked, registered>>

ClientInjects(c, s) ==
    /\ Requests /\ tables[c] # Unknown
    /\ Sends(<<[is |-> "injection", pos |-> tables[c].pos, level |-> 0, ctx |-> c, service |-> s,
                number |-> events]>>)
    /\ UNCHANGED <<environment, slots, handles, caller, toDaemon, tables, receiver, invoked,
                   registered>>

(***************************************************************************)
(* The receiver thread: dlt_user_log_check_user_message.                   *)
(***************************************************************************)
NoCallback == [is |-> "none"]

Removed == toUser' = Tail(toUser)

(* mutant: only the table is changed, not what the context reads *)
ReceivesLevel_Table ==
    /\ receiver = NoCallback /\ toUser # <<>> /\ Head(toUser).is = "level"
    /\ LET m == Head(toUser)
       IN  /\ slots' = [slots EXCEPT ![m.pos].level = m.level]
           /\ receiver' = IF slots[m.pos].changed = 0 THEN NoCallback
                          ELSE [is |-> "changed", pos |-> m.pos, level |-> m.level,
                                number |-> slots[m.pos].changed]
           /\ IF slots[m.pos].changed = 0 THEN Removed ELSE UNCHANGED toUser
    /\ UNCHANGED <<environment, handles, caller, toDaemon, tables, invoked, registered, events>>
(* The slot and its cell; the callback is kept for later. *)
ReceivesLevel ==
    /\ receiver = NoCallback /\ toUser # <<>> /\ Head(toUser).is = "level"
    /\ LET m == Head(toUser)
       IN  /\ slots' = [slots EXCEPT ![m.pos].level = m.level,
                                     ![m.pos].cell = IF @ = NoCell THEN @ ELSE m.level]
           /\ receiver' = IF slots[m.pos].changed = 0 THEN NoCallback
                          ELSE [is |-> "changed", pos |-> m.pos, level |-> m.level,
                                number |-> slots[m.pos].changed]
           /\ IF slots[m.pos].changed = 0 THEN Removed ELSE UNCHANGED toUser
    /\ UNCHANGED <<environment, handles, caller, toDaemon, tables, invoked, registered, events>>

(* Outside of the semaphore; the context may be gone by then. *)
CallsLevelCallback ==
    /\ receiver.is = "changed"
    /\ slots' = [slots EXCEPT ![receiver.pos].told =
                    IF slots[receiver.pos].changed = receiver.number THEN receiver.level ELSE @]
    /\ receiver' = NoCallback /\ Removed
    /\ UNCHANGED <<environment, handles, caller, toDaemon, tables, invoked, registered, events>>

(* The callback of the service in the slot, if there is one. *)
ReceivesInjection ==
    /\ receiver = NoCallback /\ toUser # <<>> /\ Head(toUser).is = "injection"
    /\ LET m == Head(toUser)
           table == slots[m.pos].injections
           k == SelectInSeq(table, LAMBDA e : e.service = m.service)
       IN  IF k = 0 THEN Removed /\ UNCHANGED receiver
           ELSE /\ receiver' = [is |-> "injection", message |-> m, callback |-> table[k].callback]
                /\ UNCHANGED toUser
    /\ UNCHANGED <<environment, slots, handles, caller, toDaemon, tables, invoked, registered, events>>

CallsInjectionCallback ==
    /\ receiver.is = "injection"
    /\ invoked' = Append(invoked, [message |-> receiver.message, callback |-> receiver.callback])
    /\ receiver' = NoCallback /\ Removed
    /\ UNCHANGED <<environment, slots, handles, caller, toDaemon, tables, registered, events>>

dlt_user_log_check_user_message ==
    ReceivesLevel \/ CallsLevelCallback \/ ReceivesInjection \/ CallsInjectionCallback

ContextsInit ==
    /\ environment \in Environments
    /\ slots = <<>> /\ handles = [c \in ContextIds |-> 0]
    /\ caller = NoMessage /\ toDaemon = <<>> /\ toUser = <<>>
    /\ tables = [c \in ContextIds |-> Unknown]
    /\ receiver = NoCallback /\ invoked = <<>>
    /\ registered = [ctx |-> 0, asked |-> NotSet, level |-> NotSet]
    /\ events = 0

ContextsNext ==
    \/ \E c \in ContextIds :
          \/ \E asked \in LogLevels \cup {NotSet} : dlt_register_context_ll_ts_llccb(c, asked)
          \/ dlt_unregister_context(c)
          \/ \E s \in Services : dlt_register_injection_callback_with_id(c, s) \/ ClientInjects(c, s)
          \/ dlt_register_log_level_changed_callback(c)
          \/ \E level \in LogLevels : ClientSetsLevel(c, level)
    \/ \E level \in LogLevels : dlt_set_application_ll_ts_limit(level)
    \/ WritesToDaemon \/ DaemonReads \/ dlt_user_log_check_user_message

ContextsSpec == ContextsInit /\ [][ContextsNext]_contextVars

(***************************************************************************)
(* Properties.                                                             *)
(***************************************************************************)
Quiet == caller = NoMessage /\ toDaemon = <<>> /\ toUser = <<>> /\ receiver = NoCallback

(* Whatever the application, its clients and the daemon change at the same *)
(* time, once all messages have arrived the daemon has the contexts that   *)
(* are registered, each of them logs with the level the daemon has for it, *)
(* and a callback for changed levels was told that level last.             *)
LevelsAgree ==
    Quiet =>
        \A c \in ContextIds :
            /\ tables[c].pos = handles[c]
            /\ handles[c] # 0 =>
                  LET s == slots[handles[c]]
                  IN  /\ s.cell = LevelMessage(tables[c]).level
                      /\ s.told \in {NotSet, s.cell}

(* An injection reaches only a callback of the context and the service it  *)
(* was sent to, even if the context was unregistered and another one was   *)
(* registered on the way; and once, in the order they were sent.           *)
InjectionsReachTheirs ==
    /\ \A i \in DOMAIN invoked :
          /\ invoked[i].callback.ctx = invoked[i].message.ctx
          /\ invoked[i].callback.service = invoked[i].message.service
    /\ \A i, j \in DOMAIN invoked : i < j => invoked[i].message.number < invoked[j].message.number

(* An item of the environment is more specific than another. *)
Given(i) == (IF environment[i].app = EmptyId THEN {} ELSE {"app"})
            \cup (IF environment[i].ctx = EmptyId THEN {} ELSE {"ctx"})
Matching == {i \in DOMAIN environment : /\ environment[i].app \in {EmptyId, ThisApp}
                                        /\ environment[i].ctx \in {EmptyId, registered.ctx}}
Beats(i, j) ==
    \/ Given(j) \subseteq Given(i) /\ Given(i) # Given(j)
    \/ Given(i) = {"app"} /\ Given(j) = {"ctx"}
    \/ Given(i) = Given(j) /\ i < j

(* A context is registered with the level that the most specific item of   *)
(* DLT_INITIAL_LOG_LEVEL gives it, whatever other items say and whatever   *)
(* the application asks for, and with what it asks for if there is none.   *)
EnvironmentDecides ==
    registered.ctx # 0 =>
        registered.level =
            IF Matching = {} THEN registered.asked
            ELSE environment[CHOOSE i \in Matching : \A j \in Matching \ {i} : Beats(i, j)].level

(* The levels in use are those the environment decides, and the daemon and  *)
(* the application agree on them.                                           *)
LevelsInUse == LevelsAgree /\ EnvironmentDecides
=============================================================================
