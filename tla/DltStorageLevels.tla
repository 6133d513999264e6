-------------------------- MODULE DltStorageLevels --------------------------
(***************************************************************************)
(* The daemon's side of log storage                                        *)
(* (src/daemon/dlt_daemon_offline_logstorage.c and the service             *)
(* OFFLINE_LOGSTORAGE of src/daemon/dlt_daemon_client.c): devices are      *)
(* connected, disconnected and written out on request, and the log levels  *)
(* of the registered contexts follow the filters of the devices.           *)
(*                                                                         *)
(* What a device does with a message is in DltLogStorage; here a device    *)
(* only remembers whether its caches hold something (dirty).  A mount      *)
(* point is a model value, None the empty string.                          *)
(***************************************************************************)
EXTENDS DltStorageFilters

CONSTANTS
    MaxDevices,     \* offlineLogstorageMaxDevices
    ConfigOf,       \* mount point -> sections of its dlt_logstorage.conf, None without one
    PrefixPairs,    \* pairs of mount points of which one starts with the other
    Contexts,       \* the contexts of local applications: records [app, ctx]
    Node,           \* the ECU of the passive node
    NodeContexts,   \* its contexts in the daemon's copy -> the level recorded there
    DaemonEcu,      \* daemon->ecuid
    ClientLevel,    \* the log level the client chose for the contexts
    MaxRequests     \* bound: requests of a behaviour

VARIABLES
    slots,      \* daemon->storage_handle
    contexts,   \* registered contexts -> [storage, told]: storage_log_level and the
                \* level last sent to the application
    passive,    \* contexts of the passive node -> level last forwarded to it
    maintain,   \* daemon->maintain_logstorage_loglevel
    dirty,      \* mount points of devices whose caches hold messages
    plugged,    \* mount points stat() finds
    answer,     \* the last answer to a request
    dropped,    \* a device was disconnected after write errors (history)
    requests    \* requests so far

levelVars ==
    <<slots, contexts, passive, maintain, dirty, plugged, answer, dropped, requests>>

Mounts == DOMAIN ConfigOf
Slots == 1 .. MaxDevices

FreeSlot == [mount |-> None, connected |-> FALSE, done |-> FALSE, warned |-> FALSE, list |-> <<>>]

LevelMax(a, b) == IF a > b THEN a ELSE b   \* DLT_OFFLINE_LOGSTORAGE_MAX

-----------------------------------------------------------------------------
(***************************************************************************)
(* Levels of contexts.                                                     *)
(***************************************************************************)

(* dlt_logstorage_split_ecuid, _ctid, _apid, _apid_ctid, _ecuid_apid: an     *)
(* empty part of a key is the wildcard.                                      *)
split_id(id) == IF id = None THEN AnyId ELSE id

(* dlt_logstorage_split_key, _split_multi; without an ECU it is the daemon's. *)
split_key(key) ==
    [ecu |-> IF key.ecu = None THEN DaemonEcu ELSE key.ecu,
     app |-> split_id(key.app), ctx |-> split_id(key.ctx)]

(* The part of dlt_daemon_user_send_log_level that chooses the level.        *)
LevelSent(storage) ==
    IF storage # -1 /\ maintain # "OFF" THEN LevelMax(ClientLevel, storage) ELSE ClientLevel

(* dlt_daemon_logstorage_send_log_level for a context of this ECU: the level *)
(* only rises, and the application is told when it does.                     *)
send_log_level(c, level) ==
    IF level > c.storage THEN [storage |-> level, told |-> LevelSent(level)] ELSE c

(* dlt_daemon_logstorage_reset_log_level: with RESET_LOGLEVEL the            *)
(* application is not told.                                                  *)
reset_log_level(c) == [c EXCEPT !.storage = -1]

(* dlt_daemon_logstorage_update_passive_node_context: the level is forwarded *)
(* in a control message to the node.                                         *)
update_passive_node_context(s, id, level) ==
    [s EXCEPT !.passive = ([app |-> id.app, ctx |-> id.ctx] :> level) @@ @]

(* dlt_daemon_logstorage_force_reset_level: the node is sent the level of    *)
(* the first filter found, at a reset too.                                   *)
force_reset_level(s, id) ==
    LET found == {i \in Slots : s.slots[i].done
                      /\ get_config(s.slots[i].list, id.app, id.ctx, id.ecu) # <<>>}
        list == s.slots[Min(found)].list
    IN  IF found = {} THEN s
        ELSE update_passive_node_context(s, id,
                 list[get_config(list, id.app, id.ctx, id.ecu)[1]].level)

(* The contexts of a table that a key names, by one identifier or by both.   *)
Named(table, id) ==
    {c \in DOMAIN table : id.app \in {AnyId, c.app} /\ id.ctx \in {AnyId, c.ctx}}

(* dlt_logstorage_update_all_contexts (an ECU, an application or a context   *)
(* identifier alone) and _update_context: a level above 0 is sent, any other *)
(* resets.                                                                   *)
update_all_contexts(s, id, level) ==
    [s EXCEPT !.contexts = [c \in DOMAIN @ |->
        IF c \notin Named(s.contexts, id) THEN @[c]
        ELSE IF level > 0 THEN send_log_level(@[c], level) ELSE reset_log_level(@[c])]]

(* The same for the daemon's copy of the node: a level above the recorded    *)
(* one is forwarded, the record stays, and a reset tells the node nothing.   *)
update_node_contexts(s, id, level) ==
    LET raised == {c \in Named(NodeContexts, id) : level > NodeContexts[c]}
    IN  [s EXCEPT !.passive = [c \in raised |-> level] @@ @]

(* dlt_logstorage_update_context_loglevel: a full key that is not in the     *)
(* copy of the node is forwarded blindly.                                    *)
update_context_loglevel(s, key, level) ==
    LET id == split_key(key)
    IN  IF id.ecu = DaemonEcu THEN update_all_contexts(s, id, level)
        ELSE IF id.app # AnyId /\ id.ctx # AnyId /\ Named(NodeContexts, id) = {}
        THEN force_reset_level(s, id)
        ELSE update_node_contexts(s, id, level)

(* The keys of a device, filter by filter.                                   *)
KeysOf(list) == FoldLeft(LAMBDA ks, f : ks \o SetToSeq(f.keys), <<>>, list)

(* dlt_daemon_logstorage_update_application_loglevel                         *)
update_application_loglevel(s, i) ==
    LET list == s.slots[i].list
        Step(r, key) == update_context_loglevel(r, key, get_loglevel_by_key(list, key))
    IN  IF s.slots[i].connected /\ s.slots[i].done THEN FoldLeft(Step, s, KeysOf(list)) ELSE s


(* dlt_daemon_logstorage_reset_application_loglevel: the contexts of the     *)
(* device are reset, then the other devices ask for their levels again.      *)
reset_application_loglevel(s, i) ==
    LET reset == FoldLeft(LAMBDA r, key : update_context_loglevel(r, key, -1), s,
                          KeysOf(s.slots[i].list))
        others == SelectSeq([j \in Slots |-> j], LAMBDA j : j # i /\ s.slots[j].done)
    IN  IF s.slots[i].connected /\ s.slots[i].done
        THEN FoldLeft(update_application_loglevel, reset, others)
        ELSE s

(* dlt_daemon_logstorage_get_loglevel: over all devices; in each, a filter   *)
(* without a file (non-verbose control) decides and ends the search.         *)
get_loglevel(app, ctx) ==
    LET OfDevice(level, i) ==
            LET list == slots[i].list
                found == get_config(list, app, ctx, DaemonEcu)
                Step(r, j) ==
                    CASE r.stop -> r
                      [] list[j].file = None -> [level |-> list[j].level, stop |-> TRUE]
                      [] OTHER -> [r EXCEPT !.level = LevelMax(list[j].level, @)]
            IN  IF ~slots[i].done THEN level
                ELSE FoldLeft(Step, [level |-> level, stop |-> FALSE], found).level
    IN  FoldLeft(OfDevice, -1, [i \in Slots |-> i])

-----------------------------------------------------------------------------
(***************************************************************************)
(* Requests.                                                               *)
(***************************************************************************)

(* The loop of dlt_daemon_control_service_logstorage over the handles:       *)
(* -1 when a device in use cannot be found any more, the handle that         *)
(* has the mount point, else the first free one, else 0.  A request to write *)
(* out caches does not look at its own mount point, so it never matches.     *)
FindSlot(mount) ==
    LET Step(r, i) ==
            CASE r.stop -> r
              [] slots[i].mount # None /\ slots[i].mount \notin plugged ->
                     [at |-> -1, stop |-> TRUE]
              [] slots[i].mount # None /\ slots[i].mount = mount -> [at |-> i, stop |-> TRUE]
              [] ~slots[i].connected /\ r.at = 0 -> [r EXCEPT !.at = i]
              [] OTHER -> r
    IN  FoldLeft(Step, [at |-> 0, stop |-> FALSE], [i \in Slots |-> i]).at

Becoming(s) == slots' = s.slots /\ contexts' = s.contexts /\ passive' = s.passive

Levels == [slots |-> slots, contexts |-> contexts, passive |-> passive]

CountRequest == requests < MaxRequests /\ requests' = requests + 1

(* A request that ends with an answer and nothing else.                      *)
Refuse(text) ==
    /\ answer' = text
    /\ UNCHANGED <<slots, contexts, passive, maintain, dirty>>

(* DEVICE_CONNECTED: dlt_logstorage_device_connected disconnects the handle  *)
(* first if it is in use; a configuration with a refused filter is a warning *)
(* and the levels are left alone.                                            *)
RequestConnect(mount) ==
    /\ CountRequest
    /\ LET i == FindSlot(mount)
           loaded == IF ConfigOf[mount] = None THEN [valid |-> -1, list |-> <<>>, maintain |-> "UNDEF"]
                     ELSE store_filters(ConfigOf[mount])
           new == [mount |-> mount, connected |-> TRUE, done |-> loaded.valid # -1,
                   warned |-> loaded.valid = 1,
                   list |-> IF loaded.valid = -1 THEN <<>> ELSE loaded.list]
           s == [Levels EXCEPT !.slots[i] = new]
       IN  IF mount \notin plugged \/ i = -1 \/ i = 0 THEN Refuse("ERROR")
           ELSE /\ dirty' = dirty \ {mount}
                /\ answer' = CASE loaded.valid = 0 -> "OK" [] loaded.valid = 1 -> "WARNING"
                               [] OTHER -> "ERROR"
                /\ maintain' = IF loaded.valid = 0 /\ loaded.maintain # "UNDEF"
                               THEN loaded.maintain ELSE maintain
                /\ Becoming(IF loaded.valid = 0 THEN update_application_loglevel(s, i) ELSE s)
    /\ UNCHANGED <<plugged, dropped>>

(* DEVICE_DISCONNECTED: also for a handle that is not in use.                *)
RequestDisconnect(mount) ==
    /\ CountRequest
    /\ LET i == FindSlot(mount)
       IN  IF mount \notin plugged \/ i = -1 \/ i = 0 THEN Refuse("ERROR")
           ELSE /\ dirty' = dirty \ {slots[i].mount}
                /\ answer' = "OK"
                /\ Becoming([reset_application_loglevel(Levels, i) EXCEPT !.slots[i] = FreeSlot])
                /\ UNCHANGED maintain
    /\ UNCHANGED <<plugged, dropped>>

(* dlt_daemon_logstorage_get_device: the first handle whose mount point and  *)
(* the requested one agree as far as the shorter goes; the empty mount point *)
(* of a free handle agrees with every one.                                   *)
get_device(mount) ==
    LET same == {i \in Slots : slots[i].mount \in {None, mount}
                                \/ {<<slots[i].mount, mount>>, <<mount, slots[i].mount>>}
                                       \cap PrefixPairs # {}}
    IN  IF same = {} THEN 0 ELSE Min(same)

(* dlt_daemon_logstorage_sync_cache: one device, or all of them.             *)
SyncedBy(mount) ==
    IF mount = None THEN {slots[i].mount : i \in {j \in Slots : slots[j].connected}}
    ELSE IF get_device(mount) = 0 THEN {} ELSE {slots[get_device(mount)].mount}

(* SYNC_CACHES: for all devices when the mount point is empty, one by one if *)
(* no handle is free.                                                        *)
RequestSync(mount) ==
    /\ CountRequest
    /\ LET i == FindSlot(None)
           synced == IF i = 0 THEN UNION {SyncedBy(slots[j].mount) : j \in {k \in Slots : slots[k].connected}}
                     ELSE SyncedBy(mount)
       IN  IF i = -1 \/ (i = 0 /\ mount # None) THEN Refuse("ERROR")
           ELSE /\ dirty' = dirty \ synced
                /\ answer' = IF i # 0 /\ mount # None /\ get_device(mount) = 0 THEN "ERROR" ELSE "OK"
                /\ UNCHANGED <<slots, contexts, passive, maintain>>
    /\ UNCHANGED <<plugged, dropped>>

-----------------------------------------------------------------------------
(***************************************************************************)
(* What else happens.                                                      *)
(***************************************************************************)

(* A context registers: its storage level is asked for, and it is told.      *)
Register(c) ==
    /\ c \notin DOMAIN contexts
    /\ LET level == get_loglevel(c.app, c.ctx)
       IN  contexts' = (c :> [storage |-> level, told |-> LevelSent(level)]) @@ contexts
    /\ UNCHANGED <<slots, passive, maintain, dirty, plugged, answer, dropped, requests>>

Unregister(c) ==
    /\ contexts' = [d \in DOMAIN contexts \ {c} |-> contexts[d]]
    /\ UNCHANGED <<slots, passive, maintain, dirty, plugged, answer, dropped, requests>>

(* A message is stored: the devices with cache based filters hold it.        *)
Store ==
    /\ dirty' = dirty \cup {slots[i].mount : i \in {j \in Slots : slots[j].done}}
    /\ UNCHANGED <<slots, contexts, passive, maintain, plugged, answer, dropped, requests>>

(* dlt_daemon_logstorage_write drops a device after write errors; the levels *)
(* of the contexts stay.                                                     *)
DropDevice(i) ==
    /\ requests < MaxRequests /\ requests' = requests + 1
    /\ slots[i].done /\ ~dropped
    /\ slots' = [slots EXCEPT ![i] = FreeSlot]
    /\ dirty' = dirty \ {slots[i].mount}
    /\ dropped' = TRUE
    /\ UNCHANGED <<contexts, passive, maintain, plugged, answer>>

(* A device is pulled out or plugged in.                                     *)
Plug(mount) ==
    /\ plugged' = IF mount \in plugged THEN plugged \ {mount} ELSE plugged \cup {mount}
    /\ UNCHANGED <<slots, contexts, passive, maintain, dirty, answer, dropped, requests>>

LevelInit ==
    /\ slots = [i \in Slots |-> FreeSlot] /\ contexts = <<>> /\ passive = <<>>
    /\ maintain = "ON" /\ dirty = {} /\ plugged = Mounts /\ answer = None
    /\ dropped = FALSE /\ requests = 0

LevelNext ==
    \/ \E m \in Mounts : RequestConnect(m)
    \/ \E m \in Mounts : RequestDisconnect(m)
    \/ \E m \in Mounts \cup {None} : RequestSync(m)
    \/ \E c \in Contexts : Register(c)
    \/ \E c \in DOMAIN contexts : Unregister(c)
    \/ Store
    \/ \E i \in Slots : DropDevice(i)
    \/ \E m \in Mounts : Plug(m)

-----------------------------------------------------------------------------
(***************************************************************************)
(* Properties.                                                             *)
(***************************************************************************)

LevelTypeOK ==
    /\ \A i \in Slots : slots[i].mount \in Mounts \cup {None} /\ slots[i].connected \in BOOLEAN
    /\ \A c \in DOMAIN contexts : contexts[c].storage \in -1 .. VERBOSE
    /\ maintain \in {"ON", "OFF", "UNDEF"} /\ dirty \subseteq Mounts /\ plugged \subseteq Mounts

(* The level a device asks for a context, from its filters' identifiers.     *)
Asked(i, c) ==
    {f.level : f \in {g \in Range(slots[i].list) :
        /\ g.ecu \in {None, DaemonEcu}
        /\ g.apids # None => Range(g.apids) \cap {c.app, AnyId} # {}
        /\ g.ctids # None => Range(g.ctids) \cap {c.ctx, AnyId} # {}}}

(* A context has the most verbose level a connected device asks for: not     *)
(* less, or messages would be missing on the device, and not more, once no   *)
(* such device is left.  (A device whose configuration gave a warning asks   *)
(* only the contexts that register later; the levels a device raised stay    *)
(* when it is dropped after write errors.)                                   *)
LevelsAsAsked ==
    \A c \in DOMAIN contexts :
        /\ \A i \in Slots : slots[i].done /\ ~slots[i].warned =>
               \A l \in Asked(i, c) : contexts[c].storage >= l
        /\ dropped \/ contexts[c].storage = -1
               \/ \E i \in Slots : slots[i].done /\ contexts[c].storage \in Asked(i, c)

(* An application is at least as verbose as its contexts' storage levels,    *)
(* unless a configuration switched maintaining them off.                     *)
ToldEnough ==
    maintain # "OFF" =>
        \A c \in DOMAIN contexts : contexts[c].told >= contexts[c].storage

(* One mount point is never connected twice: a message would be stored twice *)
(* in the same files.                                                        *)
MountedOnce ==
    \A i, j \in Slots : i # j /\ slots[i].mount # None => slots[i].mount # slots[j].mount

(* The contexts of the node that a filter names: those of the daemon's copy, *)
(* and a full key's also if it is not there.                                 *)
NodeAsked(f) ==
    LET full == {[app |-> a, ctx |-> c] : a \in Range(f.apids) \ {AnyId},
                                          c \in Range(f.ctids) \ {AnyId}}
    IN  full \cup {c \in DOMAIN NodeContexts : /\ Range(f.apids) \cap {c.app, AnyId} # {}
                                               /\ Range(f.ctids) \cap {c.ctx, AnyId} # {}}

OfNode(i) ==
    {f \in Range(slots[i].list) :
        slots[i].done /\ ~slots[i].warned /\ f.ecu = Node /\ f.apids # None /\ f.ctids # None}

NodeRecorded(c) == IF c \in DOMAIN NodeContexts THEN NodeContexts[c] ELSE -1

(* What a connected device asks of the node is above the recorded level only *)
(* for contexts the node was told a level of, and the level it was told last *)
(* never is below the recorded one.                                          *)
NodeIsTold ==
    /\ \A i \in Slots : \A f \in OfNode(i) : \A c \in NodeAsked(f) :
           f.level > NodeRecorded(c) => c \in DOMAIN passive
    /\ \A c \in DOMAIN passive : passive[c] > NodeRecorded(c)

(* False: a context of the node is told the level of the first filter found, *)
(* if the copy does not have it, and else that of the last device; neither   *)
(* need be the most verbose.  The comment of the update is "The log level is *)
(* only updated when the current application log level is less than the log  *)
(* level obtained from the storage configuration file".                      *)
NodeToldEnough ==
    \A i \in Slots : \A f \in OfNode(i) : \A c \in NodeAsked(f) :
        c \in DOMAIN passive => passive[c] >= f.level


(* Devices that another one's handle is found for: an earlier handle's mount *)
(* point agrees with theirs as far as the shorter goes.                      *)
Shadowed == {slots[i].mount : i \in {j \in Slots : get_device(slots[j].mount) < j}}

(* An accepted request to write out all caches leaves none behind.  Without  *)
(* a free handle the devices are looked up one by one, and those of shadowed *)
(* mount points may be left.                                                 *)
SyncAllWrites ==
    [][RequestSync(None) /\ answer' = "OK" =>
          /\ dirty' \subseteq Shadowed
          /\ (\E i \in Slots : ~slots[i].connected) => dirty' = {}]_levelVars

(* False: the answer is OK although a shadowed device was not written out;   *)
(* the comment is "sync all Logstorage devices".                             *)
SyncAllReaches == [][RequestSync(None) /\ answer' = "OK" => dirty' = {}]_levelVars
=============================================================================
