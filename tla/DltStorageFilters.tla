------------------------- MODULE DltStorageFilters -------------------------
(***************************************************************************)
(* The filter configuration of a log storage device                        *)
(* (src/offlinelogstorage/dlt_offline_logstorage.c): how the sections of   *)
(* dlt_logstorage.conf become a list of filters, which keys a filter gets, *)
(* and which filters a message with given identifiers finds by them.       *)
(*                                                                         *)
(* A section is a record [kind, values]: values maps the names of entries  *)
(* to parsed values, Bad for text the entry's check refuses; an entry that *)
(* is not in its domain is not in the file.  Identifiers are model values; *)
(* AnyId is the wildcard ".*"; None is a NULL pointer or an empty part of  *)
(* a key "ecu:apid:ctid".                                                  *)
(***************************************************************************)
EXTENDS Integers, Sequences, FiniteSets, SequencesExt

CONSTANTS
    None,       \* a NULL pointer, an absent part of a key
    AnyId,      \* the wildcard ".*"
    Bad,        \* a value the check of its entry refuses
    MaxIds      \* DLT_OFFLINE_LOGSTORAGE_MAXIDS

-----------------------------------------------------------------------------
(***************************************************************************)
(* Sections and their entries.                                             *)
(***************************************************************************)

VERBOSE == 6    \* DLT_LOG_VERBOSE

(* The three kinds of filter sections; any other name is unknown.           *)
FilterKinds == {"FILTER", "NON-VERBOSE-STORAGE-FILTER", "NON-VERBOSE-LOGLEVEL-CTRL"}

(* The entries in the order they are read.                                  *)
EntryOrder == <<"LogAppName", "ContextName", "LogLevel", "ResetLogLevel", "File",
                "FileSize", "NOFiles", "SyncBehavior", "EcuID", "SpecificSize">>

(* filter_cfg_entries and its two non-verbose variants: the entries a kind   *)
(* of section has (a NULL key is never looked up) ...                        *)
EntriesOf ==
    [FILTER |-> {"LogAppName", "ContextName", "LogLevel", "File", "FileSize", "NOFiles",
                 "SyncBehavior", "EcuID", "SpecificSize"}]
    @@ ("NON-VERBOSE-STORAGE-FILTER" :> {"File", "FileSize", "NOFiles", "EcuID"})
    @@ ("NON-VERBOSE-LOGLEVEL-CTRL" :>
            {"LogAppName", "ContextName", "LogLevel", "ResetLogLevel", "EcuID"})

(* ... and those of them it may leave out.                                  *)
OptionalOf ==
    [FILTER |-> {"LogAppName", "ContextName", "SyncBehavior", "EcuID", "SpecificSize"}]
    @@ ("NON-VERBOSE-STORAGE-FILTER" :> {})
    @@ ("NON-VERBOSE-LOGLEVEL-CTRL" :> {"ResetLogLevel"})

(* dlt_logstorage_validate_filter_name                                      *)
validate_filter_name(kind) == kind \in FilterKinds

(* dlt_logstorage_get_filter_value and _section_value                       *)
get_filter_value(section, entry) ==
    IF entry \notin EntriesOf[section.kind] THEN "continue"
    ELSE IF entry \in DOMAIN section.values THEN "found"
    ELSE IF entry \in OptionalOf[section.kind] THEN "continue" ELSE "error"

(* dlt_logstorage_read_list_of_names, _count_ids: a comma separated list is  *)
(* kept as it is; an empty one is refused.                                   *)
read_list_of_names(value) == IF value = <<>> THEN Bad ELSE value

(* dlt_logstorage_read_number: digits only and neither 0 nor above UINT_MAX. *)
read_number(value) == IF value = 0 THEN Bad ELSE value

(* dlt_logstorage_check_loglevel, _check_reset_loglevel: OFF is a level only *)
(* for a reset.                                                              *)
check_loglevel(value) == IF value \in 1 .. VERBOSE THEN value ELSE Bad
check_reset_loglevel(value) == IF value \in 0 .. VERBOSE THEN value ELSE Bad

(* dlt_logstorage_check_filename: not empty, and no ".." (Bad).              *)
check_filename(value) == value

(* dlt_logstorage_check_ecuid                                                *)
check_ecuid(value) == value

(* dlt_logstorage_check_sync_strategy: ON_MSG wins over the cache based      *)
(* strategies, which combine.  A value that names none of them is given the  *)
(* default, but the return value 1 makes the caller refuse the filter.       *)
check_sync_strategy(value) ==
    IF "ON_MSG" \in value THEN {"ON_MSG"} ELSE IF value = {} THEN Bad ELSE value

(* dlt_logstorage_check_param: the value an entry stores, Bad when refused.  *)
check_param(entry, value) ==
    CASE value = Bad -> Bad
      [] entry \in {"LogAppName", "ContextName"} -> read_list_of_names(value)
      [] entry = "LogLevel" -> check_loglevel(value)
      [] entry = "ResetLogLevel" -> check_reset_loglevel(value)
      [] entry = "File" -> check_filename(value)
      [] entry \in {"FileSize", "NOFiles", "SpecificSize"} -> read_number(value)
      [] entry = "SyncBehavior" -> check_sync_strategy(value)
      [] entry = "EcuID" -> check_ecuid(value)

-----------------------------------------------------------------------------
(***************************************************************************)
(* Keys.                                                                   *)
(***************************************************************************)

(* dlt_logstorage_create_keys_only_ecu, _only_ctid, _only_apid, _multi       *)
create_keys_only_ecu(ecu) == [ecu |-> ecu, app |-> None, ctx |-> None]
create_keys_only_ctid(ecu, ctid) == [ecu |-> ecu, app |-> None, ctx |-> ctid]
create_keys_only_apid(ecu, apid) == [ecu |-> ecu, app |-> apid, ctx |-> None]
create_keys_multi(ecu, apid, ctid) == [ecu |-> ecu, app |-> apid, ctx |-> ctid]

(* dlt_logstorage_get_keys_list: identifiers after the limit are ignored.    *)
get_keys_list(ids) == SubSeq(ids, 1, IF Len(ids) > MaxIds THEN MaxIds ELSE Len(ids))

(* The key of one pair of identifiers of a filter.                           *)
KeyOf(ecu, apid, ctid) ==
    IF apid = AnyId THEN create_keys_only_ctid(ecu, ctid)
    ELSE IF ctid = AnyId THEN create_keys_only_apid(ecu, apid)
    ELSE create_keys_multi(ecu, apid, ctid)

(* dlt_logstorage_create_keys: the keys of a filter, {} when there is none.  *)
create_keys(f) ==
    LET wild == f.apids # None /\ f.ctids # None /\ f.apids[1] = AnyId /\ f.ctids[1] = AnyId
    IN  IF f.ecu # None /\ (wild \/ (f.apids = None /\ f.ctids = None))
        THEN {create_keys_only_ecu(f.ecu)}
        ELSE IF f.apids = None \/ f.ctids = None THEN {}
        ELSE {KeyOf(f.ecu, a, c) : a \in Range(get_keys_list(f.apids)),
                                   c \in Range(get_keys_list(f.ctids))}

-----------------------------------------------------------------------------
(***************************************************************************)
(* Loading a configuration.                                                *)
(***************************************************************************)

(* dlt_daemon_offline_setup_filter_properties starts from these values.      *)
DefaultFilter ==
    [apids |-> None, ctids |-> None, level |-> VERBOSE, reset |-> 0, file |-> None,
     size |-> 0, files |-> 0, sync |-> {}, ecu |-> None, specific |-> 0]

FieldOf ==
    [LogAppName |-> "apids", ContextName |-> "ctids", LogLevel |-> "level",
     ResetLogLevel |-> "reset", File |-> "file", FileSize |-> "size", NOFiles |-> "files",
     SyncBehavior |-> "sync", EcuID |-> "ecu", SpecificSize |-> "specific"]

(* dlt_daemon_offline_setup_filter_properties up to the table: the filter of *)
(* a section, Bad at the first entry that is missing or refused.             *)
FilterOf(section) ==
    LET Step(f, entry) ==
            LET found == get_filter_value(section, entry)
                value == check_param(entry, section.values[entry])
            IN  CASE f = Bad \/ found = "error" -> Bad
                  [] found = "continue" -> f
                  [] OTHER -> IF value = Bad THEN Bad ELSE [f EXCEPT ![FieldOf[entry]] = value]
    IN  FoldLeft(Step, DefaultFilter, EntryOrder)

(* dlt_logstorage_list_add, _list_add_config: at the end of the list.        *)
list_add(list, f, keys) == Append(list, f @@ [keys |-> keys])

(* dlt_logstorage_setup_table, _prepare_table: a filter with its keys goes   *)
(* to the list; "stop" when it has no key.                                   *)
setup_table(list, f) ==
    IF create_keys(f) = {} THEN "stop" ELSE list_add(list, f, create_keys(f))

(* dlt_logstorage_check_maintain_logstorage_loglevel: a wrong value counts   *)
(* as ON.                                                                    *)
check_maintain_logstorage_loglevel(value) == IF value = "OFF" THEN "OFF" ELSE "ON"

(* dlt_daemon_setup_general_properties, dlt_logstorage_check_general_param    *)
setup_general_properties(section, old) ==
    IF "MaintainLogstorageLogLevel" \in DOMAIN section.values
    THEN check_maintain_logstorage_loglevel(section.values["MaintainLogstorageLogLevel"])
    ELSE old

(* dlt_logstorage_store_filters: the sections in file order.  A refused      *)
(* filter is skipped and makes the result a warning; a filter without keys   *)
(* ends the loop, and the sections after it are not read.                    *)
store_filters(sections) ==
    LET Step(r, section) ==
            LET f == FilterOf(section)
            IN  IF r.stop THEN r
                ELSE IF section.kind = "GENERAL"
                THEN [r EXCEPT !.maintain = setup_general_properties(section, r.maintain)]
                ELSE IF ~validate_filter_name(section.kind) THEN r
                ELSE IF f = Bad THEN [r EXCEPT !.valid = 1]
                ELSE IF setup_table(r.list, f) = "stop" THEN [r EXCEPT !.stop = TRUE]
                ELSE [r EXCEPT !.list = setup_table(r.list, f),
                               !.valid = IF r.valid = 1 THEN 1 ELSE 0]
    IN  FoldLeft(Step, [list |-> <<>>, valid |-> -1, stop |-> FALSE, maintain |-> "UNDEF"],
                 sections)

-----------------------------------------------------------------------------
(***************************************************************************)
(* Finding the filters of a message.                                       *)
(***************************************************************************)

(* dlt_logstorage_list_find: every filter of the list that has the key, once. *)
list_find(list, key) ==
    SelectSeq([i \in 1 .. Len(list) |-> i], LAMBDA i : key \in list[i].keys)

(* The keys dlt_logstorage_get_config tries, in its order.                   *)
PossibleKeys(app, ctx, ecu) ==
    <<create_keys_only_apid(None, app), create_keys_only_ctid(None, ctx),
      create_keys_multi(None, app, ctx), create_keys_multi(ecu, app, ctx),
      create_keys_only_apid(ecu, app), create_keys_only_ctid(ecu, ctx),
      create_keys_only_ecu(ecu)>>

(* dlt_logstorage_get_config: the positions of the filters found, until as   *)
(* many were found as the list has filters.  app and ctx are None for a      *)
(* message without an extended header.                                       *)
get_config(list, app, ctx, ecu) ==
    IF app = None /\ ctx = None THEN list_find(list, create_keys_only_ecu(ecu))
    ELSE LET Step(found, key) ==
                 IF Len(found) = Len(list) THEN found ELSE found \o list_find(list, key)
         IN  FoldLeft(Step, list_find(list, PossibleKeys(app, ctx, ecu)[1]),
                      Tail(PossibleKeys(app, ctx, ecu)))

(* dlt_logstorage_filter: a filter found is dropped when its level is below  *)
(* the message's or its ECU is another one.                                  *)
filter(list, app, ctx, ecu, level) ==
    SelectSeq(get_config(list, app, ctx, ecu),
              LAMBDA i : level <= list[i].level /\ list[i].ecu \in {None, ecu})

(* dlt_logstorage_get_loglevel_by_key: the most verbose filter with the key. *)
get_loglevel_by_key(list, key) ==
    LET levels == {list[i].level : i \in Range(list_find(list, key))}
    IN  IF levels = {} THEN -1 ELSE Max(levels)
=============================================================================
