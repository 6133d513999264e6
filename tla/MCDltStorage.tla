---------------------------- MODULE MCDltStorage ----------------------------
(* Three machines in one run: the files of a log storage device, the levels *)
(* of contexts under several devices, and the offline trace.                *)
EXTENDS DltLogStorage, DltStorageLevels, DltOfflineTrace

CONSTANTS A, B, C, D, M1, M2, M3

(* Which of the three machines a behaviour runs. *)
VARIABLE machine

FilterSection(app, ctx, sync, size, count) ==
    [kind |-> "FILTER",
     values |-> [LogAppName |-> <<app>>, ContextName |-> <<ctx>>, LogLevel |-> 4, File |-> "log",
                 FileSize |-> size, NOFiles |-> count, SyncBehavior |-> sync,
                 SpecificSize |-> size - 1]]

Options(sections, kinds, sizes, more) ==
    [sections |-> sections, kinds |-> kinds, sizes |-> sizes, stamp |-> "stamp" \in more,
     full |-> "full" \in more, removal |-> "removal" \in more, syncs |-> "syncs" \in more,
     stops |-> more \cap {"disconnect", "exit", "crash"}]

MsgC == [app |-> A, ctx |-> C, level |-> 4]
MsgD == [app |-> A, ctx |-> D, level |-> 2]

MCScenarios ==
    {Options(<<FilterSection(A, C, {"ON_MSG"}, 2, 2), FilterSection(A, AnyId, {"ON_MSG"}, 2, 2)>>,
             {MsgC, MsgD}, {1}, {"crash"}),
     Options(<<FilterSection(A, AnyId, {"ON_MSG"}, 2, 2)>>, {MsgC}, {1, 3}, {"exit", "stamp"}),
     Options(<<FilterSection(A, AnyId, {"ON_MSG"}, 2, 2)>>, {MsgC}, {1}, {"full", "disconnect"}),
     Options(<<FilterSection(A, AnyId, {"ON_MSG"}, 2, 2)>>, {MsgC}, {1}, {"removal", "crash"}),
     Options(<<FilterSection(A, AnyId, {"ON_DEMAND", "ON_DAEMON_EXIT"}, 5, 2)>>, {MsgC}, {2},
             {"syncs", "exit", "crash"}),
     Options(<<FilterSection(A, AnyId, {"ON_FILE_SIZE", "ON_DAEMON_EXIT"}, 2, 2)>>, {MsgC}, {1, 2},
             {"exit", "disconnect"}),
     Options(<<FilterSection(A, AnyId, {"ON_SPECIFIC_SIZE"}, 3, 2)>>, {MsgC}, {1, 2}, {"exit"}),
     Options(<<FilterSection(A, D, {"ON_MSG"}, 2, 2), FilterSection(A, C, {"ON_FILE_SIZE"}, 2, 2)>>,
             {MsgC, MsgD}, {1}, {})}

(* ON_DEMAND beside ON_FILE_SIZE: a request writes out a cache without       *)
(* updating the list of newest files.                                        *)
StaleScenarios ==
    {Options(<<FilterSection(A, AnyId, {"ON_FILE_SIZE", "ON_DEMAND"}, 3, 2)>>, {MsgC}, {2},
             {"syncs"})}

LevelSection(app, ctx, level, more) ==
    [kind |-> "FILTER",
     values |-> [LogAppName |-> <<app>>, ContextName |-> <<ctx>>, LogLevel |-> level,
                 File |-> "log", FileSize |-> 2, NOFiles |-> 2] @@ more]

MCConfigOf ==
    (M1 :> <<LevelSection(A, AnyId, 4, <<>>), LevelSection(A, C, 5, [EcuID |-> Node]),
            LevelSection(A, D, 5, [EcuID |-> Node])>>)
    @@ (M2 :> <<[kind |-> "GENERAL", values |-> [MaintainLogstorageLogLevel |-> "OFF"]],
                LevelSection(A, C, 6, <<>>), LevelSection(AnyId, D, 2, <<>>),
                LevelSection(A, AnyId, 3, [EcuID |-> Node])>>)
    @@ (M3 :> <<LevelSection(A, D, 5, <<>>), LevelSection(A, C, Bad, <<>>)>>)

MCContexts == {[app |-> A, ctx |-> C], [app |-> A, ctx |-> D]}

(* The daemon knows one of the node's contexts. *)
MCNodeContexts == [app |-> A, ctx |-> D] :> 2

(* The mount point M1 is the beginning of M2. *)
MCPrefixPairs == {<<M1, M2>>}

Init ==
    /\ machine \in {"files", "levels", "trace"}
    /\ StorageInit /\ LevelInit /\ TraceInit
    /\ machine # "files" => scenario.removal   \* one scenario, for one initial state

Next ==
    /\ UNCHANGED machine
    /\ \/ machine = "files" /\ StorageNext /\ UNCHANGED <<levelVars, traceVars>>
       \/ machine = "levels" /\ LevelNext /\ UNCHANGED <<storageVars, traceVars>>
       \/ machine = "trace" /\ TraceNext /\ UNCHANGED <<storageVars, levelVars>>

Spec == Init /\ [][Next]_<<machine, storageVars, levelVars, traceVars>>

(* No index is reused and the files of a filter, and those of the offline   *)
(* trace, are the newest that their limits allow.                           *)
NewestIsKept == OldestGoesFirst /\ TraceKeepsNewest

(* Files are whole, and no filter has more, or larger ones, than allowed.   *)
FilesSound == FilesIntact /\ FilesBounded

(* Writing out a cache writes the newest of what it holds, in its order,    *)
(* and a request for all devices reaches every one not shadowed.            *)
Synced == SyncedIsSuffix /\ SyncAllWrites
=============================================================================
