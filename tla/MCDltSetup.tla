------------------------------ MODULE MCDltSetup ------------------------------
(* Three machines in one run: the gateway's configuration file, the        *)
(* contexts of an application, control requests between client and node.   *)
EXTENDS DltConfig, DltContexts, DltControl

VARIABLE machine    \* which of the three is checked, fixed at the start

SectionLine(name) == [kind |-> "section", name |-> name, key |-> "", value |-> <<>>]
Entry(key, v) == [kind |-> "data", name |-> 0, key |-> key, value |-> v]
OtherLine(kind) == [kind |-> kind, name |-> 0, key |-> "", value |-> <<>>]
Node(name, ip, ecu, timeout, more) ==
    <<SectionLine(name), Entry("IPaddress", <<ip>>), Entry("EcuID", <<ecu>>),
      Entry("Timeout", <<timeout>>)>> \o more

GeneralBlock == <<SectionLine(General), Entry("Interval", <<5>>)>>
Blocks ==
    {GeneralBlock,
     <<SectionLine(General)>>,
     Node(1, 7, 7, 3, <<OtherLine("comment"), Entry("Port", <<1500>>)>>),
     Node(1, 8, 8, 4, <<Entry("Connect", <<OnDemand>>)>>),
     Node(2, 9, 9, 0, <<Entry("SendControl", <<1, 3>>),
                        Entry("SendPeriodicControl", <<3, 5, 4, 2, 2, 0>>),
                        Entry("Connect", <<OnStartup>>), Entry("SendSerialHeader", <<1>>)>>),
     Node(3, 7, 7, 1, <<Entry("SendPeriodicControl", <<2, 1>>), Entry("Port", <<80>>)>>),
     Node(3, 7, 7, 1, <<Entry("Connect", <<0>>), Entry("Timeout", <<2>>),
                        Entry("SendControl", <<0, 1>>), Entry("SendPeriodicControl", <<1, 3>>)>>),
     Node(4, 7, 7, 1, <<Entry("SendControl", <<1, 30, 2>>), Entry("Port", <<TooLarge>>)>>),
     <<SectionLine(4), Entry("EcuID", <<6>>), OtherLine("invalid"), Entry("Timeout", <<1>>)>>}

MCConfigFiles ==
    {<<>>} \cup {a \o b : a, b \in Blocks}
    \cup {<<Entry("EcuID", <<6>>)>> \o a \o b \o c : a, b, c \in Blocks}
    \cup {GeneralBlock \o b \o c \o d : b, c, d \in Blocks}

InvalidFiles == {Node(1, 7, 7, -1, <<>>), Node(1, WrongAddress, 7, 3, <<>>)}

Item(app, ctx, level, form) == [app |-> app, ctx |-> ctx, level |-> level, form |-> form]
MCEnvironments ==
    {<<>>,
     <<Item(0, 0, 3, "number"), Item(0, 1, 5, "number"), Item(1, 0, 2, "number"),
       Item(2, 1, 5, "number"), Item(1, 2, -1, "number"), Item(1, 2, 3, "number"),
       Item(0, 0, 6, "word")>>}
WordsFirst == {<<Item(1, 1, 3, "word"), Item(1, 2, 4, "number")>>}

Other(sid) == Request(sid, 4, <<>>)
Info(options, a, c) == Request("GET_LOG_INFO", 17, [options |-> options, apid |-> a, ctid |-> c])
Is(id) == [text |-> id, star |-> FALSE]
StartsWith(p) == [text |-> p, star |-> TRUE]
Short(r) == [r EXCEPT !.short = TRUE]

(* Log info asked by the gateway and its clients; levels set; the rest. *)
MCPlans ==
    {[calls |-> {dlt_client_get_log_info, Info(6, 11, NoId), Info(5, 11, 1), Info(3, NoId, NoId)},
      notices |-> {"LOG_MESSAGE_ID_3"}, limit |-> 5],
     [calls |-> {dlt_client_send_trace_status(Is(11), Is(1), 1),
                 dlt_client_send_log_level(StartsWith(1), Is(NoId), 5),
                 dlt_client_send_trace_status(Is(NoId), Is(1), 0),
                 dlt_client_send_default_trace_status(1), dlt_client_send_all_trace_status(15),
                 dlt_client_send_all_log_level(2), dlt_client_send_reset_to_factory_default},
      notices |-> {}, limit |-> 4],
     [calls |-> {Info(7, NoId, 1), Info(2, NoId, NoId), Info(4, 12, 2),
                 dlt_client_send_log_level(Is(12), Is(2), 4), dlt_client_send_default_log_level(7),
                 dlt_client_send_all_log_level(9), dlt_client_send_timing_pakets(1),
                 dlt_client_send_timing_pakets(2), Short(dlt_client_send_timing_pakets(1)),
                 dlt_client_get_default_log_level, dlt_client_send_store_config,
                 dlt_client_get_software_version, Other("USE_ECU_ID"), Other("GET_LOCAL_TIME"),
                 dlt_client_send_inject_msg(1), dlt_client_send_inject_msg(1000)},
      notices |-> Notices, limit |-> 3]}

D1 == <<5, 6, 7, 8, 9>>
MCDescriptions == {D1}
LongDescriptions == {[i \in 1..16 |-> 5]}

IdleFile == CHOOSE f \in ConfigFiles : TRUE
IdleEnvironment == CHOOSE e \in Environments : TRUE
IdlePlan == CHOOSE p \in Plans : TRUE

(* The machines that are not checked start in one state, and do not move. *)
Init ==
    /\ machine \in {"configuration", "contexts", "control"}
    /\ ConfigInit /\ ContextsInit /\ ControlInit
    /\ machine # "configuration" => configText = IdleFile
    /\ machine # "contexts" => environment = IdleEnvironment
    /\ machine # "control" => plan = IdlePlan

Next ==
    /\ UNCHANGED machine
    /\ \/ machine = "configuration" /\ ConfigNext /\ UNCHANGED <<contextVars, controlVars>>
       \/ machine = "contexts" /\ ContextsNext /\ UNCHANGED <<configVars, controlVars>>
       \/ machine = "control" /\ ControlNext /\ UNCHANGED <<configVars, contextVars>>

Spec == Init /\ [][Next]_<<machine, configVars, contextVars, controlVars>>
=============================================================================
