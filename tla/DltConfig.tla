------------------------------ MODULE DltConfig ------------------------------
(***************************************************************************)
(* Configuration files: the parser of sections, keys and values            *)
(* (dlt_config_file_parser.c), and the gateway's configuration that is     *)
(* read through it (dlt_gateway.c).                                        *)
(*                                                                         *)
(* A line is [kind, name, key, value], name that of a section.  A value is *)
(* a sequence of numbers: one for a number, an id or a word, several for a *)
(* list, pairs of id and interval for SendPeriodicControl.  TooLarge is a  *)
(* number that strtol cannot convert; it leaves errno behind.              *)
(***************************************************************************)
EXTENDS Integers, Sequences, FiniteSets, SequencesExt

CONSTANTS
    ConfigFiles,                    \* files that are read: sequences of lines
    DLT_CONFIG_FILE_SECTIONS_MAX,
    DLT_CONFIG_FILE_KEYS_MAX,
    DLT_DAEMON_TCP_PORT,
    DefaultInterval,                \* DLT_GATEWAY_TIMER_DEFAULT_INTERVAL
    IPPORT_RESERVED,
    MaxPort,                        \* USHRT_MAX
    LastService                     \* DLT_SERVICE_ID_LAST_ENTRY

ASSUME ConfigAssumption ==
    /\ DLT_CONFIG_FILE_SECTIONS_MAX \in Nat \ {0} /\ DLT_CONFIG_FILE_KEYS_MAX \in Nat \ {0}
    /\ DefaultInterval \in Nat \ {0} /\ IPPORT_RESERVED < DLT_DAEMON_TCP_PORT
    /\ DLT_DAEMON_TCP_PORT <= MaxPort /\ LastService \in Nat

TooLarge == MaxPort + 1000
General == 0                \* the name of the section for the whole gateway
WrongAddress == 0           \* what inet_pton refuses
OnStartup == 1
OnDemand == 2
Undefined == 3

VARIABLES
    configText,     \* the file, fixed at the start
    line,           \* its next line
    config,         \* DltConfigFile: sections with name and entries; valid: is_section_valid
    gateway,        \* DltGateway: [connections, interval, at, ret, errno], at: next section
    stage           \* "read", "configure", "done" or "crashed"

configVars == <<configText, line, config, gateway, stage>>

(***************************************************************************)
(* The parser.                                                             *)
(***************************************************************************)
IsSection(c, name) == \E s \in ToSet(c.sections) : s.name = name

(* A name that is taken, or one too many, makes its lines invalid. *)
dlt_config_file_set_section(c, name) ==
    IF Len(c.sections) >= DLT_CONFIG_FILE_SECTIONS_MAX \/ IsSection(c, name)
    THEN [c EXCEPT !.valid = FALSE]
    ELSE [sections |-> Append(c.sections, [name |-> name, entries |-> <<>>]), valid |-> TRUE]

(* mutant: the lines of a section that was refused go to the last one *)
dlt_config_file_set_section_data_Any(c, key, value) ==
    LET n == Len(c.sections) IN
    IF n = 0 \/ Len(c.sections[n].entries) + 1 >= DLT_CONFIG_FILE_KEYS_MAX THEN c
    ELSE [c EXCEPT !.sections[n].entries = Append(@, [key |-> key, value |-> value])]
dlt_config_file_set_section_data(c, key, value) ==
    LET n == Len(c.sections) IN
    IF ~c.valid \/ Len(c.sections[n].entries) + 1 >= DLT_CONFIG_FILE_KEYS_MAX THEN c
    ELSE [c EXCEPT !.sections[n].entries = Append(@, [key |-> key, value |-> value])]

dlt_config_file_read_line(c, l) ==
    CASE l.kind = "section" -> dlt_config_file_set_section(c, l.name)
      [] l.kind = "data" -> dlt_config_file_set_section_data(c, l.key, l.value)
      [] l.kind \in {"comment", "invalid"} -> c

dlt_config_file_find_section(c, name) == SelectInSeq(c.sections, LAMBDA s : s.name = name)

(* The first entry with the key; found says if there is one. *)
dlt_config_file_get_value(c, name, key) ==
    LET s == dlt_config_file_find_section(c, name)
        e == IF s = 0 THEN 0 ELSE SelectInSeq(c.sections[s].entries, LAMBDA x : x.key = key)
    IN  [found |-> e # 0, value |-> IF e = 0 THEN <<>> ELSE c.sections[s].entries[e].value]

dlt_config_file_read_file ==
    /\ stage = "read" /\ line <= Len(configText)
    /\ config' = dlt_config_file_read_line(config, configText[line])
    /\ line' = line + 1
    /\ UNCHANGED <<configText, gateway, stage>>

(***************************************************************************)
(* Values of a passive node.  A check gives back the node it filled in,    *)
(* errno, and whether the value is valid.  msgs are the control messages   *)
(* that were allocated, at where p_control_msgs points, head the head; 0   *)
(* for NULL.                                                               *)
(***************************************************************************)
NoNode == [ip |-> WrongAddress, port |-> DLT_DAEMON_TCP_PORT, ecu |-> 0, trigger |-> OnStartup,
           timeout |-> 0, serial |-> 0, msgs |-> <<>>, at |-> 0, head |-> 0]

Checked(con, errno, ok) == [con |-> con, errno |-> errno, ok |-> ok]
Errno(v, errno) == IF v = TooLarge THEN "ERANGE" ELSE errno

dlt_gateway_check_ip(con, v, errno) ==
    IF v[1] = WrongAddress THEN Checked(con, errno, FALSE)
    ELSE Checked([con EXCEPT !.ip = v[1]], errno, TRUE)

(* The only check that clears errno. *)
dlt_gateway_check_port(con, v, errno) ==
    IF v[1] > IPPORT_RESERVED /\ v[1] <= MaxPort
    THEN Checked([con EXCEPT !.port = v[1]], "none", TRUE)
    ELSE Checked(con, Errno(v[1], "none"), FALSE)

dlt_gateway_check_ecu(con, v, errno) == Checked([con EXCEPT !.ecu = v[1]], errno, TRUE)

dlt_gateway_check_connect_trigger(con, v, errno) ==
    IF v[1] \in {OnStartup, OnDemand} THEN Checked([con EXCEPT !.trigger = v[1]], errno, TRUE)
    ELSE Checked([con EXCEPT !.trigger = Undefined], errno, FALSE)

(* An invalid value stays. *)
dlt_gateway_check_timeout(con, v, errno) ==
    Checked([con EXCEPT !.timeout = v[1]], Errno(v[1], errno), v[1] >= 0)

dlt_gateway_check_send_serial(con, v, errno) ==
    Checked([con EXCEPT !.serial = IF v[1] = 0 THEN 0 ELSE 1], Errno(v[1], errno), TRUE)

ServiceIsWrong(id, errno) == errno \in {"EINVAL", "ERANGE"} \/ id < 1 \/ id >= LastService

(* Behind the message p_control_msgs points to. *)
dlt_gateway_allocate_control_messages(con, m) ==
    [con EXCEPT !.msgs = Append(SubSeq(@, 1, con.at), m), !.at = @ + 1]

(* The list is left in the middle when an id is wrong. *)
dlt_gateway_check_control_messages(con, v, errno) ==
    LET r == FoldLeft(LAMBDA acc, id :
                 IF ~acc.ok THEN acc
                 ELSE LET e == Errno(id, acc.errno)
                          c == dlt_gateway_allocate_control_messages(acc.con,
                                   [id |-> id, type |-> "startup", interval |-> -1])
                      IN  Checked(c, e, ~ServiceIsWrong(id, e)),
                 Checked(con, errno, TRUE), v)
    IN  IF r.ok /\ v # <<>> THEN [r EXCEPT !.con.at = 1, !.con.head = 1] ELSE r

(* Those on the list that starts at head. *)
InList(c, head, id) ==
    IF head = 0 THEN 0
    ELSE LET k == SelectInSeq(SubSeq(c.msgs, head, Len(c.msgs)), LAMBDA m : m.id = id)
         IN  IF k = 0 THEN 0 ELSE head + k - 1

(* One that is on the list already is sent at both times. *)
PeriodicMessage(c, head, id, interval) ==
    LET k == InList(c, head, id)
    IN  IF k # 0
        THEN [c EXCEPT !.msgs[k].type = "both", !.msgs[k].interval = interval, !.at = k]
        ELSE dlt_gateway_allocate_control_messages([c EXCEPT !.at = Len(c.msgs)],
                 [id |-> id, type |-> "periodic", interval |-> interval])

dlt_gateway_check_periodic_control_messages(con, v, errno) ==
    LET Head0 == con.at
        r == FoldLeft(LAMBDA acc, i :
                 IF ~acc.ok THEN acc
                 ELSE LET id == v[2 * i - 1]
                          e == Errno(id, Errno(v[2 * i], acc.errno))
                          head == IF Head0 = 0 /\ acc.con.msgs # <<>> THEN 1 ELSE Head0
                          c == PeriodicMessage(acc.con, head, id, v[2 * i])
                      IN  Checked(c, e, ~ServiceIsWrong(id, e)),
                 Checked(con, errno, TRUE), [i \in 1..(Len(v) \div 2) |-> i])
        first == IF Head0 = 0 THEN 1 ELSE Head0
    IN  IF r.ok /\ v # <<>> THEN [r EXCEPT !.con.at = first, !.con.head = first] ELSE r

configuration_entries ==
    <<"IPaddress", "Port", "EcuID", "Connect", "Timeout", "SendControl", "SendPeriodicControl",
      "SendSerialHeader">>
Needed == {"IPaddress", "EcuID", "Timeout"}

dlt_gateway_check_param(key, con, v, errno) ==
    CASE key = "IPaddress" -> dlt_gateway_check_ip(con, v, errno)
      [] key = "Port" -> dlt_gateway_check_port(con, v, errno)
      [] key = "EcuID" -> dlt_gateway_check_ecu(con, v, errno)
      [] key = "Connect" -> dlt_gateway_check_connect_trigger(con, v, errno)
      [] key = "Timeout" -> dlt_gateway_check_timeout(con, v, errno)
      [] key = "SendControl" -> dlt_gateway_check_control_messages(con, v, errno)
      [] key = "SendPeriodicControl" -> dlt_gateway_check_periodic_control_messages(con, v, errno)
      [] key = "SendSerialHeader" -> dlt_gateway_check_send_serial(con, v, errno)

(***************************************************************************)
(* dlt_gateway_configure.                                                  *)
(***************************************************************************)
Free == [NoNode EXCEPT !.ecu = -1]      \* DLT_GATEWAY_UNINITIALIZED

(* One slot for each section that is not the general one. *)
AllocatesConnections ==
    /\ stage = "read" /\ line > Len(configText)
    /\ LET n == Len(config.sections) - (IF IsSection(config, General) THEN 1 ELSE 0)
       IN  gateway' = [gateway EXCEPT !.connections = [i \in 1..n |-> Free]]
    /\ stage' = "configure"
    /\ UNCHANGED <<configText, line, config>>

Section == config.sections[gateway.at].name

(* Interval is optional; an invalid one stays. *)
GeneralSection ==
    /\ stage = "configure" /\ gateway.at <= Len(config.sections) /\ Section = General
    /\ LET r == dlt_config_file_get_value(config, General, "Interval")
       IN  gateway' = [gateway EXCEPT
               !.at = @ + 1,
               !.ret = IF r.found /\ r.value[1] > 0 THEN "ok" ELSE "error",
               !.interval = IF r.found THEN r.value[1] ELSE @,
               !.errno = IF r.found THEN Errno(r.value[1], @) ELSE @]
    /\ UNCHANGED <<configText, line, config, stage>>

(* The keys in their order, until a needed one is missing. *)
SectionChecks ==
    FoldLeft(LAMBDA acc, key :
                LET r == dlt_config_file_get_value(config, Section, key)
                    c == dlt_gateway_check_param(key, acc.con, r.value, acc.errno)
                IN  IF ~acc.ok THEN acc
                    ELSE IF ~r.found THEN [acc EXCEPT !.ok = key \notin Needed]
                    ELSE [c EXCEPT !.ok = TRUE],
             Checked(NoNode, gateway.errno, TRUE), configuration_entries)

FreeSlot(g) == SelectInSeq(g.connections, LAMBDA c : c = Free)

dlt_gateway_store_connection(g, con) == [g.connections EXCEPT ![FreeSlot(g)] = con]

(* A section that is not complete is ignored; one without an address is    *)
(* copied all the same.                                                    *)
NodeSection ==
    /\ stage = "configure" /\ gateway.at <= Len(config.sections) /\ Section # General
    /\ LET r == SectionChecks
           next == [gateway EXCEPT !.at = @ + 1, !.errno = r.errno]
       IN  IF ~r.ok
           THEN gateway' = [next EXCEPT !.ret = "error"] /\ UNCHANGED stage
           ELSE IF r.con.ip = WrongAddress
           THEN stage' = "crashed" /\ UNCHANGED gateway
           ELSE /\ gateway' = [next EXCEPT !.ret = "ok",
                                   !.connections = dlt_gateway_store_connection(gateway, r.con)]
                /\ UNCHANGED stage
    /\ UNCHANGED <<configText, line, config>>

dlt_gateway_configure ==
    /\ stage = "configure" /\ gateway.at > Len(config.sections)
    /\ stage' = "done"
    /\ UNCHANGED <<configText, line, config, gateway>>

ConfigInit ==
    /\ configText \in ConfigFiles /\ line = 1
    /\ config = [sections |-> <<>>, valid |-> FALSE]
    /\ gateway = [connections |-> <<>>, interval |-> DefaultInterval, at |-> 1, ret |-> "ok",
                  errno |-> "none"]
    /\ stage = "read"

ConfigNext ==
    \/ dlt_config_file_read_file \/ AllocatesConnections \/ GeneralSection \/ NodeSection
    \/ dlt_gateway_configure

(***************************************************************************)
(* Properties.                                                             *)
(***************************************************************************)
(* The lines of the file that stand under the first section of a name, up  *)
(* to the next section, whatever comes of it.                              *)
FirstLine(name) == SelectInSeq(configText, LAMBDA l : l.kind = "section" /\ l.name = name)
LinesOf(name) ==
    LET from == FirstLine(name)
        to == SelectInSubSeq(configText, from + 1, Len(configText), LAMBDA l : l.kind = "section")
    IN  SelectSeq(SubSeq(configText, from + 1, IF to = 0 THEN Len(configText) ELSE to - 1),
                  LAMBDA l : l.kind = "data")

Names == {l.name : l \in {x \in ToSet(configText) : x.kind = "section"}}

(* What the file says of a key; no section takes more keys than it holds. *)
Says(name, key) ==
    LET ls == LinesOf(name)
        k == SelectInSeq(ls, LAMBDA l : l.key = key)
    IN  IF k = 0 \/ k >= DLT_CONFIG_FILE_KEYS_MAX THEN <<>> ELSE <<ls[k].value>>

(* A value is read from the section it stands in, also when a section      *)
(* between them was refused because its name was there already or it was   *)
(* one too many, and when a section is full.                               *)
ValuesAreTheirSections ==
    line > Len(configText) =>
        \A name \in Names, key \in ToSet(configuration_entries) :
            LET r == dlt_config_file_get_value(config, name, key)
            IN  IsSection(config, name) =>
                    (IF r.found THEN <<r.value>> ELSE <<>>) = Says(name, key)

ValidEntry(key, v) ==
    CASE key = "IPaddress" -> v[1] # WrongAddress
      [] key = "Port" -> v[1] > IPPORT_RESERVED /\ v[1] <= MaxPort
      [] key = "Connect" -> v[1] \in {OnStartup, OnDemand}
      [] key = "Timeout" -> v[1] >= 0
      [] key = "SendControl" -> IsInjective(v) /\ \A i \in DOMAIN v : v[i] \in 1..(LastService - 1)
      [] key = "SendPeriodicControl" ->
            /\ \A i, j \in 1..(Len(v) \div 2) : i # j => v[2 * i - 1] # v[2 * j - 1]
            /\ \A i \in 1..(Len(v) \div 2) : v[2 * i - 1] \in 1..(LastService - 1)
      [] key \in {"EcuID", "SendSerialHeader"} -> TRUE

EntriesOf(name) == [key \in ToSet(configuration_entries) |-> Says(name, key)]
CompleteSection(name) == name # General /\ \A key \in Needed : EntriesOf(name)[key] # <<>>
Valid(name) ==
    \A key \in ToSet(configuration_entries) :
        EntriesOf(name)[key] # <<>> => ValidEntry(key, EntriesOf(name)[key][1])
NothingTooLarge == \A l \in ToSet(configText) : TooLarge \notin ToSet(l.value)

(* What a complete, valid section asks to be sent. *)
Wanted(name, key, else) == IF EntriesOf(name)[key] = <<>> THEN else ELSE EntriesOf(name)[key][1]
StartupIds(name) == ToSet(Wanted(name, "SendControl", <<>>))
Periodic(name) ==
    LET v == Wanted(name, "SendPeriodicControl", <<>>)
    IN  {<<v[2 * i - 1], v[2 * i]>> : i \in 1..(Len(v) \div 2)}

ListOf(con) == IF con.at = 0 THEN <<>> ELSE SubSeq(con.msgs, con.at, Len(con.msgs))

NodeIs(con, name) ==
    /\ con.ip = Wanted(name, "IPaddress", <<0>>)[1]
    /\ con.port = Wanted(name, "Port", <<DLT_DAEMON_TCP_PORT>>)[1]
    /\ con.ecu = Wanted(name, "EcuID", <<0>>)[1]
    /\ con.timeout = Wanted(name, "Timeout", <<0>>)[1]
    /\ con.trigger = Wanted(name, "Connect", <<OnStartup>>)[1]
    /\ LET ms == ToSet(ListOf(con))
       IN  /\ Len(ListOf(con)) = Cardinality({m.id : m \in ms})
           /\ {m.id : m \in {x \in ms : x.type \in {"startup", "both"}}} = StartupIds(name)
           /\ {<<m.id, m.interval>> : m \in {x \in ms : x.type \in {"periodic", "both"}}}
                  = Periodic(name)

(* Once the file is read, the gateway knows a node for each complete       *)
(* section, in their order and before the free slots, and no other; where  *)
(* the values are valid, with the address, port, trigger and timeout of    *)
(* that section and each control message on its list once, at the start,   *)
(* again and again or both.  Claimed for files without a number too large  *)
(* to convert: its errno makes valid ids of later sections refused.        *)
NodesConfigured ==
    stage = "done" /\ NothingTooLarge =>
        LET names == SelectSeq([i \in DOMAIN config.sections |-> config.sections[i].name], CompleteSection)
            slots == gateway.connections
        IN  /\ Len(names) <= Len(slots)
            /\ \A i \in DOMAIN slots : (slots[i] = Free) <=> (i > Len(names))
            /\ \A i \in DOMAIN names : Valid(names[i]) => NodeIs(slots[i], names[i])

(* A value that is not valid is replaced by the default ("Configuration %s *)
(* = %s is invalid. Using default."), and does not stop the daemon.        *)
InvalidUsesDefault ==
    /\ stage # "crashed"
    /\ \A i \in DOMAIN gateway.connections : gateway.connections[i].timeout >= 0
    /\ gateway.interval > 0

(* The parser and the gateway between them: what the file says of a node    *)
(* is what the node is made of.                                             *)
ConfigurationIsRead == ValuesAreTheirSections /\ NodesConfigured
=============================================================================
