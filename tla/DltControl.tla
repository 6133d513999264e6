----------------------------- MODULE DltControl -----------------------------
(***************************************************************************)
(* Control requests from end to end: the client library builds a request   *)
(* (dlt_client.c), a daemon answers it (dlt_daemon_client.c), and the      *)
(* gateway that relays the answer, or asked itself, keeps a copy of the    *)
(* node's applications and contexts (dlt_gateway.c).                       *)
(*                                                                         *)
(* The node is a daemon with its tables; between it and the gateway there  *)
(* are two streams, each in order.  The answer to GET_LOG_INFO is a        *)
(* sequence of octets as the daemon lays it out and as the client library  *)
(* reads it back.  An octet has Base values (256 in the code); an id is    *)
(* one character, padded with zeros to four.                               *)
(*                                                                         *)
(* The registry's own operations are in DltRegistry; here contexts come    *)
(* and go, and a write to a context's process may fail.                    *)
(***************************************************************************)
EXTENDS Integers, Sequences, FiniteSets, SequencesExt, FiniteSetsExt, TLC

CONSTANTS
    AppIds,         \* application ids, numbers in the order of the ids
    CtxIds,         \* context ids
    Descriptions,   \* what applications and contexts are described with
    Plans,          \* [calls, notices, limit]: the requests clients make, the other
                    \* messages the node sends, and how much happens in a behaviour
    Base,           \* values of an octet
    MaxData,        \* largest payload a message can announce
    MaxText,        \* octets that fit the gateway's text buffer
    MaxFlight       \* bound: requests, and messages, on their way

NoId == 0                                \* an empty id
Remo == <<98, 0, 0, 0>>                 \* the "remo" at the end
MinLogInfo == 32                        \* sizeof(DltServiceGetLogInfoResponse)
DLT_DEFAULT_VALUE == -1
LogInfoService == 3                     \* DLT_SERVICE_ID_GET_LOG_INFO
LogInfoOptions == 3..7
NoMatchingContext == 8

Kinds == {"ll", "ts"}
Highest == [ll |-> 6, ts |-> 1]
Initial == [ll |-> 4, ts |-> 0]

Unsupported == {"COM_INTERFACE_STATUS", "COM_INTERFACE_MAX_BANDWIDTH", "VERBOSE_MODE",
                "MESSAGE_FILTERING", "USE_ECU_ID", "USE_SESSION_ID", "USE_TIMESTAMP",
                "USE_EXTENDED_HEADER", "UNKNOWN"}

Notices == {"CONNECTION_INFO", "TIMEZONE", "MARKER", "LOG_MESSAGE_ID_3"}

ASSUME ControlAssumption ==
    /\ \A p \in Plans : p.notices \subseteq Notices /\ p.limit \in Nat
    /\ AppIds \subseteq Nat \ {NoId} /\ CtxIds \subseteq Nat \ {NoId}
    /\ \A d \in Descriptions : Len(d) < Base * Base
    /\ Base \in Nat /\ Base > 2 * Highest.ll
    /\ MaxData \in Nat /\ MaxText \in Nat /\ MaxFlight \in Nat

VARIABLES
    node,           \* [apps, ctxs, defaults, timing]: the node's tables
    requests,       \* requests on their way to the node
    answers,        \* messages on their way from the node
    copy,           \* the gateway's copy: [apps, ctxs], maps from ids
    nodeDefault,    \* default_log_level the gateway keeps of the node
    requested,      \* the gateway's own GET_LOG_INFO is marked as asked
    known,          \* contexts in the last complete answer the gateway read
    made,           \* what happened so far, up to plan.limit
    plan            \* fixed at the start

controlVars == <<node, requests, answers, copy, nodeDefault, requested, known, made, plan>>

(***************************************************************************)
(* The node's tables, sorted by id.                                        *)
(***************************************************************************)
AppAt(n, a) == SelectInSeq(n.apps, LAMBDA e : e.id = a)

CtxAt(n, a, c) == SelectInSeq(n.ctxs, LAMBDA e : e.app = a /\ e.id = c)

ContextsOf(n, a) == SelectSeq(n.ctxs, LAMBDA e : e.app = a)

(* What a process is sent: the context's values, or the defaults. *)
InForce(n, c) == [k \in Kinds |-> IF c[k] = DLT_DEFAULT_VALUE THEN n.defaults[k] ELSE c[k]]

(* dlt_daemon_user_send_log_level to context j; refuse: the contexts whose *)
(* process cannot be written to.                                           *)
Tell(n, j, refuse) ==
    IF j \in refuse THEN [n EXCEPT !.ctxs[j].missed = TRUE]
    ELSE [n EXCEPT !.ctxs[j].told = InForce(n, n.ctxs[j]), !.ctxs[j].missed = FALSE]

(* dlt_daemon_user_send_default_update *)
DefaultUpdate(n, refuse) ==
    FoldLeftDomain(LAMBDA acc, j : IF \E k \in Kinds : acc.ctxs[j][k] = DLT_DEFAULT_VALUE
                                   THEN Tell(acc, j, refuse) ELSE acc,
                   n, n.ctxs)

(* dlt_daemon_user_send_all_log_level_update, .._all_trace_status_update:  *)
(* the value is kept also when it cannot be sent.                          *)
AllUpdate(n, k, val, refuse) ==
    FoldLeftDomain(LAMBDA acc, j : Tell([acc EXCEPT !.ctxs[j][k] = val], j, refuse), n, n.ctxs)

(***************************************************************************)
(* Answers.  Only GET_LOG_INFO and GET_DEFAULT_LOG_LEVEL carry data the    *)
(* gateway reads.  view: what the tables held when it was written.         *)
(***************************************************************************)
ServiceResponse(sid, status) == [sid |-> sid, status |-> status]

(* dlt_daemon_client_send_control_message *)
SendControlMessage(answer) ==
    IF "data" \in DOMAIN answer /\ Len(answer.data) > MaxData THEN <<>> ELSE <<answer>>

Octets16(v) == <<v % Base, v \div Base>>

OctetOf(v) == v % Base

IdOctets(id) == <<id, 0, 0, 0>>

Described(d) == Octets16(Len(d)) \o d

WithLevel(options) == options \in {4, 6, 7}
WithTrace(options) == options \in {5, 6, 7}
WithText(options) == options = 7

NumApplications(n, r) ==
    IF r.apid = NoId THEN Len(n.apps) ELSE IF AppAt(n, r.apid) # 0 THEN 1 ELSE 0

NumContexts(n, r) ==
    IF r.apid = NoId THEN Len(n.ctxs)
    ELSE IF r.ctid = NoId THEN Len(ContextsOf(n, r.apid))
    ELSE IF CtxAt(n, r.apid, r.ctid) # 0 THEN 1 ELSE 0

(* The applications the answer lists, and the contexts under each. *)
ListedApps(n, r) ==
    SelectSeq(n.apps, LAMBDA a : r.apid \in {NoId, a.id})

ListedContexts(n, r, a) ==
    SelectSeq(ContextsOf(n, a.id), LAMBDA c : r.ctid \in {NoId, c.id})

TextSize(entries) == FoldLeft(LAMBDA sum, e : sum + 2 + Len(e.desc), 0, entries)

(* The size malloc is given before anything is written. *)
LogInfoSize(n, r) ==
    LET perContext == 4 + (IF WithLevel(r.options) THEN 1 ELSE 0)
                        + (IF WithTrace(r.options) THEN 1 ELSE 0)
        described == IF r.apid = NoId THEN n.ctxs
                     ELSE SelectSeq(n.ctxs, LAMBDA c : c.app = r.apid /\ r.ctid \in {NoId, c.id})
    IN  4 + 1 + 4 + NumApplications(n, r) * (4 + 2) + NumContexts(n, r) * perContext + 2
        + (IF WithText(r.options)
           THEN TextSize(described) + TextSize(ListedApps(n, r)) ELSE 0)

ContextOctets(c, options) ==
    IdOctets(c.id)
    \o (IF WithLevel(options) THEN <<OctetOf(c.ll)>> ELSE <<>>)
    \o (IF WithTrace(options) THEN <<OctetOf(c.ts)>> ELSE <<>>)
    \o (IF WithText(options) THEN Described(c.desc) ELSE <<>>)

(* One application.  Under "all applications" the count is that of all its *)
(* contexts even when the request names one.                               *)
AppOctets(n, r, a) ==
    IdOctets(a.id)
    \o Octets16(IF r.apid # NoId THEN NumContexts(n, r) ELSE Len(ContextsOf(n, a.id)))
    \o FlattenSeq([i \in DOMAIN ListedContexts(n, r, a) |->
                      ContextOctets(ListedContexts(n, r, a)[i], r.options)])
    \o (IF WithText(r.options) THEN Described(a.desc) ELSE <<>>)

LogInfoStatus(n, r) ==
    IF NumApplications(n, r) # 0 /\ NumContexts(n, r) # 0 THEN r.options ELSE NoMatchingContext

LogInfoOctets(n, r) ==
    <<LogInfoService, 0, 0, 0, LogInfoStatus(n, r)>>
    \o (IF NumApplications(n, r) = 0 THEN <<>>
        ELSE Octets16(NumApplications(n, r))
             \o FlattenSeq([i \in DOMAIN ListedApps(n, r) |->
                               AppOctets(n, r, ListedApps(n, r)[i])]))
    \o Remo

(* The buffer is cleared before it is written, and sent in full. *)
Padded(s, size) == s \o [i \in 1..(size - Len(s)) |-> 0]

(* What the tables hold of the contexts the request is about. *)
ViewOf(n, r) ==
    [apps |-> [a \in {e.id : e \in Range(ListedApps(n, r))} |->
                  IF WithText(r.options) THEN n.apps[AppAt(n, a)].desc ELSE <<>>],
     ctxs |-> [x \in {<<c.app, c.id>> : c \in {e \in Range(n.ctxs) :
                          r.apid \in {NoId, e.app} /\ r.ctid \in {NoId, e.id}}} |->
                  LET c == n.ctxs[CtxAt(n, x[1], x[2])]
                  IN  [ll |-> IF WithLevel(r.options) THEN c.ll ELSE 0,
                       ts |-> IF WithTrace(r.options) THEN c.ts ELSE 0,
                       desc |-> IF WithText(r.options) THEN c.desc ELSE <<>>]]]

dlt_daemon_control_get_log_info(n, r) ==
    IF r.options \notin LogInfoOptions
    THEN SendControlMessage(ServiceResponse("GET_LOG_INFO", "ERROR"))
    ELSE SendControlMessage(
            [sid |-> "GET_LOG_INFO", status |-> LogInfoStatus(n, r),
             data |-> Padded(LogInfoOctets(n, r), LogInfoSize(n, r)), view |-> ViewOf(n, r),
             fits |-> Len(LogInfoOctets(n, r)) <= LogInfoSize(n, r),
             request |-> r])

(***************************************************************************)
(* Requests that set a value.  result: the tables and the answers.         *)
(***************************************************************************)
Result(n, out) == [node |-> n, out |-> out]

(* mutant: the value that could not be sent is kept *)
SendValue_NotRolledBack(acc, j, k, val, sid, refuse) ==
    LET set == [acc.node EXCEPT !.ctxs[j][k] = val]
    IN  IF j \in refuse
        THEN Result(set, Append(acc.out, ServiceResponse(sid, "ERROR")))
        ELSE Result(Tell(set, j, refuse), Append(acc.out, ServiceResponse(sid, "OK")))

(* dlt_daemon_send_trace_status, dlt_daemon_send_log_level *)
SendValue(acc, j, k, val, sid, refuse) ==
    LET set == [acc.node EXCEPT !.ctxs[j][k] = val]
    IN  IF j \in refuse
        THEN Result(acc.node, Append(acc.out, ServiceResponse(sid, "ERROR")))
        ELSE Result(Tell(set, j, refuse), Append(acc.out, ServiceResponse(sid, "OK")))

(* dlt_daemon_find_multiple_context_and_send_trace_status: the contexts    *)
(* whose application id, or context id, begins with the text before a star *)
(* (an id of two digits begins with its first).  The table is sorted, so   *)
(* leaving the loop at a larger application id skips none.                 *)
Begins(name, pattern) ==
    IF pattern.star THEN name \div 10 = pattern.text ELSE name = pattern.text

FindMultiple(n, field, pattern, k, val, sid, refuse) ==
    FoldLeftDomain(LAMBDA acc, j :
                      IF Begins(n.ctxs[j][field], pattern)
                      THEN SendValue(acc, j, k, val, sid, refuse) ELSE acc,
                   Result(n, <<>>), n.ctxs)

(* Any octet is accepted, and becomes an int8_t. *)
AsInt8(v) == IF v >= Base \div 2 THEN v - Base ELSE v

(* dlt_daemon_control_set_trace_status; set_log_level differs in k only.   *)
(* Both answer a context that is not there as SET_LOG_LEVEL.               *)
ControlSetValue(n, r, k, refuse) ==
    LET val == AsInt8(r.val)
        j == IF r.app.star \/ r.ctx.star THEN 0 ELSE CtxAt(n, r.app.text, r.ctx.text)
    IN  CASE r.app.text # NoId /\ r.ctx.text = NoId ->
               FindMultiple(n, "app", r.app, k, val, r.sid, refuse)
          [] r.ctx.text # NoId /\ r.app.text = NoId ->
               FindMultiple(n, "id", r.ctx, k, val, r.sid, refuse)
          [] OTHER ->
               IF j # 0 THEN SendValue(Result(n, <<>>), j, k, val, r.sid, refuse)
               ELSE Result(n, <<ServiceResponse("SET_LOG_LEVEL", "ERROR")>>)

(* dlt_daemon_control_set_default_trace_status, .._default_log_level *)
ControlSetDefaultValue(n, r, k, refuse) ==
    IF r.val <= Highest[k]
    THEN Result(DefaultUpdate([n EXCEPT !.defaults[k] = r.val], refuse),
                <<ServiceResponse(r.sid, "OK")>>)
    ELSE Result(n, <<ServiceResponse(r.sid, "ERROR")>>)

(* dlt_daemon_control_set_all_trace_status, .._all_log_level *)
ControlSetAllValues(n, r, k, refuse) ==
    IF r.val <= Highest[k] \/ AsInt8(r.val) = DLT_DEFAULT_VALUE
    THEN Result(AllUpdate(n, k, AsInt8(r.val), refuse), <<ServiceResponse(r.sid, "OK")>>)
    ELSE Result(n, <<ServiceResponse(r.sid, "ERROR")>>)

(* dlt_daemon_control_set_timing_packets *)
ControlSetTiming(n, r) ==
    IF r.val \in {0, 1}
    THEN Result([n EXCEPT !.timing = r.val], <<ServiceResponse(r.sid, "OK")>>)
    ELSE Result(n, <<ServiceResponse(r.sid, "ERROR")>>)

(* dlt_daemon_control_get_default_log_level *)
GetDefaultLogLevel(n) ==
    <<[sid |-> "GET_DEFAULT_LOG_LEVEL", status |-> "OK", level |-> n.defaults.ll]>>

(* dlt_daemon_control_get_software_version *)
GetSoftwareVersion == <<ServiceResponse("GET_SOFTWARE_VERSION", "OK")>>

(***************************************************************************)
(* dlt_daemon_client_process_control.  A request shorter than its          *)
(* structure is dropped without an answer.  saved: whether the runtime     *)
(* configuration could be stored (DltRegistry!StoreConfig); injected: what *)
(* the injection was answered with (DltRegistry!CallSWCInjection).         *)
(***************************************************************************)
ServicesWithStructure ==
    {"SET_LOG_LEVEL", "SET_TRACE_STATUS", "GET_LOG_INFO", "SET_DEFAULT_LOG_LEVEL",
     "SET_DEFAULT_TRACE_STATUS", "SET_ALL_LOG_LEVEL", "SET_ALL_TRACE_STATUS",
     "SET_TIMING_PACKETS"}

ResetNode(n, refuse) == DefaultUpdate([n EXCEPT !.defaults = Initial], refuse)

dlt_daemon_client_process_control(n, r, refuse, saved, injected) ==
    CASE r.short /\ r.sid \in ServicesWithStructure -> Result(n, <<>>)
      [] ~r.short /\ r.sid = "SET_LOG_LEVEL" -> ControlSetValue(n, r, "ll", refuse)
      [] ~r.short /\ r.sid = "SET_TRACE_STATUS" -> ControlSetValue(n, r, "ts", refuse)
      [] ~r.short /\ r.sid = "GET_LOG_INFO" -> Result(n, dlt_daemon_control_get_log_info(n, r))
      [] r.sid = "GET_DEFAULT_LOG_LEVEL" -> Result(n, GetDefaultLogLevel(n))
      [] r.sid = "STORE_CONFIG" ->
            IF saved THEN Result(n, <<ServiceResponse(r.sid, "OK")>>)
            ELSE Result(ResetNode(n, refuse), <<ServiceResponse(r.sid, "ERROR")>>)
      [] r.sid = "RESET_TO_FACTORY_DEFAULT" ->
            Result(ResetNode(n, refuse), <<ServiceResponse(r.sid, "OK")>>)
      [] r.sid \in Unsupported -> Result(n, <<ServiceResponse(r.sid, "NOT_SUPPORTED")>>)
      [] ~r.short /\ r.sid = "SET_TIMING_PACKETS" -> ControlSetTiming(n, r)
      [] r.sid = "GET_LOCAL_TIME" -> Result(n, <<ServiceResponse(r.sid, "OK")>>)
      [] ~r.short /\ r.sid = "SET_DEFAULT_LOG_LEVEL" -> ControlSetDefaultValue(n, r, "ll", refuse)
      [] ~r.short /\ r.sid = "SET_DEFAULT_TRACE_STATUS" ->
            ControlSetDefaultValue(n, r, "ts", refuse)
      [] r.sid = "GET_SOFTWARE_VERSION" -> Result(n, GetSoftwareVersion)
      [] ~r.short /\ r.sid = "SET_ALL_LOG_LEVEL" -> ControlSetAllValues(n, r, "ll", refuse)
      [] ~r.short /\ r.sid = "SET_ALL_TRACE_STATUS" -> ControlSetAllValues(n, r, "ts", refuse)
      [] r.sid = "INJECTION" -> Result(n, <<ServiceResponse(r.sid, injected)>>)

NodeHandles ==
    /\ requests # <<>>
    /\ \E refuse \in SUBSET DOMAIN node.ctxs, saved \in BOOLEAN,
          injected \in {"OK", "ERROR", "NOT_SUPPORTED", "PERM_DENIED"} :
          LET done == dlt_daemon_client_process_control(node, Head(requests), refuse,
                                                        saved, injected)
          IN  /\ Head(requests).sid # "STORE_CONFIG" => saved
              /\ Head(requests).sid # "INJECTION" => injected = "OK"
              /\ node' = done.node
              /\ answers' = answers \o done.out
    /\ requests' = Tail(requests)
    /\ UNCHANGED <<copy, nodeDefault, requested, known, made, plan>>

(***************************************************************************)
(* Contexts come and go at the node, each with its values sent at          *)
(* registration; clients are told of a removal.                            *)
(***************************************************************************)
InsertSorted(s, e, Less(_, _)) ==
    InsertAt(s, 1 + Cardinality({i \in DOMAIN s : Less(s[i], e)}), e)

Happens == /\ made < plan.limit /\ made' = made + 1
           /\ Len(requests) < MaxFlight /\ Len(answers) < MaxFlight
           /\ UNCHANGED plan

NewContext(a, c, d) ==
    [app |-> a, id |-> c, ll |-> DLT_DEFAULT_VALUE, ts |-> DLT_DEFAULT_VALUE, desc |-> d,
     told |-> [k \in Kinds |-> node.defaults[k]], missed |-> FALSE]

NodeRegisters(a, c, d) ==
    /\ Happens
    /\ CtxAt(node, a, c) = 0
    /\ LET apps == IF AppAt(node, a) # 0 THEN node.apps
                   ELSE InsertSorted(node.apps, [id |-> a, desc |-> d],
                                     LAMBDA x, y : x.id < y.id)
       IN  node' = [node EXCEPT
              !.apps = apps,
              !.ctxs = InsertSorted(@, NewContext(a, c, d),
                          LAMBDA x, y : x.app < y.app \/ (x.app = y.app /\ x.id < y.id))]
    /\ UNCHANGED <<requests, answers, copy, nodeDefault, requested, known>>

(* dlt_daemon_control_message_unregister_context to all clients. *)
NodeUnregisters(j) ==
    /\ Happens
    /\ node' = [node EXCEPT !.ctxs = RemoveAt(@, j)]
    /\ answers' = Append(answers, ServiceResponse("UNREGISTER_CONTEXT", "OK"))
    /\ UNCHANGED <<requests, copy, nodeDefault, requested, known>>

(* Messages nobody asked for: what a new client is told                    *)
(* (dlt_daemon_control_message_connection_info, .._timezone), markers and  *)
(* log messages.  The gateway looks at the first four octets of each, so a *)
(* non-verbose log message with message id 3 is read as GET_LOG_INFO.      *)
NodeSends(sid) ==
    /\ Happens
    /\ answers' = Append(answers, ServiceResponse(sid, "OK"))
    /\ UNCHANGED <<node, requests, copy, nodeDefault, requested, known>>

(***************************************************************************)
(* The client library: dlt_client_send_... and dlt_client_get_... build a  *)
(* request of a fixed size; dlt_client_send_ctrl_msg refuses what the      *)
(* length field cannot hold and fails when the socket does.                *)
(***************************************************************************)
dlt_client_send_ctrl_msg(r) ==
    IF r.size > MaxData THEN requests' = requests
    ELSE \/ requests' = Append(requests, r)
         \/ requests' = requests              \* write or send fails

ClientCalls(r) ==
    /\ Happens
    /\ dlt_client_send_ctrl_msg(r)
    /\ UNCHANGED <<node, answers, copy, nodeDefault, requested, known>>

Request(sid, size, fields) == fields @@ [sid |-> sid, short |-> FALSE, size |-> size]

dlt_client_send_inject_msg(size) == Request("INJECTION", 8 + size, <<>>)

dlt_client_send_log_level(app, ctx, level) ==
    Request("SET_LOG_LEVEL", 17, [app |-> app, ctx |-> ctx, val |-> level])

dlt_client_get_log_info ==
    Request("GET_LOG_INFO", 17, [options |-> 7, apid |-> NoId, ctid |-> NoId])

dlt_client_get_default_log_level == Request("GET_DEFAULT_LOG_LEVEL", 4, <<>>)

dlt_client_get_software_version == Request("GET_SOFTWARE_VERSION", 4, <<>>)

dlt_client_send_trace_status(app, ctx, status) ==
    Request("SET_TRACE_STATUS", 17, [app |-> app, ctx |-> ctx, val |-> status])

dlt_client_send_default_log_level(level) == Request("SET_DEFAULT_LOG_LEVEL", 9, [val |-> level])

dlt_client_send_all_log_level(level) == Request("SET_ALL_LOG_LEVEL", 9, [val |-> level])

dlt_client_send_default_trace_status(status) ==
    Request("SET_DEFAULT_TRACE_STATUS", 9, [val |-> status])

dlt_client_send_all_trace_status(status) == Request("SET_ALL_TRACE_STATUS", 9, [val |-> status])

dlt_client_send_timing_pakets(on) == Request("SET_TIMING_PACKETS", 5, [val |-> on])

dlt_client_send_store_config == Request("STORE_CONFIG", 4, <<>>)

dlt_client_send_reset_to_factory_default == Request("RESET_TO_FACTORY_DEFAULT", 4, <<>>)

(* The gateway asks at start-up and periodically; the flag is set only if  *)
(* the request was sent.                                                   *)
GatewayAsks ==
    /\ Happens
    /\ requests' = Append(requests, dlt_client_get_log_info @@ [own |-> TRUE])
    /\ requested' = TRUE
    /\ UNCHANGED <<node, answers, copy, nodeDefault, known>>

(***************************************************************************)
(* Reading an answer.  dlt_message_payload prints the octets after the     *)
(* status; a status below DLT_SERVICE_RESPONSE_LAST, and 8, is printed as  *)
(* a word, which dlt_set_loginfo_parse_service_id reads as 0.  Behind the  *)
(* text the buffer holds zeros.                                            *)
(***************************************************************************)
TextStatus(status) == IF status \in 5..7 THEN status ELSE 0

OctetAt(d, p) == IF p \in DOMAIN d THEN d[p] ELSE 0

(* mutant: the high octet comes first *)
ReadUint16_BigEndian(d, p) == (Base * OctetAt(d, p) + OctetAt(d, p + 1)) % Base

(* dlt_getloginfo_conv_ascii_to_uint16_t returns an unsigned char *)
ReadUint16(d, p) == (OctetAt(d, p) + Base * OctetAt(d, p + 1)) % Base

ReadInt16(d, p) == AsInt8(OctetAt(d, p))

ReadIdText(d, p, len) == [i \in 1..len |-> OctetAt(d, p + i - 1)]

(* The context at acc.pos is added to those read, the position moves on. *)
ReadContext(acc, d, status) ==
    LET id == OctetAt(d, acc.pos)
        p1 == acc.pos + 4
        p2 == p1 + (IF WithLevel(status) THEN 1 ELSE 0)
        p3 == p2 + (IF WithTrace(status) THEN 1 ELSE 0)
        len == IF WithText(status) THEN ReadUint16(d, p3) ELSE 0
        entry == [ll |-> IF WithLevel(status) THEN ReadInt16(d, p1) ELSE 0,
                  ts |-> IF WithTrace(status) THEN ReadInt16(d, p2) ELSE 0,
                  desc |-> ReadIdText(d, p3 + 2, len)]
    IN  [acc EXCEPT !.pos = IF WithText(status) THEN p3 + 2 + len ELSE p3,
                    !.ctxs = (<<acc.app, id>> :> entry) @@ @]

ReadApplication(acc, d, status) ==
    LET begun == [acc EXCEPT !.app = OctetAt(d, acc.pos), !.pos = @ + 6]
        count == ReadUint16(d, acc.pos + 4)
        read == FoldLeft(LAMBDA a, i : ReadContext(a, d, status), begun, [i \in 1..count |-> i])
        len == IF WithText(status) THEN ReadUint16(d, read.pos) ELSE 0
    IN  [read EXCEPT !.pos = IF WithText(status) THEN @ + 2 + len ELSE @,
                     !.apps = (read.app :> ReadIdText(d, read.pos + 2, len)) @@ @]

NoTables == [apps |-> <<>>, ctxs |-> <<>>]

(* dlt_client_parse_get_log_info_resp_text, the answer's data from the     *)
(* sixth octet on.                                                         *)
dlt_client_parse_get_log_info_resp_text(data, status) ==
    LET d == SubSeq(data, 6, Len(data))
        count == ReadUint16(d, 1)
        read == FoldLeft(LAMBDA acc, i : ReadApplication(acc, d, status),
                         [pos |-> 3, app |-> NoId, apps |-> <<>>, ctxs |-> <<>>],
                         [i \in 1..count |-> i])
    IN  [apps |-> read.apps, ctxs |-> read.ctxs]

(***************************************************************************)
(* dlt_gateway_parse_get_log_info.  The copy is cleared when the gateway   *)
(* asked, before the answer is looked at; what was read is added to it,    *)
(* replacing what is there of the same ids.                                *)
(***************************************************************************)
(* mutant: the copy is cleared whoever asked *)
Cleared_Always(c, asked) == NoTables

Cleared(c, asked) == IF asked THEN NoTables ELSE c

Readable(a) ==
    /\ "data" \in DOMAIN a
    /\ TextStatus(a.status) # 0
    /\ Len(a.data) <= MaxText

dlt_gateway_parse_get_log_info(c, a, asked) ==
    IF "data" \notin DOMAIN a \/ Len(a.data) < MinLogInfo THEN c
    ELSE IF ~Readable(a) THEN Cleared(c, asked)
    ELSE LET read == dlt_client_parse_get_log_info_resp_text(a.data, TextStatus(a.status))
         IN  [apps |-> read.apps @@ Cleared(c, asked).apps,
              ctxs |-> read.ctxs @@ Cleared(c, asked).ctxs]

IsLogInfo(a) == a.sid \in {"GET_LOG_INFO", "LOG_MESSAGE_ID_3"}

Complete(a) == /\ "request" \in DOMAIN a
               /\ a.request.apid = NoId /\ a.request.ctid = NoId

(* The gateway takes the next message of the node: it keeps its tables and *)
(* default level up to date and passes the message on to its clients.      *)
GatewayReceives ==
    /\ answers # <<>>
    /\ LET a == Head(answers)
       IN  /\ copy' = IF IsLogInfo(a) THEN dlt_gateway_parse_get_log_info(copy, a, requested)
                      ELSE copy
           /\ requested' = (requested /\ ~IsLogInfo(a))
           /\ nodeDefault' = IF a.sid = "GET_DEFAULT_LOG_LEVEL" THEN a.level ELSE nodeDefault
           /\ known' = IF ~(IsLogInfo(a) /\ Complete(a)) THEN known
                       ELSE IF Readable(a) /\ Len(a.data) >= MinLogInfo
                       THEN DOMAIN a.view.ctxs ELSE {}
    /\ answers' = Tail(answers)
    /\ UNCHANGED <<node, requests, made, plan>>

ControlInit ==
    /\ node = [apps |-> <<>>, ctxs |-> <<>>, defaults |-> Initial, timing |-> 0]
    /\ requests = <<>> /\ answers = <<>>
    /\ copy = NoTables
    /\ nodeDefault = Initial.ll
    /\ requested = FALSE
    /\ known = {}
    /\ made = 0
    /\ plan \in Plans

ControlNext ==
    \/ NodeHandles
    \/ \E a \in AppIds, c \in CtxIds, d \in Descriptions : NodeRegisters(a, c, d)
    \/ \E j \in DOMAIN node.ctxs : NodeUnregisters(j)
    \/ \E sid \in plan.notices : NodeSends(sid)
    \/ \E r \in plan.calls : ClientCalls(r)
    \/ GatewayAsks
    \/ GatewayReceives

(***************************************************************************)
(* Properties.                                                             *)
(***************************************************************************)
(* An answer to GET_LOG_INFO stays within the memory allocated for it, and *)
(* the client library reads from it what the daemon's tables held, octet   *)
(* by octet, however many applications, contexts and descriptions it has.  *)
AnswerIsRead ==
    \A i \in DOMAIN answers :
       LET a == answers[i]
       IN  "data" \in DOMAIN a =>
              /\ a.fits
              /\ (TextStatus(a.status) # 0 /\ (a.request.apid = NoId => a.request.ctid = NoId)) =>
                    dlt_client_parse_get_log_info_resp_text(a.data, a.status) = a.view

(* Once its own requests are answered, the gateway's copy of the node has  *)
(* every context of the last complete answer it read: answers to clients'  *)
(* requests for a part, and log messages that look like an answer, may     *)
(* clear the copy while the gateway waits, but never for good.             *)
CopyKnowsNode ==
    (\A i \in DOMAIN requests : "own" \notin DOMAIN requests[i]) /\
    (\A i \in DOMAIN answers : "request" \in DOMAIN answers[i] =>
                                  "own" \notin DOMAIN answers[i].request)
        => known \subseteq DOMAIN copy.ctxs

(* A process has been sent the level and status the daemon records for its *)
(* context and reports to clients, unless a request to all, or a change of *)
(* the default, could not be written to it.                                *)
RecordedIsTold ==
    \A j \in DOMAIN node.ctxs :
       node.ctxs[j].missed \/ node.ctxs[j].told = InForce(node, node.ctxs[j])
=============================================================================
