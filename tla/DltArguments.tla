---------------------------- MODULE DltArguments ----------------------------
(***************************************************************************)
(* The arguments of a log message: how dlt_user_log_write_* of the user    *)
(* library lay them out in the message buffer, and how                     *)
(* dlt_message_payload and dlt_message_argument_print of the common        *)
(* library take them apart again.                                          *)
(*                                                                         *)
(* The buffer is a sequence of octets.  An octet is <<w, i, v>>: the i-th  *)
(* of the w octets of a value v.  A reader that takes octets which are not *)
(* one value of the width it expects has lost its place.                   *)
(***************************************************************************)
EXTENDS Integers, Sequences, FiniteSets, SequencesExt

CONSTANTS
    WriteCalls,     \* [fn, width, value, format, var, text, before]: calls that are made
    MaxCalls,       \* bound: calls for one message
    BufferLengths,  \* values of log_buf_len
    Garbled,        \* what octets of several values read as
    TruncatedText   \* STR_TRUNCATED_MESSAGE with its final zero

ASSUME ArgumentsAssumption ==
    MaxCalls \in Nat /\ BufferLengths \subseteq Nat /\ TruncatedText # <<>>

VARIABLES
    log,            \* DltContextData: [buffer, args, verbose]
    logBufLen,      \* dlt_user.log_buf_len
    given,          \* what the calls that were taken should read back as
    writes          \* calls made

argumentVars == <<log, logBufLen, given, writes>>

Octets(v, w) == [i \in 1..w |-> <<w, i, v>>]
TextOctets(t) == [i \in DOMAIN t |-> <<1, 1, t[i]>>]

NoName == <<>>              \* a name or unit that is not given; a given one ends with a zero
NoVarInfo == [name |-> NoName, unit |-> NoName, withUnit |-> FALSE, is |-> FALSE]
VarInfo(name, unit, withUnit) == [name |-> name, unit |-> unit, withUnit |-> withUnit, is |-> TRUE]

Info(type, width, scod) == [type |-> type, width |-> width, scod |-> scod, vari |-> FALSE]

Room(l) == logBufLen - Len(l.buffer)

(* An argument is written, or nothing is; read: what it should be read as. *)
Refused(l) == [log |-> l, read |-> <<>>]
Written(l, octets, read) ==
    [log |-> [l EXCEPT !.buffer = @ \o octets, !.args = @ + 1], read |-> <<read>>]

Read(info, v, name, unit) == [type |-> info.type, value |-> v, name |-> name, unit |-> unit]

(***************************************************************************)
(* Writers.                                                                *)
(***************************************************************************)
(* A value of w octets, with a name and a unit if var gives them. *)
dlt_user_log_write_generic_attr(l, v, w, info, var) ==
    LET attr == IF ~var.is THEN <<>>
                ELSE Octets(Len(var.name), 2)
                     \o (IF var.withUnit THEN Octets(Len(var.unit), 2) ELSE <<>>)
                     \o TextOctets(var.name) \o TextOctets(var.unit)
        head == IF l.verbose THEN Octets([info EXCEPT !.vari = var.is], 4) \o attr ELSE <<>>
    IN  IF w > Room(l) \/ Len(head) + w > Room(l) THEN Refused(l)
        ELSE Written(l, head \o Octets(v, w), Read(info, v, var.name, var.unit))

Formats == {"DEFAULT", "HEX8", "HEX16", "HEX32", "HEX64", "BIN8", "BIN16"}
Scod(f) == IF f \in {"HEX8", "HEX16", "HEX32", "HEX64"} THEN "HEX"
           ELSE IF f \in {"BIN8", "BIN16"} THEN "BIN" ELSE "ASCII"

dlt_user_log_write_generic_formatted(l, v, w, info, f) ==
    LET i == [info EXCEPT !.scod = Scod(f)]
        head == IF l.verbose THEN Octets(i, 4) ELSE <<>>
    IN  IF f \notin Formats \/ Len(head) + w > Room(l) THEN Refused(l)
        ELSE Written(l, head \o Octets(v, w), Read(info, v, NoName, NoName))

dlt_user_log_write_float(l, c) ==
    dlt_user_log_write_generic_attr(l, c.value, c.width, Info("FLOA", c.width, "ASCII"), c.var)

dlt_user_log_write_uint(l, c) ==
    dlt_user_log_write_generic_attr(l, c.value, c.width, Info("UINT", c.width, "ASCII"), c.var)

dlt_user_log_write_uint_formatted(l, c) ==
    dlt_user_log_write_generic_formatted(l, c.value, c.width, Info("UINT", c.width, "ASCII"),
                                         c.format)

(* Pointers of 8 octets. *)
dlt_user_log_write_ptr(l, c) ==
    dlt_user_log_write_uint_formatted(l, [c EXCEPT !.width = 8, !.format = "HEX64"])

dlt_user_log_write_int(l, c) ==
    dlt_user_log_write_generic_attr(l, c.value, c.width, Info("SINT", c.width, "ASCII"), c.var)

(* Neither has a type. *)
dlt_user_log_write_SpanByte_attr(l, c) ==
    dlt_user_log_write_generic_attr(l, c.value, c.width, Info("NONE", 0, "UTF8"), c.var)
dlt_user_log_write_StringView_attr(l, c) ==
    dlt_user_log_write_generic_attr(l, c.value, c.width, Info("NONE", 0, "ASCII"), c.var)

(* A name, but no unit. *)
dlt_user_log_write_bool(l, c) ==
    dlt_user_log_write_generic_attr(l, c.value, 1, Info("BOOL", 1, "ASCII"),
                                    [c.var EXCEPT !.unit = NoName, !.withUnit = FALSE])

(* Length, name, then the data. *)
Named(l, info, var, size, data) ==
    LET name == IF l.verbose /\ var.is THEN Octets(Len(var.name), 2) \o TextOctets(var.name)
                ELSE <<>>
        type == IF l.verbose THEN Octets([info EXCEPT !.vari = var.is], 4) ELSE <<>>
    IN  type \o Octets(size, 2) \o name \o data

dlt_user_log_write_raw_internal(l, c) ==
    LET octets == Named(l, Info("RAWD", 0, Scod(c.format)), c.var, Len(c.text), TextOctets(c.text))
    IN  IF c.format \notin Formats \/ Len(octets) > Room(l) THEN Refused(l)
        ELSE Written(l, octets, Read(Info("RAWD", 0, "ASCII"), c.text, c.var.name, NoName))

(* Octet k of the text; before its start is what the memory holds there. *)
TextAt(c, k) == IF k >= 1 THEN c.text[k] ELSE c.before

(* Octets of a character cut after octet "most" of the text. *)
ReduceSize(c, most) ==
    IF TextAt(c, most) \in {"lead2", "lead3", "lead4"} THEN 1
    ELSE IF TextAt(c, most) # "cont" THEN 0
    ELSE IF TextAt(c, most - 1) \in {"lead3", "lead4"} THEN 2
    ELSE IF TextAt(c, most - 2) = "lead4" THEN 3
    ELSE 0

(* mutant: the length keeps the octets that the cut character loses *)
TruncatedSize_Whole(most, reduce) == most + Len(TruncatedText)
(* arg_size of a truncated text. *)
TruncatedSize(most, reduce) == most + Len(TruncatedText) - reduce

(* memcpy of a length below zero. *)
Overrun(l) == Written(l, Octets(Garbled, Room(l) + 1), Garbled)

(* A text that does not fit is cut, and says so. *)
dlt_user_log_write_sized_string_utils_attr(l, c, scod) ==
    LET info == Info("STRG", 0, scod)
        frame == Len(Named(l, info, c.var, 0, <<>>))
        most == Room(l) - frame - Len(TruncatedText)
        reduce == IF scod = "UTF8" THEN ReduceSize(c, most) ELSE 0
        whole == Append(c.text, "zero")
        cut == SubSeq(c.text, 1, most - reduce) \o TruncatedText
        Text(size, t) == Written(l, Named(l, info, c.var, size, TextOctets(t)),
                                 Read(info, t, c.var.name, NoName))
    IN  IF frame + Len(whole) <= Room(l) THEN Text(Len(whole), whole)
        ELSE IF most < 0 THEN Refused(l)
        ELSE IF most < reduce THEN Overrun(l)
        ELSE Text(TruncatedSize(most, reduce), cut)

dlt_user_log_write_string(l, c) == dlt_user_log_write_sized_string_utils_attr(l, c, "ASCII")
dlt_user_log_write_utf8_string(l, c) == dlt_user_log_write_sized_string_utils_attr(l, c, "UTF8")

(* A constant string is left out in non-verbose mode. *)
dlt_user_log_write_constant_string(l, c) ==
    IF l.verbose THEN dlt_user_log_write_string(l, c) ELSE Refused(l)

Write(l, c) ==
    CASE c.fn = "float" -> dlt_user_log_write_float(l, c)
      [] c.fn = "uint" -> dlt_user_log_write_uint(l, c)
      [] c.fn = "uint_formatted" -> dlt_user_log_write_uint_formatted(l, c)
      [] c.fn = "ptr" -> dlt_user_log_write_ptr(l, c)
      [] c.fn = "int" -> dlt_user_log_write_int(l, c)
      [] c.fn = "bool" -> dlt_user_log_write_bool(l, c)
      [] c.fn = "raw" -> dlt_user_log_write_raw_internal(l, c)
      [] c.fn = "string" -> dlt_user_log_write_string(l, c)
      [] c.fn = "utf8_string" -> dlt_user_log_write_utf8_string(l, c)
      [] c.fn = "constant_string" -> dlt_user_log_write_constant_string(l, c)
      [] c.fn = "span" -> dlt_user_log_write_SpanByte_attr(l, c)
      [] c.fn = "view" -> dlt_user_log_write_StringView_attr(l, c)

(***************************************************************************)
(* Readers.  A reading is [ok, rest, value]; what is not one value of the  *)
(* expected width reads as Garbled.                                        *)
(***************************************************************************)
NotRead == [ok |-> FALSE, rest |-> <<>>, value |-> Garbled]

(* DLT_MSG_READ_VALUE *)
ReadValue(b, w) ==
    IF Len(b) < w THEN NotRead
    ELSE [ok |-> TRUE, rest |-> SubSeq(b, w + 1, Len(b)),
          value |-> IF SubSeq(b, 1, w) = Octets(b[1][3], w) THEN b[1][3] ELSE Garbled]

(* DLT_MSG_READ_STRING, and the octets of a name, a unit or raw data. *)
ReadText(b, n) ==
    IF n = Garbled \/ Len(b) < n THEN NotRead
    ELSE [ok |-> TRUE, rest |-> SubSeq(b, n + 1, Len(b)),
          value |-> [i \in 1..n |-> IF b[i][1] = 1 THEN b[i][3] ELSE Garbled]]

NameAndUnit(name, unit, rest) == [ok |-> TRUE, name |-> name, unit |-> unit, rest |-> rest]
NoAttributes == [ok |-> FALSE, name |-> NoName, unit |-> NoName, rest |-> <<>>]

(* A name, for a text, a Boolean and raw data. *)
ReadName(b, info) ==
    LET n == ReadValue(b, 2)
        name == ReadText(n.rest, n.value)
    IN  IF ~info.vari THEN NameAndUnit(NoName, NoName, b)
        ELSE IF ~n.ok \/ ~name.ok THEN NoAttributes
        ELSE NameAndUnit(name.value, NoName, name.rest)

(* Both lengths, then both texts, for numbers. *)
ReadNameAndUnit(b, info) ==
    LET n == ReadValue(b, 2)
        u == ReadValue(n.rest, 2)
        name == ReadText(u.rest, n.value)
        unit == ReadText(name.rest, u.value)
    IN  IF ~info.vari THEN NameAndUnit(NoName, NoName, b)
        ELSE IF ~n.ok \/ ~u.ok \/ ~name.ok \/ ~unit.ok THEN NoAttributes
        ELSE NameAndUnit(name.value, unit.value, unit.rest)

ReadArgument(info, a, r) ==
    [ok |-> a.ok /\ r.ok, rest |-> r.rest,
     value |-> Read(info, r.value, a.name, a.unit)]

(* The text comes after its length and the name. *)
ReadString(b, info) ==
    LET n == ReadValue(b, 2)
        a == ReadName(n.rest, info)
    IN  IF ~n.ok \/ n.value = 0 THEN NotRead ELSE ReadArgument(info, a, ReadText(a.rest, n.value))

ReadBoolean(b, info) ==
    LET a == ReadName(b, info) IN ReadArgument(info, a, ReadValue(a.rest, 1))

(* Neither reads a name; widths that are not listed take nothing. *)
ReadBinary(b, info) ==
    ReadArgument(info, NameAndUnit(NoName, NoName, b),
                 IF info.width \in {1, 2} THEN ReadValue(b, info.width)
                 ELSE [ok |-> TRUE, rest |-> b, value |-> Garbled])

ReadHex(b, info) ==
    ReadArgument(info, NameAndUnit(NoName, NoName, b),
                 IF info.width \in {1, 2, 4, 8} THEN ReadValue(b, info.width)
                 ELSE [ok |-> TRUE, rest |-> b, value |-> Garbled])

ReadInteger(b, info) ==
    LET a == ReadNameAndUnit(b, info) IN ReadArgument(info, a, ReadValue(a.rest, info.width))

ReadFloat(b, info) ==
    LET a == ReadNameAndUnit(b, info) IN ReadArgument(info, a, ReadValue(a.rest, info.width))

ReadRaw(b, info) ==
    LET n == ReadValue(b, 2)
        a == ReadName(n.rest, info)
    IN  IF ~n.ok THEN NotRead ELSE ReadArgument(info, a, ReadText(a.rest, n.value))

dlt_message_argument_print(b, info) ==
    CASE info = Garbled -> NotRead
      [] info # Garbled /\ info.type = "STRG" -> ReadString(b, info)
      [] info # Garbled /\ info.type = "BOOL" -> ReadBoolean(b, info)
      [] info # Garbled /\ info.type = "UINT" /\ info.scod = "BIN" -> ReadBinary(b, info)
      [] info # Garbled /\ info.type = "UINT" /\ info.scod = "HEX" -> ReadHex(b, info)
      [] info # Garbled /\ info.type \in {"SINT", "UINT"} /\ info.scod \notin {"BIN", "HEX"} ->
            ReadInteger(b, info)
      [] info # Garbled /\ info.type = "FLOA" -> ReadFloat(b, info)
      [] info # Garbled /\ info.type = "RAWD" -> ReadRaw(b, info)
      [] info # Garbled /\ info.type = "NONE" -> NotRead

(* Type info and value, noar times. *)
dlt_message_payload(l) ==
    FoldLeft(LAMBDA acc, num :
                 LET t == ReadValue(acc.rest, 4)
                     r == dlt_message_argument_print(t.rest, t.value)
                 IN  IF ~acc.ok \/ ~t.ok \/ ~r.ok THEN [acc EXCEPT !.ok = FALSE]
                     ELSE [ok |-> TRUE, rest |-> r.rest, read |-> Append(acc.read, r.value)],
             [ok |-> TRUE, rest |-> l.buffer, read |-> <<>>], [i \in 1..l.args |-> i])

(***************************************************************************)
(* A message is built call by call.                                        *)
(***************************************************************************)
(* A non-verbose message starts with its id. *)
ArgumentsInit ==
    /\ logBufLen \in BufferLengths
    /\ log \in {[buffer |-> <<>>, args |-> 0, verbose |-> TRUE],
                [buffer |-> Octets("id", 4), args |-> 0, verbose |-> FALSE]}
    /\ given = <<>> /\ writes = 0

WritesArgument ==
    /\ writes < MaxCalls
    /\ \E c \in WriteCalls :
          LET w == Write(log, c)
          IN  log' = w.log /\ given' = given \o w.read
    /\ writes' = writes + 1
    /\ UNCHANGED logBufLen

ArgumentsNext == WritesArgument

(***************************************************************************)
(* Properties.                                                             *)
(***************************************************************************)
(* Claimed unless an argument has no type, which the reader refuses, or a  *)
(* UTF-8 text was cut with fewer than three octets left for it, where the  *)
(* octets before the text decide.                                          *)
Claimed == \A j \in DOMAIN given : given[j] # Garbled /\ given[j].type # "NONE"

(* However many arguments of whatever kind are written until the buffer is *)
(* full, they stay within it, and a verbose message is read back as the    *)
(* arguments that were taken, with names and units, down to the last octet *)
(* (dlt_message_payload; a text that was cut as what was written of it).   *)
WrittenIsReadBack ==
    Claimed => /\ Len(log.buffer) <= logBufLen
               /\ log.verbose => LET r == dlt_message_payload(log)
                                 IN  r.ok /\ r.rest = <<>> /\ r.read = given

Follows(t, k, n) == n = 0 \/ (k + n <= Len(t) /\ \A i \in 1..n : t[k + i] = "cont")

(* A UTF-8 text is not cut inside a character: every lead octet is         *)
(* followed by as many more as it announces.                               *)
CharactersAreWhole ==
    \A j \in DOMAIN given :
        (given[j] # Garbled /\ given[j].type = "STRG") =>
            LET t == given[j].value
            IN  \A k \in DOMAIN t : /\ t[k] = "lead2" => Follows(t, k, 1)
                                    /\ t[k] = "lead3" => Follows(t, k, 2)
                                    /\ t[k] = "lead4" => Follows(t, k, 3)

(* What the library writes, whole or cut short, is what is read back.       *)
ArgumentsAreRead == WrittenIsReadBack /\ CharactersAreWhole
=============================================================================
