------------------------------- MODULE DltFile -------------------------------
(***************************************************************************)
(* Reading messages back (dlt_common.c): the filters, the file with its    *)
(* index of messages, the reader of a stream that the client library's     *)
(* main loop uses (dlt_client.c), and two tools that read files:           *)
(* dlt-convert, which can follow a file that still grows, and              *)
(* dlt-sortbytimestamp.                                                    *)
(*                                                                         *)
(* A file or a stream is a sequence of cells.  A message is a header cell  *)
(* (storage and standard header), a cell for the extended header if it has *)
(* one, and its payload; on a serial line, or in a raw file, a serial      *)
(* header comes before.  Between messages there may be junk, a message may *)
(* have lost the end of its payload, and a header may announce a length    *)
(* shorter than the header itself.                                         *)
(***************************************************************************)
EXTENDS Integers, Sequences, FiniteSets, SequencesExt, FiniteSetsExt

CONSTANTS
    Layouts,            \* [use, parts, serial, filter, ranges]: what is read, and how
    FilterAsks,         \* filters that are added and deleted
    MaxAsks,            \* bound: calls on the filters
    DLT_FILTER_MAX,
    IndexAlloc,         \* DLT_COMMON_INDEX_ALLOC: entries the index grows by
    MaxBuffer,          \* cells that fit the receiver's buffer
    TmspGap,            \* timestamps further apart: another boot (FIFTY_SEC_IN_MSEC)
    SysGap              \* system times as far apart: another boot (THREE_MIN_IN_SEC)

NoId == 0               \* an empty id: anything
AnyLevel == 0
Dashes == -1            \* "----" in a file of filters
MostPayload == 9        \* INT32_MAX

ASSUME FileAssumption ==
    /\ DLT_FILTER_MAX \in Nat \ {0} /\ IndexAlloc \in Nat \ {0}
    /\ MaxAsks \in Nat /\ MaxBuffer \in Nat \ {0}
    /\ TmspGap \in Nat /\ SysGap \in Nat \ {0}
    /\ \A l \in Layouts : l.use \in {"convert", "sort", "parse", "raw", "stream", "filters"}

VARIABLES
    layout,     \* which of the layouts is read, fixed at the start
    content,    \* its cells
    grown,      \* cells that are in the file, or that the line has carried
    file,       \* DltFile: index, counters, positions
    tool,       \* what reads it: its step, the messages it has put out, and those
                \* of which it put out a header with whatever payload it had
    stream,     \* the receiver's buffer of the client's main loop
    filters,    \* DltFilter
    saved,      \* a file of filters: [there, words, from], from the filters it was saved from
    asked       \* filters asked for and not deleted; loaded: what they were loaded from

fileVars == <<layout, content, grown, file, tool, stream, filters, saved, asked>>

(***************************************************************************)
(* Filters.                                                                *)
(***************************************************************************)
(* A filter in the list stands for another one. *)
Stands(e, f) ==
    /\ e.app = f.app /\ e.ctx = f.ctx
    /\ e.level \in {f.level, AnyLevel}
    /\ e.min <= f.min /\ e.max >= f.max

dlt_filter_find(fs, f) == SelectInSeq(fs, LAMBDA e : Stands(e, f))

(* mutant: the limits of the payload are not compared *)
dlt_filter_add_IdsOnly(fs, f) ==
    IF Len(fs) >= DLT_FILTER_MAX \/ \E e \in ToSet(fs) : e.app = f.app /\ e.ctx = f.ctx
    THEN fs
    ELSE Append(fs, f)
dlt_filter_add(fs, f) ==
    IF Len(fs) >= DLT_FILTER_MAX \/ dlt_filter_find(fs, f) # 0 THEN fs ELSE Append(fs, f)

(* The first one with the ids and limits, and the level or none. *)
dlt_filter_delete(fs, f) ==
    LET j == SelectInSeq(fs, LAMBDA e : /\ e.app = f.app /\ e.ctx = f.ctx
                                        /\ e.level \in {f.level, AnyLevel}
                                        /\ e.min = f.min /\ e.max = f.max)
    IN  IF j = 0 THEN fs ELSE RemoveAt(fs, j)

(* Only the ids are saved, an empty one as "----". *)
dlt_filter_save(fs) ==
    FlattenSeq([i \in DOMAIN fs |->
        [w \in 1..2 |-> LET id == IF w = 1 THEN fs[i].app ELSE fs[i].ctx
                        IN  IF id = NoId THEN Dashes ELSE id]])

WordId(w) == IF w = Dashes THEN NoId ELSE w

dlt_filter_load(words) ==
    FoldLeft(LAMBDA fs, i : dlt_filter_add(fs, [app |-> WordId(words[2 * i - 1]),
                                                ctx |-> WordId(words[2 * i]),
                                                level |-> AnyLevel, min |-> 0,
                                                max |-> MostPayload]),
             <<>>, [i \in 1..(Len(words) \div 2) |-> i])

Accepts(f, part) ==
    /\ f.app \in {NoId, part.app}
    /\ f.ctx \in {NoId, part.ctx}
    /\ f.level \in {AnyLevel, part.level}
    /\ f.min = 0 \/ f.min <= part.size
    /\ f.max = 0 \/ f.max >= part.size

dlt_message_filter_check(fs, part) ==
    fs = <<>> \/ ~part.ext \/ \E i \in DOMAIN fs : Accepts(fs[i], part)

(***************************************************************************)
(* Cells.                                                                  *)
(***************************************************************************)
CellsOf(l, k) ==
    LET p == l.parts[k]
        Copies(what, n) == [i \in 1..n |-> [is |-> what, m |-> k]]
    IN  IF p.kind = "junk"
        THEN Copies("junk", p.size)
        ELSE Copies("serial", IF l.serial THEN 1 ELSE 0) \o Copies("head", 1)
             \o Copies("ext", IF p.ext THEN 1 ELSE 0) \o Copies("data", p.kept)

ContentOf(l) == FlattenSeq([k \in DOMAIN l.parts |-> CellsOf(l, k)])
Disk == SubSeq(content, 1, grown)

Part(m) == layout.parts[m]
ExtSize(m) == IF Part(m).ext THEN 1 ELSE 0

(* First cell of a kind after position p (the cell at p + 1 is the next). *)
NextCell(c, p, what) ==
    LET found == {q \in (p + 1)..Len(c) : c[q].is = what}
    IN  IF found = {} THEN 0 ELSE Min(found)

Failed(m, at) == [ok |-> FALSE, m |-> m, at |-> at]

(***************************************************************************)
(* The file.  A reading is [ok, m, at]: the message whose header was read, *)
(* and where the file stands then.                                         *)
(***************************************************************************)
HeaderAt(c, q) ==
    IF q = 0 THEN Failed(0, Len(c))
    ELSE IF Part(c[q].m).size < 0 THEN Failed(c[q].m, q)
    ELSE [ok |-> TRUE, m |-> c[q].m, at |-> q]

dlt_file_read_header(c, p) == HeaderAt(c, NextCell(c, p, "head"))

(* With resync the next serial header is looked for; without serial        *)
(* headers the message is where the last one ended.                        *)
dlt_file_read_header_raw(c, p) ==
    LET s == NextCell(c, p, "serial")
    IN  IF ~layout.serial THEN HeaderAt(c, IF p < Len(c) THEN p + 1 ELSE 0)
        ELSE IF s = 0 \/ s + 1 > Len(c) THEN Failed(0, Len(c))
        ELSE HeaderAt(c, s + 1)

dlt_file_read_header_extended(c, r) ==
    IF ~r.ok THEN r
    ELSE IF r.at + ExtSize(r.m) > Len(c) THEN Failed(r.m, Len(c))
    ELSE [r EXCEPT !.at = r.at + ExtSize(r.m)]

dlt_file_read_data(c, r) ==
    LET size == Part(r.m).size
    IN  IF ~r.ok THEN r
        ELSE IF size > 0 /\ r.at + size > Len(c) THEN Failed(r.m, Len(c))
        ELSE [r EXCEPT !.at = r.at + size]

ReadWhole(c, r) == dlt_file_read_data(c, dlt_file_read_header_extended(c, r))

NoFile == [index |-> <<>>, room |-> 0, counter |-> 0, total |-> 0, position |-> 0,
           at |-> 0, handle |-> 0, length |-> 0, errors |-> 0]

(* index and its room outlive an opened file. *)
dlt_file_open(f) ==
    [NoFile EXCEPT !.index = f.index, !.room = f.room, !.length = grown]

(* The index is copied into a larger one each time a multiple is reached. *)
MoreRoom(f) ==
    IF f.counter % IndexAlloc # 0 THEN f
    ELSE [f EXCEPT !.index = SubSeq(f.index, 1, f.counter),
                   !.room = (f.counter \div IndexAlloc + 1) * IndexAlloc]

Indexed(f) ==
    [f EXCEPT !.index = Append(SubSeq(f.index, 1, f.counter), f.at),
              !.counter = f.counter + 1, !.position = f.counter]

(* One message further: into the index if it passes the filters.  The      *)
(* payload is skipped, so it need not be in the file yet.                  *)
dlt_file_read(c, f) ==
    LET g == MoreRoom(f)
        h == dlt_file_read_header(c, f.at)
        r == IF layout.filter THEN dlt_file_read_header_extended(c, h) ELSE h
        end == h.at + ExtSize(h.m) + Part(h.m).size
        passes == layout.filter => dlt_message_filter_check(filters, Part(h.m))
    IN  IF ~r.ok THEN [ok |-> FALSE, f |-> [g EXCEPT !.handle = f.at]]
        ELSE [ok |-> TRUE,
              f |-> [(IF passes THEN Indexed(g) ELSE g)
                        EXCEPT !.total = f.total + 1, !.at = end, !.handle = end]]

(* All of the message is read, and it always goes into the index. *)
dlt_file_read_raw(c, f) ==
    LET g == MoreRoom(f)
        lost == layout.serial /\ Len(c) > f.at /\ c[f.at + 1].is # "serial"
        h == [g EXCEPT !.errors = @ + IF lost THEN 1 ELSE 0]
        r == ReadWhole(c, dlt_file_read_header_raw(c, f.at))
    IN  IF ~r.ok THEN [ok |-> FALSE, m |-> 0, f |-> [h EXCEPT !.handle = f.at]]
        ELSE [ok |-> TRUE, m |-> r.m,
              f |-> [Indexed(h) EXCEPT !.total = f.total + 1, !.at = r.at, !.handle = r.at]]

(* The message with an index, from 0. *)
dlt_file_message(c, f, i) ==
    IF i >= f.counter THEN Failed(0, f.handle)
    ELSE ReadWhole(c, dlt_file_read_header(c, f.index[i + 1]))

(***************************************************************************)
(* The tools.                                                              *)
(***************************************************************************)
Reading == [step |-> "read", num |-> 0, end |-> -1, out |-> <<>>, cut |-> {}]

Opens ==
    /\ layout.use \in {"convert", "sort", "parse", "raw"} /\ tool.step = "start"
    /\ file' = dlt_file_open(file)
    /\ tool' = IF layout.use = "parse" THEN [Reading EXCEPT !.step = "parse"] ELSE Reading
    /\ UNCHANGED <<layout, content, grown, stream, filters, saved, asked>>

(* while (dlt_file_read() >= DLT_RETURN_OK) *)
Reads ==
    /\ tool.step = "read" /\ layout.use # "raw"
    /\ LET r == dlt_file_read(Disk, file)
       IN  /\ file' = r.f
           /\ tool' = IF r.ok THEN tool
                      ELSE IF tool.end = -1 THEN [tool EXCEPT !.step = "loaded"]
                      ELSE [tool EXCEPT !.step = "follow"]
    /\ UNCHANGED <<layout, content, grown, stream, filters, saved, asked>>

ReadsRaw ==
    /\ tool.step = "read" /\ layout.use = "raw"
    /\ LET r == dlt_file_read_raw(Disk, file)
       IN  /\ r.ok \/ r.f # file
           /\ file' = r.f
           /\ tool' = IF r.ok THEN [tool EXCEPT !.out = Append(@, r.m)] ELSE tool
    /\ file'.errors <= 2       \* bound: errors counted, again at each try
    /\ UNCHANGED <<layout, content, grown, stream, filters, saved, asked>>

(* An empty range ends the tool. *)
ConvertStarts ==
    /\ tool.step = "loaded" /\ layout.use = "convert"
    /\ tool' = IF file.counter = 0 THEN [tool EXCEPT !.step = "refused"]
               ELSE [tool EXCEPT !.step = "show", !.end = file.counter - 1]
    /\ UNCHANGED <<layout, content, grown, file, stream, filters, saved, asked>>

(* A message of which the payload could not be read is put out all the     *)
(* same, with what an earlier one left in the buffer, and not read again.  *)
ConvertShows ==
    /\ tool.step = "show"
    /\ LET r == dlt_file_message(Disk, file, tool.num)
       IN  /\ file' = [file EXCEPT !.handle = r.at, !.position = IF r.ok THEN tool.num ELSE @]
           /\ tool' = [tool EXCEPT !.out = IF r.ok THEN Append(@, r.m) ELSE @,
                                   !.cut = IF r.ok THEN @ ELSE @ \cup {r.m},
                                   !.num = @ + 1,
                                   !.step = IF tool.num = tool.end THEN "read" ELSE "show"]
    /\ UNCHANGED <<layout, content, grown, stream, filters, saved, asked>>

(* mutant: without a new message the tool ends *)
ConvertFollows_Ends ==
    /\ tool.step = "follow"
    /\ tool' = IF tool.end = file.counter - 1
               THEN [tool EXCEPT !.step = "refused"]
               ELSE [tool EXCEPT !.end = file.counter - 1, !.step = "show"]
    /\ UNCHANGED <<layout, content, grown, file, stream, filters, saved, asked>>

(* mutant: the message at the old end is put out again *)
ConvertFollows_Again ==
    /\ tool.step = "follow"
    /\ tool' = IF tool.end = file.counter - 1
               THEN [tool EXCEPT !.step = "read"]
               ELSE [tool EXCEPT !.end = file.counter - 1, !.num = tool.end, !.step = "show"]
    /\ UNCHANGED <<layout, content, grown, file, stream, filters, saved, asked>>
(* New messages, or another try after a pause. *)
ConvertFollows ==
    /\ tool.step = "follow"
    /\ tool' = IF tool.end = file.counter - 1
               THEN [tool EXCEPT !.step = "read"]
               ELSE [tool EXCEPT !.end = file.counter - 1, !.step = "show"]
    /\ UNCHANGED <<layout, content, grown, file, stream, filters, saved, asked>>

(* One round of the loop; a message that does not pass changes nothing but *)
(* where the file stands.                                                  *)
dlt_file_quick_parsing ==
    /\ tool.step = "parse"
    /\ LET r == ReadWhole(Disk, dlt_file_read_header(Disk, file.handle))
           passes == layout.filter => dlt_message_filter_check(filters, Part(r.m))
       IN  IF file.at >= file.length \/ ~r.ok
           THEN /\ file' = [file EXCEPT !.handle = r.at]
                /\ tool' = [tool EXCEPT !.step = "parsed"]
           ELSE IF ~passes
           THEN /\ file' = [file EXCEPT !.handle = r.at]
                /\ UNCHANGED tool
           ELSE /\ file' = [file EXCEPT !.counter = @ + 1, !.position = file.total - 1,
                                        !.total = @ + 1, !.at = r.at, !.handle = r.at]
                /\ tool' = [tool EXCEPT !.out = Append(@, r.m)]
    /\ UNCHANGED <<layout, content, grown, stream, filters, saved, asked>>

(***************************************************************************)
(* dlt-sortbytimestamp: by system time, then each boot by timestamp.       *)
(* Equal ones keep their order, as the merge sort of glibc's qsort does.   *)
(***************************************************************************)
SortedBy(s, field) ==
    LET order == SortSeq([i \in DOMAIN s |-> i],
                         LAMBDA i, j : s[i][field] < s[j][field]
                                       \/ (s[i][field] = s[j][field] /\ i < j))
    IN  [i \in DOMAIN s |-> s[order[i]]]

Distance(a, b) == IF a < b THEN b - a ELSE a - b

FarApart(a, b) == Distance(a.tmsp, b.tmsp) > TmspGap \/ Distance(a.sys, b.sys) >= SysGap

(* mutant: the last boot is only looked for before the last message *)
BootEnds_Short(t, n) == {i \in 1..(n - 1) : FarApart(t[i + 1], t[i])}
(* Messages after which the next one belongs to another boot; the last one *)
(* is compared with a copy of the first.                                   *)
BootEnds(t, n) == {i \in 1..n : FarApart(t[i + 1], t[i])}

(* Messages begin..end of the file; a range that starts later is not       *)
(* modelled, the tool then reads behind its array.                         *)
SortedOutput(entries) ==
    LET n == Len(entries)
        t == Append(SortedBy(entries, "sys"), entries[1])
        ends == SetToSortSeq(BootEnds(t, n), <)
        Boot(j) == SortedBy(SubSeq(t, IF j = 1 THEN 1 ELSE ends[j - 1] + 1, ends[j]), "tmsp")
    IN  IF ends = <<>>
        THEN SubSeq(SortedBy(t, "tmsp"), 1, n)
        ELSE FlattenSeq([j \in DOMAIN ends |-> Boot(j)])

SortWrites ==
    /\ tool.step = "loaded" /\ layout.use = "sort"
    /\ IF file.counter = 0
       THEN tool' = [tool EXCEPT !.step = "refused"]
       ELSE LET Entry(i) == LET m == dlt_file_message(Disk, file, i).m
                            IN  [m |-> m, sys |-> Part(m).sys, tmsp |-> Part(m).tmsp]
                s == SortedOutput([i \in 1..file.counter |-> Entry(i - 1)])
            IN  tool' = [tool EXCEPT !.step = "sorted", !.out = [i \in DOMAIN s |-> s[i].m]]
    /\ UNCHANGED <<layout, content, grown, file, stream, filters, saved, asked>>

(***************************************************************************)
(* The client's main loop over a stream.                                   *)
(***************************************************************************)
(* A whole message in the buffer; with a serial line after the next serial *)
(* header.  at: cells the caller removes, those before the serial header   *)
(* not counted.                                                            *)
dlt_message_read(buf) ==
    LET s == IF layout.serial THEN NextCell(buf, 0, "serial") ELSE 0
        h == IF (layout.serial => s # 0) /\ s + 1 \in DOMAIN buf THEN HeaderAt(buf, s + 1)
             ELSE Failed(0, 0)
        size == IF h.ok THEN ExtSize(h.m) + Part(h.m).size ELSE 0
    IN  IF ~h.ok \/ h.at + size > Len(buf) THEN Failed(0, 0)
        ELSE [ok |-> TRUE, m |-> h.m, at |-> 1 + size + IF layout.serial THEN 1 ELSE 0]

(* dlt_receiver_receive: what has come, as much as fits; nothing ends it. *)
StreamReceives ==
    /\ layout.use = "stream" /\ stream.step = "receive"
    /\ \/ \E n \in 1..Len(content) :
             /\ n <= MaxBuffer - Len(stream.buf) /\ grown + n <= Len(content)
             /\ grown' = grown + n
             /\ stream' = [stream EXCEPT !.buf = @ \o SubSeq(content, grown + 1, grown + n),
                                         !.step = "handle"]
       \/ /\ Len(stream.buf) = MaxBuffer \/ grown = Len(content)
          /\ stream' = [stream EXCEPT !.step = "ended"]
          /\ UNCHANGED grown
    /\ UNCHANGED <<layout, content, file, tool, filters, saved, asked>>

dlt_client_main_loop ==
    /\ stream.step = "handle"
    /\ LET r == dlt_message_read(stream.buf)
       IN  IF r.ok
           THEN /\ tool' = [tool EXCEPT !.out = Append(@, r.m)]
                /\ stream' = [stream EXCEPT !.buf = SubSeq(@, r.at + 1, Len(@))]
           ELSE /\ stream' = [stream EXCEPT !.step = "receive"]
                /\ UNCHANGED tool
    /\ UNCHANGED <<layout, content, grown, file, filters, saved, asked>>

(***************************************************************************)
(* The surroundings, and the calls on the filters before a file is opened. *)
(***************************************************************************)
Grows ==
    /\ layout.use \in {"convert", "raw"} /\ tool.step # "start"
    /\ grown < Len(content)
    /\ grown' = grown + 1
    /\ UNCHANGED <<layout, content, file, tool, stream, filters, saved, asked>>

Asks == layout.use = "filters" /\ asked.calls < MaxAsks

AddsFilter ==
    /\ Asks
    /\ \E f \in FilterAsks :
          /\ filters' = dlt_filter_add(filters, f)
          /\ asked' = [asked EXCEPT !.calls = @ + 1, !.loaded = FALSE,
                                    !.are = IF Len(filters) < DLT_FILTER_MAX
                                            THEN @ \cup {f} ELSE @]
    /\ UNCHANGED <<layout, content, grown, file, tool, stream, saved>>

DeletesFilter ==
    /\ Asks
    /\ \E f \in FilterAsks :
          /\ filters' = dlt_filter_delete(filters, f)
          /\ asked' = [calls |-> asked.calls + 1, loaded |-> FALSE, are |-> ToSet(filters')]
    /\ UNCHANGED <<layout, content, grown, file, tool, stream, saved>>

SavesFilters ==
    /\ Asks
    /\ saved' = [there |-> TRUE, words |-> dlt_filter_save(filters), from |-> filters]
    /\ asked' = [asked EXCEPT !.calls = @ + 1]
    /\ UNCHANGED <<layout, content, grown, file, tool, stream, filters>>

(* Without a file the filters stay. *)
LoadsFilters ==
    /\ Asks /\ saved.there
    /\ filters' = dlt_filter_load(saved.words)
    /\ asked' = [calls |-> asked.calls + 1, loaded |-> TRUE, are |-> {}]
    /\ UNCHANGED <<layout, content, grown, file, tool, stream, saved>>

FileInit ==
    /\ layout \in Layouts
    /\ content = ContentOf(layout)
    /\ grown \in IF layout.use \in {"convert", "raw"} THEN 0..Len(content)
                 ELSE IF layout.use = "stream" THEN {0} ELSE {Len(content)}
    /\ file = NoFile
    /\ tool = [Reading EXCEPT !.step = "start"]
    /\ stream = [step |-> "receive", buf |-> <<>>]
    /\ filters = layout.filters
    /\ saved = [there |-> FALSE, words |-> <<>>, from |-> <<>>]
    /\ asked = [calls |-> 0, loaded |-> FALSE, are |-> ToSet(layout.filters)]

ConvertSteps == Opens \/ Reads \/ ConvertStarts \/ ConvertShows \/ ConvertFollows

FileNext ==
    \/ ConvertSteps \/ ReadsRaw \/ dlt_file_quick_parsing \/ SortWrites \/ StreamReceives
    \/ dlt_client_main_loop \/ Grows \/ AddsFilter \/ DeletesFilter \/ SavesFilters \/ LoadsFilters

(* The tool goes on, and what is logged gets into the file. *)
FileFairness == WF_fileVars(ConvertSteps) /\ WF_fileVars(Grows)

(***************************************************************************)
(* Properties.                                                             *)
(***************************************************************************)
Messages == {k \in DOMAIN layout.parts : Part(k).kind = "msg"}

(* A message that can be found: it is whole, the one before it is, and no  *)
(* header before it announces an impossible length.                        *)
Sound(k) ==
    LET before == {j \in Messages : j < k}
    IN  /\ k \in Messages /\ Part(k).size >= 0 /\ Part(k).kept = Part(k).size
        /\ \A j \in before : Part(j).size >= 0
        /\ before # {} => Part(Max(before)).kept = Part(Max(before)).size

Wanted(k) == Sound(k) /\ (layout.filter => dlt_message_filter_check(filters, Part(k)))

Ascending(s) == \A i, j \in DOMAIN s : i < j => s[i] < s[j]

EndOf(k) == Max({q \in DOMAIN content : content[q].m = k})

(* Reading and fetching messages in any order while the file grows, the    *)
(* index holds every sound message the reader has passed that passes the   *)
(* filters, in the order of the file and each once: dlt_file_message finds *)
(* the message that dlt_file_read counted, also behind junk or a message   *)
(* with lost payload, and reads all of it once it is there, and the index  *)
(* never outgrows its memory.                                              *)
IndexFindsMessages ==
    (layout.use = "convert" /\ tool.step # "start") =>
        LET fetched == [i \in 1..file.counter |-> dlt_file_message(Disk, file, i - 1)]
            got == [i \in 1..file.counter |-> fetched[i].m]
        IN  /\ file.counter <= file.room
            /\ Ascending(got)
            /\ \A k \in Messages : Wanted(k) /\ EndOf(k) <= Min({file.at, grown}) =>
                   \E i \in DOMAIN fetched : fetched[i].m = k /\ fetched[i].ok
            /\ layout.filter => \A i \in DOMAIN got :
                                    dlt_message_filter_check(filters, Part(got[i]))

(* A reader that follows a growing file, or parses a whole one, and the    *)
(* client's main loop put out each sound message once and in order: what   *)
(* is cut by the end of the file or of the buffer, or lies behind junk, is *)
(* not put out twice and not passed over.                                  *)
EachPutOutOnce ==
    /\ layout.use \in {"convert", "raw", "parse", "stream"} => Ascending(tool.out)
    /\ tool.step = "parsed" => \A k \in Messages : Wanted(k) => k \in ToSet(tool.out)
    /\ layout.use = "stream" /\ stream.step = "receive" =>
        \A k \in Messages : Sound(k) /\ EndOf(k) <= grown => k \in ToSet(tool.out)

(* dlt-convert that follows a file in the end shows every sound message    *)
(* that passes the filters, once it has found a first one: whole, or cut   *)
(* if it fetched it before the payload was there.                          *)
FollowerShowsAll ==
    (layout.use = "convert" /\ tool.step = "show") ~>
        (\A k \in Messages : Wanted(k) => k \in ToSet(tool.out) \cup tool.cut)

(* False: a message that was cut is not read again when its payload comes; *)
(* the usage says "Follow dlt file while file is increasing".              *)
FollowerShowsWhole ==
    (layout.use = "convert" /\ tool.step = "show") ~>
        (\A k \in Messages : Wanted(k) => k \in ToSet(tool.out))

(* A filter that was asked for and not deleted is in force, on its own or  *)
(* through one that was there before; filters that were saved and loaded   *)
(* accept at least what they accepted when they were saved.                *)
FiltersInForce ==
    layout.use = "filters" =>
        /\ \A f \in asked.are, p \in ToSet(layout.parts) :
              p.ext /\ f.max # 0 /\ Accepts(f, p) => dlt_message_filter_check(filters, p)
        /\ asked.loaded => \A p \in ToSet(layout.parts) :
              dlt_message_filter_check(saved.from, p) => dlt_message_filter_check(filters, p)

(* The messages of a file to be sorted, by system time, and by boot: two   *)
(* are of one boot when no neighbours in that order, from the one to the   *)
(* other, are far apart.                                                   *)
Earlier(a, b) == Part(a).sys < Part(b).sys \/ (Part(a).sys = Part(b).sys /\ a < b)

Neighbours(a, b) ==
    Earlier(a, b) /\ ~\E c \in Messages : Earlier(a, c) /\ Earlier(c, b)

SameBoot(a, b) ==
    ~\E c, d \in Messages :
        /\ Neighbours(c, d) /\ FarApart(Part(c), Part(d))
        /\ ~Earlier(c, a) \/ ~Earlier(c, b)
        /\ ~Earlier(a, d) \/ ~Earlier(b, d)

(* The order that the tool's output should have.                           *)
Precedes(a, b) ==
    IF SameBoot(a, b)
    THEN Part(a).tmsp < Part(b).tmsp \/ (Part(a).tmsp = Part(b).tmsp /\ Earlier(a, b))
    ELSE Earlier(a, b)

(* dlt-sortbytimestamp, once it has found the end of a boot, writes boot   *)
(* after boot, each by timestamp and no message twice, and loses none but  *)
(* all of the last boot, and that only when its last message is not far    *)
(* from the first of the file.                                             *)
SortedByBoots ==
    tool.step = "sorted" =>
        LET last == CHOOSE a \in Messages : ~\E b \in Messages : Earlier(a, b)
            lastEnds == FarApart(Part(last), Part(Min(Messages)))
        IN  (lastEnds \/ \E a \in Messages : ~SameBoot(a, last)) =>
                /\ \A i, j \in DOMAIN tool.out :
                      i < j => tool.out[i] # tool.out[j] /\ Precedes(tool.out[i], tool.out[j])
                /\ \A a \in Messages :
                      a \in ToSet(tool.out) <=> lastEnds \/ ~SameBoot(a, last)

(* dlt-sortbytimestamp writes every message it read once, in whatever      *)
(* order.                                                                  *)
SortedIsComplete ==
    tool.step = "sorted" =>
        /\ Len(tool.out) = file.counter
        /\ ToSet(tool.out) = {dlt_file_message(Disk, file, i - 1).m : i \in 1..file.counter}

(* The index finds the messages, and a reader puts out each one once.       *)
MessagesAreFound == IndexFindsMessages /\ EachPutOutOnce
=============================================================================
