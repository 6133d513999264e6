-------------------------- MODULE DltOfflineTrace ---------------------------
(***************************************************************************)
(* The offline trace (src/shared/dlt_offline_trace.c): a directory of      *)
(* files of bounded size into which the daemon writes every message when   *)
(* it is configured to; the oldest files go when a new one would not fit.  *)
(*                                                                         *)
(* A file is a record [cells, mtime]: its bytes, each <<message, part>>,   *)
(* and the second of its last write.  Its name is the index or the second  *)
(* it was made from.                                                       *)
(***************************************************************************)
EXTENDS Integers, Sequences, FiniteSets, SequencesExt

CONSTANTS
    TraceFileSize,  \* trace->fileSize
    TraceMaxSize,   \* trace->maxSize
    TraceSizes,     \* sizes of messages with their storage header
    TraceWrites,    \* bound: messages
    TraceSeconds,   \* bound: seconds of the clock
    TraceStarts     \* bound: starts of the daemon

ASSUME TraceAssumption ==
    /\ TraceFileSize \in Nat \ {0} /\ TraceMaxSize \in Nat /\ TraceFileSize <= TraceMaxSize
    /\ TraceSizes \subseteq 1 .. TraceFileSize - 1

VARIABLES
    trace,      \* [stamp, file, pos]: filenameTimestampBased, the open file
                \* (<<>> for ohandle = -1) and the offset in it
    files,      \* the directory: name -> file
    clock,      \* time(NULL)
    broken,     \* files cannot be created or written at the moment
    crowded,    \* two files were made within one second (history)
    offered,    \* messages so far
    kept,       \* messages written completely (history)
    starts      \* starts so far

traceVars == <<trace, files, clock, broken, crowded, offered, kept, starts>>

Closed == [file |-> <<>>, pos |-> 0]

-----------------------------------------------------------------------------
(* dlt_offline_trace_storage_dir_info, _get_idx_of_log_file: the index of   *)
(* the newest file named by index, 0 when there is none.                    *)
NewestIndex(dir) == Max({0} \cup {n[2] : n \in {m \in DOMAIN dir : m[1] = "index"}})

(* dlt_offline_trace_file_name, or the time stamp                           *)
file_name(stamp, dir) ==
    IF stamp THEN <<"stamp", clock>> ELSE <<"index", NewestIndex(dir) + 1>>

(* dlt_offline_trace_create_new_file: a file that has the name already is   *)
(* opened at its start and not truncated.                                   *)
create_new_file(t, dir) ==
    LET name == file_name(t.stamp, dir)
    IN  IF broken THEN [t |-> [stamp |-> t.stamp] @@ Closed, dir |-> dir]
        ELSE [t |-> [stamp |-> t.stamp, file |-> name, pos |-> 0],
              dir |-> dir @@ (name :> [cells |-> <<>>, mtime |-> clock])]

(* dlt_offline_trace_get_total_size                                         *)
get_total_size(dir) == FoldLeft(LAMBDA s, n : s + Len(dir[n].cells), 0, SetToSeq(DOMAIN dir))

(* dlt_offline_trace_delete_oldest_file: by modification time; readdir's    *)
(* order decides between equal times.                                       *)
delete_oldest_file(dir) ==
    {[m \in DOMAIN dir \ {n} |-> dir[m]] :
        n \in {m \in DOMAIN dir : \A k \in DOMAIN dir : dir[m].mtime <= dir[k].mtime}}

(* A new file of full size fits into the complete trace.                    *)
Fits(dir) == get_total_size(dir) <= TraceMaxSize - TraceFileSize

(* dlt_offline_trace_check_size: the directories it may leave behind.  The  *)
(* loop removes one file a round, so it takes as many as there are files.   *)
check_size(dir) ==
    LET Round(ds, i) == UNION {IF Fits(d) \/ DOMAIN d = {} THEN {d} ELSE delete_oldest_file(d)
                               : d \in ds}
    IN  FoldLeft(Round, {dir}, [i \in 1 .. Cardinality(DOMAIN dir) |-> i])

(* write(2) at an offset: bytes that are there are overwritten.             *)
Overwrite(cells, pos, new) ==
    SubSeq(cells, 1, pos) \o new \o SubSeq(cells, pos + Len(new) + 1, Len(cells))

-----------------------------------------------------------------------------
(* Two files carry one second when a file is made while another one has     *)
(* been written to in the same second.                                      *)
Crowds(old, r) ==
    r.t.file # <<>> /\ \E n \in DOMAIN old : old[n].mtime = clock

(* dlt_offline_trace_init, at the start of the daemon                       *)
trace_init(stamp) ==
    /\ starts < TraceStarts /\ starts' = starts + 1
    /\ trace.file = <<>>
    /\ \E dir \in check_size(files) :
           LET r == create_new_file([stamp |-> stamp] @@ Closed, dir)
           IN  trace' = r.t /\ files' = r.dir /\ crowded' = (crowded \/ Crowds(files, r))
    /\ UNCHANGED <<clock, broken, offered, kept>>

(* dlt_offline_trace_write: without an open file it fails.  A message that  *)
(* would fill the file goes to a new one; if that cannot be made it is lost *)
(* and the result is OK.  A failing write may leave the first parts.        *)
trace_write(size) ==
    /\ offered < TraceWrites /\ offered' = offered + 1
    /\ trace.file # <<>>
    /\ \E dir \in IF trace.pos + size >= TraceFileSize THEN check_size(files) ELSE {files},
          part \in IF broken THEN 0 .. size - 1 ELSE {size} :
           LET r == IF trace.pos + size >= TraceFileSize THEN create_new_file(trace, dir)
                    ELSE [t |-> trace, dir |-> dir]
               n == r.t.file
               cells == [i \in 1 .. part |-> <<offered + 1, i>>]
           IN  /\ crowded' = (crowded \/ (trace.pos + size >= TraceFileSize /\ Crowds(files, r)))
               /\ trace' = IF n = <<>> THEN r.t ELSE [r.t EXCEPT !.pos = @ + part]
               /\ files' = IF n = <<>> \/ part = 0 THEN r.dir
                           ELSE [r.dir EXCEPT ![n] = [cells |-> Overwrite(@.cells, r.t.pos, cells),
                                                      mtime |-> clock]]
               /\ kept' = IF n # <<>> /\ part = size THEN kept \cup {offered + 1} ELSE kept
    /\ UNCHANGED <<clock, broken, starts>>

(* dlt_offline_trace_free, or the daemon dies                               *)
trace_free ==
    /\ trace.file # <<>>
    /\ trace' = [stamp |-> trace.stamp] @@ Closed
    /\ UNCHANGED <<files, clock, broken, crowded, offered, kept, starts>>

(* The clock, and a device that refuses writes for a while.                 *)
TraceTick ==
    /\ clock < TraceSeconds /\ clock' = clock + 1
    /\ UNCHANGED <<trace, files, broken, crowded, offered, kept, starts>>

TraceBreak ==
    /\ broken' = ~broken
    /\ UNCHANGED <<trace, files, clock, crowded, offered, kept, starts>>

TraceInit ==
    /\ trace = [stamp |-> FALSE] @@ Closed /\ files = <<>> /\ clock = 0 /\ broken = FALSE
    /\ crowded = FALSE /\ offered = 0 /\ kept = {} /\ starts = 0

TraceNext ==
    \/ \E stamp \in BOOLEAN : trace_init(stamp)
    \/ \E size \in TraceSizes : trace_write(size)
    \/ trace_free
    \/ TraceTick
    \/ TraceBreak

-----------------------------------------------------------------------------
(* The files together never exceed the configured size, whatever was left   *)
(* by earlier starts and by writes that failed half way.                    *)
TraceBounded == get_total_size(files) <= TraceMaxSize

(* As long as no two files fell into one second, what is dropped is older   *)
(* than what is kept: every completely written message newer than the       *)
(* oldest one found in the files is found there too, in one file only.      *)
TraceIsRecent ==
    LET cells == UNION {Range(files[n].cells) : n \in DOMAIN files}
        seen == {c[1] : c \in cells}
        whole == {m \in seen : \E n \in DOMAIN files :
                     {c \in Range(files[n].cells) : c[1] = m} = {c \in cells : c[1] = m}}
    IN  ~crowded => \A m \in kept : (\E o \in seen : o < m) => m \in whole

(* The trace stays within its size and gives up only its oldest messages.   *)
TraceKeepsNewest == TraceBounded /\ TraceIsRecent
=============================================================================
