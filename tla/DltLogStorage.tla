--------------------------- MODULE DltLogStorage ---------------------------
(***************************************************************************)
(* One log storage device: how the messages its filters select reach the   *)
(* files of the device (src/offlinelogstorage/dlt_offline_logstorage.c and *)
(* dlt_offline_logstorage_behavior.c, called from                          *)
(* src/daemon/dlt_daemon_offline_logstorage.c).                            *)
(*                                                                         *)
(* All filters of the device store under one file name, so a file is named *)
(* by its number (and, with time stamps, the time it was created).  Sizes  *)
(* are in units: message m of size n is the cells <<m, 1>> .. <<m, n>>,    *)
(* and the first cell is the one that carries the DLT header.  A file is a *)
(* sequence of cells; dir maps names to inodes, so a file that was removed *)
(* while a filter still has it open can be told from the one in use.       *)
(***************************************************************************)
EXTENDS DltStorageFilters

CONSTANTS
    Scenarios,      \* records [sections, kinds, sizes, stamp, full, removal, syncs, stops]:
                    \* a configuration, the messages ([app, ctx, level]) and what may happen
    Ecu,            \* the ECU identifier of the daemon
    MaxCounter,     \* offlineLogstorageMaxCounter
    MaxErrors,      \* DLT_OFFLINE_LOGSTORAGE_MAX_WRITE_ERRORS
    CacheMax,       \* g_logstorage_cache_max, in units
    FooterSize,     \* sizeof(DltLogStorageCacheFooter), in units
    MaxMessages,    \* bound: messages of a behaviour
    MaxStops        \* bound: exits, crashes and disconnects of a behaviour

VARIABLES
    ub,         \* a call with undefined behaviour was made
    scenario,   \* what this behaviour may do
    dir,        \* the device's directory: name -> inode
    data,       \* inode -> sequence of cells
    dev,        \* the DltLogStorage handle
    cfg,        \* its filters' run-time state, in list order; <<>> when not configured
    cacheSize,  \* g_logstorage_cache_size
    full,       \* the device accepts no more data
    sent,       \* the sizes of the messages so far
    stored,     \* messages handed to a file, in order (history)
    stops       \* exits, crashes and disconnects so far

storageVars == <<ub, scenario, dir, data, dev, cfg, cacheSize, full, sent, stored, stops>>

-----------------------------------------------------------------------------
(***************************************************************************)
(* File names.  A device state d is the record of dir, data, one filter's  *)
(* run-time state c and its configuration f, passed from step to step of   *)
(* one call.                                                               *)
(***************************************************************************)

(* The run-time part of a DltLogStorageFilterConfig after loading.           *)
FreshConfig ==
    [log |-> None, err |-> FALSE, buf |-> <<>>, working |-> None, wrap |-> 0,
     cache |-> None, offset |-> 0]

(* dlt_logstorage_log_file_name: with the handle's own, still empty, user    *)
(* configuration there is neither delimiter nor padding nor time stamp.      *)
log_file_name(uconfig, idx) ==
    [idx |-> idx, stray |-> ~uconfig,
     stamp |-> IF uconfig /\ scenario.stamp THEN Cardinality(DOMAIN data) + 1 ELSE 0]

(* dlt_logstorage_get_idx_of_log_file                                        *)
get_idx_of_log_file(name) == name.idx

(* dlt_logstorage_sort_file_name: by number; scandir lists equal numbers by  *)
(* time stamp, and the sort is stable.                                       *)
sort_file_name(names) ==
    SetToSortSeq(names, LAMBDA a, b : a.idx < b.idx \/ (a.idx = b.idx /\ a.stamp < b.stamp))

(* mutant: keeps the order of the numbers                                     *)
rearrange_file_name_Never(recs) == recs

(* dlt_logstorage_rearrange_file_name: the files behind the first gap in the *)
(* numbers are older than those before it.                                   *)
rearrange_file_name(recs) ==
    LET gaps == {k \in 1 .. Len(recs) - 1 : recs[k + 1].idx - recs[k].idx # 1}
    IN  IF Len(recs) < 2 \/ recs[1].idx # 1 \/ gaps = {} THEN recs
        ELSE SubSeq(recs, Min(gaps) + 1, Len(recs)) \o SubSeq(recs, 1, Min(gaps))

(* dlt_logstorage_storage_dir_info: the files of the name, oldest first.     *)
storage_dir_info(uconfig, d) ==
    LET recs == sort_file_name({n \in DOMAIN d.dir : uconfig /\ ~n.stray})
    IN  IF Len(recs) > 1 /\ Last(recs).idx = MaxCounter THEN rearrange_file_name(recs) ELSE recs

(* fopen(name, "a+"): opens or creates the file; NULL on a full device.      *)
fopen(d, name) ==
    IF name \in DOMAIN d.dir
    THEN [d EXCEPT !.c.log = d.dir[name], !.c.err = FALSE]
    ELSE IF full THEN [d EXCEPT !.c.log = None]
    ELSE LET ino == Cardinality(DOMAIN d.data) + 1
         IN  [d EXCEPT !.dir = (name :> ino) @@ d.dir, !.data = (ino :> <<>>) @@ d.data,
                       !.c.log = ino, !.c.err = FALSE]

remove(d, name) == [d EXCEPT !.dir = [n \in DOMAIN d.dir \ {name} |-> d.dir[n]]]

(* fwrite fills the buffer of the stream; fflush hands it to the file.  On a *)
(* full device the data is dropped and the error stays with the stream.      *)
fwrite(d, cells) == [d EXCEPT !.c.buf = @ \o cells]

fflush(d) ==
    IF full /\ d.c.buf # <<>> THEN [d EXCEPT !.c.buf = <<>>, !.c.err = TRUE]
    ELSE [d EXCEPT !.c.buf = <<>>, !.data[d.c.log] = @ \o d.c.buf,
                   !.stored = @ \o SelectSeq(d.c.buf, LAMBDA cell : cell[2] = 1)]

(* Closing a NULL stream is undefined.                                       *)
fclose(d) == IF d.c.log = None THEN [d EXCEPT !.ub = TRUE]
             ELSE [fflush(d) EXCEPT !.c.log = None]

-----------------------------------------------------------------------------
(***************************************************************************)
(* dlt_logstorage_open_log_file                                            *)
(***************************************************************************)

(* No file yet: the first one.                                               *)
OpenFirst(uconfig, d) ==
    fopen([d EXCEPT !.c.working = log_file_name(uconfig, 1)], log_file_name(uconfig, 1))

(* The working file is full or gone: the next number, after MaxCounter 1     *)
(* again.  Once wrapped, a file of that name is replaced; above the limit    *)
(* the head of the list is removed, also when the new file was not opened.   *)
OpenNext(uconfig, d, recs) ==
    LET last == get_idx_of_log_file(d.c.working)
        idx == IF last + 1 > MaxCounter THEN 1 ELSE last + 1
        name == log_file_name(uconfig, idx)
        d1 == [d EXCEPT !.c.working = name, !.c.wrap = IF idx = 1 THEN @ + 1 ELSE @]
        replaced == d1.c.wrap # 0 /\ name \in DOMAIN d.dir
        d2 == fopen(IF replaced THEN remove(d1, name) ELSE d1, name)
        num == Len(recs) + (IF replaced THEN 0 ELSE 1)
    IN  IF num > d.f.files THEN remove(d2, Head(Append(recs, name))) ELSE d2

(* What the caller is told: -1 also when the working file could not be       *)
(* found, although a new one is open.                                        *)
OpenResult(opened, lost) ==
    IF opened.c.log = None THEN [opened EXCEPT !.c.working = None, !.ret = -1]
    ELSE [opened EXCEPT !.ret = IF lost THEN -1 ELSE 0]

(* The newest file, or after a wrap the working file, is continued when the  *)
(* data fits; recs: the files of the filter, the oldest first.               *)
OpenAmong(uconfig, d, need, recs) ==
    LET working == IF recs = <<>> THEN None
                   ELSE IF d.c.wrap = 0 \/ d.c.working = None THEN Last(recs) ELSE d.c.working
        d0 == [d EXCEPT !.c.working = working]
        found == working \in DOMAIN d.dir
        size == Len(d.data[d.dir[working]])
    IN  OpenResult(IF recs = <<>> THEN OpenFirst(uconfig, d)
                   ELSE IF found /\ size + need <= d.f.size
                   THEN [fopen(d0, working) EXCEPT !.c.offset = size]
                   ELSE OpenNext(uconfig, d0, recs), recs # <<>> /\ ~found)

open_log_file(uconfig, d, need) == OpenAmong(uconfig, d, need, storage_dir_info(uconfig, d))

-----------------------------------------------------------------------------
(***************************************************************************)
(* Strategy ON_MSG: every message goes to the file at once.                *)
(***************************************************************************)

(* The part of dlt_logstorage_prepare_on_msg that takes over the newest file *)
(* of the name, which another filter may have opened.                        *)
TakeNewest(d, newest) == [d EXCEPT !.c.wrap = newest.wrap, !.c.working = newest.file]

(* dlt_logstorage_prepare_on_msg                                             *)
prepare_on_msg(uconfig, d, need, newest) ==
    IF d.c.log = None
    THEN open_log_file(uconfig, IF d.c.wrap < newest.wrap THEN TakeNewest(d, newest) ELSE d, need)
    ELSE IF \/ Len(d.data[d.c.log]) + need > d.f.size
            \/ d.c.working # newest.file
            \/ d.c.wrap < newest.wrap
    THEN LET closed == fclose(d)
         IN  open_log_file(uconfig,
                           IF d.c.wrap <= newest.wrap THEN TakeNewest(closed, newest) ELSE closed,
                           need)
    ELSE [d EXCEPT !.ret = 0]

(* dlt_logstorage_write_on_msg: an earlier error of the stream is returned.  *)
write_on_msg(d, cells) == [fwrite(d, cells) EXCEPT !.ret = IF d.c.err THEN -1 ELSE 0]

(* dlt_logstorage_sync_on_msg                                                *)
sync_on_msg(d, status) == IF status = "ON_MSG" THEN fflush(d) ELSE d

-----------------------------------------------------------------------------
(***************************************************************************)
(* Cache based strategies.  The cache is [cells, off, wraps, last, end,    *)
(* pend]: its memory, the footer's offset, wrap_around_cnt,                *)
(* last_sync_offset and end_sync_offset, and (history) the messages put    *)
(* into it since it was last written to a file.                            *)
(***************************************************************************)

NoCell == <<0, 0>>

CacheSize(f) == IF "ON_SPECIFIC_SIZE" \in f.sync THEN f.specific ELSE f.size

EmptyCache(f) ==
    [cells |-> [k \in 1 .. CacheSize(f) |-> NoCell], off |-> 0, wraps |-> 0, last |-> 0,
     end |-> 0, pend |-> <<>>]

(* dlt_logstorage_prepare_msg_cache: the size of the caches in use is        *)
(* overwritten, not added up, and never taken back.                          *)
prepare_msg_cache(d, newest) ==
    LET stale == /\ newest.file # None
                 /\ d.c.working = None \/ d.c.wrap # newest.wrap \/ d.c.working # newest.file
        d1 == IF stale THEN TakeNewest(d, newest) ELSE d
        need == CacheSize(d.f) + FooterSize
    IN  IF \/ {"ON_SPECIFIC_SIZE", "ON_FILE_SIZE"} \subseteq d.f.sync
           \/ "ON_SPECIFIC_SIZE" \in d.f.sync /\ d.f.specific > d.f.size
           \/ d.c.cache = None /\ d.used + need > CacheMax
        THEN [d1 EXCEPT !.ret = -1]
        ELSE IF d.c.cache = None
        THEN [d1 EXCEPT !.c.cache = EmptyCache(d.f), !.used = need, !.ret = 0]
        ELSE [d1 EXCEPT !.ret = 0]

(* dlt_logstorage_find_dlt_header: how far behind start the first header is, *)
(* -1 if there is none among cnt units.                                      *)
find_dlt_header(cells, start, cnt) ==
    LET found == {k \in 0 .. cnt - 1 : cells[start + k + 1][2] = 1}
    IN  IF found = {} THEN -1 ELSE Min(found)

(* dlt_logstorage_find_last_dlt_header                                       *)
find_last_dlt_header(cells, start, cnt) ==
    LET found == {k \in 1 .. cnt : start + k + 1 <= Len(cells) /\ cells[start + k + 1][2] = 1}
    IN  IF found = {} THEN -1 ELSE Max(found)

(* fwrite of a part of the cache, with dlt_logstorage_check_write_ret.       *)
WriteCache(d, from, to) == fflush(fwrite(d, SubSeq(d.c.cache.cells, from + 1, to)))

(* dlt_logstorage_sync_to_file when the data does not fit the file opened    *)
(* for it: the messages that do are written, and the rest is given up, for   *)
(* prepare_on_msg refuses the missing newest file information.               *)
SyncSplit(d, start, end) ==
    LET room == d.f.size - d.c.offset
        first == find_dlt_header(d.c.cache.cells, start, room)
        last == find_last_dlt_header(d.c.cache.cells, start + first, room - first)
        part == fclose(WriteCache(d, start + first, start + last))
    IN  IF first >= 0 /\ last > first
        THEN [part EXCEPT !.c.offset = 0, !.c.cache.last = start + last - first, !.ret = -1]
        ELSE [fclose(d) EXCEPT !.c.offset = 0, !.ret = -1]

(* mutant: does not remember how far the cache is written                     *)
SyncOpened_Again(d, start, end) ==
    LET skip == find_dlt_header(d.c.cache.cells, start, end - start)
    IN  IF d.ret # 0 THEN d
        ELSE IF end < start THEN [d EXCEPT !.ub = TRUE]
        ELSE IF end - start > d.f.size - d.c.offset THEN SyncSplit(d, start, end)
        ELSE IF skip >= 0
        THEN [WriteCache(d, start + skip, end)
              EXCEPT !.c.offset = @ + end - start - skip, !.c.cache.wraps = 0]
        ELSE [d EXCEPT !.c.cache.wraps = 0]

(* dlt_logstorage_sync_to_file with the file open, from the first message    *)
(* header on.  An end before the start makes the number of bytes searched    *)
(* for a header wrap around: a read outside the cache.                       *)
SyncOpened(d, start, end) ==
    LET skip == find_dlt_header(d.c.cache.cells, start, end - start)
    IN  IF d.ret # 0 THEN d
        ELSE IF end < start THEN [d EXCEPT !.ub = TRUE]
        ELSE IF end - start > d.f.size - d.c.offset THEN SyncSplit(d, start, end)
        ELSE IF skip >= 0
        THEN [WriteCache(d, start + skip, end)
              EXCEPT !.c.offset = @ + end - start - skip, !.c.cache.last = end,
                     !.c.cache.wraps = 0]
        ELSE [d EXCEPT !.c.cache.wraps = 0]

(* dlt_logstorage_sync_to_file                                               *)
sync_to_file(uconfig, d, start, end) ==
    LET closed == IF d.c.log = None THEN d ELSE [fclose(d) EXCEPT !.c.offset = 0]
    IN  SyncOpened(open_log_file(uconfig, closed, end - start), start, end)

(* mutant: after a wrap only the rest of the previous round is written       *)
SyncRounds_OldRound(uconfig, d) ==
    LET cache == d.c.cache
        older == IF cache.wraps = 1 /\ cache.off < cache.last THEN cache.last ELSE cache.off
    IN  IF cache.wraps < 1 THEN sync_to_file(uconfig, d, cache.last, cache.off)
        ELSE sync_to_file(uconfig, d, older, cache.end)

(* First the rest of the previous round, if there is one, then the current.  *)
SyncRounds(uconfig, d) ==
    LET cache == d.c.cache
        older == IF cache.wraps = 1 /\ cache.off < cache.last THEN cache.last ELSE cache.off
    IN  IF cache.wraps < 1 THEN sync_to_file(uconfig, d, cache.last, cache.off)
        ELSE LET round == sync_to_file(uconfig, d, older, cache.end)
             IN  sync_to_file(uconfig, [round EXCEPT !.c.cache.last = 0], 0, cache.off)

(* The strategies with a size start with an empty cache again.               *)
SyncEnds(d, status) ==
    LET reset == IF status \in {"ON_SPECIFIC_SIZE", "ON_FILE_SIZE"}
                 THEN [d EXCEPT !.c.cache = EmptyCache(d.f)]
                 ELSE [d EXCEPT !.c.cache.pend = <<>>]
    IN  IF status = "ON_FILE_SIZE" THEN [fclose(reset) EXCEPT !.c.offset = 0] ELSE reset

(* dlt_logstorage_sync_msg_cache                                             *)
sync_msg_cache(uconfig, d, status) ==
    IF status \notin d.f.sync \/ d.c.cache = None THEN d
    ELSE SyncEnds(SyncRounds(uconfig, d), status)

(* Copying a message into the cache at an offset.                            *)
PutCells(cache, at, cells) ==
    [cache EXCEPT !.cells = [k \in DOMAIN @ |-> IF k > at /\ k <= at + Len(cells)
                                                THEN cells[k - at] ELSE @[k]],
                  !.off = at + Len(cells),
                  !.pend = Append(@, cells[1][1])]

(* The end of the cache is reached: the strategies with a size write it      *)
(* out, the others count a round.                                            *)
CacheFull(uconfig, d) ==
    LET bySize == {"ON_FILE_SIZE", "ON_SPECIFIC_SIZE"} \cap d.f.sync
    IN  IF bySize # {}
        THEN sync_msg_cache(uconfig, d, IF "ON_FILE_SIZE" \in bySize THEN "ON_FILE_SIZE"
                                        ELSE "ON_SPECIFIC_SIZE")
        ELSE IF d.f.sync \cap {"ON_DEMAND", "ON_DAEMON_EXIT"} # {}
        THEN [d EXCEPT !.c.cache.wraps = @ + 1]
        ELSE d

(* What did not fit goes to the start.                                       *)
PutAtStart(d, cells) ==
    IF cells = <<>> THEN [d EXCEPT !.ret = 0]
    ELSE [d EXCEPT !.c.cache = PutCells([@ EXCEPT !.end = d.c.cache.off], 0, cells), !.ret = 0]

(* dlt_logstorage_write_msg_cache: behind the data the cache has.            *)
write_msg_cache(uconfig, d, cells) ==
    LET remain == CacheSize(d.f) - d.c.cache.off
        placed == PutCells(d.c.cache, d.c.cache.off, cells)
        added == [placed EXCEPT !.end = IF placed.wraps < 1 THEN placed.off ELSE @]
        d1 == [(IF Len(cells) <= remain THEN [d EXCEPT !.c.cache = added] ELSE d) EXCEPT !.ret = 0]
    IN  IF Len(cells) < remain THEN d1
        ELSE IF Len(cells) > CacheSize(d.f) THEN [d1 EXCEPT !.ret = -1]
        ELSE PutAtStart(CacheFull(uconfig, d1), IF Len(cells) = remain THEN <<>> ELSE cells)

-----------------------------------------------------------------------------
(***************************************************************************)
(* The device.                                                             *)
(***************************************************************************)

(* What a call of the device works on; View and Put give it one filter.      *)
Whole == [dir |-> dir, data |-> data, stored |-> stored, used |-> cacheSize, ub |-> ub,
          cfg |-> cfg, dev |-> dev, ret |-> 0]

View(w, i) == [dir |-> w.dir, data |-> w.data, stored |-> w.stored, used |-> w.used, ub |-> w.ub,
               c |-> w.cfg[i], f |-> w.dev.list[i], ret |-> 0]

Put(w, i, d) == [w EXCEPT !.dir = d.dir, !.data = d.data, !.stored = d.stored, !.used = d.used,
                          !.ub = d.ub, !.cfg[i] = d.c]

(* dlt_logstorage_filter_set_strategy                                        *)
IsFileBased(f) == f.sync \in {{}, {"ON_MSG"}}

(* The callback dlt_logstorage_sync of a filter.                             *)
SyncFilter(uconfig, w, i, status) ==
    LET d == View(w, i)
    IN  Put(w, i, IF IsFileBased(d.f) THEN sync_on_msg(d, status)
                  ELSE sync_msg_cache(uconfig, d, status))

(* dlt_logstorage_list_destroy, _filter_config_free: every filter is written *)
(* out if the reason is one of its strategies, and its file is closed.       *)
CloseFilter(w, i) == IF w.cfg[i].log = None THEN w ELSE Put(w, i, fclose(View(w, i)))

list_destroy(w, reason) ==
    FoldLeft(LAMBDA v, i : CloseFilter(SyncFilter(v.dev.uconfig, v, i, reason), i), w,
             [i \in 1 .. Len(w.cfg) |-> i])

(* dlt_logstorage_device_disconnected: the handle's own file name            *)
(* configuration stays as it is.                                             *)
device_disconnected(w, reason) ==
    [list_destroy(w, reason) EXCEPT
        !.cfg = <<>>,
        !.dev = [@ EXCEPT !.connected = FALSE, !.list = <<>>, !.errors = 0,
                          !.newest = [file |-> None, wrap |-> 0]]]

(* dlt_logstorage_load_config                                                *)
load_config(w) ==
    LET loaded == store_filters(scenario.sections)
    IN  IF loaded.valid = -1 THEN w
        ELSE [w EXCEPT !.dev.list = loaded.list,
                       !.cfg = [i \in 1 .. Len(loaded.list) |-> FreshConfig]]

(* dlt_logstorage_device_connected                                           *)
device_connected(w) ==
    LET clean == IF w.dev.connected THEN device_disconnected(w, "ON_DEVICE_DISCONNECT") ELSE w
    IN  load_config([clean EXCEPT !.dev.connected = TRUE])

(* For the newest file of the name the one the filter now has is taken.      *)
Newest(w, d) == IF d.c.working = None THEN w
                ELSE [w EXCEPT !.dev.newest = [file |-> d.c.working, wrap |-> d.c.wrap]]

(* The filter has its file or cache, and wrote the message, or failed to.    *)
Written(w, i, d) ==
    LET errors == w.dev.errors + 1
    IN  IF d.ret # 0
        THEN [Put(w, i, d)
              EXCEPT !.dev.errors = errors, !.ret = IF errors >= MaxErrors THEN -1 ELSE @]
        ELSE SyncFilter(TRUE, Newest(Put(w, i, d), d), i, "ON_MSG")

Prepared(w, i, fileBased, d, cells) ==
    IF fileBased /\ d.c.working = None THEN [Put(w, i, d) EXCEPT !.ret = -2]
    ELSE IF d.ret # 0 THEN IF fileBased THEN Newest(Put(w, i, d), d) ELSE Put(w, i, d)
    ELSE Written(IF fileBased THEN Newest(Put(w, i, d), d) ELSE w, i,
                 IF fileBased THEN write_on_msg(d, cells) ELSE write_msg_cache(TRUE, d, cells))

(* The body of dlt_logstorage_write for one filter found: prepare, write,    *)
(* sync.                                                                     *)
WriteFilter(w, i, cells) ==
    LET d == View(w, i)
    IN  Prepared(w, i, IsFileBased(d.f),
                 IF IsFileBased(d.f) THEN prepare_on_msg(TRUE, d, Len(cells), w.dev.newest)
                 ELSE prepare_msg_cache(d, w.dev.newest), cells)

(* dlt_logstorage_write: every filter found, unless one cannot get a file.   *)
logstorage_write(w, kind, cells) ==
    LET Step(v, i) == IF v.ret = -2 \/ v.dev.list[i].file = None THEN v
                      ELSE WriteFilter(v, i, cells)
    IN  FoldLeft(Step, w, filter(w.dev.list, kind.app, kind.ctx, Ecu, kind.level))

-----------------------------------------------------------------------------
(***************************************************************************)
(* Actions.                                                                *)
(***************************************************************************)

(* The result of a call becomes the state.                                   *)
Becomes(w) ==
    /\ dir' = w.dir /\ data' = w.data /\ stored' = w.stored /\ cacheSize' = w.used
    /\ cfg' = w.cfg /\ dev' = w.dev /\ ub' = w.ub

Off == [connected |-> FALSE, uconfig |-> FALSE, errors |-> 0, list |-> <<>>,
        newest |-> [file |-> None, wrap |-> 0]]

Cells(m, size) == [k \in 1 .. size |-> <<m, k>>]

(* dlt_daemon_logstorage_write: a device that cannot be written is dropped.  *)
Dropped(w) == IF w.ret = 0 THEN w ELSE device_disconnected(w, "ON_DEVICE_DISCONNECT")

LogMessage(kind, size) ==
    /\ Len(sent) < MaxMessages
    /\ dev.list # <<>>
    /\ sent' = Append(sent, size)
    /\ Becomes(Dropped(logstorage_write(Whole, kind, Cells(Len(sent) + 1, size))))
    /\ UNCHANGED <<scenario, full, stops>>

(* dlt_logstorage_sync_caches                                                *)
sync_caches(w) ==
    FoldLeft(LAMBDA v, i : SyncFilter(v.dev.uconfig, v, i, "ON_DEMAND"), w,
             [i \in 1 .. Len(w.cfg) |-> i])

(* dlt_daemon_logstorage_sync_cache for the device: its file name            *)
(* configuration is set first.                                               *)
SyncCaches ==
    /\ scenario.syncs /\ dev.list # <<>>
    /\ Becomes(sync_caches([Whole EXCEPT !.dev.uconfig = TRUE]))
    /\ UNCHANGED <<scenario, full, sent, stops>>

(* A connect request for the device, and setup at the start of the daemon.   *)
Connect ==
    /\ dev.connected => scenario.stops # {} /\ stops < MaxStops
    /\ stops' = IF dev.connected THEN stops + 1 ELSE stops
    /\ Becomes(device_connected(Whole))
    /\ UNCHANGED <<scenario, full, sent>>

(* A disconnect request for the device.                                      *)
Disconnect ==
    /\ "disconnect" \in scenario.stops /\ dev.connected /\ stops < MaxStops
    /\ stops' = stops + 1
    /\ Becomes(device_disconnected(Whole, "ON_DEVICE_DISCONNECT"))
    /\ UNCHANGED <<scenario, full, sent>>

(* dlt_daemon_logstorage_cleanup, and the end of the daemon.                 *)
Exit ==
    /\ "exit" \in scenario.stops /\ dev.connected /\ stops < MaxStops
    /\ stops' = stops + 1
    /\ Becomes([device_disconnected([Whole EXCEPT !.dev.uconfig = TRUE], "ON_DAEMON_EXIT")
                EXCEPT !.dev = Off, !.used = 0])
    /\ UNCHANGED <<scenario, full, sent>>

(* The daemon dies; what was not flushed is gone.                            *)
Crash ==
    /\ "crash" \in scenario.stops /\ dev.connected /\ stops < MaxStops
    /\ stops' = stops + 1
    /\ Becomes([Whole EXCEPT !.dev = Off, !.cfg = <<>>, !.used = 0])
    /\ UNCHANGED <<scenario, full, sent>>

(* The device fills up, or somebody makes room on it.                        *)
FillUp ==
    /\ scenario.full /\ full' = ~full
    /\ UNCHANGED <<ub, scenario, dir, data, dev, cfg, cacheSize, sent, stored, stops>>

(* Somebody deletes a log file.                                              *)
UserRemoves(name) ==
    /\ scenario.removal /\ stops < MaxStops
    /\ stops' = stops + 1
    /\ dir' = [n \in DOMAIN dir \ {name} |-> dir[n]]
    /\ UNCHANGED <<ub, scenario, data, dev, cfg, cacheSize, full, sent, stored>>

StorageInit ==
    /\ scenario \in {s @@ [loaded |-> store_filters(s.sections).list] : s \in Scenarios}
    /\ dir = <<>> /\ data = <<>> /\ stored = <<>> /\ sent = <<>>
    /\ dev = Off /\ cfg = <<>> /\ cacheSize = 0
    /\ full = FALSE /\ ub = FALSE /\ stops = 0

StorageNext ==
    \/ \E kind \in scenario.kinds, size \in scenario.sizes : LogMessage(kind, size)
    \/ SyncCaches
    \/ Connect
    \/ Disconnect
    \/ Exit
    \/ Crash
    \/ FillUp
    \/ \E name \in DOMAIN dir : UserRemoves(name)

-----------------------------------------------------------------------------
(***************************************************************************)
(* Properties.                                                             *)
(***************************************************************************)

(* The configured filters, loaded or not.                                    *)
Filters == Range(scenario.loaded)

(* The messages in the files of the directory.                               *)
Linked == {cell[1] : cell \in UNION {Range(data[dir[n]]) : n \in DOMAIN dir}}

StorageTypeOK ==
    /\ \A n \in DOMAIN dir : n.idx \in 1 .. MaxCounter /\ dir[n] \in DOMAIN data
    /\ dev.connected \in BOOLEAN /\ dev.uconfig \in BOOLEAN /\ dev.errors \in 0 .. MaxErrors
    /\ Len(cfg) = Len(dev.list)
    /\ \A i \in 1 .. Len(cfg) : cfg[i].log \in DOMAIN data \cup {None}

(* The files of a name stay within NOFiles and FileSize, whatever sequence   *)
(* of rotations, wraps of the counter, restarts and removals led there; only *)
(* a message larger than a file is alone in one above the size.  (After an    *)
(* error of the stream, unflushed data is not counted and can exceed it.)    *)
FilesBounded ==
    LET named == {n \in DOMAIN dir : ~n.stray}
    IN  /\ \A f \in Filters : Cardinality(named) <= f.files
        /\ ~scenario.full => \A n \in named, f \in Filters :
               Len(data[dir[n]]) <= f.size \/ Cardinality({c[1] : c \in Range(data[dir[n]])}) = 1

(* Old log goes first: when a message that reached a file is still on the    *)
(* device, so is every message that reached a file after it.  In particular  *)
(* the last one is never written to a file that was already removed by       *)
(* another filter, and a restart in the middle of a round of the counter     *)
(* does not take an old file for the newest.                                 *)
OldestGoesFirst ==
    ~scenario.removal =>
        /\ \A p, q \in 1 .. Len(stored) :
               p < q /\ stored[p][1] \in Linked => stored[q][1] \in Linked
        /\ stored # <<>> => Last(stored)[1] \in Linked

(* Files hold whole messages, also when the cache wrote its older round from *)
(* the middle of an overwritten message.                                     *)
WholeMessages ==
    \A ino \in DOMAIN data : \A k \in 1 .. Len(data[ino]) :
        LET cell == data[ino][k]
        IN  /\ cell # NoCell
            /\ cell[2] > 1 => k > 1 /\ data[ino][k - 1] = <<cell[1], cell[2] - 1>>
            /\ cell[2] < sent[cell[1]] =>
                   k < Len(data[ino]) /\ data[ino][k + 1] = <<cell[1], cell[2] + 1>>

(* A message is stored at most once for each filter it matches, however      *)
(* caches are written out, reset and written again.                          *)
StoredOnce ==
    \A m \in 1 .. Len(sent) :
        Cardinality({p \in 1 .. Len(stored) : stored[p][1] = m}) <= Cardinality(Filters)

(* No stream that is not open is closed, and no search runs out of a cache.  *)
NoUndefined == ~ub

(* A request to write out the caches leaves on the device the newest         *)
(* messages they were given: a suffix of them, with all of the round that    *)
(* is being written.                                                         *)
SyncedIsSuffix ==
    [][SyncCaches /\ ~full =>
        \A i \in 1 .. Len(cfg) :
            (cfg[i].cache # None /\ "ON_DEMAND" \in dev.list[i].sync) =>
                LET cache == cfg[i].cache
                    round == {cache.cells[k][1] : k \in 1 .. cache.off}
                IN  /\ \A p, q \in 1 .. Len(cache.pend) :
                           p < q /\ cache.pend[p] \in Linked' => cache.pend[q] \in Linked'
                    /\ Range(cache.pend) \cap round \subseteq Linked']_storageVars

(* Every file on the device has a name a later start finds it by.            *)
NoStrayFiles == \A n \in DOMAIN dir : ~n.stray

(* What is in the files is sound: whole messages, none stored twice for a    *)
(* filter, in files a later start finds again, and no step of the way used   *)
(* a closed stream or read outside a cache.                                  *)
FilesIntact ==
    StorageTypeOK /\ WholeMessages /\ StoredOnce /\ NoUndefined /\ NoStrayFiles
=============================================================================
