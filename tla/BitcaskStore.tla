----------------------------- MODULE BitcaskStore -----------------------------
(***************************************************************************)
(* One shard's active data file: appenders that share it under its append  *)
(* lock, page cache and disk, failed writes and their rollback, power      *)
(* loss, the hint a shutdown leaves, and the start that rebuilds the       *)
(* keydir from hint and log.                                               *)
(***************************************************************************)
EXTENDS BitcaskLog, TLC

CONSTANTS
    Appenders,        \* concurrent callers of the append NIFs
    Keys,             \* keys, each a sequence of cells
    Batches,          \* the record sequences a call may append
    RING_SIZE,        \* writes one io_uring submission takes
    MaxAppends, MaxFaults, MaxCrashes,   \* bounds
    NoOne

VARIABLES
    ring,       \* is io_uring available?
    cells,      \* the file, as every reader sees it
    disk,       \* the file, as the disk has it
    lock,       \* holder of the file's append lock
    call,       \* what each appender is doing
    keydir,     \* key -> the record that holds its value, as the last start left it
    hint,       \* the published hint and the log size it covers
    phase,      \* "up", "closing", "hinted", "down", "refused"
    acked,      \* ghost: acknowledged records, in file order
    durable,    \* ghost: how many of them were synced
    crashed,    \* ghost: what the last stop may keep, and what it must
    spent       \* [appends, faults, crashes, botched]

files == <<cells, disk>>
vars == <<ring, cells, disk, lock, call, keydir, hint, phase, acked, durable, crashed, spent>>

Idle == [pc |-> "idle"]
Gone == [offset |-> -1]
NoHint == [covered |-> -1, file |-> <<>>]

Init ==
    /\ ring \in BOOLEAN
    /\ cells = <<>> /\ disk = <<>>
    /\ lock = NoOne
    /\ call = [a \in Appenders |-> Idle]
    /\ keydir = [k \in Keys |-> Gone]
    /\ hint = NoHint
    /\ phase = "up"
    /\ acked = <<>> /\ durable = 0
    /\ crashed = [clean |-> TRUE, may |-> <<>>, must |-> 0, kept |-> <<>>]
    /\ spent = [appends |-> 0, faults |-> 0, crashes |-> 0, botched |-> FALSE]

-----------------------------------------------------------------------------
(* Keydir rows *)

Row(m) == [offset |-> m.offset, value_size |-> m.value_size, expire_at_ms |-> m.expire_at_ms]

recover_record(kd, m) == [kd EXCEPT ![m.key] = IF m.tomb THEN Gone ELSE Row(m)]

\* Mutant: a tombstone removes a row that is newer than itself.
hint_tombstone_unordered(kd, m) == [kd EXCEPT ![m.key] = Gone]

recover_hint_tombstone(kd, m) ==
    IF kd[m.key] # Gone /\ kd[m.key].offset < m.offset THEN [kd EXCEPT ![m.key] = Gone] ELSE kd

Replay(kd, ms) == FoldLeft(recover_record, kd, ms)

Empty == [k \in Keys |-> Gone]

-----------------------------------------------------------------------------
(* Appends *)

\* The entry points, by what they do: the buffers they hand to the backend,
\* whether they may use io_uring, and whether they sync.
Kinds == {"record", "batch", "ops", "nosync"}
Buffers(kind, rs) ==
    IF kind = "batch" THEN [i \in DOMAIN rs |-> encode_record(rs[i])]
    ELSE <<encode_batch_writes(rs)>>
UsesRing(kind) == ring /\ kind \in {"batch", "ops"}
Syncs(kind) == kind # "nosync"

\* Sizes are validated before anything is written: one oversized record
\* refuses the whole call.
v2_append(a) ==
    /\ phase = "up"
    /\ call[a].pc = "idle"
    /\ spent.appends < MaxAppends
    /\ \E kind \in Kinds, rs \in Batches :
        /\ kind = "record" => Len(rs) = 1
        /\ kind = "batch" => \A i \in DOMAIN rs : ~rs[i].tomb
        /\ spent' = [spent EXCEPT !.appends = @ + 1]
        /\ IF \A i \in DOMAIN rs : validate_kv_sizes(rs[i])
           THEN call' = [call EXCEPT ![a] = [pc |-> "lock", kind |-> kind, recs |-> rs]]
           ELSE UNCHANGED call
    /\ UNCHANGED <<ring, cells, disk, lock, keydir, hint, phase, acked, durable, crashed>>

\* Mutant: an append starts where the last synced one ended.
lock_append_at_synced_end(a) ==
    /\ call[a].pc = "lock"
    /\ lock = NoOne
    /\ lock' = a
    /\ call' = [call EXCEPT ![a] =
                  [pc |-> "write", kind |-> @.kind, recs |-> @.recs, start |-> Len(disk),
                   bad |-> FALSE, todo |-> DOMAIN Buffers(@.kind, @.recs)]]
    /\ UNCHANGED <<ring, cells, disk, keydir, hint, phase, acked, durable, crashed, spent>>

\* The offset is the file's length once the lock is held, whatever the
\* writer saw when it opened the file.
lock_append(a) ==
    /\ call[a].pc = "lock"
    /\ lock = NoOne
    /\ lock' = a
    /\ call' = [call EXCEPT ![a] =
                  [pc |-> "write", kind |-> @.kind, recs |-> @.recs, start |-> Len(cells),
                   bad |-> FALSE, todo |-> DOMAIN Buffers(@.kind, @.recs)]]
    /\ UNCHANGED <<ring, cells, disk, keydir, hint, phase, acked, durable, crashed, spent>>

\* The file with `buffer` at `offset`; what lies between is unwritten.
Place(file, offset, buffer) ==
    [i \in 1..(IF buffer = <<>> \/ offset + Len(buffer) < Len(file)
               THEN Len(file) ELSE offset + Len(buffer)) |->
        IF i > offset /\ i <= offset + Len(buffer) THEN buffer[i - offset]
        ELSE IF i <= Len(file) THEN file[i] ELSE Zero]

\* The ring completes the writes of one submission in any order; the plain
\* backend makes them one by one.
Chunk(i) == (i - 1) \div RING_SIZE
NextBuffers(c) == {i \in c.todo : \A j \in c.todo : IF UsesRing(c.kind) THEN Chunk(i) <= Chunk(j)
                                                                 ELSE i <= j}

\* One buffer is written, in full or short.  A short write fails the call,
\* on the ring after the rest of its submission.
WriteSome(a) ==
    LET c == call[a] IN
    /\ c.pc = "write"
    /\ \E i \in NextBuffers(c) :
        LET buffer == Buffers(c.kind, c.recs)[i]
            at == IF c.kind = "batch" THEN batch_write_results(c.recs, c.start)[i] ELSE c.start
        IN \E n \in {0, 1, Len(buffer) - 1, Len(buffer)} :
            LET short == n < Len(buffer)
                todo == c.todo \ {i}
                drained == \A j \in todo : Chunk(j) # Chunk(i)
                bad == c.bad \/ short
            IN  /\ short => spent.faults < MaxFaults
                /\ spent' = [spent EXCEPT !.faults = IF short THEN @ + 1 ELSE @]
                /\ cells' = <<>> \o Place(cells, at, SubSeq(buffer, 1, n))
                /\ call' = [call EXCEPT ![a].todo = todo, ![a].bad = bad,
                              ![a].pc = IF bad /\ (drained \/ ~UsesRing(c.kind)) THEN "rollback"
                                        ELSE IF todo = {} THEN "sync" ELSE "write"]
    /\ UNCHANGED <<ring, disk, lock, keydir, hint, phase, acked, durable, crashed>>

\* io_uring_enter fails for good: what the kernel took is waited for, the
\* rest is dropped with the ring.
abandon_queued(a) ==
    /\ call[a].pc = "write" /\ UsesRing(call[a].kind)
    /\ spent.faults < MaxFaults
    /\ spent' = [spent EXCEPT !.faults = @ + 1]
    /\ call' = [call EXCEPT ![a].pc = "rollback"]
    /\ UNCHANGED <<ring, cells, disk, lock, keydir, hint, phase, acked, durable, crashed>>

\* The records of a call, with the offsets it reports.
Located(c) ==
    LET at == batch_write_results(c.recs, c.start)
    IN  [i \in DOMAIN c.recs |->
           metadata([offset |-> at[i], record |-> c.recs[i]])]

\* Mutant: an append is acknowledged as synced without the fsync.
FinishUnsynced(a) ==
    LET c == call[a] IN
    /\ c.pc = "sync"
    /\ acked' = acked \o Located(c)
    /\ durable' = IF Syncs(c.kind) THEN Len(acked') ELSE durable
    /\ lock' = NoOne
    /\ call' = [call EXCEPT ![a] = Idle]
    /\ UNCHANGED <<ring, files, keydir, hint, phase, crashed, spent>>

Return(a) ==
    /\ lock' = NoOne
    /\ call' = [call EXCEPT ![a] = Idle]

\* Written, and synced when the call promises it: the NIF returns the offsets.
\* What the caller then makes of them in the keydir is not part of the call.
Finish(a) ==
    LET c == call[a] IN
    /\ c.pc = "sync"
    /\ disk' = IF Syncs(c.kind) THEN cells ELSE disk
    /\ acked' = acked \o Located(c)
    /\ durable' = IF Syncs(c.kind) THEN Len(acked') ELSE durable
    /\ Return(a)
    /\ UNCHANGED <<ring, cells, keydir, hint, phase, crashed, spent>>

SyncFails(a) ==
    /\ call[a].pc = "sync" /\ Syncs(call[a].kind)
    /\ spent.faults < MaxFaults
    /\ spent' = [spent EXCEPT !.faults = @ + 1]
    /\ call' = [call EXCEPT ![a].pc = "rollback"]
    /\ UNCHANGED <<ring, cells, disk, lock, keydir, hint, phase, acked, durable, crashed>>

\* The failed call cuts the file back and syncs the cut before it lets go of
\* the lock.
rollback_locked(a) ==
    /\ call[a].pc = "rollback"
    /\ cells' = SubSeq(cells, 1, call[a].start)
    /\ disk' = cells'
    /\ Return(a)
    /\ UNCHANGED <<ring, keydir, hint, phase, acked, durable, crashed, spent>>

\* "durable rollback failed": the cut, or the sync of the cut, fails as well.
RollbackFails(a) ==
    /\ call[a].pc = "rollback"
    /\ spent.faults < MaxFaults
    /\ spent' = [spent EXCEPT !.faults = @ + 1, !.botched = TRUE]
    /\ cells' \in {cells, SubSeq(cells, 1, call[a].start)}
    /\ Return(a)
    /\ UNCHANGED <<ring, disk, keydir, hint, phase, acked, durable, crashed>>

\* The checkpointer's v2_fsync takes no lock.
v2_fsync ==
    /\ phase = "up"
    /\ disk # cells
    /\ disk' = cells
    /\ durable' = Len(acked)
    /\ UNCHANGED <<ring, cells, lock, call, keydir, hint, phase, acked, crashed, spent>>

-----------------------------------------------------------------------------
(* Shutdown *)

Quiet == \A a \in Appenders : call[a].pc = "idle"

\* do_terminate drains the appends and syncs the file; the old hint's metadata
\* goes before a new one is built.
PrepareHint ==
    /\ phase = "up" /\ Quiet
    /\ disk' = cells /\ durable' = Len(acked)
    /\ hint' = NoHint
    /\ phase' = "closing"
    /\ UNCHANGED <<ring, cells, lock, call, keydir, acked, crashed, spent>>

\* flush_pending_sync's fsync fails: the hint stays as it was.
FlushFails ==
    /\ phase = "up" /\ Quiet /\ disk # cells
    /\ spent.faults < MaxFaults
    /\ spent' = [spent EXCEPT !.faults = @ + 1]
    /\ phase' = "hinted"
    /\ UNCHANGED <<ring, files, lock, call, keydir, hint, acked, durable, crashed>>

\* The hint is built from the log and published with the log's size; a log
\* that does not scan to its end leaves none.
PublishHint ==
    /\ phase = "closing"
    /\ LET built == v2_build_hint_file_from_log(cells, 0)
       IN  hint' = IF built.ok THEN [covered |-> Len(cells), file |-> built.hint] ELSE NoHint
    /\ phase' = "hinted"
    /\ UNCHANGED <<ring, files, lock, call, keydir, acked, durable, crashed, spent>>

\* The process is gone: which records the next start may find, and how many
\* of them it must.
Leaves(clean, must) ==
    LET busy == {a \in Appenders : a = lock}
    IN  crashed' = [clean |-> clean, must |-> must, kept |-> <<>>,
                    may |-> acked \o (IF busy = {} THEN <<>> ELSE Located(call[lock]))]

\* The active file is synced, and the process ends.
StopShard ==
    /\ phase = "hinted"
    /\ disk' = cells
    /\ durable' = Len(acked)
    /\ Leaves(TRUE, Len(acked))
    /\ phase' = "down"
    /\ UNCHANGED <<ring, cells, lock, call, keydir, hint, acked, spent>>

\* What the disk may hold after power loss: any length between the synced one
\* and the page cache's, and of the cells not yet written back none, all but
\* one, or all.
Images ==
    LET old(i) == IF i <= Len(disk) THEN disk[i] ELSE Zero
        new(i) == IF i <= Len(cells) THEN cells[i] ELSE old(i)
        dirty == {i \in DOMAIN cells : old(i) # cells[i]}
        lost == {{}, dirty} \cup {{i} : i \in dirty}
        image(n, l) == <<>> \o [i \in 1..n |-> IF i \in l THEN old(i) ELSE new(i)]
        ends == IF Len(disk) > Len(cells) THEN {Len(disk), Len(cells)}
                ELSE Len(disk)..Len(cells)
    IN  {[file |-> image(n, l), clean |-> l \cap (1..n) = {}] : n \in ends, l \in lost}

PowerLoss ==
    /\ phase \in {"up", "closing", "hinted"}
    /\ spent.crashes < MaxCrashes
    /\ spent' = [spent EXCEPT !.crashes = @ + 1]
    /\ \E image \in Images :
        /\ cells' = image.file /\ disk' = image.file
        /\ Leaves(image.clean /\ Zero \notin ToSet(image.file), durable)
    /\ lock' = NoOne
    /\ call' = [a \in Appenders |-> Idle]
    /\ phase' = "down"
    /\ UNCHANGED <<ring, keydir, hint, acked, durable>>

-----------------------------------------------------------------------------
(* Start *)

\* The pages of a full scan from `offset`, then the repair of the active
\* file's tail, which must find the end the scan found.
recover_from_log_pages(file, offset, kd) ==
    LET page == iter_metadata_page_tolerant(file, offset, Len(file) + 1)
        torn == recover_torn_tail(file)
    IN  IF ~page.ok THEN [ok |-> FALSE]
        ELSE IF page.next = Len(file)
        THEN [ok |-> TRUE, keydir |-> Replay(kd, page.records), file |-> file]
        ELSE IF page.next < Len(file) /\ torn.ok /\ torn.end = page.next
        THEN [ok |-> TRUE, keydir |-> Replay(kd, page.records), file |-> SubSeq(file, 1, torn.end)]
        ELSE [ok |-> FALSE]

\* Tombstones of a hinted log.  Where the strict scan fails the hint is
\* invalidated and a tolerant scan takes its place, with the tail's repair.
recover_tombstones_from_log(file, h, kd) ==
    LET strict == scan_tombstones_page(file, 0, Len(file) + 1)
        page   == iter_metadata_page_tolerant(file, 0, Len(file) + 1)
        tombs  == SelectSeq(page.records, LAMBDA m : m.tomb)
        torn   == recover_torn_tail(file)
    IN  IF strict.ok /\ strict.done
        THEN [ok |-> TRUE, keydir |-> FoldLeft(recover_hint_tombstone, kd, strict.records),
              end |-> strict.next, file |-> file, hint |-> h]
        ELSE IF page.ok /\ (page.next = Len(file) \/ (torn.ok /\ torn.end = page.next))
        THEN [ok |-> TRUE, keydir |-> FoldLeft(recover_hint_tombstone, kd, tombs),
              end |-> page.next, file |-> SubSeq(file, 1, page.next), hint |-> NoHint]
        ELSE [ok |-> FALSE]

WithHint(r, h) == IF r.ok THEN r @@ [hint |-> h] ELSE r

\* The log past what the hint covers, after the tombstones.
RecoverTail(h, t) ==
    LET from == IF t.end < h.covered THEN t.end ELSE h.covered
    IN  IF ~t.ok THEN t
        ELSE IF Len(t.file) = from
        THEN [ok |-> TRUE, keydir |-> t.keydir, file |-> t.file, hint |-> t.hint]
        ELSE WithHint(recover_from_log_pages(t.file, from, t.keydir), t.hint)

\* A hint counts while the log is at least as long as it covers; its entries
\* go in first, then the log's tombstones, then the log past what it covers.
recover_keydir(file, h) ==
    LET whole == recover_from_log_pages(file, 0, Empty)
        page  == read_page(h.file, 0, Len(h.file) + 1, Len(h.file) + 1)
    IN  IF h = NoHint \/ Len(file) < h.covered \/ ~page.ok
        THEN WithHint(whole, h)
        ELSE RecoverTail(h, recover_tombstones_from_log(file, h, Replay(Empty, page.entries)))

\* The log's own account of itself.
Logged(file) == iter_metadata_page_tolerant(file, 0, Len(file) + 1).records

Start ==
    /\ phase = "down"
    /\ \E r \in {recover_keydir(cells, hint)} :
        IF r.ok
        THEN /\ cells' = r.file /\ disk' = r.file
             /\ keydir' = r.keydir
             /\ hint' = r.hint
             /\ acked' = Logged(r.file) /\ durable' = Len(acked')
             /\ crashed' = [crashed EXCEPT !.kept = acked']
             /\ phase' = "up"
        ELSE /\ phase' = "refused"
             /\ UNCHANGED <<files, keydir, hint, acked, durable, crashed>>
    /\ UNCHANGED <<ring, lock, call, spent>>

Next ==
    \/ \E a \in Appenders :
         \/ v2_append(a) \/ lock_append(a) \/ WriteSome(a) \/ abandon_queued(a)
         \/ Finish(a) \/ SyncFails(a) \/ rollback_locked(a) \/ RollbackFails(a)
    \/ v2_fsync \/ PrepareHint \/ FlushFails \/ PublishHint \/ StopShard \/ PowerLoss \/ Start

Spec == Init /\ [][Next]_vars

-----------------------------------------------------------------------------
(* Properties *)

Quiesced == phase = "up" /\ Quiet /\ ~spent.botched

\* Every acknowledged record reads back at the offset its append reported, by
\* pread, by key and as a file reference, while other appends are written,
\* fail and are rolled back around it, even where a rollback itself failed.
AckedReadable ==
    phase \in {"up", "closing", "hinted"} =>
        \A i \in DOMAIN acked :
            LET m == acked[i]
                r == read_next_record(cells, m.offset)
                v == pread_value_for_key(cells, m.offset, m.key)
                f == validate_value_ref_from_file(cells, m.offset, m.key, m.value_size)
            IN  /\ r.tag = "record" /\ metadata(r) = m
                /\ v = pread_record(cells, m.offset)
                /\ v.tag = (IF m.tomb THEN "nil" ELSE "value")
                /\ f.tag = (IF m.tomb THEN "miss" ELSE "ref")
                /\ ~m.tomb => SubSeq(cells, f.at + 1, f.at + f.size) = v.value
                /\ v2_pread_batch(cells, <<m.offset, Len(cells), acked[1].offset>>) =
                     [tag |-> "values",
                      values |-> <<v, [tag |-> "nil"], pread_record(cells, acked[1].offset)>>]

\* After any stop a start keeps a prefix of the acknowledged records and of
\* the append in flight: all that were synced, none out of order, and nothing
\* of an append that failed and was rolled back.
StartKeepsAPrefix ==
    (phase = "up" /\ ~spent.botched) =>
        /\ IsPrefix(crashed.kept, crashed.may)
        /\ Len(crashed.kept) >= crashed.must

\* A start refuses a shard only where the log cannot be told from a damaged
\* one: cells of it were lost, or the append in flight carried the bytes of a
\* record in its value.
RefusedOnlyWhenAmbiguous ==
    (phase = "refused" /\ ~spent.botched) =>
        \/ ~crashed.clean
        \/ \E i \in DOMAIN crashed.may : crashed.may[i].value_size >= HEADER_SIZE

\* What a start makes of the log a stop left behind.
StartKeepsTheLog == StartKeepsAPrefix /\ RefusedOnlyWhenAmbiguous

\* The keydir a start rebuilds from a hint, the log's tombstones and the log
\* past the hint, whatever stop and whatever hint of an earlier life it found,
\* is what replaying the whole log it kept gives: the last writer of each key
\* wins.
KeydirIsTheLog == phase = "up" => keydir = Replay(Empty, crashed.kept)

RECURSIVE ScanPages(_, _, _), TombstonePages(_, _, _), HintPages(_, _, _, _)
ScanPages(file, offset, limit) ==
    LET p == iter_metadata_page_tolerant(file, offset, limit)
    IN  p.records \o (IF p.done THEN <<>> ELSE ScanPages(file, p.next, limit))
TombstonePages(file, offset, limit) ==
    LET p == scan_tombstones_page(file, offset, limit)
    IN  p.records \o (IF p.done THEN <<>> ELSE TombstonePages(file, p.next, limit))
HintPages(file, offset, entries, bytes) ==
    LET p == read_page(file, offset, entries, bytes)
    IN  p.entries \o (IF p.done THEN <<>> ELSE HintPages(file, p.next, entries, bytes))

\* Every scan of a settled log tells the same story, whatever the page size:
\* metadata pages, tombstone pages, hint pages, the newest state of any set
\* of keys, and the prefixes a checkpoint may digest.
ScansAgree ==
    Quiesced =>
        LET live == SelectSeq(acked, LAMBDA m : ~m.tomb)
            last(k) == Replay(Empty, acked)[k]
        IN  /\ \A n \in 1..3 :
                 /\ ScanPages(cells, 0, n) = acked
                 /\ TombstonePages(cells, 0, n) = SelectSeq(acked, LAMBDA m : m.tomb)
                 /\ HintPages(v2_build_hint_file_from_log(cells, 0).hint, 0, n, 2) = live
            /\ \A ks \in SUBSET Keys : \A s \in scan_key_states(cells, ks).states :
                 s.tomb = (last(s.key) = Gone)
            /\ {n \in 0..Len(cells) : validated_prefix_digest(cells, n).ok} =
                 {0, Len(cells)} \cup {acked[i].offset : i \in DOMAIN acked}

\* The most records one request of CopiesExact names.
MaxCopied == 3

\* A compaction copy holds exactly the records asked for, each at the offset
\* reported for it; a request that names a record twice, a tombstone as live
\* or a live record as a tombstone is refused.
CopiesExact ==
    Quiesced =>
        \A live, tombs \in SUBSET {acked[i].offset : i \in DOMAIN acked} :
            Cardinality(live \cup tombs) <= MaxCopied =>
            LET is(o, t) == \E i \in DOMAIN acked : acked[i].offset = o /\ acked[i].tomb = t
                down == SetToSortSeq(live, >)
                c == copy_live_records_impl(cells, <<>>, down)
                p == copy_records_preserve_tombstones_impl(cells, <<>>, down, SetToSortSeq(tombs, <))
                same(k) == \A i \in DOMAIN k.moved :
                    /\ k.moved[i].from = down[i]
                    /\ read_next_record(k.dest, k.moved[i].to).record
                         = read_next_record(cells, down[i]).record
            IN  /\ c.ok = (\A o \in live : is(o, FALSE))
                /\ c.ok => same(c) /\ Len(Logged(c.dest)) = Cardinality(live)
                /\ p.ok = ((\A o \in live : is(o, FALSE)) /\ (\A o \in tombs : is(o, TRUE)))
                /\ p.ok => /\ same(p)
                           /\ p.dest = FlattenSeq([i \in DOMAIN acked |->
                                IF acked[i].offset \in live \cup tombs
                                THEN encode_record(read_next_record(cells, acked[i].offset).record)
                                ELSE <<>>])
                /\ live # {} => ~copy_live_records_impl(cells, <<>>, down \o <<down[1]>>).ok

\* Nothing read back from a settled log differs from what was acknowledged.
ReadersExact == ScansAgree /\ CopiesExact
=============================================================================
