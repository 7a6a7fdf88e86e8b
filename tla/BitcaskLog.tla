------------------------------ MODULE BitcaskLog ------------------------------
(***************************************************************************)
(* The Bitcask data file and its hint file: what the encoders write, and   *)
(* what every reader of them returns for any bytes.                        *)
(*                                                                         *)
(* A file is a sequence of cells, offsets start at 0.  A record is a       *)
(* checksum cell, a header cell and the cells of its key and value; the    *)
(* checksum cell holds what it covers, so it matches nothing else.  A      *)
(* value may itself be the cells of a record.  The record's timestamp is   *)
(* left out: nothing reads it.                                             *)
(***************************************************************************)
EXTENDS Integers, Sequences, SequencesExt, FiniteSets

CONSTANTS
    MAX_KEY_SIZE,     \* longest key, in cells (u16::MAX)
    MAX_VALUE_SIZE,   \* longest value, in cells
    ProbeWindow,      \* cells of a torn tail probed with one CRC budget
    ProbeBudget       \* cells the probe may hash in one window

HEADER_SIZE == 2

\* The value size that marks a tombstone: above every value's length.
TOMBSTONE == MAX_VALUE_SIZE + 2

\* What an unwritten cell of a file reads as.
Zero == <<"zero">>

Record(key, value, expire) ==
    [key |-> key, value |-> value, expire_at_ms |-> expire, tomb |-> FALSE]

Deleted(key) == [key |-> key, value |-> <<>>, expire_at_ms |-> 0, tomb |-> TRUE]

validate_kv_sizes(r) == Len(r.key) <= MAX_KEY_SIZE /\ Len(r.value) <= MAX_VALUE_SIZE

record_len(r) == HEADER_SIZE + Len(r.key) + Len(r.value)

encode_record(r) ==
    LET header == <<"header", r.expire_at_ms, Len(r.key),
                    IF r.tomb THEN TOMBSTONE ELSE Len(r.value)>>
        body == r.key \o r.value
    IN  << <<"crc", header, body>>, header>> \o body

encode_batch_writes(rs) == FlattenSeq([i \in DOMAIN rs |-> encode_record(rs[i])])

\* The offset of each record of a batch written at `start`.
batch_write_results(rs, start) ==
    [i \in DOMAIN rs |-> start + Len(encode_batch_writes(SubSeq(rs, 1, i - 1)))]

-----------------------------------------------------------------------------
(* Reading one record *)

\* Any cell can be read where a header is expected.  An unwritten one says 0
\* and 0; other data says something, here 1 and 1.
Sizes(cell) ==
    CASE cell[1] = "header" -> [key |-> cell[3], value |-> cell[4]]
      [] cell = Zero        -> [key |-> 0, value |-> 0]
      [] OTHER              -> [key |-> 1, value |-> 1]

\* The record at `offset` once its header is read.
ReadSized(file, offset, size) ==
    LET tomb  == size.value = TOMBSTONE
        vlen  == IF tomb THEN 0 ELSE size.value
        end   == offset + HEADER_SIZE + size.key + vlen
        body  == SubSeq(file, offset + 3, end)
    IN  IF vlen > MAX_VALUE_SIZE THEN [tag |-> "corrupt"]
        ELSE IF end > Len(file) THEN [tag |-> "short"]
        ELSE IF file[offset + 1] # <<"crc", file[offset + 2], body>>
        THEN [tag |-> "corrupt"]
        ELSE [tag |-> "record", offset |-> offset, size |-> end - offset,
              record |-> [key |-> SubSeq(body, 1, size.key), value |-> SubSeq(body, size.key + 1, Len(body)),
                          tomb |-> tomb, expire_at_ms |-> file[offset + 2][2]]]

\* "eof", "short", "corrupt", or "record" with what was read.  The sequential
\* readers, the metadata scans and pread differ in what they do about "short".
read_next_record(file, offset) ==
    IF Len(file) <= offset THEN [tag |-> "eof"]
    ELSE IF Len(file) - offset < HEADER_SIZE THEN [tag |-> "short"]
    ELSE ReadSized(file, offset, Sizes(file[offset + 2]))

\* v2_pread_at: the value, nil for a tombstone, or an error.
pread_record(file, offset) ==
    LET r == read_next_record(file, offset)
    IN  IF r.tag # "record" THEN [tag |-> "error"]
        ELSE IF r.record.tomb THEN [tag |-> "nil"]
        ELSE [tag |-> "value", value |-> r.record.value]

\* A keyed read compares the key before it reads the value: an offset that
\* now holds another key's record is a miss, whatever its value looks like.
pread_value_for_key(file, offset, key) ==
    LET k == Sizes(file[offset + 2]).key
    IN  IF Len(file) <= offset THEN [tag |-> "miss"]
        ELSE IF Len(file) < offset + HEADER_SIZE THEN [tag |-> "error"]
        ELSE IF Len(file) < offset + HEADER_SIZE + k THEN [tag |-> "error"]
        ELSE IF SubSeq(file, offset + 3, offset + 2 + k) # key THEN [tag |-> "miss"]
        ELSE pread_record(file, offset)

\* A file reference handed to the socket path: the exact key and value size,
\* verified, or nothing.
validate_value_ref_from_file(file, offset, key, value_size) ==
    LET size == Sizes(file[offset + 2])
        r    == read_next_record(file, offset)
    IN  IF Len(file) <= offset THEN [tag |-> "miss"]
        ELSE IF Len(file) < offset + HEADER_SIZE THEN [tag |-> "error"]
        ELSE IF size.value = TOMBSTONE \/ size.value # value_size THEN [tag |-> "miss"]
        ELSE IF Len(file) < offset + HEADER_SIZE + size.key THEN [tag |-> "error"]
        ELSE IF SubSeq(file, offset + 3, offset + 2 + size.key) # key THEN [tag |-> "miss"]
        ELSE IF r.tag # "record" THEN [tag |-> "error"]
        ELSE [tag |-> "ref", at |-> offset + HEADER_SIZE + size.key, size |-> value_size]

\* The file offsets in ascending order, the answers in the caller's.
v2_pread_batch(file, offsets) ==
    LET answers == [i \in DOMAIN offsets |-> pread_record(file, offsets[i])]
        past(i) == Len(file) <= offsets[i]
    IN  IF \E i \in DOMAIN offsets : answers[i].tag = "error" /\ ~past(i)
        THEN [tag |-> "error"]
        ELSE [tag |-> "values",
              values |-> [i \in DOMAIN offsets |->
                            IF past(i) THEN [tag |-> "nil"] ELSE answers[i]]]

-----------------------------------------------------------------------------
(* Scans *)

\* The records from `offset`, at most `limit` of them, and why the scan
\* stopped there.
RECURSIVE Walk(_, _, _)
Walk(file, offset, limit) ==
    LET r == read_next_record(file, offset)
    IN  IF limit = 0 THEN [records |-> <<>>, next |-> offset, stop |-> "limit"]
        ELSE IF r.tag # "record"
        THEN [records |-> <<>>, next |-> offset, stop |-> r.tag]
        ELSE LET rest == Walk(file, offset + r.size, limit - 1)
             IN  [rest EXCEPT !.records = <<r>> \o @]

metadata(r) == [key |-> r.record.key, offset |-> r.offset, tomb |-> r.record.tomb,
                value_size |-> Len(r.record.value), expire_at_ms |-> r.record.expire_at_ms]

\* A page stops quietly at a torn tail; a corrupt record is an error.
TolerantPage(w) ==
    [ok |-> w.stop # "corrupt", next |-> w.next, done |-> w.stop # "limit",
     records |-> [i \in DOMAIN w.records |-> metadata(w.records[i])]]

iter_metadata_page_tolerant(file, offset, limit) == TolerantPage(Walk(file, offset, limit))

\* The tombstone scan is strict: a torn tail is an error too.
StrictPage(file, w) ==
    LET tombs == SelectSeq(w.records, LAMBDA r : r.record.tomb)
    IN  [ok |-> w.stop \in {"eof", "limit"}, next |-> w.next,
         done |-> w.next = Len(file),
         records |-> [i \in DOMAIN tombs |-> metadata(tombs[i])]]

scan_tombstones_page(file, offset, limit) == StrictPage(file, Walk(file, offset, limit))

\* The newest state of each masked key.
scan_key_states(file, keys) ==
    LET w == Walk(file, 0, Len(file))
        of(k) == {i \in DOMAIN w.records : w.records[i].record.key = k}
        last(k) == w.records[CHOOSE i \in of(k) : \A j \in of(k) : j <= i].record
    IN  [ok |-> w.stop \in {"eof", "limit"},
         states |-> {[key |-> k, expire_at_ms |-> last(k).expire_at_ms,
                      tomb |-> last(k).tomb] : k \in {q \in keys : of(q) # {}}}]

\* A checkpoint's prefix must end on a record boundary; its digest is its bytes.
validated_prefix_digest(file, prefix) ==
    LET w == Walk(file, 0, Len(file))
    IN  IF prefix = 0 \/ \E i \in DOMAIN w.records :
                            w.records[i].offset + w.records[i].size = prefix
        THEN [ok |-> TRUE, digest |-> SubSeq(file, 1, prefix)]
        ELSE [ok |-> FALSE]

-----------------------------------------------------------------------------
(* The torn tail of the active file *)

\* Every cell of the suffix may start a record.  Hashing is bounded in each
\* window; what the budget does not reach counts as ambiguous.
RECURSIVE probe_torn_tail(_, _, _, _)
probe_torn_tail(file, start, c, work) ==
    LET size == Sizes(file[c + 2])
        tomb == size.value = TOMBSTONE
        len  == HEADER_SIZE + size.key + (IF tomb THEN 0 ELSE size.value)
        next(hashed) ==
            probe_torn_tail(file, start, c + 1,
                            IF (c + 1 - start) % ProbeWindow = 0 THEN 0 ELSE hashed)
    IN  IF c > Len(file) - HEADER_SIZE THEN "none"
        ELSE IF (~tomb /\ size.value > MAX_VALUE_SIZE) \/ c + len > Len(file)
        THEN next(work)
        ELSE IF work + len > ProbeBudget THEN "budget"
        ELSE IF read_next_record(file, c).tag = "record" THEN "later"
        ELSE next(work + len)

\* Where the log ends, or a refusal that leaves the file as it is.
TornTail(file, w) ==
    LET probed == w.stop = "short" /\ Len(file) - w.next >= HEADER_SIZE
    IN  IF w.stop = "corrupt" THEN [ok |-> FALSE]
        ELSE IF probed /\ probe_torn_tail(file, w.next, w.next, 0) # "none"
        THEN [ok |-> FALSE]
        ELSE [ok |-> TRUE, end |-> w.next]

recover_torn_tail(file) == TornTail(file, Walk(file, 0, Len(file) + 1))

-----------------------------------------------------------------------------
(* Hint files *)

\* The checksum of a hint entry covers its fields and its key.
write_entry(m, file_id) ==
    << <<"hint", file_id, m.offset, m.value_size, m.expire_at_ms, Len(m.key), m.key>> >>
        \o m.key

\* Built from the log: its live records, in order.  A log that does not end
\* on a record makes no hint.
HintOf(w, file_id) ==
    LET live == SelectSeq(w.records, LAMBDA r : ~r.record.tomb)
    IN  IF w.stop # "eof" THEN [ok |-> FALSE]
        ELSE [ok |-> TRUE, end |-> w.next,
              hint |-> FlattenSeq([i \in DOMAIN live |->
                                     write_entry(metadata(live[i]), file_id)])]

v2_build_hint_file_from_log(file, file_id) == HintOf(Walk(file, 0, Len(file) + 1), file_id)

read_hint_entry(hint, offset) ==
    LET h == hint[offset + 1]
    IN  IF offset >= Len(hint) THEN [tag |-> "eof"]
        ELSE IF h[1] # "hint" \/ offset + 1 + h[6] > Len(hint) THEN [tag |-> "error"]
        ELSE IF SubSeq(hint, offset + 2, offset + 1 + h[6]) # h[7] THEN [tag |-> "error"]
        ELSE [tag |-> "entry", size |-> 1 + h[6],
              entry |-> [key |-> h[7], offset |-> h[3], value_size |-> h[4],
                         expire_at_ms |-> h[5], tomb |-> FALSE]]

\* One page: up to max_entries, and at least one entry however large it is.
RECURSIVE HintPage(_, _, _, _, _)
HintPage(hint, offset, max_entries, max_bytes, first) ==
    LET e == read_hint_entry(hint, offset)
    IN  IF max_entries = 0 \/ (~first /\ max_bytes <= 0)
        THEN [ok |-> TRUE, entries |-> <<>>, next |-> offset, done |-> offset >= Len(hint)]
        ELSE IF e.tag = "eof"
        THEN [ok |-> TRUE, entries |-> <<>>, next |-> offset, done |-> TRUE]
        ELSE IF e.tag = "error"
        THEN [ok |-> FALSE, entries |-> <<>>, next |-> offset, done |-> FALSE]
        ELSE LET rest == HintPage(hint, offset + e.size, max_entries - 1,
                                  max_bytes - e.size, FALSE)
             IN  [rest EXCEPT !.entries = <<e.entry>> \o @]

read_page(hint, offset, max_entries, max_bytes) ==
    IF max_entries = 0 \/ max_bytes = 0
    THEN [ok |-> FALSE, entries |-> <<>>, next |-> offset, done |-> FALSE]
    ELSE HintPage(hint, offset, max_entries, max_bytes, TRUE)

-----------------------------------------------------------------------------
(* Compaction's copies: `dest` after the call, and the answer *)

\* The header is appended before the key and value are read and hashed; an
\* error cuts the destination back to where this record started.
copy_record_raw(file, dest, offset, copy_tombstone) ==
    LET r == read_next_record(file, offset)
    IN  IF r.tag = "eof" THEN [tag |-> "none", dest |-> dest]
        ELSE IF r.tag # "record" THEN [tag |-> "error", dest |-> dest]
        ELSE IF r.record.tomb /\ ~copy_tombstone THEN [tag |-> "none", dest |-> dest]
        ELSE [tag |-> "copied", tomb |-> r.record.tomb, at |-> Len(dest),
              value_size |-> Len(r.record.value),
              dest |-> dest \o SubSeq(file, offset + 1, offset + r.size)]

\* Copies the records at `offsets` in that order; those in `tombs` must be
\* tombstones and the others must not.
RECURSIVE CopyAll(_, _, _, _, _)
CopyAll(file, dest, offsets, tombs, copy_tombstones) ==
    IF offsets = <<>> THEN [ok |-> TRUE, dest |-> dest, moved |-> <<>>]
    ELSE LET c == copy_record_raw(file, dest, Head(offsets), copy_tombstones)
         IN  IF c.tag # "copied" THEN [ok |-> FALSE, dest |-> c.dest, moved |-> <<>>]
             ELSE IF c.tomb # (Head(offsets) \in tombs)
             THEN [ok |-> FALSE, dest |-> c.dest, moved |-> <<>>]
             ELSE LET rest == CopyAll(file, c.dest, Tail(offsets), tombs, copy_tombstones)
                  IN  [rest EXCEPT !.moved = <<[from |-> Head(offsets), to |-> c.at,
                                                value_size |-> c.value_size]>> \o @]

\* Mutant: an offset named twice is copied twice.
copy_live_unchecked(file, dest, offsets) == CopyAll(file, dest, offsets, {}, FALSE)

copy_live_records_impl(file, dest, offsets) ==
    IF ~IsInjective(offsets) THEN [ok |-> FALSE, dest |-> dest, moved |-> <<>>]
    ELSE CopyAll(file, dest, offsets, {}, FALSE)

\* Live records and tombstones together, in source order; the answer lists
\* the live ones in the caller's order.
copy_records_preserve_tombstones_impl(file, dest, live, tombs) ==
    LET all == SetToSortSeq(ToSet(live) \cup ToSet(tombs), <)
        c   == CopyAll(file, dest, all, ToSet(tombs), TRUE)
        at(o) == CHOOSE m \in ToSet(c.moved) : m.from = o
    IN  IF ~IsInjective(live) \/ ~IsInjective(tombs) \/ ToSet(live) \cap ToSet(tombs) # {}
        THEN [ok |-> FALSE, dest |-> dest, moved |-> <<>>]
        ELSE [c EXCEPT !.moved = IF c.ok THEN [i \in DOMAIN live |-> at(live[i])] ELSE <<>>]
=============================================================================
