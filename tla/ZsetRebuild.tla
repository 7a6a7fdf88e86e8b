---------------------------- MODULE ZsetRebuild ----------------------------
(***************************************************************************)
(* The file of a sorted-set tree as its readers find it (store.rs) and the *)
(* operations that rebuild it (maintain.rs): packed trees written bottom   *)
(* up, rewinding below a compacted base, recovery after a crash.           *)
(***************************************************************************)
EXTENDS ZsetOps

FileLen(cells) == HEADER_REGION + Len(cells)

(* The trailer that ends at offset end, <<>> when none does.               *)
trailer_ending_at(cells, end) ==
    IF end > FileLen(cells) \/ end < HEADER_REGION + 1 THEN <<>>
    ELSE LET cell == cells[end - 1]
         IN  IF is_trailer(cell) /\ cell[5] < end THEN <<decode_trailer(cell)>> ELSE <<>>

EmptyState(slot) ==
    [score_root |-> EMPTY, member_root |-> EMPTY, count |-> 0, token |-> <<0, 0>>,
     frame_end |-> HEADER_REGION, generation |-> slot.generation, synced |-> slot.synced]
StateOf(t, slot) ==
    [score_root |-> t.score_root, member_root |-> t.member_root, count |-> t.count,
     token |-> t.token, frame_end |-> slot.latest, generation |-> slot.generation,
     synced |-> slot.synced]

StateAt(cells, slot) ==
    IF slot.latest = HEADER_REGION THEN EmptyState(slot)
    ELSE StateOf(trailer_ending_at(cells, slot.latest)[1], slot)

(* The latest consistent tree: that of the newest valid slot whose frame   *)
(* has a valid trailer; <<>> when no slot names one.                       *)
state(cells, slots) ==
    LET usable == {s \in {slots[1], slots[2]} :
                      /\ s.generation > 0
                      /\ s.latest = HEADER_REGION \/ trailer_ending_at(cells, s.latest) # <<>>}
    IN  IF usable = {} THEN <<>>
        ELSE <<StateAt(cells, CHOOSE s \in usable : \A o \in usable : o.generation <= s.generation)>>

write_slot(slots, slot) == [slots EXCEPT ![slot_offset(slot)] = slot]

-----------------------------------------------------------------------------
(* A frame that ends at end, the log it keeps, and all frames up to one.   *)
FrameAt(cells, end) ==
    LET t == trailer_ending_at(cells, end)[1]
        h == decode_frame_header(cells[t.frame_start])
    IN  [start |-> t.frame_start, end |-> end, trailer |-> t, base |-> h.base]
frame_ops(cells, frame) == From(cells[frame.end - 2], 2)

(* Frames from the latest back to the first, oldest first; <<>> with ok    *)
(* FALSE when the chain is broken.                                         *)
RECURSIVE frames_back(_, _, _)
frames_back(cells, end, stop) ==
    IF end <= stop THEN [ok |-> end = stop, frames |-> <<>>]
    ELSE IF trailer_ending_at(cells, end) = <<>> THEN [ok |-> FALSE, frames |-> <<>>]
    ELSE LET t == trailer_ending_at(cells, end)[1]
             readable == t.frame_start >= HEADER_REGION /\ is_frame_header(cells[t.frame_start])
             earlier == frames_back(cells, t.frame_start, stop)
         IN  IF ~ readable THEN [ok |-> FALSE, frames |-> <<>>]
             ELSE [ok |-> earlier.ok, frames |-> Append(earlier.frames, FrameAt(cells, end))]

(* The frames after base, <<>> inside when base is not one of the file's.  *)
frames_after(cells, latest, base) ==
    LET back == frames_back(cells, latest, base.end)
    IN  IF back.ok /\ trailer_ending_at(cells, base.end) = <<base.trailer>>
        THEN <<back.frames>> ELSE <<>>

(* The changes after floor up to latest: the part of a base's log after    *)
(* the floor, then each later frame's changes.                             *)
UndoLog(cells, latest, floor_index) ==
    LET frames == frames_back(cells, latest, HEADER_REGION).frames
        step(acc, f) ==
            IF f.base
            THEN LET undo == decode_undo(frame_ops(cells, f))
                 IN  [floor |-> Larger(acc.floor, undo.floor), groups |-> acc.groups \o undo.groups]
            ELSE [acc EXCEPT !.groups = Append(@, [token |-> f.trailer.token,
                                                    ops |-> decode_ops(frame_ops(cells, f))])]
        all == FoldLeft(step, [floor |-> floor_index, groups |-> <<>>], frames)
    IN  [all EXCEPT !.groups = SelectSeq(@, LAMBDA g : g.token[1] > all.floor)]
undo_log_after(cells, latest, floor_index) == UndoLog(cells, latest, floor_index)

-----------------------------------------------------------------------------
(* Packed trees, built bottom up from keys in order; each level keeps back *)
(* its last full node so that the final one can be balanced with it.       *)
FILL == (PAGE_SIZE * 7) \div 8

Open(first, n) == [first |-> first, node |-> n]
EmptyLevel == [held |-> <<>>, pending |-> <<>>]
level(bulk, i) == IF i <= Len(bulk.levels) THEN bulk.levels[i] ELSE EmptyLevel
SetLevel(bulk, i, l) ==
    [bulk EXCEPT !.levels = IF i <= Len(@) THEN [@ EXCEPT ![i] = l] ELSE Append(@, l)]

(* Writes a node; long keys get fresh overflow pages in this file.         *)
Chained(acc, key) ==
    LET head == acc.base + Len(acc.pages)
    IN  [acc EXCEPT
            !.keys = Append(@, [bytes |-> key.bytes, overflow |-> IF IsLong(key) THEN head ELSE 0]),
            !.pages = IF IsLong(key) THEN @ \o encode_overflow(key.bytes, head) ELSE @]
WriteChained(bulk, n, chained) ==
    [bulk |-> [bulk EXCEPT !.pages =
                  Append(chained.pages, encode_node([n EXCEPT !.keys = chained.keys], n.children))],
     offset |-> bulk.base + Len(chained.pages)]
write_node(bulk, n) ==
    WriteChained(bulk, n,
                 FoldLeft(Chained, [keys |-> <<>>, pages |-> bulk.pages, base |-> bulk.base], n.keys))

RECURSIVE push_child(_, _, _, _, _)
rotate(bulk, i, fresh) ==
    LET l == level(bulk, i)
        moved == SetLevel(bulk, i, [held |-> IF l.pending = <<>> THEN l.held ELSE l.pending,
                                    pending |-> <<fresh>>])
        up(w) == push_child(w.bulk, i + 1, l.held[1].first, w.offset, node_count(l.held[1].node))
    IN  IF l.pending = <<>> \/ l.held = <<>> THEN moved
        ELSE up(write_node(moved, l.held[1].node))

push_child(bulk, i, first, offset, count) ==
    LET l == level(bulk, i)
        n == l.pending[1].node
    IN  IF l.pending # <<>> /\ encoded_len(n) + key_len(first) + 2 <= FILL
        THEN SetLevel(bulk, i, [l EXCEPT !.pending = <<Open(l.pending[1].first,
                 Branch(Append(n.keys, first), Append(n.children, offset), Append(n.counts, count)))>>])
        ELSE rotate(bulk, i, Open(first, Branch(<<>>, <<offset>>, <<count>>)))

push_entry(bulk, e) ==
    LET key == Key(e.key)
        l == level(bulk, 1)
        n == l.pending[1].node
    IN  IF l.pending # <<>> /\ encoded_len(n) + entry_len(key, e.value) <= FILL
        THEN SetLevel(bulk, 1, [l EXCEPT !.pending = <<Open(l.pending[1].first,
                 Leaf(Append(n.keys, key), Append(n.values, e.value)))>>])
        ELSE rotate(bulk, 1, Open(key, Leaf(<<key>>, <<e.value>>)))

(* A level's last two nodes merged, and split again by size when they do   *)
(* not fit one page.                                                       *)
split_point(sizes, last) == SplitAt(sizes, last)
SplitPacked(n) ==
    IF n.leaf THEN LeafHalves(n, split_point(LeafSizes(n), Len(n.keys) - 1))
    ELSE BranchHalves(n, Smaller(split_point(BranchSizes(n), Len(n.keys) - 1), Len(n.keys) - 2))
TwoNodes(first, halves) == <<Open(first, halves.left), Open(halves.sep, halves.right)>>
OneOrTwo(first, merged) ==
    IF encoded_len(merged) <= PAGE_SIZE THEN <<Open(first, merged)>>
    ELSE TwoNodes(first, SplitPacked(merged))
balance_last(l) ==
    IF l.held = <<>> \/ l.pending = <<>> THEN l.held \o l.pending
    ELSE OneOrTwo(l.held[1].first, Merged(l.held[1].node, l.pending[1].first, l.pending[1].node))

WithRoot(bulk, r) == [bulk EXCEPT !.levels = <<>>, !.roots = Append(@, r)]
PushWritten(w, i, open) == push_child(w.bulk, i, open.first, w.offset, node_count(open.node))

RECURSIVE finish_tree(_, _)
FinishLevel(bulk, i, nodes) ==
    LET top == \A j \in (i + 1)..Len(bulk.levels) : bulk.levels[j] = EmptyLevel
        n == nodes[1].node
        step(acc, open) == PushWritten(write_node(acc, open.node), i + 1, open)
        written(w) == WithRoot(w.bulk, w.offset)
    IN  IF ~ top \/ Len(nodes) # 1 THEN finish_tree(FoldLeft(step, bulk, nodes), i + 1)
        ELSE IF ~ n.leaf /\ Len(n.children) = 1 THEN WithRoot(bulk, n.children[1])
        ELSE written(write_node(bulk, n))
finish_tree(bulk, i) ==
    IF i > Len(bulk.levels) THEN WithRoot(bulk, EMPTY)
    ELSE FinishLevel(bulk, i, balance_last(level(bulk, i)))

(* Every key and value of a tree, in order; not ok when a page of it is no *)
(* longer there.                                                           *)
InOrder(below) ==
    [ok |-> \A i \in 1..Len(below) : below[i].ok,
     out |-> FlattenSeq([i \in 1..Len(below) |-> below[i].out])]

RECURSIVE visit(_, _)
VisitNode(cells, n) ==
    IF n.leaf
    THEN [ok |-> TRUE, out |-> [i \in 1..Len(n.keys) |->
             [key |-> n.keys[i].bytes, value |-> n.values[i]]]]
    ELSE InOrder([i \in 1..Len(n.children) |-> visit(cells, n.children[i])])
visit(cells, root) ==
    IF root = EMPTY THEN [ok |-> TRUE, out |-> <<>>]
    ELSE IF ~ node_readable(cells, read_page(cells, root)) THEN [ok |-> FALSE, out |-> <<>>]
    ELSE VisitNode(cells, decode_node(cells, read_page(cells, root)))

Bulk == [pages |-> <<>>, base |-> HEADER_REGION + 1, levels |-> <<>>, roots |-> <<>>]
PackTree(bulk, list) == finish_tree(FoldLeft(push_entry, bulk, list), 1)

(* A fresh file with one base frame: the tree base names, whose entries    *)
(* the two visits found, and undo as its log.                              *)
BaseFrame(bulk, base, body) ==
    Append(body, encode_trailer(
        [score_root |-> bulk.roots[1], member_root |-> bulk.roots[2], count |-> base.count,
         frame_start |-> HEADER_REGION, generation |-> 2, token |-> base.token, body |-> body]))
BaseFile(cells) ==
    [cells |-> cells,
     slots |-> write_slot(EmptySlots, HeaderSlot(2, FileLen(cells), HEADER_REGION))]
WriteBulk(bulk, base, undo) ==
    BaseFile(BaseFrame(bulk, base,
                       <<frame_header(Len(bulk.pages), base.token, TRUE)>> \o bulk.pages
                       \o <<<<LOG_MAGIC>> \o encode_undo(undo)>>))
write_base(scores, members, base, undo) ==
    WriteBulk(PackTree(PackTree(Bulk, scores), members), base, undo)

(* A transaction's frame appended to a file, and the slot that names it.   *)
CommitSlot(c) == HeaderSlot(c.state.generation, c.state.frame_end, c.state.synced)
Extended(file, c) ==
    IF c.frame = <<>> THEN file
    ELSE [cells |-> file.cells \o c.frame, slots |-> write_slot(file.slots, CommitSlot(c))]
Committed(file, tx, token) == Extended(file, commit(tx, token))
Latest(file) == state(file.cells, file.slots)[1]

(* A rebuilt file made durable, with a slot that says so.                  *)
SyncedSlot(s) == HeaderSlot(s.generation + 1, s.frame_end, s.frame_end)
finish_rebuilt(file) == [file EXCEPT !.slots = write_slot(@, SyncedSlot(Latest(file)))]

(* The base's tree with its log undone back to token, as a new file; <<>>  *)
(* at or below the log's floor.                                            *)
BaseOf(cells, t, token, undo) ==
    write_base(visit(cells, t.score_root).out, visit(cells, t.member_root).out,
               [t EXCEPT !.token = token], undo)
Undone(scratch, ops, token) ==
    Committed(scratch, FoldLeft(revert, Begin(scratch.cells, Latest(scratch)), ops), token)
Rebased(file, token, undo) ==
    finish_rebuilt(BaseOf(file.cells,
                          trailer_ending_at(file.cells, Latest(file).frame_end)[1], token, undo))

rewrite_below_base(cells, base, token) ==
    LET undo == decode_undo(frame_ops(cells, base))
        kept == SelectSeq(undo.groups, LAMBDA g : TokenLt(g.token, token))
        undone == SelectSeq(undo.groups, LAMBDA g : ~ TokenLt(g.token, token))
        at == IF kept = <<>> THEN <<token[1], 0>> ELSE Last(kept).token
        ops == Reverse(FlattenSeq([i \in 1..Len(undone) |-> undone[i].ops]))
    IN  IF token[1] <= undo.floor THEN <<>>
        ELSE <<Rebased(Undone(BaseOf(cells, base.trailer, base.trailer.token,
                                     [floor |-> 0, groups |-> <<>>]), ops, at),
                       at, [floor |-> undo.floor, groups |-> kept])>>

(* Where a rewind to before token cuts the file, and whether it first      *)
(* meets the base.                                                         *)
RECURSIVE RewindPoint(_, _, _)
RewindPoint(cells, end, token) ==
    IF end <= HEADER_REGION THEN [end |-> end, base |-> FALSE]
    ELSE LET f == FrameAt(cells, end)
         IN  IF TokenLt(f.trailer.token, token) THEN [end |-> end, base |-> FALSE]
             ELSE IF f.base THEN [end |-> end, base |-> TRUE]
             ELSE RewindPoint(cells, f.start, token)
RewindSlot(s, end) == HeaderSlot(s.generation + 1, end, Smaller(s.synced, end))

-----------------------------------------------------------------------------
(* The end of the whole frame that starts at start, 0 when there is none:  *)
(* its header, length, trailer and checksum must all hold.                 *)
frame_valid(cells, start) ==
    IF start > Len(cells) \/ ~ is_frame_header(cells[start]) THEN 0
    ELSE LET h == decode_frame_header(cells[start])
             end == start + frame_len(h)
         IN  IF end > FileLen(cells) \/ ~ is_trailer(cells[end - 1]) THEN 0
             ELSE LET t == decode_trailer(cells[end - 1])
                  IN  IF t.frame_start = start /\ t.token = h.token /\ t.body = SubSeq(cells, start, end - 2)
                      THEN end ELSE 0

RECURSIVE LastWhole(_, _)
LastWhole(cells, end) ==
    LET next == frame_valid(cells, end) IN IF next = 0 THEN end ELSE LastWhole(cells, next)

(* Run when a node starts: every frame after the last known sync is        *)
(* checked in turn and the file is cut after the last whole one.           *)
recover(file) ==
    LET valid == {s \in {file.slots[1], file.slots[2]} : s.generation > 0}
        newest == CHOOSE s \in valid : \A o \in valid : o.generation <= s.generation
        synced == IF valid = {} THEN HEADER_REGION ELSE newest.synced
        generation == IF valid = {} THEN 0 ELSE newest.generation
        start == IF synced = HEADER_REGION \/ trailer_ending_at(file.cells, synced) # <<>>
                 THEN synced ELSE HEADER_REGION
        end == LastWhole(file.cells, start)
    IN  [cells |-> SubSeq(file.cells, 1, end - HEADER_REGION),
         slots |-> write_slot(file.slots, HeaderSlot(generation + 1, end, start))]

(* The file's length and its first frame's.                                *)
file_stats(cells) ==
    [len |-> FileLen(cells),
     first |-> IF cells # <<>> /\ is_frame_header(cells[1])
               THEN frame_len(decode_frame_header(cells[1])) ELSE 0]
=============================================================================
