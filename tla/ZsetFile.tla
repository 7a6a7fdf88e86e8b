------------------------------ MODULE ZsetFile ------------------------------
(***************************************************************************)
(* One sorted-set tree file under its users (mod.rs, store.rs and          *)
(* maintain.rs of zset_tree): the storage process applies the entries of   *)
(* its Raft log to the file, a compaction rewrites the file beside it,     *)
(* readers take no lock, files are synced and checkpoints taken, and a     *)
(* crash loses any part of what was not synced and replays the log from    *)
(* the checkpoint.                                                         *)
(*                                                                         *)
(* A write of a frame, of a header slot, a truncation, and each page read  *)
(* are steps of their own.  Building the new file beside the old one and   *)
(* renaming it over, with the directory's sync, is one step.               *)
(***************************************************************************)
EXTENDS ZsetNif

CONSTANTS
    Modes,              \* the scenarios of a run
    Start(_),           \* operations of the frame a scenario's file begins with
    Entries(_, _),      \* what the next entry of a scenario's log may be
    MaxEntries(_),      \* entries of its log
    MaxCrashes(_),
    MaxSyncs(_),
    MaxCompactions(_),
    MaxReads(_),
    MaxLost,            \* cells a crash may lose inside what it keeps
    READ_ATTEMPTS

VARIABLES
    mode,
    inodes,      \* files by number: cells and slots as written, and as on disk
    path,        \* the file the path names
    raftlog,     \* entries committed so far
    applied,     \* index of the last applied entry
    synced,      \* index applied when the file was last synced
    checkpoint,  \* entries up to here are never replayed
    wr,          \* the storage process
    cp,          \* the compaction
    rd,          \* a reader
    seen,        \* contents that were current since the reader opened the file
    answers,     \* what each entry answered, every time it was applied
    spent        \* crashes, syncs, compactions and reads so far

vars == <<mode, inodes, path, raftlog, applied, synced, checkpoint, wr, cp, rd, seen, answers, spent>>

Inodes == 1..4
File(cells, slots) == [cells |-> cells, slots |-> slots, dcells |-> cells, dslots |-> slots]
Durable(f) == File(f.cells, f.slots)
EmptyFile == File(<<>>, EmptySlots)
Current == inodes[path]
StateNow == state(Current.cells, Current.slots)

NoWriter == [pc |-> "idle", ino |-> 0, locked |-> FALSE, k |-> 0, slot |-> <<>>, outs |-> <<>>]
NoCompaction == [pc |-> "idle", ino |-> 0, base |-> <<>>, undo |-> <<>>, floor |-> 0, scores |-> <<>>,
                 members |-> <<>>]
NoReader == [pc |-> "idle", ino |-> 0, len |-> 0, slots |-> <<>>, st |-> <<>>, todo |-> <<>>,
             out |-> <<>>, attempt |-> 0]

DecodeAll(terms) == [i \in 1..Len(terms) |-> decode_op(terms[i])]

(* Entry 1 converted the set: its frame, of token <<1, 1>>, begins the file.*)
Converted(m) ==
    Durable(Committed(EmptyFile,
                      apply_ops(Begin(<<>>, EmptyState(EmptySlots[1])), DecodeAll(Start(m))).tx,
                      <<1, 1>>))

Init ==
    /\ mode \in Modes
    /\ path = 1
    /\ inodes = [i \in Inodes |-> IF i = 1 THEN [Converted(mode) EXCEPT !.dcells = <<>>, !.dslots = EmptySlots]
                                  ELSE EmptyFile]
    /\ raftlog = <<[writes |-> <<Start(mode)>>, fails |-> FALSE]>>
    /\ applied = 1 /\ synced = 0 /\ checkpoint = 0
    /\ wr = NoWriter /\ cp = NoCompaction /\ rd = NoReader
    /\ seen = {}
    /\ answers = [i \in 1..MaxEntries(mode) |-> {}]
    /\ spent = [crashes |-> 0, syncs |-> 0, compactions |-> 0, reads |-> 0]

idx == applied + 1
entry == raftlog[idx]
Fresh == CHOOSE i \in Inodes : i \notin {path, wr.ino, cp.ino, rd.ino}

-----------------------------------------------------------------------------
(* The storage process takes the next entry of the log, on its first       *)
(* application or on a replay.  Entry 1 creates the file, so it goes       *)
(* straight to its write; every other entry first cuts off the frames that *)
(* a run before a restart wrote for it and for later ones.                 *)
BeginEntry ==
    /\ wr.pc = "idle" /\ idx <= MaxEntries(mode)
    /\ IF idx <= Len(raftlog) THEN UNCHANGED raftlog
       ELSE \E e \in Entries(mode, idx) : raftlog' = Append(raftlog, e)
    /\ wr' = [NoWriter EXCEPT !.pc = IF idx = 1 THEN "write" ELSE "prepare", !.k = 1]
    /\ UNCHANGED <<mode, inodes, path, applied, synced, checkpoint, cp, rd, answers, spent>>

(* Mutant: the path is not looked at again once the lock is held.          *)
OpenLockedStale ==
    /\ wr.pc \in {"prepare", "write", "rollback"} /\ ~ wr.locked
    /\ wr' = IF wr.ino # 0 THEN [wr EXCEPT !.locked = TRUE] ELSE [wr EXCEPT !.ino = path]
    /\ UNCHANGED <<mode, inodes, path, raftlog, applied, synced, checkpoint, cp, rd, answers, spent>>
(* Opens the file, then takes its lock; when the path names another file   *)
(* by then (a compaction or a rewind replaced it), that one is opened.     *)
open_locked ==
    /\ wr.pc \in {"prepare", "write", "rollback"} /\ ~ wr.locked
    /\ wr' = IF wr.ino = path THEN [wr EXCEPT !.locked = TRUE] ELSE [wr EXCEPT !.ino = path]
    /\ UNCHANGED <<mode, inodes, path, raftlog, applied, synced, checkpoint, cp, rd, answers, spent>>

Held == inodes[wr.ino]
HeldState == state(Held.cells, Held.slots)[1]
Unlocked(w) == [w EXCEPT !.locked = FALSE, !.ino = 0]

(* After the entry's last write: a transaction that fails is rolled back.  *)
AfterWrite(w) ==
    LET u == [Unlocked(w) EXCEPT !.k = @ + 1]
    IN  IF w.k < Len(entry.writes) THEN u
        ELSE IF entry.fails THEN [u EXCEPT !.pc = "rollback"] ELSE [u EXCEPT !.pc = "done"]

(* A rewind to before token: the frames at and after it are cut off the    *)
(* end, and a header slot will say so; below a compacted base the file is  *)
(* rebuilt; at or below the base's floor it fails and the process stops.   *)
Rewind(token, next) ==
    LET p == RewindPoint(Held.cells, HeldState.frame_end, token)
    IN  IF ~ p.base
        THEN /\ inodes' = [inodes EXCEPT ![wr.ino].cells = SubSeq(@, 1, p.end - HEADER_REGION)]
             /\ wr' = [wr EXCEPT !.slot = <<RewindSlot(HeldState, p.end)>>]
             /\ UNCHANGED path
        ELSE \E rebuilt \in {rewrite_below_base(Held.cells, FrameAt(Held.cells, p.end), token)} :
                IF rebuilt = <<>>
                THEN wr' = [wr EXCEPT !.pc = "stuck"] /\ UNCHANGED <<inodes, path>>
                ELSE /\ inodes' = [inodes EXCEPT ![Fresh] = Durable(rebuilt[1])]
                     /\ path' = Fresh
                     /\ wr' = IF wr.pc = "write" THEN [wr EXCEPT !.ino = Fresh] ELSE next

(* Where the process goes on after a rewind, and after its slot is written.*)
AfterRewind(w) ==
    CASE w.pc = "prepare" -> [Unlocked(w) EXCEPT !.pc = "write"]
      [] w.pc = "rollback" -> [Unlocked(w) EXCEPT !.pc = "done"]
      [] w.pc = "write" -> w

(* The entry's first look at the file, and a failed transaction's undoing. *)
rewind_to ==
    /\ wr.pc \in {"prepare", "rollback"} /\ wr.locked /\ wr.slot = <<>>
    /\ LET token == <<idx, 1>>
       IN  IF TokenLe(token, HeldState.token) THEN Rewind(token, AfterRewind(wr))
           ELSE wr' = AfterRewind(wr) /\ UNCHANGED <<inodes, path>>
    /\ UNCHANGED <<mode, raftlog, applied, synced, checkpoint, cp, rd, answers, spent>>

(* One write of the entry, all or nothing, as one frame; a token at or     *)
(* below the file's latest is a replay, and the file is cut back first.    *)
WriteFrame(ops, r, c) ==
    LET answered == [wr EXCEPT !.outs = Append(@,
                        IF r.tx.failed THEN <<>>
                        ELSE [i \in 1..Len(ops) |-> outcome_term(ops[i], r.outs[i])])]
    IN  IF r.tx.failed \/ c.frame = <<>>
        THEN wr' = AfterWrite(answered) /\ UNCHANGED inodes
        ELSE /\ inodes' = [inodes EXCEPT ![wr.ino].cells = @ \o c.frame]
             /\ wr' = [answered EXCEPT !.slot = <<CommitSlot(c)>>]
Apply ==
    /\ wr.pc = "write" /\ wr.locked /\ wr.slot = <<>>
    /\ LET token == <<idx, wr.k>>
           ops == DecodeAll(entry.writes[wr.k])
       IN  IF TokenLe(token, HeldState.token) THEN Rewind(token, wr)
           ELSE /\ UNCHANGED path
                /\ \E r \in {apply_ops(Begin(Held.cells, HeldState), ops)} :
                      \E c \in {commit(r.tx, token)} : WriteFrame(ops, r, c)
    /\ UNCHANGED <<mode, raftlog, applied, synced, checkpoint, cp, rd, answers, spent>>

(* The header slot of the frame just written, or of the cut.               *)
WriteSlot ==
    /\ wr.slot # <<>>
    /\ inodes' = [inodes EXCEPT ![wr.ino].slots = write_slot(@, wr.slot[1])]
    /\ LET w == [wr EXCEPT !.slot = <<>>]
           wrote == wr.pc = "write" /\ Len(wr.outs) = wr.k
       IN  wr' = IF wrote THEN AfterWrite(w) ELSE AfterRewind(w)
    /\ UNCHANGED <<mode, path, raftlog, applied, synced, checkpoint, cp, rd, answers, spent>>

EndEntry ==
    /\ wr.pc = "done"
    /\ answers' = [answers EXCEPT ![idx] = @ \cup {wr.outs}]
    /\ applied' = idx
    /\ wr' = NoWriter
    /\ UNCHANGED <<mode, inodes, path, raftlog, synced, checkpoint, cp, rd, spent>>

-----------------------------------------------------------------------------
(* The file is synced, by the storage process or by a checkpoint beside it,*)
(* and a header slot records how far it is on disk.                        *)
SyncFsync(f, s) ==
    [f EXCEPT !.dcells = f.cells, !.dslots = f.slots, !.slots = write_slot(@, SyncedSlot(s))]
sync ==
    /\ ~ wr.locked /\ synced < applied /\ spent.syncs < MaxSyncs(mode)
    /\ LET s == StateNow[1]
       IN  inodes' = IF s.synced = s.frame_end THEN inodes
                     ELSE [inodes EXCEPT ![path] = SyncFsync(@, s)]
    /\ synced' = applied
    /\ spent' = [spent EXCEPT !.syncs = @ + 1]
    /\ UNCHANGED <<mode, path, raftlog, applied, checkpoint, wr, cp, rd, answers>>

(* A checkpoint past the entries whose writes were synced.                 *)
TakeCheckpoint ==
    /\ checkpoint < synced
    /\ checkpoint' = synced
    /\ UNCHANGED <<mode, inodes, path, raftlog, applied, synced, wr, cp, rd, answers, spent>>

-----------------------------------------------------------------------------
(* Compaction of a file that has grown: the base is built from the tree as *)
(* of one state without the lock ...                                       *)
Source == inodes[cp.ino].cells

CompactOpen ==
    /\ cp.pc = "idle" /\ spent.compactions < MaxCompactions(mode)
    /\ file_stats(Current.cells).len > file_stats(Current.cells).first + HEADER_REGION
    /\ StateNow # <<>> /\ StateNow[1].frame_end > HEADER_REGION
    /\ cp' = [NoCompaction EXCEPT !.pc = "undo", !.ino = path, !.floor = checkpoint,
                                  !.base = FrameAt(Current.cells, StateNow[1].frame_end)]
    /\ spent' = [spent EXCEPT !.compactions = @ + 1]
    /\ UNCHANGED <<mode, inodes, path, raftlog, applied, synced, checkpoint, wr, rd, answers>>

CompactUndo ==
    /\ cp.pc = "undo"
    /\ cp' = IF frames_back(Source, cp.base.end, HEADER_REGION).ok
             THEN [cp EXCEPT !.pc = "scores", !.undo = undo_log_after(Source, cp.base.end, cp.floor)]
             ELSE NoCompaction
    /\ UNCHANGED <<mode, inodes, path, raftlog, applied, synced, checkpoint, wr, rd, answers, spent>>

CompactVisit ==
    /\ cp.pc \in {"scores", "members"}
    /\ \E v \in {visit(Source, IF cp.pc = "scores" THEN cp.base.trailer.score_root
                                ELSE cp.base.trailer.member_root)} :
           cp' = IF ~ v.ok THEN NoCompaction
                 ELSE IF cp.pc = "scores" THEN [cp EXCEPT !.pc = "members", !.scores = v.out]
                 ELSE [cp EXCEPT !.pc = "finish", !.members = v.out]
    /\ UNCHANGED <<mode, inodes, path, raftlog, applied, synced, checkpoint, wr, rd, answers, spent>>

(* ... then, holding the lock of the file the path names, the frames       *)
(* written meanwhile are replayed onto it under their own tokens and it is *)
(* put in place.  A file that no longer holds the base is left alone.      *)
ReplayFrame(f, frame) ==
    Committed(f, FoldLeft(replay, Begin(f.cells, Latest(f)),
                          decode_ops(frame_ops(Current.cells, frame))),
              frame.trailer.token)
CatchUp(file, frames) == finish_rebuilt(FoldLeft(ReplayFrame, file, frames))
CompactFinish ==
    /\ cp.pc = "finish" /\ ~ wr.locked
    /\ LET tail == frames_after(Current.cells, StateNow[1].frame_end, cp.base)
           based == write_base(cp.scores, cp.members, cp.base.trailer, cp.undo)
       IN  IF tail = <<>> THEN UNCHANGED <<inodes, path>>
           ELSE /\ inodes' = [inodes EXCEPT ![Fresh] = Durable(CatchUp(based, tail[1]))]
                /\ path' = Fresh
    /\ cp' = NoCompaction
    /\ UNCHANGED <<mode, raftlog, applied, synced, checkpoint, wr, rd, answers, spent>>

-----------------------------------------------------------------------------
(* A reader of the whole set: opens the file, reads the slots, the trailer *)
(* they lead to, and the pages one by one; the frame must still end the    *)
(* same way, or the read starts over.                                      *)
ReadCells == inodes[rd.ino].cells
Again == IF rd.attempt < READ_ATTEMPTS THEN [NoReader EXCEPT !.pc = "open", !.attempt = rd.attempt]
         ELSE [rd EXCEPT !.pc = "failed"]

StartRead ==
    /\ rd.pc \in {"idle", "done", "failed"} /\ spent.reads < MaxReads(mode)
    /\ rd' = [NoReader EXCEPT !.pc = "open"]
    /\ spent' = [spent EXCEPT !.reads = @ + 1]
    /\ UNCHANGED <<mode, inodes, path, raftlog, applied, synced, checkpoint, wr, cp, answers>>

ReadOpen ==
    /\ rd.pc = "open"
    /\ rd' = [rd EXCEPT !.pc = "slots", !.ino = path, !.len = FileLen(Current.cells),
                        !.attempt = @ + 1]
    /\ UNCHANGED <<mode, inodes, path, raftlog, applied, synced, checkpoint, wr, cp, answers, spent>>

(* A slot read while it is rewritten fails its checksum.                   *)
ReadSlots ==
    /\ rd.pc = "slots"
    /\ LET slots == inodes[rd.ino].slots
           torn == IF wr.slot # <<>> /\ wr.ino = rd.ino
                   THEN [slots EXCEPT ![slot_offset(wr.slot[1])] = NoSlot] ELSE slots
       IN  \E s \in {slots, torn} : rd' = [rd EXCEPT !.pc = "trailer", !.slots = s]
    /\ UNCHANGED <<mode, inodes, path, raftlog, applied, synced, checkpoint, wr, cp, answers, spent>>

(* The reader knows the file's length from when it opened it; what was cut *)
(* off since cannot be read.                                               *)
Readable == SubSeq(ReadCells, 1, Smaller(Len(ReadCells), rd.len - HEADER_REGION))
CutAway(s) == s.latest > FileLen(ReadCells) /\ s.latest <= rd.len
NewerThan(s) == \E o \in {rd.slots[1], rd.slots[2]} : o.generation > s.generation /\ CutAway(o)
ReadState ==
    /\ rd.pc = "trailer"
    /\ LET s == state(Readable, rd.slots)
       IN  rd' = IF s = <<>> \/ NewerThan(s[1]) THEN Again
                 ELSE [rd EXCEPT !.pc = "pages", !.st = s,
                                 !.todo = IF s[1].score_root = EMPTY THEN <<>> ELSE <<s[1].score_root>>]
    /\ UNCHANGED <<mode, inodes, path, raftlog, applied, synced, checkpoint, wr, cp, answers, spent>>

ReadPage ==
    /\ rd.pc = "pages" /\ rd.todo # <<>>
    /\ LET page == read_page(Readable, rd.todo[1])
           n == decode_node(Readable, page)
       IN  rd' = IF ~ node_readable(Readable, page) THEN Again
                 ELSE IF n.leaf
                 THEN [rd EXCEPT !.todo = Tail(@), !.out = @ \o [i \in 1..Len(n.keys) |->
                          score_entry([key |-> n.keys[i].bytes, value |-> n.values[i]])]]
                 ELSE [rd EXCEPT !.todo = n.children \o Tail(@)]
    /\ UNCHANGED <<mode, inodes, path, raftlog, applied, synced, checkpoint, wr, cp, answers, spent>>

(* Mutant: the frame is not read again.                                    *)
AlwaysUnchanged(cells, s) == TRUE
frame_unchanged(cells, s) ==
    LET t == trailer_ending_at(cells, s.frame_end)
    IN  \/ s.frame_end = HEADER_REGION
        \/ t # <<>> /\ t[1].token = s.token /\ t[1].score_root = s.score_root
                    /\ t[1].member_root = s.member_root

ReadVerify ==
    /\ rd.pc = "pages" /\ rd.todo = <<>>
    /\ rd' = IF frame_unchanged(Readable, rd.st[1]) THEN [rd EXCEPT !.pc = "done"] ELSE Again
    /\ UNCHANGED <<mode, inodes, path, raftlog, applied, synced, checkpoint, wr, cp, answers, spent>>

-----------------------------------------------------------------------------
(* What a crash can leave of a file: of the cells that differ from what is *)
(* on disk, none, all but a few, or those up to some length; each slot as  *)
(* written, as on disk, or torn.                                           *)
CrashImages(f) ==
    LET n == Larger(Len(f.cells), Len(f.dcells))
        written(i) == IF i <= Len(f.cells) THEN f.cells[i] ELSE f.dcells[i]
        disk(i) == IF i <= Len(f.dcells) THEN f.dcells[i] ELSE Junk
        changed == {i \in 1..n : written(i) # disk(i)}
        lost == {s \in SUBSET changed : Cardinality(s) <= MaxLost} \cup {changed}
        slot(i) == IF f.slots[i] = f.dslots[i] THEN {f.slots[i]} ELSE {f.slots[i], f.dslots[i], NoSlot}
        cut == {[len |-> k, lost |-> {}] : k \in Smaller(Len(f.cells), Len(f.dcells))..n}
        left == cut \cup {[len |-> n, lost |-> l] : l \in lost}
    IN  {[cells |-> [i \in 1..c.len |-> IF i \in c.lost THEN disk(i) ELSE written(i)], slots |-> <<a, b>>] :
            c \in left, a \in slot(1), b \in slot(2)}

(* The node stops and starts again: the file is recovered and the log is   *)
(* replayed from the checkpoint.                                           *)
Crash ==
    /\ spent.crashes < MaxCrashes(mode)
    /\ spent' = [spent EXCEPT !.crashes = @ + 1]
    /\ \E image \in CrashImages(Current) : \E r \in {recover(image)} :
          LET last == spent.crashes + 1 = MaxCrashes(mode)   \* then the disk is never looked at again
              disk == IF last THEN r ELSE image
          IN  inodes' = [i \in Inodes |->
                  IF i = path THEN [cells |-> r.cells, slots |-> r.slots,
                                    dcells |-> disk.cells, dslots |-> disk.slots]
                  ELSE EmptyFile]
    /\ applied' = checkpoint /\ synced' = checkpoint
    /\ wr' = NoWriter /\ cp' = NoCompaction /\ rd' = NoReader
    /\ UNCHANGED <<mode, path, raftlog, checkpoint, answers>>

-----------------------------------------------------------------------------
(* The set a file holds: both trees must hold the same members and scores. *)
Holds(list) == {[member |-> list[i].member, score |-> list[i].score] : i \in 1..Len(list)}
ContentOf(cells, s) ==
    LET tx == Begin(cells, s) IN Holds(entries(tx, Score, 0, s.count, FALSE))
Content(f) ==
    LET s == state(f.cells, f.slots) IN IF s = <<>> THEN {} ELSE {ContentOf(f.cells, s[1])}

(* The contents a reader may find: a frame can be found before its slot    *)
(* names it, at the end of a frame that was cut off.                       *)
Visible(f, w) ==
    Content(f) \cup (IF w.slot = <<>> \/ w.ino # path THEN {}
                     ELSE Content([f EXCEPT !.slots = write_slot(@, w.slot[1])]))

Step ==
    \/ BeginEntry \/ open_locked \/ rewind_to \/ Apply \/ WriteSlot \/ EndEntry
    \/ sync \/ TakeCheckpoint
    \/ CompactOpen \/ CompactUndo \/ CompactVisit \/ CompactFinish
    \/ StartRead \/ ReadOpen \/ ReadSlots \/ ReadState \/ ReadPage \/ ReadVerify
    \/ Crash

Watching == {"slots", "trailer", "pages"}
Next ==
    /\ Step
    /\ \E after \in {inodes'[path']} :
          seen' = IF rd'.pc = "done" THEN seen
                  ELSE IF rd'.pc \notin Watching THEN {}
                  ELSE (IF rd'.attempt = rd.attempt THEN seen ELSE Visible(Current, wr))
                       \cup Visible(after, wr')

Spec == Init /\ [][Next]_vars
=============================================================================
