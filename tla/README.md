# FerricStore: TLA+ models and proofs

FerricStore is a durable key-value store with a workflow engine ("Flow") on top.
Commands enter through the native protocol, the HTTP gateway or the embedded
Elixir API, are routed to a shard, ordered by a Raft group (WARaft), and applied
by a state machine that writes Bitcask files, an ETS keydir, sidecar files for
large structures and, for Flow, an ordered index in memory and an LMDB mirror.
Rust NIFs do the file I/O and hold the index. This directory holds TLA+ models
of the parts in which ordering, crashes, retries and threads decide whether the
result is right.

`PROJECT.json` holds the inventory of all parts, the lines each definition
models, the runs, the mutants each property is tested with, the hazards and the
theorems.

## Modules

| Module | Part of the system | Checked by |
| --- | --- | --- |
| `FlowLease` | what a Flow's lease promises, as an abstract specification | refinement |
| `FlowLifecycle`, `FlowLifecycle_proofs` | one Flow record and the commands that change it | TLC, TLAPS |
| `FlowFanout` | parents, children and groups | TLC |
| `FlowIndex`, `FlowIndex_proofs` | the native ordered index of Flows | TLC, TLAPS |
| `FlowRecord` | the durable formats of records and history events | TLC |
| `FlowClaim` | claims planned natively, over both | TLC |
| `WalNif`, `WalNif_proofs` | the append-log NIF: callers, buffer, writer thread | TLC, TLAPS |
| `Hlc`, `Hlc_proofs` | the hybrid logical clock | TLC, TLAPS |
| `Publication`, `PublicationWriters_proofs`, `Publication_proofs` | publication epochs, fences and lock-free readers of the key directory | TLC, TLAPS |
| `BitcaskLog` | the bytes of data and hint files, and every reader of them | TLC |
| `BitcaskStore` | appends, rollback, hints, crashes and starts of a shard | TLC |
| `SidecarIo`, `SidecarIo_proofs` | admission, locks and publication of sidecar files | TLC, TLAPS |
| `ProbCells`, `Bloom`, `Cms`, `Cuckoo`, `TopK` | the probabilistic structures | TLC |
| `ProbTxn`, `ProbTxn_proofs` | the receipt journal that mutates them once | TLC, TLAPS |
| `ZsetNode`, `ZsetTree`, `ZsetOps`, `ZsetRebuild`, `ZsetNif` | the sorted-set file: pages, trees, commands, rebuilding, calls | TLC |
| `ZsetFile` | that file under the log, crashes, compaction and readers | TLC |
| `MC*` | instances for TLC | |

The lower modules are functions of bytes and pages, translated call by call; the
modules above them (`FlowClaim`, `BitcaskStore`, `ProbTxn`, `ZsetFile`) are state
machines that use them, so that a crash or an interleaving meets the real
formats and not an idealised file.

### FlowLifecycle

State: `rec`, the stored record (state, run_state, version, attempts, fencing
token, lease token and deadline, due time, creation time, retention deadline),
`history`, and `seen`, the digest rows stored under signal idempotency keys. The
remaining variables remember what happened: credentials granted, completions
applied and acknowledged, and for each idempotency key the states in which its
signal was applied.

The state machine applies one command at a time, so an action is the whole apply
function of one command: `Create`, `StartAndClaim`, `Claim` (claims and
reclaims), `ExtendLease`, `Transition`, `StepContinue`, `Complete`, `Retry`,
`Fail`, `Cancel`, `Rewind`, `Signal`, `ValuePut`, the sweeper's timeout and
retention cleanup. What interleaves is the outside. A worker may send any
command with any credential it was ever granted, late and repeatedly; a client
without a lease presents no token. Every command carries the time its sender
read: any value in `0..MaxNow`, not monotone along the log.

Choices a reader should know:

- a command that is refused or answered without a write is a stuttering step,
  except that `acked` records the completions answered `:ok`;
- options that only refuse more commands (`expected_version`, `expect_state`)
  are left out;
- the time stamped on retention is the command's time;
- retention removes a Flow with everything the properties count about it, so a
  Flow created again under the same id starts from fencing number 0, as in the
  code.

`FlowLease` is the abstract lease: a grant is a token nobody held before and
carries the next fencing number; at most one token is current; one that stopped
being current never is again. `LeaseImplemented` maps `holder` to the record's
token, `fence` to its fencing number and `used` to the credentials granted.

### FlowFanout

State: one record per Flow id with its parent, its groups (policy, status of
each child, summary, resolution), and a boolean for the lease. A family lives on
one shard (the code refuses to spawn across shards with `CROSSSLOT`), so an
action is a command with everything it sets off: `close` walks up to the groups
that wait for the Flow and down to the children it must cancel, recursively as
in `flow_terminal.ex`. A rewind, refused for a Flow with a parent or with groups
(`require_rewindable`), goes to the creation event.

### FlowIndex, FlowRecord, FlowClaim

The index keeps each member twice, in the ordered set that answers range and due
queries and in the map that answers point queries, with a count per key. A NIF
holds the resource's lock for its whole body and is one action; a reader that
walks a key page by page takes the lock once per page, so writers get in between.
Keys, members and scores are small integers in the code's order; -0.0, ties, and
a history member whose byte order differs from its version order are among them.

`FlowRecord` encodes and decodes records and history events byte by byte, with
the code's varint scheme at a smaller base, so that overlong, overflowing and
inexact numbers exist. `FlowClaim` puts index and codec together as a Raft batch
does: several claims read due candidates from the index and rows from the keydir,
both of which the batch's own writes reach only when it is flushed; the queued
index changes are applied after the flush, or dropped when it fails. Two claims
that a namespace's batching window puts into one batch may therefore both take a
Flow (pipelined claims do not: they are grouped by queue first). The later write of
the record stays, so the lease of the later claim holds and the other worker is
refused by its token; the row of the losing worker stays in the index.

### WalNif

State: the shared buffer with its mutex, the bounded channel, the close gate and
the sync admission lock, the writer thread's program counter, the file, and the
length of its synced prefix. Each lock of the code is either a variable (when
the code does something else while holding it) or one step. A write is one
element of a sequence. The thread takes the buffer, writes any part of it, puts
the rest back on failure, syncs and answers; it may panic anywhere in its loop,
after which it answers its own callers, then those still queued, and leaves.
Bytes written before a successful `fdatasync` are durable after it, also when
an earlier `fdatasync` failed; what a kernel does to dirty pages after a failed
`fdatasync` is outside the code.

### BitcaskLog, BitcaskStore

A file is a sequence of cells; a record is a checksum cell, a header cell and
the cells of its key and value. A checksum cell holds what it covers, so that it
matches nothing else, and a value may itself be the cells of a record, which is
what makes resynchronising after a torn tail hard. Garbage read as a header
claims sizes of one and one; the record's timestamp, which nothing reads, is left
out.

`BitcaskStore` is one active file: an appender takes the append lock, writes its
buffers in any order the ring allows and any number of cells at a time, syncs,
and answers with locations, or rolls the file back. A power loss leaves any
length between the synced and the written one, with all unsynced cells, all but
one, or none of them; a clean stop writes the hint
file (rename and directory sync are one step). `Start` recovers the keydir from
hint and log as the code does, page by page, or refuses. `keydir` is what the last
start left; the rows that running appends publish are not followed.

### SidecarIo

State: the directory, two cells per inode, the staging files, the shared and
exclusive holders of each inode's lock, the two admission counters, and what each
call is doing. Opening a path, each lock, each cell read or written, and the
permit's two counters are steps of their own, so a rename can happen between a
call's open and its lock. Opening all files of a merge is one step. A write in
place may fail before its last cell, and then leaves the inode `torn` until the
next complete write.

### ProbTxn and the structures

A structure's content is a function from cells to values, a cell being what the
code reads and writes whole. Hash functions are tables over three elements whose
positions overlap; every width and limit of the code is a small constant.
Each structure module has the planned (journaled) mutation, the direct one, and
the synchronous and asynchronous reads. `ProbTxn` follows one file through its
shard's log: plan, publish the receipt, write the after-images one by one,
publish the answer, compact the receipt, with a stop of the process between any
two of these and the replay of any suffix of the log. Writing the receipt or an
image may also fail, the image in any part; that, and an error of a structure that
the state machine does not know as an answer to the command, blocks the shard until
it is restarted and replays the entry. Modes without a log and without tokens are
included.

### ZsetFile and the modules below it

`ZsetNode` is the stored form (pages, frames, trailers, header slots), `ZsetTree`
the copy-on-write transaction over the two counted B+trees, `ZsetOps` the
commands and queries, `ZsetRebuild` bulk building, frames, rewinding and recovery,
`ZsetNif` the terms Elixir passes. Page capacity is 44 numbers, so that forty members
give three levels; splits, merges, rebalancing and overflow keys all occur. In `ZsetFile` the
storage process applies log entries with one or two writes, rewinds when an entry
is replayed, rolls back an entry that fails, syncs and takes checkpoints; a
compaction rewrites the file beside it and catches up; a reader without a lock
reads slots, trailer and pages one at a time; a crash cuts
what was not synced at any length, or loses all of it or up to `MaxLost` cells
of it, and tears header slots.

### Hlc

State: one packed word per node, and per process the call under way: the word
it read and the word it wants to exchange. Reading the word and exchanging it
are separate steps, so processes of one node race. The wall clock reading of
each attempt is arbitrary. A remote timestamp is any timestamp ever handed out
(delivered in any order, any number of times) or one of `Foreign`, which
contains values the code refuses and a logical part wider than its bits. The
packed word has `LogicalSize` logical values and `MaxPhysical + 1` physical
ones; the code's are 2^16 and 2^48.

### Publication

State: per shard the epoch counter, the latch, fence, lifecycle and generation
rows; per writer and reader the operation under way. Each atomic or table
operation of `publication_epoch.ex` and `promoted_publication.ex` is a step. A
writer may die at any step; a process that comes later is another writer. The
epoch of a reader's first look, its result and the second look are separate, so
any number of publications fit in between.

The shard supervisor restarts one child alone, so a shard process may start while
others use its shard, and `PublicationEpoch.reset` clears epoch, latch and fence
without looking at their owner. A publication it meets is no longer protected. The
history variable `shaken` holds the shards where this happened, until every
publication, start and read on them has ended; the safety properties speak of the
other shards, which says that the damage stays on its shard and goes away. Rows
whose fence a starting process deleted are its own to recover and no longer count
as abandoned. A clash can also leave a live process with a latch it will not
delete, so the two liveness properties are about behaviours without one
(`[](shaken = {})`). A publication that reopens an epoch it does not own is not
modelled.

## Runs

| Run | What it asks |
| --- | --- |
| `FlowLifecycle` | two workers with every token they ever held: records, leases, fencing and retry counts consistent; completions answered ok were applied; a signal applied to an open Flow is final; the lease refinement |
| `FlowFanout` | three Flows nesting to any depth, wait-all and wait-any: a close reaches everybody concerned and is not undone by a child that ends later |
| `FlowFanoutGroups` | one parent with two groups: summaries and outcomes are true, and a join completes |
| `FlowIndex` | the copies of the index agree, page walks and due queries are exact, no field of a record is lost, a Flow that claims of one batch hand out twice has one holder and is not handed out again |
| `WalNif` | order, exactly-once bytes, durability, bounded backlog, no forgotten request, closes return |
| `Store` | acknowledged records are read back, a start keeps what was synced, scans and copies agree; calls on sidecars never wait in a circle and leave whole files unless a write fails half way |
| `Prob` | file and receipt hold each mutation once; replays answer as before; the structures answer for what was put in, on every path |
| `Zset` | the file follows the log through replays, crashes and compaction; reads are of one moment; every query answers from the sorted list |
| `Hlc` | monotone, causal, bounded clocks; calls return |
| `Publication` | shard processes start beside publishers and readers: open publications are kept, reads are snapshots and abandoned rows stay fenced wherever no reset met a publication; without such a clash readers return and writers come to rest |

Two runs end in a violation.

`ZsetRollback`: `sync()` of a sorted-set file does nothing
when the position of the latest frame equals the one last synced. A transaction
that fails is cut off by truncating the file. If a sync in the middle of the entry
had made its first frame durable, the position after the cut equals an older
synced one, the cut is never synced, and after a crash the frame is back although
the entry failed and the checkpoint has passed it.

`FlowSignal`: the row stored under a signal's idempotency key has the expiry time
of the Flow's record. An open Flow has none. A closed one has its retention
deadline, so the row of a signal that reached a closed Flow is gone at that time,
the Flow itself only when the sweeper gets to it, and a retry in between is applied
a second time, while `guides/deployment.md` promises that it "is applied once".
`OpenSignalIsFinal` says what does hold, and is proved.

Several properties are conjunctions, each conjunct with its own definition and
comment: `RecordsConsistent`, `CloseReachesAll`, `GroupsTruthful`, `BytesSafe`,
`IndexTrue`, `QueriesExact`, `StartKeepsTheLog`, `ReadersExact`, `SidecarsSafe`,
`AnswersTruthful`, `ReplayWorks`, `StampsOrdered`, `ReadIsWhole`.

The structures are checked against reference definitions: a sorted set against a
set of member-score pairs (`MCZset`), the probabilistic structures against the
list of published mutations (`MCProb`), scans and keydir against the list of
acknowledged records (`BitcaskStore`), index queries against the map (`FlowIndex`).

### Bounds

All bounds are constants that appear in guards. Four versions of a Flow record
allow a claim, its takeover after expiry and a command of the new holder, or a
claim, a completion and a rewind, each with late commands of former holders in
between; the theorems cover every number of versions. Times `0..2` with lease,
backoff and time-to-live of 1 and a maximum active time of 2 allow "not yet",
"exactly at" and "after" for each. Three Flows give a grandparent, a parent and a
child, or a parent with two children; two groups give every pair of
resolutions. Three writes, two syncs and two faults on a buffer of two and a queue of
one fill both, fail a write halfway and panic afterwards. Two appends, two faults
and two power losses give an append on top of a recovered tail and a second recovery;
a batch of three records goes through a ring of two, and copies are checked for up
to three live offsets (`MaxCopied`).
Three calls on two inodes under three names give merges in both directions, a
merge of a file with itself, and a rename between open and lock. Three log entries
and one stop give a replay of each prefix over each partial write. The sorted set
has a mode for deep trees, one for crashes, one for readers and one for
replacement of the file, each with the bounds its question needs. Four clock calls
by three processes on two nodes give a race on one word and a message round
trip; two operations of publication, of which one may be a start, meet
a reader of both shards or of one (the theorems cover any number); with 2 logical and 3 physical values the carry and the saturation are
reached. `CHECK_DEADLOCK FALSE` is set where the bounds, or a closed handle, end
the behaviour; the fan-out runs check for deadlock. Symmetry is used for workers
and for calls, in runs without liveness properties.

### Fairness

- `WalNif`: the thread keeps running and a call that has begun is carried on
  (weak fairness); the panicking thread, blocked on the admission lock that
  callers only `try_lock`, eventually gets it (strong fairness).
- `Hlc`: a process that is between two steps of a call takes the next one. Only
  finitely many calls happen in a run; under unbounded contention the exchange is
  lock-free, not wait-free, and a single call may lose for ever.
- `FlowFanout`: `SweptFairly`, the timeout sweeper runs again and again, so a
  Flow with a maximum active time does not stay open. It is written as a
  condition on states because the recursive close makes `ENABLED` too costly.
- `Publication`: a process that runs takes its next step (weak fairness); every
  wait in this code is a loop that yields or sleeps and tries again.
- The other runs ask for safety only.

## Proofs

`FlowLifecycle_proofs`, for any set of workers, steps, signals and any numbers:
the inductive invariant is `TypeOK`, `LeaseInv`, `HistoryInv`, `FencingInv`,
`AckedCompletionWasApplied` and `CompletedInv`. The last one is the missing
link: a completed Flow whose fencing number is that of a granted credential was
completed by that credential. Without it the duplicate check, which compares
fencing numbers only, could acknowledge somebody else's completion. Each action
has a lemma; a few lemmas about records (`Put`, granting and clearing a lease)
carry most of the work. The refinement of `FlowLease`, `NoEarlyTakeover` and
`ClosedUntilRewound` follow step by step from the same invariant. Two counts
have invariants of their own, proved relative to this one. `CountedInv`, for
`AttemptsCountLeases`, bounds the attempts of every event of the history and not
only of the record, because a rewind restores the attempts of the event it goes
back to; while a lease is out, its own attempt is still to be counted.
`SignalInv`, for `OpenSignalIsFinal`, says that a signal last applied to an open
Flow still has its digest row, and one without an expiry time: nothing but another
application writes the row, and the row is what keeps that from happening.

`WalNif_proofs`, for any callers, sizes and bounds: `BytesSafe` and
`NoSyncForgotten`. The inductive invariant says who is inside which lock
(`Locks`), that whatever ends the thread first clears the flag under which syncs
are admitted (`Ending`) so that no sync is queued behind a close (`CloseLast`),
that a sync without an answer is in the channel or with the thread
(`Remembered`), that file, taken bytes and buffer are what was accepted, in order
(`Ordered`), that what preceded a request is drained before the sync that answers
it (`Drained`, `Synced`), that the last drain of a close finds no writer inside
the mutex (`ClosedWell`), and how far failed drains may overfill the buffer
(`Backlog`). `Remembered` and `Ending` need each other: a panicking thread leaves
no sync behind only because nobody can be in the middle of asking for one.

`Hlc_proofs`, for any nodes, processes and word widths: `MergeIsSuccessor` shows
that the seven clauses of `merge_timestamps` amount to the successor of the
larger of the local and remote words, or a new millisecond. The inductive
invariant adds `Below` (all that was handed out or merged is at most the node's
word) and `Swapping` (a pending exchange wants more than it read and than its
call must exceed).

`Publication_proofs` (with `PublicationWriters_proofs`), for any shards, rows,
writers, readers and starts: the inductive invariant says who may overlap
(`OverlapInv`: where a start meets a publication the shard is shaken), and for the
shards that are not shaken what a writer's step implies for the latches, epochs and tokens it
holds (`WriterInv`, `HeldInv`), which fences and lifecycle rows cover abandoned
rows (`FenceInv`), and what a reader's attempt may still rely on (`ReaderInv`): as
long as an epoch it has noted is unchanged, no publication was opened on that
shard since. The last is needed because the reader's facts are about the past;
epochs and generations only grow there, so an unchanged number proves that nothing
happened in between.

`SidecarIo_proofs`, for any calls, files, names and requests: no circle of waiting
calls (`LocksNeverCycle`), whole files (`SidecarsStayWhole`) and exact admission
(with them, `SidecarsAreSafe`). For the first, a
waiting call holds only locks below those it still wants (`Ordered`), so of any
waiters the one that wants the highest inode waits for none of the others. The
second needs more than the locks: a call at work holds the lock of its target
(`Locking`) and knows how many cells agree with it (`Progress`); a named file
whose lock nobody at work holds is whole or `torn` (`FilesInv`); and the inode a create will
use is known to nobody else before (`Fresh`, `Staging`), which rests on stamps
being different. Each action is first reduced to its effect (`OpenStep`,
`LockStep`, ...), and a call that takes no part keeps its facts by one lemma
(`Bystander`). The bytes admitted are the number of bytes in the inputs of the
calls that paid, as a set (`HeldBytes`), so that a payment adds a set disjoint
from the others and a permit dropped removes it; `AdmissionInv` adds that these
sets are finite and that only reads pass through admission.

`ProbTxn_proofs`, for any structure, log and number of stops and failed writes: `Recoverable` and
`ReplaysOnce`. The journal is proved for every structure that meets two
conditions, which are hypotheses of the theorems. `Structure(Contents)`: an
accepted mutation is a sequence of images that leave the token alone and lead
from contents to contents. `Answers(Contents)`: a plan depends on the file alone,
and the receipt keeps what is needed to answer. `StructuresFit`, which TLC
evaluates in the run `Prob`, checks them for the four structures on all contents
that three mutations lead to; the second is not true of merges, which read another
file, so `ReplaysTakeEffectOnce` is about logs without them and merges are left to
TLC. The inductive invariant for the first theorem says which receipt
may be where (`Paths`, `Receipts`) and that completing an unfinished receipt gives
the content wanted, however many of its images are in the file already
(`Journal`). For the second, `RInv` orders the tokens of file, receipt and log
(`Tokens`, `Position`) and says that an answered entry beyond the file's token was
refused and would be again (`Answered`, `History`); the modes without a log or
without tokens have invariants of their own (`Local`, `Tokenless`).

`FlowIndex_proofs`, for any keys, members, scores and event versions: the copies of
the index agree (`EntriesKeepIndex`). The requests of the NIFs are folds of their
entries, and what a fold computes is out of reach; so here each entry is a step
(`EntryNext`), with the same operators, and a request of any length is a sequence
of steps. A batch of claims changes ordered set and map at once and the counts
only at its end, key by key; `Coherent` therefore holds each count together with
the delta still owed to it, and the theorem speaks of states in which none is.
Deleting and inserting are shown to touch one entry of either copy
(`DeletedCopies`, `InsertedCopies`), which needs that entries of different members
never sort alike (`SortKeys`), and putting a member over itself to be both
(`Replacing`). It is a part of `IndexTrue`; that the index follows the records is
left to TLC.

Assumptions are the named `ASSUME`s of the component modules: types of the
constants, `None` or `Nobody` different from the values it is compared with, and
steps disjoint from the terminal states. TLC evaluates them in each run.

Only model-checked:

- `FlowFanout`, the queries of `FlowIndex` and its requests as wholes, `FlowRecord`,
  `FlowClaim`, `BitcaskLog` and `BitcaskStore`, the sorted set, and the answers of
  the probabilistic structures (`AnswersTruthful`): their functions are recursive
  or fold over sequences, and what they compute needs induction over data;
- replays of merges in `ProbTxn`;
- all liveness properties (`CallsReturn`, `CallReturns`, `ReadReturns`,
  `WritersComeToRest`, `JoinCompletes`), which the provers used here cannot handle.

## Notes on the code that are not runs

Met while choosing constants; the runs leave the case out:

- A group that resolves after its parent was closed under `abandon_children`
  reopens the parent. Cancelled siblings of a wait-none group can leave a parent
  waiting on no open group. A Flow closed by its own spawn never reports to its
  parent. The fan-out runs use policies that wait and cancel.
- A merge of a count-min sketch whose sums fall below zero is not among the errors
  the state machine knows as answers, so it blocks the shard as a storage failure
  would. One that was refused because of its source is applied
  when it is replayed after the source changed; `ReplaysOnce` exempts merges.
- When an append and its rollback both fail, torn bytes stay in the log, and the
  next start may refuse the shard; `StartKeepsTheLog` exempts the double fault.
- After-images of sidecars are not synced before their receipt is compacted:
  `Recoverable` is about stops of the process, not of the machine.

Others:

- The idempotency row of a signal outlives its Flow: the next Flow of that id
  answers `:ok` and drops the signal.
- `FLOW.SIGNAL` with `if_state` "running" and `transition_to` ends a live lease
  without presenting its token.
- A child adopted by two open groups of one parent (idempotent spawns) is
  reported only to the first of them (`flow_find_open_child_group`); the passing
  runs with idempotent spawns use one group id.
- The summary of a wait-none group is never updated.
- A failed drain of the WAL buffer puts its bytes back on top of bytes admitted
  meanwhile, so the buffer may exceed `max_buffer_bytes`; the excess is at
  most that limit again for each failure.
- A Flow created in, or rewound to, a terminal state with a run time is still
  due and can be claimed; `ClosedUntilRewound` speaks of closed Flows that are
  not scheduled.
- A cancel has no duplicate answer: a retried cancel is refused.
- Saturated, the clock repeats its last value, and an update with the largest
  word is ignored; the order of stamps exempts that value.
- The resolution of a group clears the lease of a parent that was moved on and
  claimed again meanwhile.

## Not modelled

`PROJECT.json` lists every part with the reason. Worth modelling next: the
compaction journal and its crash-recovery table; rotation of the active file and
the checkpointer; the standalone transaction log; blocked claimers, governance
limits and their release outbox, schedules; the single-flight cache, WATCH and the
transaction coordinator, blocking commands; the group commit batcher, sync gate
and segment log; the history projector, LMDB mirror and hibernation; consumer
groups of streams; the cache of open LMDB environments.

Inside the modelled parts these are left out: writes to sorted sets and sketches
outside the Raft log that carry token index 0, and the refusal of members longer
than `MAX_MEMBER_LEN`; preallocation and mutex poisoning of the WAL; nested writes
and borrowed lifecycles of publication; statistics and memory accounting, which
change no state; path checks of the open helpers.

Left out for good: the consensus library (external), query planning, parsing,
hash functions themselves, metrics and logs.
