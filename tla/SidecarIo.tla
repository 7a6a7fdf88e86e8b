------------------------------- MODULE SidecarIo -------------------------------
(***************************************************************************)
(* How native calls share the probabilistic sidecars: admission of the     *)
(* asynchronous reads, advisory locks on inodes, the lock set of a merge,  *)
(* and publication of a new file by rename.  A sidecar is two cells, and   *)
(* whole when they carry the same stamp.                                   *)
(***************************************************************************)
EXTENDS Integers, Sequences, FiniteSets, FiniteSetsExt

CONSTANTS
    Jobs,                    \* concurrent calls
    Linked,                  \* path -> inode at the start; paths may share one
    Limit, ByteLimit,        \* BlockingAdmission's limits
    Requests,                \* calls: [op, path, sources, size of the copied input]
    MaxRequests,             \* bound on calls
    Nobody

VARIABLES
    dir,            \* path -> inode
    content,        \* inode -> its two cells
    temps,          \* inodes that only a staging name refers to
    shared,         \* inode -> calls holding its shared lock
    exclusive,      \* inode -> call holding its exclusive lock, or Nobody
    active,         \* admitted blocking jobs
    active_bytes,   \* their input bytes
    job,            \* what each call is doing
    made,           \* calls made, and the stamp of the last
    torn            \* inodes whose last write in place failed half way

svars == <<dir, content, temps, shared, exclusive, active, active_bytes, job, made, torn>>

Paths == DOMAIN Linked
Oldest == Max({Linked[p] : p \in Paths})
Inodes == 1..(Oldest + MaxRequests)

ASSUME SidecarAssumption ==
    /\ Nobody \notin Jobs /\ MaxRequests \in Nat /\ Limit \in Nat /\ ByteLimit \in Nat
    /\ Oldest \in Nat /\ Linked \in [Paths -> 1..Oldest]
    /\ Requests \subseteq [op : {"read", "write", "merge", "create"}, path : Paths,
                           sources : SUBSET Paths, size : Nat]

Unfilled == <<-1, -1>>
Resting == [pc |-> "idle"]

SidecarInit ==
    /\ dir = Linked
    /\ content = [i \in Inodes |-> <<0, 0>>]
    /\ temps = {}
    /\ shared = [i \in Inodes |-> {}]
    /\ exclusive = [i \in Inodes |-> Nobody]
    /\ active = 0 /\ active_bytes = 0
    /\ job = [j \in Jobs |-> Resting]
    /\ made = 0 /\ torn = {}

locks == <<shared, exclusive>>
admission == <<active, active_bytes>>
fileVars == <<dir, content, temps, torn>>

Become(j, pc) == job' = [job EXCEPT ![j] = [@ EXCEPT !.pc = pc]]
Rest(j) == job' = [job EXCEPT ![j] = Resting]

-----------------------------------------------------------------------------
(* Admission *)

\* A read is submitted to the blocking pool; the mutators run on the caller's
\* own dirty scheduler.
Submit(j) ==
    /\ job[j].pc = "idle" /\ made < MaxRequests
    /\ made' = made + 1
    /\ \E r \in Requests :
        job' = [job EXCEPT ![j] =
            IF r.size > ByteLimit THEN Resting
            ELSE [pc |-> IF r.op = "read" THEN "admit" ELSE "open", op |-> r.op, path |-> r.path,
                  sources |-> r.sources, size |-> r.size, stamp |-> made', todo |-> {},
                  target |-> 0, cells |-> <<>>]]
    /\ UNCHANGED <<fileVars, locks, admission>>

\* The compare-and-swap on the job count.
try_acquire(j) ==
    /\ job[j].pc = "admit"
    /\ IF active >= Limit
       THEN Rest(j) /\ UNCHANGED active
       ELSE Become(j, "charge") /\ active' = active + 1
    /\ UNCHANGED <<fileVars, locks, active_bytes, made>>

\* The compare-and-swap on the bytes; without room the slot is given back.
charge_bytes(j) ==
    /\ job[j].pc = "charge"
    /\ IF active_bytes + job[j].size > ByteLimit
       THEN Become(j, "refuse") /\ UNCHANGED active_bytes
       ELSE Become(j, "open") /\ active_bytes' = active_bytes + job[j].size
    /\ UNCHANGED <<fileVars, locks, active, made>>

refuse(j) ==
    /\ job[j].pc = "refuse"
    /\ active' = active - 1
    /\ Rest(j)
    /\ UNCHANGED <<fileVars, locks, active_bytes, made>>

\* The permit is dropped after the job has let go of its file: bytes first.
drop_bytes(j) ==
    /\ job[j].pc = "drop"
    /\ active_bytes' = active_bytes - job[j].size
    /\ Become(j, "dropped")
    /\ UNCHANGED <<fileVars, locks, active, made>>

drop_slot(j) ==
    /\ job[j].pc = "dropped"
    /\ active' = active - 1
    /\ Rest(j)
    /\ UNCHANGED <<fileVars, locks, active_bytes, made>>

-----------------------------------------------------------------------------
(* Locks *)

\* The inodes a call locks, each once; the destination's exclusive lock covers
\* a source that is the same file.
lock_set(destination, sources, mode) ==
    {[inode |-> i, mode |-> IF i = destination THEN mode ELSE "shared"] :
        i \in {destination} \cup sources}

\* Mutant: the destination is locked before the sources.
next_lock_destination_first(todo) ==
    CHOOSE l \in todo : \A k \in todo :
        l.mode = "exclusive" \/ (k.mode # "exclusive" /\ l.inode <= k.inode)

\* They are locked in the order of their identities.
next_lock(todo) == CHOOSE l \in todo : \A k \in todo : l.inode <= k.inode

\* Opening resolves the path; the lock is taken afterwards, on that inode.
open_random(j) ==
    /\ job[j].pc = "open" /\ job[j].op # "create"
    /\ LET i == dir[job[j].path]
           mode == IF job[j].op = "read" THEN "shared" ELSE "exclusive"
           todo == lock_set(i, {dir[p] : p \in job[j].sources}, mode)
       IN  job' = [job EXCEPT ![j] = [@ EXCEPT !.pc = "lock", !.target = i, !.todo = todo]]
    /\ UNCHANGED <<fileVars, locks, admission, made>>

Grantable(j, l) ==
    /\ exclusive[l.inode] = Nobody
    /\ l.mode = "exclusive" => shared[l.inode] = {}

lock_file(j) ==
    /\ job[j].pc = "lock"
    /\ LET l == next_lock(job[j].todo)
           rest == job[j].todo \ {l}
       IN  /\ Grantable(j, l)
           /\ IF l.mode = "exclusive"
              THEN exclusive' = [exclusive EXCEPT ![l.inode] = j] /\ UNCHANGED shared
              ELSE shared' = [shared EXCEPT ![l.inode] = @ \cup {j}] /\ UNCHANGED exclusive
           /\ job' = [job EXCEPT ![j] =
                         [@ EXCEPT !.todo = rest, !.pc = IF rest = {} THEN "work" ELSE "lock"]]
    /\ UNCHANGED <<fileVars, admission, made>>

\* A staging file has a name of its own and is locked as soon as it exists.
create_staged_locked_nofollow(j) ==
    /\ job[j].pc = "open" /\ job[j].op = "create"
    /\ LET i == Oldest + job[j].stamp
       IN  /\ temps' = temps \cup {i}
           /\ content' = [content EXCEPT ![i] = Unfilled]
           /\ exclusive' = [exclusive EXCEPT ![i] = j]
           /\ job' = [job EXCEPT ![j] = [@ EXCEPT !.pc = "work", !.target = i]]
    /\ UNCHANGED <<dir, torn, shared, admission, made>>

-----------------------------------------------------------------------------
(* Work under the locks *)

\* One cell at a time: read, or written.
Touch(j) ==
    LET n == Len(job[j].cells) + 1
        i == job[j].target
    IN  /\ job[j].pc = "work" /\ n <= 2
        /\ IF job[j].op = "read"
           THEN /\ job' = [job EXCEPT ![j] = [@ EXCEPT !.cells = Append(job[j].cells, content[i][n])]]
                /\ UNCHANGED content
           ELSE /\ content' = [content EXCEPT ![i] = [@ EXCEPT ![n] = job[j].stamp]]
                /\ job' = [job EXCEPT ![j] = [@ EXCEPT !.cells = Append(job[j].cells, job[j].stamp)]]
        /\ UNCHANGED <<dir, temps, torn, locks, admission, made>>

Unlock(j) ==
    /\ shared' = [i \in Inodes |-> shared[i] \ {j}]
    /\ exclusive' = [i \in Inodes |-> IF exclusive[i] = j THEN Nobody ELSE exclusive[i]]

\* The descriptors close and the locks go with them, be the sync that follows
\* the last cell of a write answered with an error or not.
Close(j) ==
    /\ job[j].pc = "work" /\ Len(job[j].cells) = 2 /\ job[j].op # "create"
    /\ Unlock(j)
    /\ IF job[j].op = "read"
       THEN Become(j, "drop") /\ UNCHANGED torn
       ELSE Rest(j) /\ torn' = torn \ {job[j].target}
    /\ UNCHANGED <<dir, content, temps, admission, made>>

\* write_all_at fails before the last cell of a write in place; what was
\* written stays, and the error drops the descriptors with their locks.
Fail(j) ==
    /\ job[j].pc = "work" /\ Len(job[j].cells) < 2 /\ job[j].op \in {"write", "merge"}
    /\ Unlock(j)
    /\ Rest(j)
    /\ torn' = IF job[j].cells = <<>> THEN torn ELSE torn \cup {job[j].target}
    /\ UNCHANGED <<dir, content, temps, admission, made>>

\* Mutant: the file takes its path before it is filled.
publish_before_filling(j) ==
    /\ job[j].pc = "work" /\ job[j].op = "create"
    /\ dir' = [dir EXCEPT ![job[j].path] = job[j].target]
    /\ temps' = temps \ {job[j].target}
    /\ Unlock(j)
    /\ Rest(j)
    /\ UNCHANGED <<content, torn, admission, made>>

\* The finished file takes its path; the inode it replaces loses its name but
\* not the calls that opened it.
publish(j) ==
    /\ job[j].pc = "work" /\ Len(job[j].cells) = 2 /\ job[j].op = "create"
    /\ dir' = [dir EXCEPT ![job[j].path] = job[j].target]
    /\ temps' = temps \ {job[j].target}
    /\ Unlock(j)
    /\ Rest(j)
    /\ UNCHANGED <<content, torn, admission, made>>

\* A write, the sync or the rename fails: Drop removes the staging file.
Discard(j) ==
    /\ job[j].pc = "work" /\ job[j].op = "create"
    /\ temps' = temps \ {job[j].target}
    /\ Unlock(j)
    /\ Rest(j)
    /\ UNCHANGED <<dir, content, torn, admission, made>>

SidecarNext ==
    \E j \in Jobs :
        \/ Submit(j) \/ try_acquire(j) \/ charge_bytes(j) \/ refuse(j)
        \/ drop_bytes(j) \/ drop_slot(j)
        \/ open_random(j) \/ lock_file(j) \/ create_staged_locked_nofollow(j)
        \/ Touch(j) \/ Close(j) \/ Fail(j) \/ publish(j) \/ Discard(j)

SidecarSpec == SidecarInit /\ [][SidecarNext]_svars

-----------------------------------------------------------------------------
(* Properties *)

Admitted == {j \in Jobs : /\ job[j].pc # "idle" /\ job[j].pc # "admit"
                          /\ job[j].op = "read"}
Charged == {j \in Admitted : job[j].pc \notin {"charge", "refuse", "dropped"}}
InputBytes(j) == {j} \X (1..job[j].size)
HeldBytes == UNION {InputBytes(j) : j \in Charged}

\* BlockingAdmission counts exactly the jobs it let in and the bytes they
\* hold, through refusals half way and permits half dropped, and neither
\* passes its limit.
AdmissionExact ==
    /\ active = Cardinality(Admitted) /\ active <= Limit
    /\ active_bytes = Cardinality(HeldBytes) /\ active_bytes <= ByteLimit

\* Calls never wait for each other in a circle, nor one for itself: whatever
\* they merge, in whatever direction and under however many names.
NoLockCycle ==
    \A waiters \in (SUBSET {j \in Jobs : job[j].pc = "lock"}) \ {{}} :
        \E j \in waiters :
            LET l == next_lock(job[j].todo)
            IN  (l.mode = "shared" \/ shared[l.inode] \cap waiters = {})
                /\ exclusive[l.inode] \notin waiters

\* A path always names a finished file, or one its writer has locked, or one a
\* failed write in place left half written; a read returns the cells of one
\* write, unless it found such a file; and a create that did not publish leaves
\* no staging file behind.  The next mutation, which first completes what the
\* receipt of the failed one describes, makes the file whole again.
SidecarsWhole ==
    /\ \A p \in Paths :
         LET c == content[dir[p]]
         IN  /\ dir[p] \notin temps
             /\ (c[1] = c[2] /\ c[1] >= 0) \/ exclusive[dir[p]] # Nobody \/ dir[p] \in torn
    /\ \A j \in Jobs :
         job[j].pc = "work" /\ job[j].op = "read" /\ Len(job[j].cells) = 2
         /\ job[j].target \notin torn
         => job[j].cells[1] = job[j].cells[2]
    /\ temps = {job[j].target : j \in {k \in Jobs : job[k].pc = "work" /\ job[k].op = "create"}}

\* Calls are counted while they run, and what they leave is whole.
SidecarsSafe == AdmissionExact /\ SidecarsWhole
=============================================================================
