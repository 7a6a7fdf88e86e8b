--------------------------- MODULE SidecarIo_proofs ---------------------------
(***************************************************************************)
(* Proofs about SidecarIo, for any number of calls, files and names: calls *)
(* never wait for each other in a circle, no read or path shows half of a  *)
(* write, unless the write failed there, and admission counts exactly the  *)
(* calls and bytes it let in.                                              *)
(***************************************************************************)
EXTENDS SidecarIo, FiniteSetTheorems, WellFoundedInduction, TLAPS

-----------------------------------------------------------------------------
(* The inductive invariant *)

Ops == {"read", "write", "merge", "create"}
Labels == {"admit", "charge", "refuse", "drop", "dropped", "open", "lock", "work"}
Locks == [inode : Inodes, mode : {"shared", "exclusive"}]
Calls == [pc : Labels, op : Ops, path : Paths, sources : SUBSET Paths, size : Nat,
          stamp : 1..MaxRequests, todo : SUBSET Locks, target : Int, cells : Seq(Int)]

FileTypes ==
    /\ dir \in [Paths -> Inodes]
    /\ content \in [Inodes -> [1..2 -> Int]]
    /\ temps \subseteq Inodes
    /\ shared \in [Inodes -> SUBSET Jobs]
    /\ exclusive \in [Inodes -> Jobs \cup {Nobody}]

JobTypes ==
    /\ job \in [Jobs -> Calls \cup {Resting}]
    /\ made \in 0..MaxRequests

Using(j) == job[j].pc \in {"lock", "work"}
Waiting(j) == job[j].pc = "lock"
Working(j) == job[j].pc = "work"
Holds(j, i) == j \in shared[i] \/ exclusive[i] = j
HoldsTarget(j) ==
    IF job[j].op = "read" THEN j \in shared[job[j].target] ELSE exclusive[job[j].target] = j

\* Locks are taken upwards: what a waiting call has is below what it wants.
Ordered(j) ==
    /\ \A i \in Inodes : Holds(j, i) => Using(j)
    /\ Waiting(j) =>
        /\ job[j].todo # {}
        /\ \A l, m \in job[j].todo : l.inode = m.inode => l = m
        /\ \A i \in Inodes : Holds(j, i) => \A l \in job[j].todo : i < l.inode

\* Only the target is locked exclusively, and only by a call that writes.
WritesAlone(j) == \A i \in Inodes : exclusive[i] = j => i = job[j].target /\ job[j].op # "read"

\* A waiting call has the lock of its target or will have it.
Wants(j) ==
    /\ job[j].op # "create"
    /\ \A l \in job[j].todo : l.mode = "exclusive" => l.inode = job[j].target /\ job[j].op # "read"
    /\ HoldsTarget(j) \/ \E l \in job[j].todo :
          l.inode = job[j].target /\ (l.mode = "shared" <=> job[j].op = "read")

\* A call that works has it.
Locking(j) ==
    /\ WritesAlone(j)
    /\ Waiting(j) => Wants(j)
    /\ Working(j) => HoldsTarget(j)
    /\ Using(j) => job[j].target \in Inodes
    /\ Using(j) /\ job[j].op # "create" => job[j].target \notin temps

\* An inode is whole, or a failed write in place has left it half written.
Settled(i) == (content[i][1] = content[i][2] /\ content[i][1] >= 0) \/ i \in torn

\* How far a call under its locks has come.
Progress(j) ==
    /\ Waiting(j) => job[j].cells = <<>>
    /\ Working(j) =>
        LET n == Len(job[j].cells)
            c == content[job[j].target]
        IN  /\ n <= 2
            /\ job[j].op = "read" => \A k \in 1..n : job[j].cells[k] = c[k]
            /\ job[j].op # "read" => \A k \in 1..n : c[k] = job[j].stamp
            /\ job[j].op \in {"write", "merge"} /\ n = 0 => Settled(job[j].target)
    /\ job[j].pc \in {"admit", "charge", "open"} => job[j].cells = <<>>

\* An inode nobody has come across.
Fresh(i) ==
    /\ \A p \in Paths : dir[p] # i
    /\ i \notin temps /\ shared[i] = {} /\ exclusive[i] = Nobody
    /\ \A k \in Jobs : /\ Using(k) => job[k].target # i
                       /\ Waiting(k) => \A l \in job[k].todo : l.inode # i

Staging(j) ==
    /\ job[j].pc # "idle" => job[j].stamp <= made
    /\ job[j].pc \in {"admit", "charge"} => job[j].op # "create"
    /\ job[j].pc = "open" /\ job[j].op = "create" => Fresh(Oldest + job[j].stamp)

StampsDiffer ==
    \A j, k \in Jobs : job[j].pc # "idle" /\ job[k].pc # "idle" /\ j # k => job[j].stamp # job[k].stamp

Creating == {k \in Jobs : Working(k) /\ job[k].op = "create"}
Named(i) == \/ \E p \in Paths : dir[p] = i
            \/ \E k \in Jobs : Using(k) /\ job[k].op # "create" /\ job[k].target = i
Quiet(i) == exclusive[i] = Nobody \/ Waiting(exclusive[i])

\* What the files owe to the locks.
FilesInv ==
    /\ \A i \in Inodes : exclusive[i] # Nobody => shared[i] = {}
    /\ \A i \in Inodes : i > Oldest + made => Fresh(i)
    /\ \A p \in Paths : dir[p] \notin temps
    /\ temps = {job[k].target : k \in Creating}
    /\ \A i \in Inodes : Named(i) /\ Quiet(i) => Settled(i)

IInv ==
    /\ FileTypes /\ JobTypes /\ StampsDiffer /\ FilesInv
    /\ \A j \in Jobs : Ordered(j) /\ Locking(j) /\ Progress(j) /\ Staging(j)

-----------------------------------------------------------------------------
(* Sets of locks *)

\* The numbers among the constants.
LEMMA Bounds == Oldest \in Nat /\ MaxRequests \in Nat /\ Nobody \notin Jobs
BY Zenon, SidecarAssumption

\* A set of natural numbers has a least element.
LEMMA LeastNumber ==
    ASSUME NEW T \in SUBSET Nat, T # {}
    PROVE  \E x \in T : \A y \in T : x <= y
<1> DEFINE R == {ss \in Nat \X Nat : ss[1] < ss[2]}
<1>1. IsWellFoundedOn(R, Nat)
  BY Zenon, NatLessThanWellFounded DEF OpToRel
<1>2. PICK x \in T : \A y \in T : ~(<<y, x>> \in R)
  <2> HIDE DEF R
  <2> QED BY Zenon, <1>1, WFMin
<1>3. ASSUME NEW y \in T PROVE x <= y
  <2>1. ~(<<y, x>> \in R)
    BY Zenon, <1>2
  <2>2. x \in Nat /\ y \in Nat /\ ~(y < x)
    BY Zenon, <1>2, <2>1
  <2> QED BY <2>2
<1> QED BY Zenon, <1>3

\* Among calls that want inodes, one wants none below another's.
LEMMA HighestWanted ==
    ASSUME NEW W, W # {}, NEW want, NEW n \in Nat, \A j \in W : want[j] \in 1..n
    PROVE  \E j \in W : \A k \in W : want[k] <= want[j]
<1> DEFINE T == {n - want[j] : j \in W}
<1>1. T \in SUBSET Nat /\ T # {}
  OBVIOUS
<1>2. PICK x \in T : \A y \in T : x <= y
  <2> HIDE DEF T
  <2> QED BY Zenon, <1>1, LeastNumber
<1>3. PICK j \in W : x = n - want[j]
  BY Zenon, <1>2
<1>4. \A k \in W : n - want[j] <= n - want[k]
  BY Zenon, <1>2, <1>3
<1> QED BY <1>4

\* next_lock picks a lock of the set that no other is below.
LEMMA NextLock ==
    ASSUME NEW todo \in SUBSET Locks, todo # {}
    PROVE  next_lock(todo) \in todo /\ \A k \in todo : next_lock(todo).inode <= k.inode
<1> DEFINE T == {l.inode : l \in todo}
<1>1. \A l \in todo : l.inode \in Nat
  BY SidecarAssumption DEF Locks, Inodes
<1>2. PICK x \in T : \A y \in T : x <= y
  <2>1. T \in SUBSET Nat /\ T # {}
    BY Zenon, <1>1
  <2> HIDE DEF T
  <2> QED BY Zenon, <2>1, LeastNumber
<1>3. \E l \in todo : \A k \in todo : l.inode <= k.inode
  BY Zenon, <1>2
<1> QED BY Zenon, <1>3 DEF next_lock

\* Calls that lock upwards do not wait in a circle: the one that wants the
\* highest inode waits for none of the others.
LEMMA NoCycle == IInv => NoLockCycle
<1> SUFFICES ASSUME IInv, NEW W \in SUBSET {j \in Jobs : job[j].pc = "lock"}, W # {}
             PROVE  \E j \in W :
                       LET l == next_lock(job[j].todo)
                       IN  (l.mode = "shared" \/ shared[l.inode] \cap W = {})
                           /\ exclusive[l.inode] \notin W
  BY Zenon DEF NoLockCycle
<1> DEFINE want == [j \in W |-> next_lock(job[j].todo).inode]
           n == Oldest + MaxRequests
<1>1. ASSUME NEW j \in W
      PROVE  /\ next_lock(job[j].todo) \in job[j].todo
             /\ want[j] \in Inodes
             /\ \A i \in Inodes : Holds(j, i) => i < want[j]
  <2>1. job[j] \in Calls
    BY DEF IInv, JobTypes, Calls, Labels, Resting
  <2>2. job[j].todo \in SUBSET Locks /\ job[j].todo # {}
    BY Zenon, <2>1 DEF Calls, IInv, Ordered, Waiting
  <2>3. next_lock(job[j].todo) \in job[j].todo
    BY Zenon, <2>2, NextLock
  <2> QED BY Zenon, <2>2, <2>3 DEF IInv, Ordered, Waiting, Locks
<1>2. n \in Nat /\ \A j \in W : want[j] \in 1..n
  BY <1>1, SidecarAssumption DEF Inodes
<1>3. PICK j \in W : \A k \in W : want[k] <= want[j]
  <2> HIDE DEF want, n
  <2> QED BY Zenon, <1>2, HighestWanted
<1>4. ASSUME NEW k \in W, Holds(k, want[j]) PROVE FALSE
  <2>1. want[j] < want[k] /\ want[j] \in Int /\ want[k] \in Int /\ want[k] <= want[j]
    BY <1>1, <1>3, <1>4, <1>2
  <2> QED BY <2>1
<1> QED BY Zenon, <1>4, <1>3 DEF Holds

-----------------------------------------------------------------------------
(* Types *)

\* A call that is not resting has all its fields.
LEMMA CallTypes ==
    ASSUME JobTypes, NEW j \in Jobs, job[j].pc # "idle"
    PROVE  job[j] \in Calls
BY DEF JobTypes, Calls, Labels, Resting

\* What a lock set holds.
LEMMA LockSet ==
    ASSUME NEW i \in Inodes, NEW S \in SUBSET Inodes, NEW m \in {"shared", "exclusive"}
    PROVE  /\ lock_set(i, S, m) \in SUBSET Locks
           /\ [inode |-> i, mode |-> m] \in lock_set(i, S, m)
           /\ \A l, k \in lock_set(i, S, m) : l.inode = k.inode => l = k
           /\ \A l \in lock_set(i, S, m) : l.inode \in {i} \cup S
           /\ \A l \in lock_set(i, S, m) : l.mode = "exclusive" => l.inode = i /\ m = "exclusive"
BY DEF lock_set, Locks

\* A step of a call is a step of it alone, and leaves well-typed calls.
LEMMA JobStep ==
    ASSUME JobTypes, NEW j \in Jobs, NEW f \in Calls \cup {Resting},
           job' = [job EXCEPT ![j] = f]
    PROVE  /\ job' \in [Jobs -> Calls \cup {Resting}] /\ job'[j] = f
           /\ \A k \in Jobs : k # j => job'[k] = job[k]
BY Zenon DEF JobTypes

\* The other calls do not notice.
Others(j) == \A k \in Jobs : k # j => job'[k] = job[k]

\* A call is refused, or made with the next stamp.
SubmitStep(j) ==
    /\ JobTypes' /\ Others(j) /\ made' = made + 1 /\ job[j].pc = "idle"
    /\ UNCHANGED <<dir, content, temps, torn, shared, exclusive>>
    /\ \/ job'[j] = Resting
       \/ /\ job'[j].pc \in {"admit", "open"} /\ job'[j].stamp = made'
          /\ job'[j].cells = <<>> /\ (job'[j].pc = "admit" => job'[j].op # "create")

\* Submit is such a step.
LEMMA SubmitEffect ==
    ASSUME IInv, NEW j \in Jobs, Submit(j)
    PROVE  SubmitStep(j)
<1>1. made' = made + 1 /\ made' \in 1..MaxRequests
  BY Bounds DEF Submit, JobTypes, IInv
<1>2. PICK r \in Requests :
      job' = [job EXCEPT ![j] =
          IF r.size > ByteLimit THEN Resting
          ELSE [pc |-> IF r.op = "read" THEN "admit" ELSE "open", op |-> r.op, path |-> r.path,
                sources |-> r.sources, size |-> r.size, stamp |-> made', todo |-> {},
                target |-> 0, cells |-> <<>>]]
  BY Zenon DEF Submit
<1> DEFINE c == [pc |-> IF r.op = "read" THEN "admit" ELSE "open", op |-> r.op, path |-> r.path,
                 sources |-> r.sources, size |-> r.size, stamp |-> made', todo |-> {},
                 target |-> 0, cells |-> <<>>]
<1>3. r \in [op : Ops, path : Paths, sources : SUBSET Paths, size : Nat]
  BY Zenon, SidecarAssumption DEF Ops
<1>4. /\ c \in Calls /\ c.pc \in {"admit", "open"} /\ c.stamp = made' /\ c.cells = <<>>
      /\ c.pc = "admit" => c.op # "create"
  BY <1>1, <1>3 DEF Calls, Labels
<1>5. job' = [job EXCEPT ![j] = IF r.size > ByteLimit THEN Resting ELSE c]
  BY Zenon, <1>2
<1> HIDE DEF c
<1>6. /\ job' \in [Jobs -> Calls \cup {Resting}] /\ (job'[j] = Resting \/ job'[j] = c)
      /\ Others(j)
  BY Zenon, <1>4, <1>5, JobStep DEF IInv, Others
<1> QED BY <1>1, <1>4, <1>6 DEF JobTypes, Submit, fileVars, locks, SubmitStep

\* Admission moves a call on, or ends it.
AdmissionStep(j) ==
    /\ JobTypes' /\ Others(j) /\ UNCHANGED <<dir, content, temps, torn, shared, exclusive, made>>
    /\ job[j].pc \in {"admit", "charge", "refuse", "drop", "dropped"}
    /\ \/ job'[j] = Resting
       \/ /\ job'[j].pc \in {"charge", "refuse", "open", "dropped"}
          /\ job'[j].op = job[j].op /\ job'[j].stamp = job[j].stamp
          /\ job'[j].cells = job[j].cells
          /\ (job'[j].pc = "charge" => job[j].pc = "admit")
          /\ (job'[j].pc = "open" => job[j].pc = "charge")

\* try_acquire, charge_bytes and the drop of a permit are such steps.
LEMMA AdmissionEffect ==
    ASSUME IInv, NEW j \in Jobs,
           try_acquire(j) \/ charge_bytes(j) \/ refuse(j) \/ drop_bytes(j) \/ drop_slot(j)
    PROVE  AdmissionStep(j)
<1>1. job[j].pc \in {"admit", "charge", "refuse", "drop", "dropped"}
  BY Zenon DEF try_acquire, charge_bytes, refuse, drop_bytes, drop_slot
<1>2. job[j] \in Calls
  BY Zenon, <1>1, CallTypes DEF IInv
<1>3. \/ job' = [job EXCEPT ![j] = Resting]
      \/ \E x \in {"charge", "refuse", "open", "dropped"} :
            /\ job' = [job EXCEPT ![j] = [job[j] EXCEPT !.pc = x]]
            /\ (x = "open" => job[j].pc = "charge") /\ (x = "charge" => job[j].pc = "admit")
  BY Zenon DEF try_acquire, charge_bytes, refuse, drop_bytes, drop_slot, Become, Rest
<1>4. UNCHANGED <<dir, content, temps, torn, shared, exclusive, made>>
  BY Zenon DEF try_acquire, charge_bytes, refuse, drop_bytes, drop_slot, fileVars, locks
<1>5. CASE job' = [job EXCEPT ![j] = Resting]
  BY Zenon, <1>1, <1>4, <1>5, JobStep DEF IInv, JobTypes, Others, AdmissionStep
<1>6. ASSUME NEW x \in {"charge", "refuse", "open", "dropped"}, x = "open" => job[j].pc = "charge",
             job' = [job EXCEPT ![j] = [job[j] EXCEPT !.pc = x]]
      PROVE  /\ JobTypes' /\ Others(j)
             /\ job'[j].pc = x /\ job'[j].op = job[j].op /\ job'[j].stamp = job[j].stamp
             /\ job'[j].cells = job[j].cells
  <2> DEFINE f == [job[j] EXCEPT !.pc = x]
  <2>1. /\ f \in Calls /\ f.pc = x /\ f.op = job[j].op /\ f.stamp = job[j].stamp
        /\ f.cells = job[j].cells
    BY Zenon, <1>2 DEF Calls, Labels
  <2>2. job' = [job EXCEPT ![j] = f]
    BY Zenon, <1>6
  <2> HIDE DEF f
  <2> QED BY Zenon, <1>4, <2>1, <2>2, JobStep DEF IInv, JobTypes, Others
<1> QED BY Zenon, <1>1, <1>3, <1>4, <1>5, <1>6 DEF AdmissionStep

\* Opening fixes the target and the locks to take.
OpenStep(j) ==
    /\ JobTypes' /\ Others(j) /\ UNCHANGED <<dir, content, temps, torn, shared, exclusive, made>>
    /\ job[j].pc = "open" /\ job[j].op # "create" /\ job'[j].pc = "lock"
    /\ job'[j].op = job[j].op /\ job'[j].stamp = job[j].stamp /\ job'[j].cells = job[j].cells
    /\ job[j].path \in Paths /\ job'[j].target = dir[job[j].path]
    /\ \E l \in job'[j].todo : l.inode = job'[j].target /\ (l.mode = "shared" <=> job[j].op = "read")
    /\ \A l, k \in job'[j].todo : l.inode = k.inode => l = k
    /\ \A l \in job'[j].todo : \E p \in Paths : l.inode = dir[p]
    /\ \A l \in job'[j].todo :
         l.mode = "exclusive" => l.inode = job'[j].target /\ job[j].op # "read"

\* open_random is such a step.
LEMMA OpenEffect ==
    ASSUME IInv, NEW j \in Jobs, open_random(j)
    PROVE  OpenStep(j)
<1>1. job[j].pc = "open" /\ job[j].op # "create" /\ job[j] \in Calls
  BY Zenon, CallTypes DEF open_random, IInv
<1> DEFINE i == dir[job[j].path]
           S == {dir[p] : p \in job[j].sources}
           m == IF job[j].op = "read" THEN "shared" ELSE "exclusive"
           L == lock_set(i, S, m)
           f == [job[j] EXCEPT !.pc = "lock", !.target = i, !.todo = L]
<1>2. /\ i \in Inodes /\ S \in SUBSET Inodes /\ m \in {"shared", "exclusive"}
      /\ job[j].path \in Paths /\ job[j].sources \subseteq Paths
  BY <1>1 DEF IInv, FileTypes, Calls
<1>3. /\ L \in SUBSET Locks /\ i \in Int
      /\ [inode |-> i, mode |-> m] \in L
      /\ \A l, k \in L : l.inode = k.inode => l = k
      /\ \A l \in L : l.inode \in {i} \cup S
      /\ \A l \in L : l.mode = "exclusive" => l.inode = i /\ m = "exclusive"
  <2>1. i \in Int
    BY <1>2, Bounds DEF Inodes
  <2> HIDE DEF i, S, m
  <2> QED BY Zenon, <1>2, <2>1, LockSet
<1>4. job' = [job EXCEPT ![j] = f]
  BY Zenon DEF open_random
<1>5. UNCHANGED <<dir, content, temps, torn, shared, exclusive, made>>
  BY Zenon DEF open_random, fileVars, locks
<1>6. \A l \in L : \E p \in Paths : l.inode = dir[p]
  BY <1>2, <1>3
<1>7. \E l \in L : l.inode = i /\ (l.mode = "shared" <=> job[j].op = "read")
  <2> HIDE DEF L, i
  <2> QED BY Zenon, <1>3
<1>8. /\ f \in Calls /\ f.pc = "lock" /\ f.op = job[j].op /\ f.stamp = job[j].stamp
      /\ f.cells = job[j].cells /\ f.target = i /\ f.todo = L
  <2> HIDE DEF L, i
  <2> QED BY Zenon, <1>1, <1>3 DEF Calls, Labels
<1> HIDE DEF f, L
<1>9. JobTypes' /\ Others(j) /\ job'[j] = f
  BY Zenon, <1>4, <1>5, <1>8, JobStep DEF IInv, JobTypes, Others
<1> QED BY Zenon, <1>1, <1>2, <1>3, <1>5, <1>6, <1>7, <1>8, <1>9 DEF OpenStep

\* The least of the locks to take is free, and taken.
LockStep(j, l) ==
    /\ JobTypes' /\ Others(j) /\ UNCHANGED <<dir, content, temps, torn, made>>
    /\ job[j].pc = "lock" /\ l \in job[j].todo /\ l.inode \in Inodes
    /\ l.mode \in {"shared", "exclusive"}
    /\ \A k \in job[j].todo \ {l} : l.inode < k.inode
    /\ job'[j].pc = IF job'[j].todo = {} THEN "work" ELSE "lock"
    /\ job'[j].todo = job[j].todo \ {l}
    /\ job'[j].op = job[j].op /\ job'[j].stamp = job[j].stamp
    /\ job'[j].cells = job[j].cells /\ job'[j].target = job[j].target
    /\ exclusive[l.inode] = Nobody
    /\ \/ /\ l.mode = "exclusive" /\ shared[l.inode] = {} /\ UNCHANGED shared
          /\ exclusive' = [exclusive EXCEPT ![l.inode] = j]
       \/ /\ l.mode = "shared" /\ UNCHANGED exclusive
          /\ shared' = [shared EXCEPT ![l.inode] = @ \cup {j}]

\* lock_file is such a step.
LEMMA LockEffect ==
    ASSUME IInv, NEW j \in Jobs, lock_file(j), NEW l, l = next_lock(job[j].todo)
    PROVE  LockStep(j, l)
<1>1. job[j].pc = "lock" /\ job[j] \in Calls
  BY Zenon, CallTypes DEF lock_file, IInv
<1>2. job[j].todo \in SUBSET Locks /\ job[j].todo # {}
  BY Zenon, <1>1 DEF Calls, IInv, Ordered, Waiting
<1>3. /\ l \in job[j].todo /\ l.inode \in Inodes /\ l.mode \in {"shared", "exclusive"}
      /\ \A k \in job[j].todo : l.inode <= k.inode
  BY Zenon, <1>2, NextLock DEF Locks
<1>4. \A k \in job[j].todo \ {l} : l.inode < k.inode
  <2>1. \A k \in job[j].todo \ {l} : l.inode # k.inode
    BY Zenon, <1>1, <1>3 DEF IInv, Ordered, Waiting
  <2>2. \A k \in job[j].todo : k.inode \in Int
    BY <1>2, Bounds DEF Locks, Inodes
  <2> QED BY <1>3, <2>1, <2>2
<1> DEFINE R == job[j].todo \ {l}
           x == IF R = {} THEN "work" ELSE "lock"
           f == [job[j] EXCEPT !.todo = R, !.pc = x]
<1>5. job' = [job EXCEPT ![j] = f]
  BY Zenon DEF lock_file
<1>6. UNCHANGED <<dir, content, temps, torn, made>>
  BY Zenon DEF lock_file, fileVars
<1>7. /\ f \in Calls /\ f.pc = x /\ f.op = job[j].op /\ f.stamp = job[j].stamp
      /\ f.cells = job[j].cells /\ f.target = job[j].target /\ f.todo = R
  <2>1. R \in SUBSET Locks /\ x \in Labels
    BY Zenon, <1>2 DEF Labels
  <2> HIDE DEF R, x
  <2> QED BY Zenon, <1>1, <2>1 DEF Calls
<1>8. /\ exclusive[l.inode] = Nobody
      /\ \/ /\ l.mode = "exclusive" /\ shared[l.inode] = {} /\ UNCHANGED shared
            /\ exclusive' = [exclusive EXCEPT ![l.inode] = j]
         \/ /\ l.mode = "shared" /\ UNCHANGED exclusive
            /\ shared' = [shared EXCEPT ![l.inode] = @ \cup {j}]
  BY Zenon, <1>3 DEF lock_file, Grantable
<1> HIDE DEF f
<1>9. JobTypes' /\ Others(j) /\ job'[j] = f
  BY Zenon, <1>5, <1>6, <1>7, JobStep DEF IInv, JobTypes, Others
<1> QED BY Zenon, <1>1, <1>3, <1>4, <1>6, <1>7, <1>8, <1>9 DEF LockStep

\* A staging file is a new inode under the call's lock.
CreateStep(j, i) ==
    /\ JobTypes' /\ Others(j) /\ UNCHANGED <<dir, shared, made>>
    /\ job[j].pc = "open" /\ job[j].op = "create" /\ i \in Inodes /\ i = Oldest + job[j].stamp
    /\ job'[j].pc = "work" /\ job'[j].op = "create" /\ job'[j].stamp = job[j].stamp
    /\ job'[j].cells = job[j].cells /\ job'[j].target = i
    /\ temps' = temps \cup {i} /\ content' = [content EXCEPT ![i] = Unfilled] /\ torn' = torn
    /\ exclusive' = [exclusive EXCEPT ![i] = j]

\* create_staged_locked_nofollow is such a step.
LEMMA CreateEffect ==
    ASSUME IInv, NEW j \in Jobs, create_staged_locked_nofollow(j), NEW i, i = Oldest + job[j].stamp
    PROVE  CreateStep(j, i)
<1>1. job[j].pc = "open" /\ job[j].op = "create" /\ job[j] \in Calls
  BY Zenon, CallTypes DEF create_staged_locked_nofollow, IInv
<1>2. i \in Inodes /\ i \in Int
  BY <1>1, Bounds DEF Calls, Inodes
<1> DEFINE f == [job[j] EXCEPT !.pc = "work", !.target = i]
<1>3. /\ temps' = temps \cup {i} /\ content' = [content EXCEPT ![i] = Unfilled] /\ torn' = torn
      /\ exclusive' = [exclusive EXCEPT ![i] = j] /\ UNCHANGED <<dir, shared, made>>
      /\ job' = [job EXCEPT ![j] = f]
  BY Zenon DEF create_staged_locked_nofollow
<1>4. /\ f \in Calls /\ f.pc = "work" /\ f.op = job[j].op /\ f.stamp = job[j].stamp
      /\ f.cells = job[j].cells /\ f.target = i
  BY Zenon, <1>1, <1>2 DEF Calls, Labels
<1> HIDE DEF f
<1>5. JobTypes' /\ Others(j) /\ job'[j] = f
  BY Zenon, <1>3, <1>4, JobStep DEF IInv, JobTypes, Others
<1> QED BY Zenon, <1>1, <1>2, <1>3, <1>4, <1>5 DEF CreateStep

\* A call under its locks reads or writes the next cell of its target.
TouchStep(j, i, n) ==
    /\ JobTypes' /\ Others(j) /\ UNCHANGED <<dir, temps, torn, shared, exclusive, made>>
    /\ job[j].pc = "work" /\ job[j] \in Calls /\ i \in Inodes /\ n \in 1..2
    /\ i = job[j].target /\ n = Len(job[j].cells) + 1
    /\ job'[j].pc = "work" /\ job'[j].op = job[j].op /\ job'[j].stamp = job[j].stamp
    /\ job'[j].target = i
    /\ \/ /\ job[j].op = "read" /\ UNCHANGED content
          /\ job'[j].cells = Append(job[j].cells, content[i][n])
       \/ /\ job[j].op # "read" /\ content' = [content EXCEPT ![i] = [content[i] EXCEPT ![n] = job[j].stamp]]
          /\ job'[j].cells = Append(job[j].cells, job[j].stamp)

\* Reading and writing a cell are such steps.
LEMMA TouchEffect ==
    ASSUME IInv, NEW j \in Jobs, Touch(j),
           NEW n, n = Len(job[j].cells) + 1, NEW i, i = job[j].target
    PROVE  TouchStep(j, i, n)
<1>1. job[j].pc = "work" /\ job[j] \in Calls /\ i \in Inodes /\ n \in 1..2
  <2>1. job[j].pc = "work" /\ job[j] \in Calls /\ n <= 2
    BY Zenon, CallTypes DEF Touch, IInv
  <2>2. job[j].cells \in Seq(Int)
    BY Zenon, <2>1 DEF Calls
  <2> QED BY <2>1, <2>2 DEF IInv, Locking, Using
<1>2. UNCHANGED <<dir, temps, torn, shared, exclusive, made>>
  BY Zenon DEF Touch, locks
<1>3. PICK v \in {content[i][n], job[j].stamp} :
         /\ job' = [job EXCEPT ![j] = [job[j] EXCEPT !.cells = Append(job[j].cells, v)]]
         /\ \/ job[j].op = "read" /\ UNCHANGED content /\ v = content[i][n]
            \/ /\ job[j].op # "read" /\ content' = [content EXCEPT ![i] = [content[i] EXCEPT ![n] = job[j].stamp]]
               /\ v = job[j].stamp
  BY Zenon DEF Touch
<1>4. v \in Int
  <2>1. content[i] \in [1..2 -> Int]
    BY Zenon, <1>1 DEF IInv, FileTypes
  <2>2. content[i][n] \in Int
    BY Zenon, <1>1, <2>1
  <2>3. job[j].stamp \in Int
    BY <1>1, Bounds DEF Calls
  <2> QED BY Zenon, <1>3, <2>2, <2>3
<1> DEFINE f == [job[j] EXCEPT !.cells = Append(job[j].cells, v)]
<1>5. /\ f \in Calls /\ f.pc = job[j].pc /\ f.op = job[j].op /\ f.stamp = job[j].stamp
      /\ f.cells = Append(job[j].cells, v) /\ f.target = i
  <2>1. job[j].cells \in Seq(Int) /\ Append(job[j].cells, v) \in Seq(Int)
    BY <1>1, <1>4 DEF Calls
  <2> QED BY Zenon, <1>1, <2>1 DEF Calls
<1>6. job' = [job EXCEPT ![j] = f]
  BY Zenon, <1>3
<1> HIDE DEF f
<1>7. JobTypes' /\ Others(j) /\ job'[j] = f
  BY Zenon, <1>2, <1>5, <1>6, JobStep DEF IInv, JobTypes, Others
<1> QED BY Zenon, <1>1, <1>2, <1>3, <1>5, <1>7 DEF TouchStep

\* A call that ends lets go of its locks; a read goes on to drop its permit.
EndStep(j) ==
    /\ JobTypes' /\ Others(j) /\ UNCHANGED <<content, made>> /\ Unlock(j)
    /\ job[j].pc = "work" /\ job[j] \in Calls /\ job[j].target \in Inodes
    /\ \/ job'[j] = Resting
       \/ /\ job[j].op = "read" /\ job'[j].pc = "drop" /\ Len(job[j].cells) = 2
          /\ job'[j].cells = job[j].cells /\ job'[j].op = job[j].op
          /\ job'[j].stamp = job[j].stamp
    /\ \/ /\ job[j].op # "create" /\ UNCHANGED <<dir, temps>>
          /\ \/ Len(job[j].cells) = 2 /\ (IF job[j].op = "read" THEN torn' = torn ELSE torn' = torn \ {job[j].target})
             \/ job[j].op # "read" /\ job[j].cells = <<>> /\ torn' = torn
             \/ job[j].op # "read" /\ torn' = torn \cup {job[j].target}
       \/ /\ job[j].op = "create" /\ temps' = temps \ {job[j].target} /\ torn' = torn
          /\ \/ UNCHANGED dir
             \/ /\ dir' = [dir EXCEPT ![job[j].path] = job[j].target]
                /\ Len(job[j].cells) = 2 /\ job[j].path \in Paths

\* Closing, failing, publishing and discarding are such steps.
LEMMA EndEffect ==
    ASSUME IInv, NEW j \in Jobs, Close(j) \/ Fail(j) \/ publish(j) \/ Discard(j)
    PROVE  EndStep(j)
<1>1. job[j].pc = "work" /\ job[j] \in Calls /\ job[j].target \in Inodes /\ job[j].path \in Paths
  <2>1. job[j].pc = "work"
    BY Zenon DEF Close, Fail, publish, Discard
  <2> QED BY Zenon, <2>1, CallTypes DEF IInv, Locking, Using, Calls
<1>2. UNCHANGED <<content, made>> /\ Unlock(j)
  BY Zenon DEF Close, Fail, publish, Discard, fileVars
<1>3. \/ /\ job[j].op # "create" /\ UNCHANGED <<dir, temps>>
         /\ \/ Len(job[j].cells) = 2 /\ (IF job[j].op = "read" THEN torn' = torn ELSE torn' = torn \ {job[j].target})
            \/ job[j].op # "read" /\ job[j].cells = <<>> /\ torn' = torn
            \/ job[j].op # "read" /\ torn' = torn \cup {job[j].target}
      \/ /\ job[j].op = "create" /\ temps' = temps \ {job[j].target} /\ torn' = torn
         /\ \/ UNCHANGED dir
            \/ /\ dir' = [dir EXCEPT ![job[j].path] = job[j].target]
               /\ Len(job[j].cells) = 2 /\ job[j].path \in Paths
  BY Zenon, <1>1 DEF Close, Fail, publish, Discard, fileVars
<1>4. CASE job' = [job EXCEPT ![j] = Resting]
  BY Zenon, <1>1, <1>2, <1>3, <1>4, JobStep DEF IInv, JobTypes, Others, EndStep
<1>5. CASE /\ job[j].op = "read" /\ Len(job[j].cells) = 2
           /\ job' = [job EXCEPT ![j] = [job[j] EXCEPT !.pc = "drop"]]
  <2> DEFINE f == [job[j] EXCEPT !.pc = "drop"]
  <2>1. /\ f \in Calls /\ f.pc = "drop" /\ f.op = job[j].op /\ f.stamp = job[j].stamp
        /\ f.cells = job[j].cells
    BY Zenon, <1>1 DEF Calls, Labels
  <2>2. job' = [job EXCEPT ![j] = f]
    BY Zenon, <1>5
  <2> HIDE DEF f
  <2> QED BY Zenon, <1>1, <1>2, <1>3, <1>5, <2>1, <2>2, JobStep DEF IInv, JobTypes, Others, EndStep
<1> QED BY Zenon, <1>4, <1>5 DEF Close, Fail, publish, Discard, Become, Rest

\* Every step is one of these.
LEMMA Steps ==
    ASSUME IInv, SidecarNext
    PROVE  \E j \in Jobs :
             \/ SubmitStep(j) \/ AdmissionStep(j) \/ OpenStep(j) \/ (\E l : LockStep(j, l))
             \/ (\E i : CreateStep(j, i)) \/ (\E i, n : TouchStep(j, i, n)) \/ EndStep(j)
<1> PICK j \in Jobs :
       \/ Submit(j) \/ try_acquire(j) \/ charge_bytes(j) \/ refuse(j)
       \/ drop_bytes(j) \/ drop_slot(j)
       \/ open_random(j) \/ lock_file(j) \/ create_staged_locked_nofollow(j)
       \/ Touch(j) \/ Close(j) \/ Fail(j) \/ publish(j) \/ Discard(j)
  BY Zenon DEF SidecarNext
<1>1. CASE lock_file(j)
  BY Zenon, <1>1, LockEffect
<1>2. CASE create_staged_locked_nofollow(j)
  BY Zenon, <1>2, CreateEffect
<1>3. CASE Touch(j)
  BY Zenon, <1>3, TouchEffect
<1> QED BY Zenon, <1>1, <1>2, <1>3, SubmitEffect, AdmissionEffect, OpenEffect, EndEffect

\* The types are kept by every step of a call.
LEMMA TypesKept ==
    ASSUME IInv, NEW j \in Jobs,
           \/ SubmitStep(j) \/ AdmissionStep(j) \/ OpenStep(j) \/ (\E l : LockStep(j, l))
           \/ (\E i : CreateStep(j, i)) \/ (\E i, n : TouchStep(j, i, n)) \/ EndStep(j)
    PROVE  FileTypes' /\ JobTypes'
<1>a. FileTypes
  BY Zenon DEF IInv
<1>1. CASE SubmitStep(j)
  BY Zenon, <1>a, <1>1 DEF FileTypes, SubmitStep
<1>2. CASE AdmissionStep(j)
  BY Zenon, <1>a, <1>2 DEF FileTypes, AdmissionStep
<1>3. CASE OpenStep(j)
  BY Zenon, <1>a, <1>3 DEF FileTypes, OpenStep
<1>4. ASSUME NEW l, LockStep(j, l) PROVE FileTypes' /\ JobTypes'
  BY <1>a, <1>4 DEF FileTypes, LockStep
<1>5. ASSUME NEW i, CreateStep(j, i) PROVE FileTypes' /\ JobTypes'
  <2>1. Unfilled \in [1..2 -> Int]
    BY DEF Unfilled
  <2> QED BY Zenon, <1>a, <1>5, <2>1 DEF FileTypes, CreateStep
<1>6. ASSUME NEW i, NEW n, TouchStep(j, i, n) PROVE FileTypes' /\ JobTypes'
  <2>1. JobTypes' /\ UNCHANGED <<dir, temps, torn, shared, exclusive>>
    BY Zenon, <1>6 DEF TouchStep
  <2>2. job[j].stamp \in Int /\ i \in Inodes /\ n \in 1..2
    <3>1. job[j] \in Calls /\ i \in Inodes /\ n \in 1..2
      BY Zenon, <1>6 DEF TouchStep
    <3>2. job[j].stamp \in 1..MaxRequests
      BY Zenon, <3>1 DEF Calls
    <3> QED BY <3>1, <3>2
  <2>3. content' = content \/ content' = [content EXCEPT ![i] = [content[i] EXCEPT ![n] = job[j].stamp]]
    BY Zenon, <1>6 DEF TouchStep
  <2>4. content[i] \in [1..2 -> Int] /\ content \in [Inodes -> [1..2 -> Int]]
    BY Zenon, <1>a, <2>2 DEF FileTypes
  <2>5. [content[i] EXCEPT ![n] = job[j].stamp] \in [1..2 -> Int]
    BY Zenon, <2>2, <2>4
  <2>6. content' \in [Inodes -> [1..2 -> Int]]
    BY Zenon, <2>2, <2>3, <2>4, <2>5
  <2> QED BY Zenon, <1>a, <2>1, <2>6 DEF FileTypes
<1>7. CASE EndStep(j)
  <2>1. JobTypes' /\ UNCHANGED content /\ Unlock(j)
    BY Zenon, <1>7 DEF EndStep
  <2>2. dir' \in [Paths -> Inodes] /\ temps' \subseteq Inodes
    BY Zenon, <1>a, <1>7 DEF FileTypes, EndStep
  <2>3. shared' \in [Inodes -> SUBSET Jobs] /\ exclusive' \in [Inodes -> Jobs \cup {Nobody}]
    BY Zenon, <1>a, <2>1 DEF Unlock, FileTypes
  <2> QED BY Zenon, <1>a, <2>1, <2>2, <2>3 DEF FileTypes
<1> QED BY Zenon, <1>1, <1>2, <1>3, <1>4, <1>5, <1>6, <1>7

-----------------------------------------------------------------------------
(* The invariant, step by step *)

\* Admission is no business of the files: a call that takes no part in the
\* locking before or after its step keeps the invariant.
LEMMA AsideKeeps ==
    ASSUME IInv, NEW j \in Jobs, SubmitStep(j) \/ AdmissionStep(j), FileTypes', JobTypes'
    PROVE  IInv'
<1>1. /\ Others(j) /\ UNCHANGED <<dir, content, temps, torn, shared, exclusive>>
      /\ ~Using(j) /\ ~Using(j)' /\ ~Waiting(j) /\ ~Waiting(j)' /\ ~Working(j) /\ ~Working(j)'
  BY DEF SubmitStep, AdmissionStep, Using, Waiting, Working, Resting
<1>2. \A k \in Jobs : /\ Using(k)' <=> Using(k)
                      /\ Waiting(k)' <=> Waiting(k)
                      /\ Working(k)' <=> Working(k)
                      /\ Using(k) => job'[k] = job[k]
                      /\ Waiting(k) => Using(k)
                      /\ Working(k) => Using(k)
  BY Zenon, <1>1 DEF Others, Using, Waiting, Working
<1>3. \A i : Fresh(i)' <=> Fresh(i)
  BY Zenon, <1>1, <1>2 DEF Fresh
<1>4. ASSUME NEW k \in Jobs PROVE Ordered(k)' /\ Locking(k)'
  <2>1. Ordered(k) /\ Locking(k)
    BY Zenon DEF IInv
  <2>2. Ordered(k)'
    BY Zenon, <1>1, <1>2, <2>1 DEF Ordered, Holds
  <2>3. CASE k = j
    BY Zenon, <1>1, <1>2, <2>1, <2>3 DEF Locking, WritesAlone, Ordered, Holds
  <2>4. CASE k # j
    <3>1. job'[k] = job[k]
      BY Zenon, <1>1, <2>4 DEF Others
    <3>2. HoldsTarget(k)' <=> HoldsTarget(k)
      BY Zenon, <1>1, <3>1 DEF HoldsTarget
    <3>3. Wants(k)' <=> Wants(k)
      BY Zenon, <3>1, <3>2 DEF Wants
    <3>4. WritesAlone(k)' <=> WritesAlone(k)
      BY Zenon, <1>1, <3>1 DEF WritesAlone
    <3> QED BY Zenon, <1>1, <1>2, <2>1, <2>2, <3>1, <3>2, <3>3, <3>4 DEF Locking
  <2> QED BY Zenon, <2>2, <2>3, <2>4
<1>5. made' \in Int /\ made \in Int /\ made <= made'
  BY Bounds DEF SubmitStep, AdmissionStep, IInv, JobTypes
<1>6. ASSUME NEW k \in Jobs PROVE Progress(k)' /\ Staging(k)'
  <2>1. Progress(k) /\ Staging(k)
    BY Zenon DEF IInv
  <2>2. CASE k # j
    <3>1. job'[k] = job[k]
      BY Zenon, <1>1, <2>2 DEF Others
    <3>2. Progress(k)'
      BY Zenon, <1>1, <1>2, <2>1, <3>1 DEF Progress, Settled
    <3>3. job[k].pc # "idle" => job[k].stamp \in Int
      BY CallTypes, Bounds DEF IInv, Calls
    <3>4. Staging(k)'
      BY <1>3, <1>5, <2>1, <3>1, <3>3 DEF Staging
    <3> QED BY Zenon, <3>2, <3>4
  <2>3. CASE k = j /\ AdmissionStep(j)
    <3>1. Progress(j)'
      BY SMTT(30), <1>1, <2>1, <2>3 DEF AdmissionStep, Progress, Resting
    <3>2. Staging(j)'
      BY <1>1, <2>1, <2>3 DEF AdmissionStep, Staging, Resting
    <3> QED BY Zenon, <2>3, <3>1, <3>2
  <2>4. CASE k = j /\ SubmitStep(j)
    <3>1. Progress(j)'
      BY <1>1, <2>4 DEF SubmitStep, Progress, Resting
    <3>2. PICK m : m = made + 1 /\ m = made'
      BY Zenon, <2>4 DEF SubmitStep
    <3>3. Fresh(Oldest + m)
      <4>1. m \in 0..MaxRequests
        BY Zenon, <3>2 DEF JobTypes
      <4>2. \A a, n \in Nat : m \in 0..n /\ made \in Nat => a + m \in 1..(a + n) /\ a + m > a + made
        BY <3>2
      <4>3. made \in Nat
        BY DEF IInv, JobTypes
      <4>4. Oldest + m \in Inodes /\ Oldest + m > Oldest + made
        BY Zenon, <4>1, <4>2, <4>3, Bounds DEF Inodes
      <4> QED BY Zenon, <4>4 DEF IInv, FilesInv
    <3>4. Fresh(Oldest + m)'
      BY Zenon, <1>3, <3>3
    <3>5. job'[j] = Resting \/ (job'[j].stamp = m /\ job'[j].pc \in {"admit", "open"}
                               /\ (job'[j].pc = "admit" => job'[j].op # "create"))
      BY Zenon, <2>4, <3>2 DEF SubmitStep
    <3>6. Staging(j)'
      BY <1>5, <3>2, <3>4, <3>5 DEF Staging, Resting
    <3> QED BY Zenon, <2>4, <3>1, <3>6
  <2> QED BY Zenon, <2>2, <2>3, <2>4
<1>7. StampsDiffer'
  <2>1. \A k \in Jobs : job[k].pc # "idle" => job[k].stamp \in Int /\ job[k].stamp <= made
    BY CallTypes, Bounds DEF IInv, Calls, Staging
  <2>2. CASE AdmissionStep(j)
    BY <1>1, <2>2 DEF IInv, AdmissionStep, StampsDiffer, Others, Resting
  <2>3. CASE SubmitStep(j)
    <3>1. job'[j].pc # "idle" => job'[j].stamp = made + 1
      BY <2>3 DEF SubmitStep, Resting
    <3> QED BY <1>1, <1>5, <2>1, <3>1 DEF IInv, StampsDiffer, Others
  <2> QED BY Zenon, <2>2, <2>3
<1>8. FilesInv'
  <2>1. FilesInv
    BY Zenon DEF IInv
  <2>2. \A i \in Inodes : i > Oldest + made' => Fresh(i)'
    <3>1. ASSUME NEW i \in Inodes, i > Oldest + made' PROVE i > Oldest + made
      <4>1. i \in Int
        BY Bounds DEF Inodes
      <4>2. \A a, b, c \in Int : i > a + b /\ c <= b => i > a + c
        BY <4>1
      <4>3. Oldest \in Int
        BY Bounds
      <4> QED BY Zenon, <3>1, <1>5, <4>2, <4>3
    <3> QED BY Zenon, <1>3, <2>1, <3>1 DEF FilesInv
  <2>3. Creating' = Creating /\ \A k \in Creating : job'[k] = job[k]
    BY Zenon, <1>2 DEF Creating
  <2>4. temps' = {job'[k].target : k \in Creating'}
    BY Zenon, <1>1, <2>1, <2>3 DEF FilesInv
  <2>5. \A i \in Inodes : Named(i)' /\ Quiet(i)' => Named(i) /\ Quiet(i)
    <3>1. \A i \in Inodes : Named(i)' => Named(i)
      BY Zenon, <1>1, <1>2 DEF Named
    <3>2. \A i \in Inodes : Quiet(i)' => Quiet(i)
      <4>1. \A i \in Inodes : exclusive[i] = Nobody \/ exclusive[i] \in Jobs
        BY Zenon DEF IInv, FileTypes
      <4> QED BY Zenon, <1>1, <1>2, <4>1 DEF Quiet
    <3> QED BY Zenon, <3>1, <3>2
  <2> QED BY Zenon, <1>1, <2>1, <2>2, <2>4, <2>5 DEF FilesInv, Settled
<1> QED BY Zenon, <1>4, <1>6, <1>7, <1>8 DEF IInv

\* A call whose locks and target nobody touches is where it was.
LEMMA Bystander ==
    ASSUME IInv, NEW k \in Jobs, job'[k] = job[k],
           \A i \in Inodes : /\ k \in shared'[i] <=> k \in shared[i]
                             /\ exclusive'[i] = k <=> exclusive[i] = k,
           Using(k) /\ job[k].op # "create" => job[k].target \notin temps',
           Working(k) => content'[job[k].target] = content[job[k].target],
           Working(k) /\ job[k].op # "read" => (job[k].target \in torn => job[k].target \in torn')
    PROVE  Ordered(k)' /\ Locking(k)' /\ Progress(k)'
<1>1. Ordered(k) /\ Locking(k) /\ Progress(k)
  BY Zenon DEF IInv
<1>2. /\ Using(k)' <=> Using(k)
      /\ Waiting(k)' <=> Waiting(k)
      /\ Working(k)' <=> Working(k)
      /\ Waiting(k) => Using(k)
      /\ Working(k) => Using(k)
  BY Zenon DEF Using, Waiting, Working
<1>3. \A i \in Inodes : Holds(k, i)' <=> Holds(k, i)
  BY Zenon DEF Holds
<1>4. Ordered(k)'
  <2>1. Waiting(k)' => /\ job'[k].todo # {}
                       /\ \A l, m \in job'[k].todo : l.inode = m.inode => l = m
    BY Zenon, <1>1, <1>2 DEF Ordered
  <2>2. Waiting(k)' => \A i \in Inodes : Holds(k, i)' => \A l \in job'[k].todo : i < l.inode
    BY Zenon, <1>1, <1>2, <1>3 DEF Ordered
  <2>3. \A i \in Inodes : Holds(k, i)' => Using(k)'
    BY Zenon, <1>1, <1>2, <1>3 DEF Ordered
  <2> QED BY Zenon, <2>1, <2>2, <2>3 DEF Ordered
<1>5. WritesAlone(k)'
  BY Zenon, <1>1 DEF Locking, WritesAlone
<1>6. Using(k) => (HoldsTarget(k)' <=> HoldsTarget(k))
  <2>1. Using(k) => job[k].target \in Inodes
    BY Zenon, <1>1 DEF Locking
  <2> QED BY Zenon, <2>1 DEF HoldsTarget
<1>7. Waiting(k)' => Wants(k)'
  <2> SUFFICES ASSUME Waiting(k)' PROVE Wants(k)'
    BY Zenon
  <2>1. Wants(k) /\ (HoldsTarget(k)' <=> HoldsTarget(k))
    BY Zenon, <1>1, <1>2, <1>6 DEF Locking
  <2> QED BY Zenon, <2>1 DEF Wants
<1>8. Locking(k)'
  BY Zenon, <1>1, <1>2, <1>5, <1>6, <1>7 DEF Locking
<1>9. Progress(k)'
  BY Zenon, <1>1, <1>2 DEF Progress, Settled
<1> QED BY Zenon, <1>4, <1>8, <1>9

\* Opening a path keeps the invariant.
LEMMA OpenKeeps ==
    ASSUME IInv, NEW j \in Jobs, OpenStep(j), FileTypes', JobTypes'
    PROVE  IInv'
<1>1. /\ Others(j) /\ UNCHANGED <<dir, content, temps, torn, shared, exclusive, made>>
      /\ ~Using(j) /\ Using(j)' /\ ~Waiting(j) /\ Waiting(j)' /\ ~Working(j) /\ ~Working(j)'
      /\ job'[j].op = job[j].op /\ job[j].op # "create"
  BY Zenon DEF OpenStep, Using, Waiting, Working
<1>2. ASSUME NEW k \in Jobs, k # j PROVE Ordered(k)' /\ Locking(k)' /\ Progress(k)'
  <2>1. job'[k] = job[k]
    BY Zenon, <1>1, <1>2 DEF Others
  <2>2. Using(k) /\ job[k].op # "create" => job[k].target \notin temps'
    BY Zenon, <1>1 DEF IInv, Locking
  <2> QED BY Zenon, <1>1, <2>1, <2>2, Bystander
<1>3. \A i \in Inodes : j \notin shared[i] /\ exclusive[i] # j
  BY Zenon, <1>1 DEF IInv, Ordered, Holds
<1>4. Ordered(j)'
  <2>1. \A i \in Inodes : ~Holds(j, i)'
    BY Zenon, <1>1, <1>3 DEF Holds
  <2>2. job'[j].todo # {} /\ \A l, m \in job'[j].todo : l.inode = m.inode => l = m
    BY Zenon DEF OpenStep
  <2> QED BY Zenon, <2>1, <2>2 DEF Ordered
<1>5. job'[j].target \in Inodes /\ job'[j].target \notin temps
  BY Zenon DEF OpenStep, IInv, FileTypes, FilesInv
<1>6. Locking(j)'
  <2>1. WritesAlone(j)'
    BY Zenon, <1>1, <1>3 DEF WritesAlone
  <2>2. Wants(j)'
    BY Zenon, <1>1 DEF OpenStep, Wants
  <2> QED BY Zenon, <1>1, <1>5, <2>1, <2>2 DEF Locking
<1>7. Progress(j)' /\ job[j].stamp = job'[j].stamp /\ job[j].pc # "idle"
  BY Zenon, <1>1 DEF OpenStep, Progress, IInv
<1>8. ASSUME NEW i, Fresh(i) PROVE Fresh(i)'
  <2>1. ASSUME NEW k \in Jobs
        PROVE  /\ Using(k)' => job'[k].target # i
               /\ Waiting(k)' => \A l \in job'[k].todo : l.inode # i
    <3>1. CASE k = j
      <4>1. job[j].path \in Paths /\ job'[j].target = dir[job[j].path]
        BY Zenon DEF OpenStep
      <4>2. \A l \in job'[j].todo : \E p \in Paths : l.inode = dir[p]
        BY Zenon DEF OpenStep
      <4> QED BY Zenon, <1>8, <3>1, <4>1, <4>2 DEF Fresh
    <3>2. CASE k # j
      BY Zenon, <1>1, <1>8, <3>2 DEF Fresh, Others, Using, Waiting
    <3> QED BY Zenon, <3>1, <3>2
  <2> QED BY Zenon, <1>1, <1>8, <2>1 DEF Fresh
<1>9. ASSUME NEW k \in Jobs PROVE Staging(k)'
  <2>1. Staging(k)
    BY Zenon DEF IInv
  <2>2. CASE k = j
    BY Zenon, <1>1, <1>7, <2>1, <2>2 DEF Staging, OpenStep
  <2>3. CASE k # j
    BY Zenon, <1>1, <1>8, <2>1, <2>3 DEF Staging, Others
  <2> QED BY Zenon, <2>2, <2>3
<1>10. StampsDiffer'
  BY <1>1, <1>7 DEF IInv, StampsDiffer, Others
<1>11. FilesInv'
  <2>1. FilesInv
    BY Zenon DEF IInv
  <2>2. Creating' = Creating /\ \A k \in Creating : job'[k] = job[k]
    BY Zenon, <1>1 DEF Creating, Others, Working
  <2>3. temps' = {job'[k].target : k \in Creating'}
    BY Zenon, <1>1, <2>1, <2>2 DEF FilesInv
  <2>4. \A i \in Inodes : Named(i)' => Named(i)
    <3>1. \E p \in Paths : dir[p] = job'[j].target
      BY Zenon DEF OpenStep
    <3> QED BY Zenon, <1>1, <3>1 DEF Named, Others, Using
  <2>5. \A i \in Inodes : Quiet(i)' => Quiet(i)
    <3>1. \A i \in Inodes : exclusive[i] = Nobody \/ exclusive[i] \in Jobs
      BY Zenon DEF IInv, FileTypes
    <3> QED BY Zenon, <1>1, <1>3, <3>1 DEF Quiet, Waiting, Others
  <2> QED BY Zenon, <1>1, <1>8, <2>1, <2>3, <2>4, <2>5 DEF FilesInv, Settled
<1> QED BY Zenon, <1>2, <1>4, <1>6, <1>7, <1>9, <1>10, <1>11 DEF IInv

\* Taking the least lock keeps the invariant.
LEMMA LockKeeps ==
    ASSUME IInv, NEW j \in Jobs, NEW l, LockStep(j, l), FileTypes', JobTypes'
    PROVE  IInv'
<1>1. /\ Others(j) /\ UNCHANGED <<dir, content, temps, torn, made>>
      /\ Using(j) /\ Using(j)' /\ Waiting(j) /\ ~Working(j)
      /\ job'[j].op = job[j].op /\ job'[j].target = job[j].target /\ job'[j].stamp = job[j].stamp
      /\ job'[j].cells = job[j].cells /\ job'[j].todo = job[j].todo \ {l}
      /\ l \in job[j].todo /\ l.inode \in Inodes
  BY Zenon DEF LockStep, Using, Waiting, Working
<1>2. /\ \A i \in Inodes : shared[i] \subseteq Jobs /\ exclusive[i] \in Jobs \cup {Nobody}
      /\ j # Nobody
  BY Zenon, Bounds DEF IInv, FileTypes
<1>3. \A i \in Inodes : /\ exclusive[i] # Nobody => exclusive'[i] = exclusive[i]
                        /\ exclusive'[i] # exclusive[i] => i = l.inode /\ exclusive'[i] = j
                        /\ shared[i] \subseteq shared'[i] /\ shared'[i] \subseteq shared[i] \cup {j}
                        /\ shared'[i] # shared[i] => i = l.inode
  BY <1>2 DEF LockStep, IInv, FileTypes
<1>4. ASSUME NEW k \in Jobs, k # j PROVE Ordered(k)' /\ Locking(k)' /\ Progress(k)'
  <2>1. job'[k] = job[k]
    BY Zenon, <1>1, <1>4 DEF Others
  <2>2. Using(k) /\ job[k].op # "create" => job[k].target \notin temps'
    BY Zenon, <1>1 DEF IInv, Locking
  <2>3. ASSUME NEW i \in Inodes
        PROVE (k \in shared'[i] <=> k \in shared[i]) /\ (exclusive'[i] = k <=> exclusive[i] = k)
    <3>1. k # Nobody
      BY Zenon, Bounds
    <3> QED BY Zenon, <1>3, <1>4, <3>1
  <2> QED BY Zenon, <1>1, <2>1, <2>2, <2>3, Bystander
<1>5. Ordered(j) /\ Locking(j) /\ Wants(j) /\ job[j].op # "create"
  BY Zenon, <1>1 DEF IInv, Locking, Wants
<1>6. \A i \in Inodes : Holds(j, i)' => i = l.inode \/ Holds(j, i)
  BY Zenon, <1>3 DEF Holds
<1>7. Waiting(j)' <=> job'[j].todo # {}
  BY Zenon DEF LockStep, Waiting
<1>8. Ordered(j)'
  <2>1. \A i \in Inodes : Holds(j, i)' => Using(j)'
    BY Zenon, <1>1
  <2>2. \A k, m \in job'[j].todo : k.inode = m.inode => k = m
    BY Zenon, <1>1, <1>5 DEF Ordered
  <2>3. \A k \in job'[j].todo : l.inode < k.inode
    BY Zenon, <1>1 DEF LockStep
  <2>4. \A i \in Inodes : Holds(j, i)' => \A k \in job'[j].todo : i < k.inode
    BY Zenon, <1>1, <1>5, <1>6, <2>3 DEF Ordered
  <2> QED BY Zenon, <1>7, <2>1, <2>2, <2>4 DEF Ordered
<1>9. HoldsTarget(j) => HoldsTarget(j)'
  <2>1. job[j].target \in Inodes
    BY Zenon, <1>1, <1>5 DEF Locking
  <2> QED BY Zenon, <1>1, <1>2, <1>3, <2>1 DEF HoldsTarget
<1>10. l.inode = job[j].target /\ (l.mode = "shared" <=> job[j].op = "read") => HoldsTarget(j)'
  <2>1. \/ l.mode = "exclusive" /\ exclusive'[l.inode] = j
        \/ l.mode = "shared" /\ j \in shared'[l.inode]
    BY DEF LockStep, IInv, FileTypes
  <2> QED BY Zenon, <1>1, <2>1 DEF HoldsTarget
<1>11. Wants(j)'
  <2>1. HoldsTarget(j)' \/ \E m \in job'[j].todo :
          m.inode = job'[j].target /\ (m.mode = "shared" <=> job'[j].op = "read")
    BY Zenon, <1>1, <1>5, <1>9, <1>10 DEF Wants
  <2>2. \A m \in job'[j].todo :
          m.mode = "exclusive" => m.inode = job'[j].target /\ job'[j].op # "read"
    BY Zenon, <1>1, <1>5 DEF Wants
  <2> QED BY Zenon, <1>1, <1>5, <2>1, <2>2 DEF Wants
<1>12. Working(j)' => HoldsTarget(j)'
  <2>1. Working(j)' => job'[j].todo = {}
    BY Zenon DEF LockStep, Working
  <2> QED BY Zenon, <1>11, <2>1 DEF Wants
<1>13. WritesAlone(j)'
  <2>1. exclusive'[l.inode] # exclusive[l.inode] => l.mode = "exclusive"
    BY Zenon DEF LockStep
  <2> QED BY ZenonT(40), <1>1, <1>3, <1>5, <2>1 DEF Locking, WritesAlone, Wants
<1>14. Locking(j)'
  BY Zenon, <1>1, <1>5, <1>11, <1>12, <1>13 DEF Locking
<1>15. Working(j)' /\ job[j].op # "read" => Settled(job[j].target)
  <2> SUFFICES ASSUME Working(j)', job[j].op # "read" PROVE Settled(job[j].target)
    BY Zenon
  <2>1. job[j].target \in Inodes /\ Named(job[j].target)
    BY Zenon, <1>1, <1>5 DEF Named, Locking
  <2>2. CASE HoldsTarget(j)
    <3>1. exclusive[job[j].target] = j
      BY Zenon, <2>2 DEF HoldsTarget
    <3> QED BY Zenon, <1>1, <2>1, <3>1 DEF IInv, FilesInv, Quiet
  <2>3. CASE ~HoldsTarget(j)
    <3>1. \A m \in job[j].todo : m = l
      <4>1. job'[j].todo = {}
        BY Zenon DEF LockStep, Working
      <4> QED BY Zenon, <1>1, <4>1
    <3>2. l.inode = job[j].target
      BY Zenon, <1>5, <2>3, <3>1 DEF Wants
    <3>3. exclusive[job[j].target] = Nobody
      BY Zenon, <3>2 DEF LockStep
    <3> QED BY Zenon, <2>1, <3>3 DEF IInv, FilesInv, Quiet
  <2> QED BY Zenon, <2>2, <2>3
<1>16. Progress(j)'
  <2>1. job[j].cells = <<>>
    BY Zenon, <1>1 DEF IInv, Progress
  <2>2. Len(job'[j].cells) = 0 /\ \A k \in 1..Len(job'[j].cells) : FALSE
    BY <1>1, <2>1
  <2>3. Settled(job[j].target) => Settled(job[j].target)'
    BY Zenon, <1>1 DEF Settled
  <2>4. job'[j].pc \notin {"admit", "charge", "open", "drop"}
    BY Zenon DEF LockStep
  <2> QED BY <1>1, <1>15, <2>1, <2>2, <2>3, <2>4 DEF Progress
<1>17. \A k \in Jobs : /\ Using(k)' <=> Using(k)
                       /\ job'[k].target = job[k].target
                       /\ job'[k].op = job[k].op
                       /\ job'[k].stamp = job[k].stamp
                       /\ Waiting(k)' => Waiting(k) /\ job'[k].todo \subseteq job[k].todo
  <2>1. \A k \in Jobs : k # j => job'[k] = job[k]
    BY Zenon, <1>1 DEF Others
  <2> QED BY Zenon, <1>1, <2>1 DEF Using, Waiting
<1>18. ASSUME NEW i \in Inodes, Fresh(i) PROVE Fresh(i)'
  <2>1. l.inode # i
    BY Zenon, <1>1, <1>18 DEF Fresh
  <2>2. shared'[i] = shared[i] /\ exclusive'[i] = exclusive[i]
    BY Zenon, <1>3, <2>1
  <2>3. \A k \in Jobs : Waiting(k)' => \A m \in job'[k].todo : m.inode # i
    BY Zenon, <1>17, <1>18 DEF Fresh
  <2> QED BY Zenon, <1>1, <1>17, <1>18, <2>2, <2>3 DEF Fresh
<1>19. ASSUME NEW k \in Jobs PROVE Staging(k)'
  <2>1. Staging(k)
    BY Zenon DEF IInv
  <2>2. CASE k = j
    BY Zenon, <1>1, <2>1, <2>2 DEF Staging, LockStep
  <2>3. CASE k # j
    <3>1. job'[k] = job[k]
      BY Zenon, <1>1, <2>3 DEF Others
    <3>2. job[k].pc # "idle" => Oldest + job[k].stamp \in Inodes
      BY CallTypes, Bounds DEF IInv, Calls, Inodes
    <3>3. job[k].pc = "open" => Oldest + job[k].stamp \in Inodes
      BY Zenon, <3>2
    <3> QED BY Zenon, <1>1, <1>18, <2>1, <3>1, <3>3 DEF Staging
  <2> QED BY Zenon, <2>2, <2>3
<1>20. StampsDiffer'
  <2>1. job[j].pc # "idle"
    BY Zenon DEF LockStep
  <2> QED BY <1>1, <2>1 DEF IInv, StampsDiffer, Others
<1>21. FilesInv'
  <2>1. FilesInv
    BY Zenon DEF IInv
  <2>2. Creating' = Creating
    <3>1. j \notin Creating /\ j \notin Creating'
      BY Zenon, <1>1, <1>5 DEF Creating
    <3> QED BY Zenon, <1>1, <3>1 DEF Creating, Others, Working
  <2>3. temps' = {job'[k].target : k \in Creating'}
    <3>1. \A k \in Creating : job'[k].target = job[k].target
      BY Zenon, <1>17 DEF Creating
    <3> QED BY <1>1, <2>1, <2>2, <3>1 DEF FilesInv
  <2>4. \A i \in Inodes : Named(i)' => Named(i)
    BY Zenon, <1>1, <1>17 DEF Named
  <2>5. \A i \in Inodes : Quiet(i)' => Quiet(i)
    <3>1. \A i \in Inodes : exclusive[i] = Nobody \/ exclusive[i] \in Jobs
      BY Zenon, <1>2
    <3> QED BY Zenon, <1>3, <1>17, <3>1 DEF Quiet
  <2>6. \A i \in Inodes : exclusive'[i] # Nobody => shared'[i] = {}
    <3>1. exclusive'[l.inode] # Nobody => shared'[l.inode] = {}
      BY Zenon, <1>1 DEF LockStep
    <3> QED BY Zenon, <1>3, <2>1, <3>1 DEF FilesInv
  <2> QED BY Zenon, <1>1, <1>18, <2>1, <2>3, <2>4, <2>5, <2>6 DEF FilesInv, Settled
<1> QED BY Zenon, <1>4, <1>8, <1>14, <1>16, <1>19, <1>20, <1>21 DEF IInv

\* Creating a staging file keeps the invariant.
LEMMA CreateKeeps ==
    ASSUME IInv, NEW j \in Jobs, NEW i, CreateStep(j, i), FileTypes', JobTypes'
    PROVE  IInv'
<1>1. /\ Others(j) /\ UNCHANGED <<dir, shared, made>> /\ i \in Inodes
      /\ ~Using(j) /\ Using(j)' /\ ~Waiting(j) /\ ~Waiting(j)' /\ ~Working(j) /\ Working(j)'
      /\ job'[j].op = "create" /\ job[j].op = "create" /\ job'[j].target = i
      /\ job'[j].stamp = job[j].stamp /\ job'[j].cells = job[j].cells
      /\ job[j].pc = "open" /\ job'[j].pc = "work"
      /\ i = Oldest + job[j].stamp /\ temps' = temps \cup {i} /\ torn' = torn
  BY Zenon DEF CreateStep, Using, Waiting, Working
<1>2. Fresh(i)
  BY Zenon, <1>1 DEF IInv, Staging
<1>3. /\ \A n \in Inodes : n # i => exclusive'[n] = exclusive[n] /\ content'[n] = content[n]
      /\ exclusive'[i] = j /\ exclusive[i] = Nobody /\ shared[i] = {}
      /\ \A n \in Inodes : exclusive[n] = Nobody \/ exclusive[n] \in Jobs
  BY Zenon, <1>1, <1>2 DEF CreateStep, IInv, FileTypes, Fresh
<1>4. ASSUME NEW k \in Jobs, k # j PROVE Ordered(k)' /\ Locking(k)' /\ Progress(k)'
  <2>1. job'[k] = job[k]
    BY Zenon, <1>1, <1>4 DEF Others
  <2>2. Using(k) => job[k].target # i /\ job[k].target \in Inodes
    BY Zenon, <1>2 DEF Fresh, IInv, Locking
  <2>3. Using(k) /\ job[k].op # "create" => job[k].target \notin temps
    BY Zenon DEF IInv, Locking
  <2>4. Using(k) /\ job[k].op # "create" => job[k].target \notin temps'
    BY Zenon, <1>1, <2>2, <2>3
  <2>5. k # Nobody
    BY Zenon, Bounds
  <2>6. \A n \in Inodes : exclusive'[n] = k <=> exclusive[n] = k
    BY Zenon, <1>3, <1>4, <2>5
  <2>7. Working(k) => Using(k)
    BY Zenon DEF Working, Using
  <2>8. Working(k) => content'[job[k].target] = content[job[k].target]
    BY Zenon, <1>3, <2>2, <2>7
  <2> QED BY Zenon, <1>1, <2>1, <2>4, <2>6, <2>8, Bystander
<1>5. \A n \in Inodes : j \notin shared[n] /\ exclusive[n] # j
  BY Zenon, <1>1 DEF IInv, Ordered, Holds
<1>6. Ordered(j)'
  BY Zenon, <1>1 DEF Ordered
<1>7. Locking(j)'
  <2>1. WritesAlone(j)'
    <3>1. \A n \in Inodes : exclusive'[n] = j => n = i
      BY Zenon, <1>3, <1>5
    <3> QED BY Zenon, <1>1, <3>1 DEF WritesAlone
  <2>2. HoldsTarget(j)'
    BY Zenon, <1>1, <1>3 DEF HoldsTarget
  <2> QED BY Zenon, <1>1, <2>1, <2>2 DEF Locking
<1>8. Progress(j)'
  <2>1. job[j].cells = <<>>
    BY Zenon, <1>1 DEF IInv, Progress
  <2>2. Len(job'[j].cells) = 0 /\ \A k \in 1..Len(job'[j].cells) : FALSE
    BY <1>1, <2>1
  <2> QED BY <1>1, <2>2 DEF Progress
<1>9. ASSUME NEW n \in Inodes, Fresh(n), n # i PROVE Fresh(n)'
  <2>1. \A k \in Jobs : /\ Using(k)' => job'[k].target # n
                        /\ Waiting(k)' => \A l \in job'[k].todo : l.inode # n
    BY Zenon, <1>1, <1>9 DEF Fresh, Others, Using, Waiting
  <2>2. n \notin temps'
    BY Zenon, <1>1, <1>9 DEF Fresh
  <2> QED BY Zenon, <1>1, <1>3, <1>9, <2>1, <2>2 DEF Fresh
<1>10. \A k \in Jobs : job[k].pc # "idle" => job[k].stamp \in Int /\ Oldest + job[k].stamp \in Inodes
  BY CallTypes, Bounds DEF IInv, Calls, Inodes
<1>11. ASSUME NEW k \in Jobs PROVE Staging(k)'
  <2>1. Staging(k)
    BY Zenon DEF IInv
  <2>2. CASE k = j
    BY Zenon, <1>1, <2>1, <2>2 DEF Staging
  <2>3. CASE k # j
    <3>1. job'[k] = job[k]
      BY Zenon, <1>1, <2>3 DEF Others
    <3>2. job[k].pc = "open" => job[k].stamp # job[j].stamp
      BY Zenon, <1>1, <2>3 DEF IInv, StampsDiffer
    <3>3. job[k].pc = "open" => Oldest + job[k].stamp \in Inodes /\ Oldest + job[k].stamp # i
      <4>1. i = Oldest + job[j].stamp /\ job[j].stamp \in Int
        BY Zenon, <1>1, <1>10
      <4>2. job[k].pc = "open" => job[k].stamp \in Int /\ Oldest + job[k].stamp \in Inodes
        BY Zenon, <1>10
      <4>3. \A x, y \in Int : x # y => Oldest + x # Oldest + y
        BY Bounds
      <4> QED BY Zenon, <3>2, <4>1, <4>2, <4>3
    <3> QED BY Zenon, <1>1, <1>9, <2>1, <3>1, <3>3 DEF Staging
  <2> QED BY Zenon, <2>2, <2>3
<1>12. StampsDiffer'
  BY <1>1 DEF IInv, StampsDiffer, Others
<1>13. FilesInv'
  <2>1. FilesInv
    BY Zenon DEF IInv
  <2>2. j \notin Creating /\ Creating' = Creating \cup {j}
    <3>1. \A k \in Jobs : k # j => (k \in Creating' <=> k \in Creating)
      BY Zenon, <1>1 DEF Creating, Others, Working
    <3>2. j \in Creating' /\ j \notin Creating
      BY Zenon, <1>1 DEF Creating
    <3> QED BY Zenon, <3>1, <3>2 DEF Creating
  <2>3. temps' = {job'[k].target : k \in Creating'}
    <3>1. \A k \in Creating : job'[k].target = job[k].target
      BY Zenon, <1>1, <2>2 DEF Creating, Others
    <3> QED BY <1>1, <2>1, <2>2, <3>1 DEF FilesInv
  <2>4. \A n \in Inodes : Named(n)' => Named(n) /\ n # i
    <3>1. \A n \in Inodes : Named(n)' => Named(n)
      BY Zenon, <1>1 DEF Named, Others, Using
    <3>2. ~Named(i)
      BY Zenon, <1>2 DEF Named, Fresh
    <3> QED BY Zenon, <3>1, <3>2
  <2>5. \A n \in Inodes : n # i /\ Quiet(n)' => Quiet(n)
    BY Zenon, <1>1, <1>3, <1>5 DEF Quiet, Waiting, Others
  <2>6. \A n \in Inodes : Named(n)' /\ Quiet(n)' => Settled(n)'
    <3>1. \A n \in Inodes : n # i /\ Settled(n) => Settled(n)'
      BY Zenon, <1>1, <1>3 DEF Settled
    <3> QED BY Zenon, <2>1, <2>4, <2>5, <3>1 DEF FilesInv
  <2>7. \A n \in Inodes : exclusive'[n] # Nobody => shared'[n] = {}
    BY Zenon, <1>1, <1>3, <2>1 DEF FilesInv
  <2>8. ~(i > Oldest + made')
    <3>1. job[j].stamp <= made /\ job[j].stamp \in Int /\ made \in Int
      BY <1>1, <1>10, Bounds DEF IInv, Staging, JobTypes
    <3>2. Oldest \in Int /\ made' = made
      BY <1>1, Bounds
    <3> QED BY <1>1, <3>1, <3>2
  <2>9. \A n \in Inodes : n > Oldest + made' => Fresh(n)'
    BY Zenon, <1>1, <1>9, <2>1, <2>8 DEF FilesInv
  <2>10. \A p \in Paths : dir'[p] \notin temps'
    BY Zenon, <1>1, <1>2, <2>1 DEF FilesInv, Fresh
  <2> QED BY Zenon, <2>3, <2>6, <2>7, <2>9, <2>10 DEF FilesInv
<1> QED BY Zenon, <1>4, <1>6, <1>7, <1>8, <1>11, <1>12, <1>13 DEF IInv

\* Reading or writing a cell keeps the invariant.
LEMMA TouchKeeps ==
    ASSUME IInv, NEW j \in Jobs, NEW i, NEW n, TouchStep(j, i, n), FileTypes', JobTypes'
    PROVE  IInv'
<1>1. /\ Others(j) /\ UNCHANGED <<dir, temps, torn, shared, exclusive, made>> /\ i \in Inodes /\ n \in 1..2
      /\ Using(j) /\ Working(j) /\ ~Waiting(j) /\ job[j].pc = "work" /\ job'[j].pc = "work"
      /\ job'[j].op = job[j].op /\ job'[j].target = job[j].target /\ job'[j].stamp = job[j].stamp
      /\ i = job[j].target /\ n = Len(job[j].cells) + 1
      /\ job[j].cells \in Seq(Int) /\ job[j].stamp \in Int
  <2>1. job[j].cells \in Seq(Int) /\ job[j].stamp \in Int
    BY Bounds DEF TouchStep, Calls
  <2> QED BY Zenon, <2>1 DEF TouchStep, Using, Waiting, Working
<1>2. \A k \in Jobs : /\ Using(k)' <=> Using(k)
                      /\ Waiting(k)' <=> Waiting(k)
                      /\ Working(k)' <=> Working(k)
                      /\ job'[k].target = job[k].target
                      /\ job'[k].op = job[k].op
                      /\ job'[k].stamp = job[k].stamp
                      /\ job'[k].pc = job[k].pc
                      /\ Waiting(k) => job'[k] = job[k]
  <2>1. \A k \in Jobs : k # j => job'[k] = job[k]
    BY Zenon, <1>1 DEF Others
  <2>2. \A k \in Jobs : job'[k].pc = job[k].pc
    BY Zenon, <1>1, <2>1
  <2> QED BY Zenon, <1>1, <2>1, <2>2 DEF Using, Waiting, Working
<1>3. HoldsTarget(j) /\ Progress(j) /\ Ordered(j) /\ Locking(j)
  BY Zenon, <1>1 DEF IInv, Locking
<1>4. \/ job[j].op = "read" /\ content' = content
      \/ job[j].op # "read" /\ exclusive[i] = j /\ \A m \in Inodes : m # i => content'[m] = content[m]
  <2>1. job[j].op # "read" => exclusive[i] = j
    BY Zenon, <1>1, <1>3 DEF HoldsTarget
  <2>2. \/ job[j].op = "read" /\ content' = content
        \/ job[j].op # "read" /\ \A m \in Inodes : m # i => content'[m] = content[m]
    BY Zenon DEF TouchStep, IInv, FileTypes
  <2> QED BY Zenon, <2>1, <2>2
<1>5. ASSUME NEW k \in Jobs, k # j PROVE Ordered(k)' /\ Locking(k)' /\ Progress(k)'
  <2>1. job'[k] = job[k]
    BY Zenon, <1>1, <1>5 DEF Others
  <2>2. Using(k) /\ job[k].op # "create" => job[k].target \notin temps'
    BY Zenon, <1>1 DEF IInv, Locking
  <2>3. Working(k) => content'[job[k].target] = content[job[k].target]
    <3> SUFFICES ASSUME Working(k), job[j].op # "read" PROVE job[k].target \in Inodes /\ job[k].target # i
      BY Zenon, <1>4
    <3>1. Using(k)
      BY Zenon DEF Working, Using
    <3>2. job[k].target \in Inodes /\ HoldsTarget(k)
      BY Zenon, <3>1 DEF IInv, Locking
    <3>3. exclusive[i] = j /\ j # Nobody
      BY Zenon, <1>4, Bounds
    <3>4. shared[i] = {}
      BY Zenon, <1>1, <3>3 DEF IInv, FilesInv
    <3>5. k \in shared[job[k].target] \/ exclusive[job[k].target] = k
      BY Zenon, <3>2 DEF HoldsTarget
    <3> QED BY Zenon, <1>5, <3>2, <3>3, <3>4, <3>5
  <2> QED BY Zenon, <1>1, <2>1, <2>2, <2>3, Bystander
<1>6. Ordered(j)'
  BY Zenon, <1>1, <1>2, <1>3 DEF Ordered, Holds
<1>7. Locking(j)'
  <2>1. WritesAlone(j)'
    BY Zenon, <1>1, <1>3 DEF Locking, WritesAlone
  <2>2. HoldsTarget(j)'
    BY Zenon, <1>1, <1>3 DEF HoldsTarget
  <2> QED BY Zenon, <1>1, <1>2, <1>3, <2>1, <2>2 DEF Locking
<1>8. Progress(j)'
  <2> DEFINE c == job[j].cells
             d == job'[j].cells
  <2>1. PICK v \in Int : /\ d = Append(c, v)
                         /\ job[j].op = "read" => v = content'[i][n]
                         /\ job[j].op # "read" => content'[i][n] = job[j].stamp
    <3>1. content[i] \in [1..2 -> Int] /\ content \in [Inodes -> [1..2 -> Int]]
      BY Zenon, <1>1 DEF IInv, FileTypes
    <3>2. CASE job[j].op = "read"
      <4>1. d = Append(c, content[i][n]) /\ content' = content
        BY Zenon, <3>2 DEF TouchStep
      <4>2. content[i][n] \in Int
        BY Zenon, <1>1, <3>1
      <4> QED BY Zenon, <3>2, <4>1, <4>2
    <3>3. CASE job[j].op # "read"
      <4>1. d = Append(c, job[j].stamp) /\ content' = [content EXCEPT ![i] = [content[i] EXCEPT ![n] = job[j].stamp]]
        BY Zenon, <3>3 DEF TouchStep
      <4>2. content'[i][n] = job[j].stamp
        BY Zenon, <1>1, <3>1, <4>1
      <4> QED BY Zenon, <1>1, <3>3, <4>1, <4>2
    <3> QED BY Zenon, <3>2, <3>3
  <2>2. \A k \in 1..Len(c) : content'[i][k] = content[i][k]
    <3>1. content[i] \in [1..2 -> Int] /\ content \in [Inodes -> [1..2 -> Int]]
      BY Zenon, <1>1 DEF IInv, FileTypes
    <3>2. content' = content \/ content' = [content EXCEPT ![i] = [content[i] EXCEPT ![n] = job[j].stamp]]
      BY Zenon DEF TouchStep
    <3>3. Len(c) \in Nat /\ n = Len(c) + 1
      BY <1>1
    <3>4. \A k \in 1..Len(c) : k # n
      BY <3>3
    <3>5. i \in Inodes /\ n \in 1..2 /\ \A k \in 1..Len(c) : k \in 1..2
      <4>1. i \in Inodes /\ n \in 1..2
        BY Zenon, <1>1
      <4> QED BY <3>3, <4>1
    <3> QED BY Zenon, <3>1, <3>2, <3>4, <3>5
  <2>3. Len(d) = n /\ d[n] = v /\ \A k \in 1..Len(c) : d[k] = c[k]
    BY <1>1, <2>1
  <2>4. \A k \in 1..Len(d) : k = n \/ k \in 1..Len(c)
    <3>1. Len(c) \in Nat
      BY <1>1
    <3> QED BY <1>1, <2>3, <3>1
  <2>5. /\ job[j].op = "read" => \A k \in 1..Len(c) : c[k] = content[i][k]
        /\ job[j].op # "read" => \A k \in 1..Len(c) : content[i][k] = job[j].stamp
    BY Zenon, <1>1, <1>3 DEF Progress
  <2>6. /\ job[j].op = "read" => \A k \in 1..Len(d) : d[k] = content'[i][k]
        /\ job[j].op # "read" => \A k \in 1..Len(d) : content'[i][k] = job[j].stamp
    <3> HIDE DEF c, d
    <3> QED BY Zenon, <2>1, <2>2, <2>3, <2>4, <2>5
  <2>7. Len(d) <= 2 /\ Len(d) # 0
    BY <1>1, <2>3
  <2>8. ~Waiting(j)' /\ job'[j].pc \notin {"admit", "charge", "open", "drop"}
    BY Zenon, <1>1, <1>2
  <2> HIDE DEF c
  <2> QED BY Zenon, <1>1, <2>6, <2>7, <2>8 DEF Progress
<1>9. \A m : Fresh(m) => Fresh(m)'
  BY Zenon, <1>1, <1>2 DEF Fresh
<1>10. ASSUME NEW k \in Jobs PROVE Staging(k)'
  <2>1. Staging(k)
    BY Zenon DEF IInv
  <2> QED BY Zenon, <1>1, <1>2, <1>9, <2>1 DEF Staging
<1>11. StampsDiffer'
  BY <1>2 DEF IInv, StampsDiffer
<1>12. FilesInv'
  <2>1. FilesInv
    BY Zenon DEF IInv
  <2>2. Creating' = Creating
    BY Zenon, <1>2 DEF Creating
  <2>3. temps' = {job'[k].target : k \in Creating'}
    <3>1. \A k \in Creating : job'[k].target = job[k].target
      BY Zenon, <1>2 DEF Creating
    <3> QED BY <1>1, <2>1, <2>2, <3>1 DEF FilesInv
  <2>4. \A m \in Inodes : Named(m)' => Named(m)
    BY Zenon, <1>1, <1>2 DEF Named
  <2>5. \A m \in Inodes : Quiet(m)' => Quiet(m)
    <3>1. \A m \in Inodes : exclusive[m] = Nobody \/ exclusive[m] \in Jobs
      BY Zenon DEF IInv, FileTypes
    <3> QED BY Zenon, <1>1, <1>2, <3>1 DEF Quiet
  <2>6. \A m \in Inodes : Quiet(m) /\ Settled(m) => Settled(m)'
    <3>1. exclusive[i] = j => ~Quiet(i)
      BY Zenon, <1>1, Bounds DEF Quiet
    <3> QED BY Zenon, <1>1, <1>4, <3>1 DEF Settled
  <2>7. \A m \in Inodes : Named(m)' /\ Quiet(m)' => Settled(m)'
    BY Zenon, <2>1, <2>4, <2>5, <2>6 DEF FilesInv
  <2> QED BY Zenon, <1>1, <1>9, <2>1, <2>3, <2>7 DEF FilesInv
<1> QED BY Zenon, <1>5, <1>6, <1>7, <1>8, <1>10, <1>11, <1>12 DEF IInv

\* The end of a call keeps the invariant.
LEMMA EndKeeps ==
    ASSUME IInv, NEW j \in Jobs, EndStep(j), FileTypes', JobTypes'
    PROVE  IInv'
<1> DEFINE t == job[j].target
<1>1. /\ Others(j) /\ content' = content /\ made' = made /\ t \in Inodes
      /\ Using(j) /\ Working(j) /\ ~Waiting(j) /\ ~Using(j)' /\ ~Waiting(j)' /\ ~Working(j)'
      /\ job[j].pc = "work" /\ job'[j].pc \in {"idle", "drop"}
      /\ job'[j].pc # "idle" => job'[j].stamp = job[j].stamp
      /\ job[j].cells \in Seq(Int) /\ job[j].stamp \in 1..MaxRequests
  BY DEF EndStep, Using, Waiting, Working, Resting, Calls
<1>2. /\ \A n \in Inodes : shared'[n] = shared[n] \ {j}
      /\ \A n \in Inodes : exclusive'[n] = IF exclusive[n] = j THEN Nobody ELSE exclusive[n]
  BY Zenon DEF EndStep, Unlock
<1>3. /\ \A n \in Inodes : exclusive[n] = Nobody \/ exclusive[n] \in Jobs
      /\ \A k \in Jobs : k # Nobody
  BY Zenon, Bounds DEF IInv, FileTypes
<1>4. \A k \in Jobs : k # j => job'[k] = job[k]
  BY Zenon, <1>1 DEF Others
<1>5. \A k \in Jobs : /\ Using(k)' => k # j /\ Using(k) /\ job'[k] = job[k]
                      /\ Waiting(k)' => k # j /\ Waiting(k) /\ job'[k] = job[k]
                      /\ Working(k)' <=> k # j /\ Working(k)
  BY Zenon, <1>1, <1>4 DEF Using, Waiting, Working
<1>6. HoldsTarget(j) /\ Progress(j) /\ Ordered(j) /\ Locking(j)
  BY Zenon, <1>1 DEF IInv, Locking
<1>7. \A n \in Inodes : exclusive[n] = j => n = t
  BY Zenon, <1>6 DEF Locking, WritesAlone
<1>8. temps' \subseteq temps
  BY Zenon DEF EndStep
<1>9. ASSUME NEW k \in Jobs, k # j PROVE Ordered(k)' /\ Locking(k)' /\ Progress(k)'
  <2>1. \A n \in Inodes : /\ k \in shared'[n] <=> k \in shared[n]
                          /\ exclusive'[n] = k <=> exclusive[n] = k
    BY Zenon, <1>2, <1>3, <1>9
  <2>2. Using(k) /\ job[k].op # "create" => job[k].target \notin temps'
    <3>1. Using(k) /\ job[k].op # "create" => job[k].target \notin temps
      BY Zenon DEF IInv, Locking
    <3> QED BY Zenon, <1>8, <3>1
  <2>3. ASSUME Working(k), job[k].op # "read", job[k].target \in torn PROVE job[k].target \in torn'
    <3>1. exclusive[job[k].target] = k
      BY Zenon, <2>3 DEF IInv, Locking, HoldsTarget
    <3>2. job[j].op # "read" => exclusive[t] = j
      BY Zenon, <1>6 DEF HoldsTarget
    <3>3. job[j].op # "read" => job[k].target # t
      BY Zenon, <1>9, <3>1, <3>2
    <3> QED BY Zenon, <2>3, <3>3 DEF EndStep
  <2> QED BY Zenon, <1>1, <1>4, <1>9, <2>1, <2>2, <2>3, Bystander
<1>10. \A n \in Inodes : j \notin shared'[n] /\ exclusive'[n] # j
  BY Zenon, <1>2, <1>3
<1>11. Ordered(j)' /\ Locking(j)'
  <2>1. Ordered(j)'
    BY Zenon, <1>1, <1>10 DEF Ordered, Holds
  <2>2. Locking(j)'
    BY Zenon, <1>1, <1>10 DEF Locking, WritesAlone
  <2> QED BY Zenon, <2>1, <2>2
<1>12. ASSUME NEW m \in Inodes, m = t, Len(job[j].cells) = 2 PROVE Settled(m)'
  <2>1. CASE job[j].op = "read"
    <3>1. j \in shared[t]
      BY Zenon, <1>6, <2>1 DEF HoldsTarget
    <3>2. exclusive[t] = Nobody
      BY Zenon, <1>1, <3>1 DEF IInv, FilesInv
    <3>3. job[j].op # "create"
      BY Zenon, <2>1
    <3>4. Named(t) /\ Quiet(t)
      BY Zenon, <1>1, <3>2, <3>3 DEF Named, Quiet
    <3>5. Settled(t)
      BY Zenon, <1>1, <3>4 DEF IInv, FilesInv
    <3>6. torn' = torn
      BY Zenon, <1>12, <2>1, <3>3 DEF EndStep
    <3> QED BY Zenon, <1>1, <1>12, <3>5, <3>6 DEF Settled
  <2>2. CASE job[j].op # "read"
    <3>1. \A k \in 1..2 : content[t][k] = job[j].stamp
      BY Zenon, <1>1, <1>6, <1>12, <2>2 DEF Progress
    <3>2. job[j].stamp >= 0
      BY <1>1, Bounds
    <3>3. content[t][1] = content[t][2] /\ content[t][1] >= 0
      BY <3>1, <3>2
    <3> QED BY Zenon, <1>1, <1>12, <3>3 DEF Settled
  <2> QED BY Zenon, <2>1, <2>2
<1>13. Progress(j)'
  <2>2. job'[j].pc \notin {"admit", "charge", "open"}
    BY Zenon, <1>1
  <2> QED BY Zenon, <1>1, <2>2 DEF Progress
<1>14. ASSUME NEW n \in Inodes, Fresh(n) PROVE Fresh(n)'
  <2>1. t # n
    BY Zenon, <1>1, <1>14 DEF Fresh
  <2>2. \A p \in Paths : dir'[p] # n
    BY Zenon, <1>14, <2>1 DEF EndStep, Fresh, IInv, FileTypes
  <2>3. n \notin temps' /\ shared'[n] = {} /\ exclusive'[n] = Nobody
    BY Zenon, <1>2, <1>8, <1>14 DEF Fresh
  <2>4. \A k \in Jobs : /\ Using(k)' => job'[k].target # n
                        /\ Waiting(k)' => \A l \in job'[k].todo : l.inode # n
    BY Zenon, <1>5, <1>14 DEF Fresh
  <2> QED BY Zenon, <2>2, <2>3, <2>4 DEF Fresh
<1>15. ASSUME NEW k \in Jobs PROVE Staging(k)'
  <2>1. Staging(k)
    BY Zenon DEF IInv
  <2>2. CASE k = j
    <3>1. job'[j].pc # "idle" => job'[j].stamp <= made'
      BY Zenon, <1>1, <2>1, <2>2 DEF Staging
    <3>2. job'[j].pc \notin {"admit", "charge", "open"}
      BY Zenon, <1>1
    <3> QED BY Zenon, <2>2, <3>1, <3>2 DEF Staging
  <2>3. CASE k # j
    <3>1. job[k].pc # "idle" => Oldest + job[k].stamp \in Inodes
      BY CallTypes, Bounds DEF IInv, Calls, Inodes
    <3>2. job[k].pc = "open" => Oldest + job[k].stamp \in Inodes
      BY Zenon, <3>1
    <3> QED BY Zenon, <1>1, <1>4, <1>14, <2>1, <2>3, <3>2 DEF Staging
  <2> QED BY Zenon, <2>2, <2>3
<1>16. StampsDiffer'
  BY <1>1, <1>4 DEF IInv, StampsDiffer
<1>17. \A n \in Inodes : exclusive'[n] # Nobody => shared'[n] = {}
  BY Zenon, <1>2 DEF IInv, FilesInv
<1>18. temps' = {job'[k].target : k \in Creating'}
  <2>1. Creating' = Creating \ {j}
    BY Zenon, <1>4, <1>5 DEF Creating
  <2>2. \A k \in Creating' : job'[k].target = job[k].target
    BY Zenon, <1>4, <2>1 DEF Creating
  <2>3. temps = {job[k].target : k \in Creating}
    BY Zenon DEF IInv, FilesInv
  <2>4. CASE job[j].op # "create"
    <3>1. j \notin Creating /\ temps' = temps
      BY Zenon, <2>4 DEF Creating, EndStep
    <3> QED BY Zenon, <2>1, <2>2, <2>3, <3>1
  <2>5. CASE job[j].op = "create"
    <3>1. j \in Creating /\ temps' = temps \ {t}
      BY Zenon, <1>1, <2>5 DEF Creating, EndStep
    <3>2. \A k \in Creating : exclusive[job[k].target] = k
      <4>1. ASSUME NEW k \in Creating PROVE exclusive[job[k].target] = k
        <5>1. Working(k) /\ k \in Jobs /\ job[k].op # "read"
          BY Zenon DEF Creating
        <5>2. HoldsTarget(k)
          BY Zenon, <5>1 DEF IInv, Locking
        <5> QED BY Zenon, <5>1, <5>2 DEF HoldsTarget
      <4> QED BY Zenon, <4>1
    <3>3. \A k \in Creating : job[k].target = t <=> k = j
      BY Zenon, <3>1, <3>2
    <3> HIDE DEF t
    <3> QED BY <2>1, <2>2, <2>3, <3>1, <3>3
  <2> QED BY Zenon, <2>4, <2>5
<1>19. \A p \in Paths : dir'[p] \notin temps'
  BY Zenon, <1>8 DEF EndStep, IInv, FilesInv, FileTypes
<1>20. ASSUME NEW m \in Inodes, Named(m)', Quiet(m)' PROVE Settled(m)'
  <2>1. CASE m = t /\ Len(job[j].cells) = 2
    BY Zenon, <1>12, <2>1
  <2>4. CASE m = t /\ Len(job[j].cells) # 2 /\ job[j].op # "create"
    <3>1. \/ job[j].op # "read" /\ job[j].cells = <<>> /\ torn' = torn
          \/ torn' = torn \cup {t}
      BY Zenon, <2>4 DEF EndStep
    <3>2. CASE torn' = torn \cup {t}
      BY Zenon, <2>4, <3>2 DEF Settled
    <3>3. CASE job[j].op # "read" /\ job[j].cells = <<>> /\ torn' = torn
      <4>1. job[j].op \in {"write", "merge"}
        BY Zenon, <2>4, <3>3 DEF EndStep, Calls, Ops
      <4>2. Len(job[j].cells) = 0
        BY <3>3
      <4>3. Settled(t)
        BY Zenon, <1>1, <1>6, <4>1, <4>2 DEF Progress
      <4> QED BY Zenon, <1>1, <2>4, <3>3, <4>3 DEF Settled
    <3> QED BY Zenon, <3>1, <3>2, <3>3
  <2>2. CASE m = t /\ Len(job[j].cells) # 2 /\ job[j].op = "create"
    <3>1. job[j].op = "create" /\ dir' = dir
      BY Zenon, <2>2 DEF EndStep
    <3>2. j \in Creating
      BY Zenon, <1>1, <3>1 DEF Creating
    <3>3. t \in temps
      BY Zenon, <3>2 DEF IInv, FilesInv
    <3>4. \A p \in Paths : dir'[p] # t
      BY Zenon, <3>1, <3>3 DEF IInv, FilesInv
    <3>5. ASSUME NEW k \in Jobs, Using(k)', job'[k].op # "create" PROVE job'[k].target # t
      <4>1. Using(k) /\ job'[k] = job[k]
        BY Zenon, <1>5, <3>5
      <4>2. job[k].target \notin temps
        BY Zenon, <3>5, <4>1 DEF IInv, Locking
      <4> QED BY Zenon, <3>3, <4>1, <4>2
    <3> QED BY Zenon, <1>20, <2>2, <3>4, <3>5 DEF Named
  <2>3. CASE m # t
    <3>1. \A p \in Paths : dir'[p] = m => dir[p] = m
      BY Zenon, <2>3 DEF EndStep, IInv, FileTypes
    <3>2. Named(m)
      BY Zenon, <1>5, <1>20, <3>1 DEF Named
    <3>3. exclusive'[m] = exclusive[m]
      BY Zenon, <1>2, <1>7, <2>3
    <3>4. Quiet(m)
      BY Zenon, <1>3, <1>5, <1>20, <3>3 DEF Quiet
    <3>5. Settled(m)
      BY Zenon, <3>2, <3>4 DEF IInv, FilesInv
    <3>6. m \in torn => m \in torn'
      BY Zenon, <2>3 DEF EndStep
    <3> QED BY Zenon, <1>1, <3>5, <3>6 DEF Settled
  <2> QED BY Zenon, <2>1, <2>2, <2>3, <2>4
<1>21. FilesInv'
  <2>1. \A n \in Inodes : n > Oldest + made' => Fresh(n)'
    BY Zenon, <1>1, <1>14 DEF IInv, FilesInv
  <2> QED BY Zenon, <1>17, <1>18, <1>19, <1>20, <2>1 DEF FilesInv
<1> QED BY Zenon, <1>9, <1>11, <1>13, <1>15, <1>16, <1>21 DEF IInv

-----------------------------------------------------------------------------
(* Theorems *)

\* Nothing is open at the start, and every file is whole.
LEMMA InitInv == SidecarInit => IInv
<1> SUFFICES ASSUME SidecarInit PROVE IInv
  BY Zenon
<1>1. /\ dir = Linked /\ content = [i \in Inodes |-> <<0, 0>>] /\ temps = {}
      /\ shared = [i \in Inodes |-> {}] /\ exclusive = [i \in Inodes |-> Nobody]
      /\ job = [j \in Jobs |-> Resting] /\ made = 0
  BY Zenon DEF SidecarInit
<1>2. \A j \in Jobs : job[j].pc = "idle" /\ ~Using(j) /\ ~Waiting(j) /\ ~Working(j)
  BY Zenon, <1>1 DEF Resting, Using, Waiting, Working
<1>3. /\ \A i \in Inodes : shared[i] = {} /\ exclusive[i] = Nobody
      /\ \A j \in Jobs : j # Nobody
  BY Zenon, <1>1, Bounds
<1>4. FileTypes
  <2>1. \A o, m \in Nat : 1..o \subseteq 1..(o + m)
    OBVIOUS
  <2>2. dir \in [Paths -> 1..Oldest] /\ 1..Oldest \subseteq Inodes
    BY Zenon, <1>1, <2>1, SidecarAssumption DEF Inodes
  <2>3. dir \in [Paths -> Inodes]
    BY Zenon, <2>2
  <2>4. <<0, 0>> \in [1..2 -> Int]
    OBVIOUS
  <2> QED BY Zenon, <1>1, <2>3, <2>4 DEF FileTypes
<1>5. JobTypes
  BY <1>1, Bounds DEF JobTypes
<1>6. StampsDiffer
  BY Zenon, <1>2 DEF StampsDiffer
<1>7. ASSUME NEW j \in Jobs PROVE Ordered(j) /\ Locking(j) /\ Progress(j) /\ Staging(j)
  <2>1. Ordered(j) /\ Locking(j)
    BY Zenon, <1>2, <1>3, <1>7 DEF Ordered, Locking, WritesAlone, Holds
  <2>2. Progress(j) /\ Staging(j)
    BY Zenon, <1>2, <1>7 DEF Progress, Staging
  <2> QED BY Zenon, <2>1, <2>2
<1>8. FilesInv
  <2>1. ASSUME NEW i \in Inodes, i > Oldest + made PROVE Fresh(i)
    <3>1. \A p \in Paths : dir[p] \in 1..Oldest
      BY Zenon, <1>1, SidecarAssumption
    <3>2. i \in Int /\ Oldest \in Nat
      BY Bounds DEF Inodes
    <3>3. i > Oldest
      BY <1>1, <2>1, <3>2
    <3>4. \A p \in Paths : dir[p] # i
      BY <3>1, <3>2, <3>3
    <3> QED BY Zenon, <1>1, <1>2, <1>3, <3>4 DEF Fresh
  <2>2. Creating = {}
    BY Zenon, <1>2 DEF Creating
  <2>3. \A i \in Inodes : Settled(i)
    BY SMTT(30), <1>1 DEF Settled
  <2> QED BY Zenon, <1>1, <1>3, <2>1, <2>2, <2>3 DEF FilesInv
<1> QED BY Zenon, <1>4, <1>5, <1>6, <1>7, <1>8 DEF IInv

\* The invariant speaks of the state only.
LEMMA StutterKeeps == IInv /\ UNCHANGED svars => IInv'
<1> SUFFICES ASSUME IInv, UNCHANGED svars PROVE IInv'
  BY Zenon
<1>1. /\ dir' = dir /\ content' = content /\ temps' = temps /\ torn' = torn /\ shared' = shared
      /\ exclusive' = exclusive /\ job' = job /\ made' = made
  BY Zenon DEF svars
<1>2. FileTypes' /\ JobTypes'
  BY <1>1 DEF IInv, FileTypes, JobTypes
<1>3. StampsDiffer'
  BY <1>1 DEF IInv, StampsDiffer
<1>4. FilesInv'
  <2>1. ASSUME NEW i \in Inodes
        PROVE  /\ (exclusive[i] # Nobody)' <=> exclusive[i] # Nobody
               /\ (shared[i] = {})' <=> shared[i] = {}
               /\ (i > Oldest + made)' <=> i > Oldest + made
               /\ Settled(i)' <=> Settled(i)
    BY Zenon, <1>1 DEF Settled
  <2>2. ASSUME NEW i \in Inodes PROVE Fresh(i)' <=> Fresh(i)
    BY Zenon, <1>1 DEF Fresh, Using, Waiting
  <2>3. ASSUME NEW i \in Inodes PROVE (Named(i)' <=> Named(i)) /\ (Quiet(i)' <=> Quiet(i))
    BY Zenon, <1>1 DEF Named, Quiet, Using, Waiting
  <2>4. (\A p \in Paths : dir[p] \notin temps)' /\ (temps = {job[k].target : k \in Creating})'
    BY Zenon, <1>1 DEF IInv, FilesInv, Creating, Working
  <2> QED BY Zenon, <2>1, <2>2, <2>3, <2>4 DEF IInv, FilesInv
<1>5. ASSUME NEW j \in Jobs PROVE Ordered(j)' /\ Locking(j)'
  <2>1. Ordered(j) /\ Locking(j)
    BY Zenon DEF IInv
  <2> QED BY <1>1, <2>1 DEF Ordered, Locking, Holds, HoldsTarget, WritesAlone, Wants, Using,
      Waiting,
        Working
<1>6. ASSUME NEW j \in Jobs PROVE Progress(j)' /\ Staging(j)'
  <2>1. Progress(j) /\ Staging(j)
    BY Zenon DEF IInv
  <2> QED BY <1>1, <2>1 DEF Progress, Staging, Fresh, Named, Quiet, Settled, Creating, Using,
      Waiting,
        Working
<1> QED BY Zenon, <1>2, <1>3, <1>4, <1>5, <1>6 DEF IInv

\* The invariant holds in every state of every behaviour, whatever the calls,
\* the names of the files and the number of calls at once.
THEOREM InductiveInv == SidecarSpec => []IInv
<1>1. IInv /\ [SidecarNext]_svars => IInv'
  <2> SUFFICES ASSUME IInv, [SidecarNext]_svars PROVE IInv'
    BY Zenon
  <2>1. CASE UNCHANGED svars
    BY Zenon, <2>1, StutterKeeps
  <2>2. CASE SidecarNext
    <3> PICK j \in Jobs :
          \/ SubmitStep(j) \/ AdmissionStep(j) \/ OpenStep(j) \/ (\E l : LockStep(j, l))
          \/ (\E i : CreateStep(j, i)) \/ (\E i, n : TouchStep(j, i, n)) \/ EndStep(j)
      BY Zenon, <2>2, Steps
    <3>1. FileTypes' /\ JobTypes'
      BY Zenon, TypesKept
    <3> QED BY Zenon, <3>1, AsideKeeps, OpenKeeps, LockKeeps, CreateKeeps, TouchKeeps, EndKeeps
  <2> QED BY Zenon, <2>1, <2>2
<1> QED BY <1>1, InitInv, PTL DEF SidecarSpec

\* Calls that read, write, create and merge sidecars never wait for each other
\* in a circle, however many there are, whatever they merge and under however
\* many names: open_random_merge_locked takes the locks in the order of the
\* inodes.
THEOREM LocksNeverCycle == SidecarSpec => []NoLockCycle
BY InductiveInv, NoCycle, PTL

\* A path names a finished file, one its writer has locked or one a failed write
\* in place left half written, a read that finds none of the last returns the
\* cells of one write, and only calls at work own staging files.
THEOREM SidecarsStayWhole == SidecarSpec => []SidecarsWhole
<1>1. IInv => SidecarsWhole
  <2> SUFFICES ASSUME IInv PROVE SidecarsWhole
    BY Zenon
  <2>1. ASSUME NEW p \in Paths
        PROVE  dir[p] \notin temps /\ (Settled(dir[p]) \/ exclusive[dir[p]] # Nobody)
    <3>1. dir[p] \in Inodes
      BY Zenon DEF IInv, FileTypes
    <3> QED BY Zenon, <3>1 DEF IInv, FilesInv, Named, Quiet
  <2>2. ASSUME NEW j \in Jobs, job[j].pc = "work", job[j].op = "read", Len(job[j].cells) = 2,
               job[j].target \notin torn
        PROVE  job[j].cells[1] = job[j].cells[2]
    <3> DEFINE t == job[j].target
    <3>1. Working(j) /\ Using(j) /\ job[j].op # "create"
      BY Zenon, <2>2 DEF Working, Using
    <3>2. t \in Inodes /\ j \in shared[t]
      BY Zenon, <2>2, <3>1 DEF IInv, Locking, HoldsTarget
    <3>3. Named(t) /\ Quiet(t)
      BY Zenon, <3>1, <3>2 DEF IInv, FilesInv, Named, Quiet
    <3>4. content[t][1] = content[t][2]
      BY Zenon, <2>2, <3>2, <3>3 DEF IInv, FilesInv, Settled
    <3>5. \A k \in 1..2 : job[j].cells[k] = content[t][k]
      BY Zenon, <2>2, <3>1 DEF IInv, Progress
    <3> HIDE DEF t
    <3> QED BY <3>4, <3>5
  <2>3. temps = {job[j].target : j \in {k \in Jobs : job[k].pc = "work" /\ job[k].op = "create"}}
    BY Zenon DEF IInv, FilesInv, Creating, Working
  <2> QED BY Zenon, <2>1, <2>2, <2>3 DEF SidecarsWhole, Settled
<1> QED BY <1>1, InductiveInv, PTL

-----------------------------------------------------------------------------
(* What admission counts *)

\* Only reads are admitted; the counts are those of the sets.
AdmissionInv ==
    /\ \A j \in Jobs :
         job[j].pc \in {"admit", "charge", "refuse", "drop", "dropped"} => job[j].op = "read"
    /\ IsFiniteSet(Admitted) /\ IsFiniteSet(HeldBytes)
    /\ AdmissionExact

\* What BlockingAdmission knows of a call.
Slot(j) == j \in Admitted
Paid(j) == j \in Charged

\* A call outside a step keeps its slot and its bytes.
LEMMA OthersKeep ==
    ASSUME NEW j \in Jobs, Others(j)
    PROVE  /\ Admitted' = (IF Slot(j)' THEN Admitted \cup {j} ELSE Admitted \ {j})
           /\ Charged' = (IF Paid(j)' THEN Charged \cup {j} ELSE Charged \ {j})
           /\ \A k \in Jobs : k # j => InputBytes(k)' = InputBytes(k)
<1>1. \A k \in Jobs : k # j => job'[k] = job[k]
  BY Zenon DEF Others
<1>2. \A k \in Jobs : k # j => (k \in Admitted' <=> k \in Admitted)
  BY Zenon, <1>1 DEF Admitted
<1>3. \A k \in Jobs : k # j => (k \in Charged' <=> k \in Charged)
  BY Zenon, <1>1, <1>2 DEF Charged
<1>4. Admitted \subseteq Jobs /\ Charged \subseteq Jobs /\ Admitted' \subseteq Jobs /\ Charged' \subseteq Jobs
  BY Zenon DEF Admitted, Charged
<1>5. \A k \in Jobs : k # j => InputBytes(k)' = InputBytes(k)
  BY Zenon, <1>1 DEF InputBytes
<1> QED BY Zenon, <1>2, <1>3, <1>4, <1>5 DEF Slot, Paid

\* The bytes of an input.
LEMMA BytesOf ==
    ASSUME NEW j, NEW n \in Nat
    PROVE  IsFiniteSet({j} \X (1..n)) /\ Cardinality({j} \X (1..n)) = n
<1>1. IsFiniteSet({j}) /\ Cardinality({j}) = 1
  BY Zenon, FS_Singleton
<1>2. IsFiniteSet(1..n) /\ Cardinality(1..n) = n
  BY FS_Interval
<1>3. IsFiniteSet({j} \X (1..n)) /\ Cardinality({j} \X (1..n)) = 1 * n
  <2>1. /\ IsFiniteSet({j} \X (1..n))
        /\ Cardinality({j} \X (1..n)) = Cardinality({j}) * Cardinality(1..n)
    BY Zenon, <1>1, <1>2, FS_Product
  <2> QED BY Zenon, <1>1, <1>2, <2>1
<1> QED BY <1>3

\* What is held after a step of a call that keeps the size of its input.
LEMMA HeldAfter ==
    ASSUME NEW j \in Jobs, Others(j), Paid(j) /\ Paid(j)' => job'[j].size = job[j].size
    PROVE  HeldBytes' = IF Paid(j) /\ ~Paid(j)' THEN HeldBytes \ InputBytes(j)
                        ELSE IF ~Paid(j) /\ Paid(j)' THEN HeldBytes \cup InputBytes(j)'
                        ELSE HeldBytes
<1>1. Charged' = (IF Paid(j)' THEN Charged \cup {j} ELSE Charged \ {j})
  BY Zenon, OthersKeep
<1>2. \A k \in Jobs : k # j => InputBytes(k)' = InputBytes(k)
  BY Zenon, OthersKeep
<1>3. Paid(j) <=> j \in Charged
  BY Zenon DEF Paid
<1>4. Charged \subseteq Jobs
  BY Zenon DEF Admitted, Charged
<1>5. \A u : u \in HeldBytes <=> \E k \in Charged : u \in InputBytes(k)
  BY Zenon DEF HeldBytes
<1>6. \A u : u \in HeldBytes' <=> \E k \in Charged' : u \in InputBytes(k)'
  BY Zenon DEF HeldBytes
<1>7. Paid(j) /\ Paid(j)' => InputBytes(j)' = InputBytes(j)
  BY Zenon DEF InputBytes
<1>8. \A k \in Jobs : \A u : k # j /\ u \in InputBytes(k) => u \notin InputBytes(j)
  BY Zenon DEF InputBytes
<1>9. \A u : (\E k \in Charged \ {j} : u \in InputBytes(k)') <=> (\E k \in Charged \ {j} : u \in InputBytes(k))
  BY Zenon, <1>2, <1>4
<1>10. CASE Paid(j) /\ ~Paid(j)'
  <2>1. Charged' = Charged \ {j}
    BY Zenon, <1>1, <1>10
  <2>2. \A u : u \in HeldBytes' <=> \E k \in Charged \ {j} : u \in InputBytes(k)
    BY Zenon, <1>6, <1>9, <2>1
  <2>3. \A u : u \in HeldBytes' <=> u \in HeldBytes /\ u \notin InputBytes(j)
    BY Zenon, <1>4, <1>5, <1>8, <2>2
  <2> QED BY Zenon, <1>10, <2>3
<1>11. CASE ~Paid(j) /\ Paid(j)'
  <2>1. Charged' = Charged \cup {j} /\ Charged \ {j} = Charged
    BY Zenon, <1>1, <1>3, <1>11
  <2>2. \A u : u \in HeldBytes' <=> (\E k \in Charged : u \in InputBytes(k)) \/ u \in InputBytes(j)'
    BY Zenon, <1>6, <1>9, <2>1
  <2> QED BY Zenon, <1>5, <1>11, <2>2
<1>12. CASE Paid(j) /\ Paid(j)'
  <2>1. Charged' = Charged
    BY Zenon, <1>1, <1>3, <1>12
  <2>2. \A k \in Charged : InputBytes(k)' = InputBytes(k)
    BY Zenon, <1>2, <1>4, <1>7, <1>12
  <2> QED BY Zenon, <1>5, <1>6, <1>12, <2>1, <2>2
<1>13. CASE ~Paid(j) /\ ~Paid(j)'
  <2>1. Charged' = Charged /\ Charged \ {j} = Charged
    BY Zenon, <1>1, <1>3, <1>13
  <2> QED BY Zenon, <1>5, <1>6, <1>9, <1>13, <2>1
<1> QED BY Zenon, <1>10, <1>11, <1>12, <1>13

\* A step that counts the slot of its call.
CountsSlot(j) ==
    \/ (Slot(j)' <=> Slot(j)) /\ active' = active
    \/ ~Slot(j) /\ Slot(j)' /\ active' = active + 1
    \/ Slot(j) /\ ~Slot(j)' /\ active' = active - 1

\* A step that counts its bytes.
CountsBytes(j) ==
    \/ /\ (Paid(j)' <=> Paid(j)) /\ active_bytes' = active_bytes
       /\ Paid(j) => job'[j].size = job[j].size
    \/ /\ ~Paid(j) /\ Paid(j)' /\ active_bytes' = active_bytes + job'[j].size
       /\ job'[j].size \in Nat
    \/ /\ Paid(j) /\ ~Paid(j)' /\ active_bytes' = active_bytes - job[j].size
       /\ job[j].size \in Nat

\* The slots are the admitted calls.
LEMMA SlotsCounted ==
    ASSUME AdmissionInv, NEW j \in Jobs, Others(j), CountsSlot(j)
    PROVE  IsFiniteSet(Admitted') /\ active' = Cardinality(Admitted')
<1>1. IsFiniteSet(Admitted) /\ active = Cardinality(Admitted)
  BY Zenon DEF AdmissionInv, AdmissionExact
<1>2. Admitted' = IF Slot(j)' THEN Admitted \cup {j} ELSE Admitted \ {j}
  BY Zenon, OthersKeep
<1>3. Slot(j) <=> j \in Admitted
  BY Zenon DEF Slot
<1>4. CASE (Slot(j)' <=> Slot(j)) /\ active' = active
  <2>1. Admitted' = Admitted
    BY Zenon, <1>2, <1>3, <1>4
  <2> QED BY Zenon, <1>1, <1>4, <2>1
<1>5. CASE ~Slot(j) /\ Slot(j)' /\ active' = active + 1
  BY Zenon, <1>1, <1>2, <1>3, <1>5, FS_AddElement
<1>6. CASE Slot(j) /\ ~Slot(j)' /\ active' = active - 1
  BY Zenon, <1>1, <1>2, <1>3, <1>6, FS_RemoveElement
<1> QED BY Zenon, <1>4, <1>5, <1>6 DEF CountsSlot

\* The bytes are those of the charged calls.
LEMMA BytesCounted ==
    ASSUME AdmissionInv, NEW j \in Jobs, Others(j), CountsBytes(j)
    PROVE  IsFiniteSet(HeldBytes') /\ active_bytes' = Cardinality(HeldBytes')
<1>1. IsFiniteSet(HeldBytes) /\ active_bytes = Cardinality(HeldBytes)
  BY Zenon DEF AdmissionInv, AdmissionExact
<1>2. \A u \in HeldBytes : \E k \in Charged : u \in InputBytes(k)
  BY Zenon DEF HeldBytes
<1>3. CASE /\ (Paid(j)' <=> Paid(j)) /\ active_bytes' = active_bytes
           /\ Paid(j) => job'[j].size = job[j].size
  <2>1. HeldBytes' = HeldBytes
    BY Zenon, <1>3, HeldAfter
  <2> QED BY Zenon, <1>1, <1>3, <2>1
<1>4. CASE /\ ~Paid(j) /\ Paid(j)' /\ active_bytes' = active_bytes + job'[j].size
           /\ job'[j].size \in Nat
  <2> DEFINE B == {j} \X (1..job'[j].size)
  <2>1. HeldBytes' = HeldBytes \cup B
    BY Zenon, <1>4, HeldAfter DEF InputBytes
  <2>2. IsFiniteSet(B) /\ Cardinality(B) = job'[j].size
    BY Zenon, <1>4, BytesOf
  <2>3. HeldBytes \cap B = {}
    BY Zenon, <1>2, <1>4 DEF Paid, InputBytes
  <2> HIDE DEF B
  <2>4. /\ IsFiniteSet(HeldBytes \cup B)
        /\ Cardinality(HeldBytes \cup B) = Cardinality(HeldBytes) + Cardinality(B) - 0
    <3>1. /\ IsFiniteSet(HeldBytes \cup B)
          /\ Cardinality(HeldBytes \cup B)
               = Cardinality(HeldBytes) + Cardinality(B) - Cardinality(HeldBytes \cap B)
      BY Zenon, <1>1, <2>2, FS_Union
    <3>2. Cardinality(HeldBytes \cap B) = 0
      BY Zenon, <2>3, FS_EmptySet
    <3> QED BY Zenon, <3>1, <3>2
  <2>5. Cardinality(HeldBytes) \in Nat
    BY Zenon, <1>1, FS_CardinalityType
  <2> QED BY <1>1, <1>4, <2>1, <2>2, <2>4, <2>5
<1>5. CASE /\ Paid(j) /\ ~Paid(j)' /\ active_bytes' = active_bytes - job[j].size
           /\ job[j].size \in Nat
  <2> DEFINE B == {j} \X (1..job[j].size)
  <2>1. HeldBytes' = HeldBytes \ B
    BY Zenon, <1>5, HeldAfter DEF InputBytes
  <2>2. IsFiniteSet(B) /\ Cardinality(B) = job[j].size
    BY Zenon, <1>5, BytesOf
  <2>3. HeldBytes \cap B = B
    BY Zenon, <1>5 DEF Paid, InputBytes, HeldBytes
  <2> HIDE DEF B
  <2>4. /\ IsFiniteSet(HeldBytes \ B)
        /\ Cardinality(HeldBytes \ B) = Cardinality(HeldBytes) - Cardinality(B)
    BY Zenon, <1>1, <2>3, FS_Difference
  <2> QED BY Zenon, <1>1, <1>5, <2>1, <2>2, <2>4
<1> QED BY Zenon, <1>3, <1>4, <1>5 DEF CountsBytes

\* A step with which BlockingAdmission stays right.
Accounts(j) ==
    /\ Others(j) /\ CountsSlot(j) /\ CountsBytes(j)
    /\ active' <= Limit /\ active_bytes' <= ByteLimit
    /\ job'[j].pc \in {"admit", "charge", "refuse", "drop", "dropped"} => job'[j].op = "read"

\* Where a call stands, before and after a step.
LEMMA Standing ==
    ASSUME NEW j \in Jobs
    PROVE  /\ Slot(j) <=> job[j].pc \notin {"idle", "admit"} /\ job[j].op = "read"
           /\ Slot(j)' <=> job'[j].pc \notin {"idle", "admit"} /\ job'[j].op = "read"
           /\ Paid(j) <=> Slot(j) /\ job[j].pc \notin {"charge", "refuse", "dropped"}
           /\ Paid(j)' <=> Slot(j)' /\ job'[j].pc \notin {"charge", "refuse", "dropped"}
BY Zenon DEF Slot, Paid, Admitted, Charged

\* The numbers before a step.
LEMMA CountTypes ==
    ASSUME AdmissionInv
    PROVE  /\ active \in Nat /\ active <= Limit /\ active_bytes \in Nat /\ active_bytes <= ByteLimit
           /\ Limit \in Nat /\ ByteLimit \in Nat
BY Zenon, FS_CardinalityType, SidecarAssumption DEF AdmissionInv, AdmissionExact

\* A step that counts right keeps the admission exact.
LEMMA AccountsKeep ==
    ASSUME AdmissionInv, NEW j \in Jobs, Accounts(j)
    PROVE  AdmissionInv'
<1>1. \A k \in Jobs : job'[k].pc \in {"admit", "charge", "refuse", "drop", "dropped"}
                         => job'[k].op = "read"
  BY Zenon DEF Accounts, AdmissionInv, Others
<1> QED BY Zenon, <1>1, SlotsCounted, BytesCounted DEF Accounts, AdmissionInv, AdmissionExact

\* A call that becomes something else keeps the rest.
LEMMA BecomeEffect ==
    ASSUME JobTypes, NEW j \in Jobs, job[j].pc # "idle", NEW x \in Labels, Become(j, x)
    PROVE  /\ Others(j) /\ job'[j].pc = x /\ job'[j].op = job[j].op
           /\ job'[j].size = job[j].size /\ job[j].size \in Nat
<1> DEFINE f == [job[j] EXCEPT !.pc = x]
<1>1. job[j] \in Calls
  BY Zenon, CallTypes
<1>2. f \in Calls /\ f.pc = x /\ f.op = job[j].op /\ f.size = job[j].size /\ job[j].size \in Nat
  BY Zenon, <1>1 DEF Calls, Labels
<1>3. job' = [job EXCEPT ![j] = f]
  BY Zenon DEF Become
<1> HIDE DEF f
<1> QED BY Zenon, <1>2, <1>3, JobStep DEF Others

\* A call that is over.
LEMMA RestEffect ==
    ASSUME JobTypes, NEW j \in Jobs, Rest(j)
    PROVE  Others(j) /\ job'[j].pc = "idle"
<1>1. job' = [job EXCEPT ![j] = Resting] /\ Resting \in Calls \cup {Resting}
  BY Zenon DEF Rest
<1>2. Others(j) /\ job'[j] = Resting
  BY Zenon, <1>1, JobStep DEF Others
<1>3. Resting.pc = "idle"
  BY DEF Resting
<1> QED BY Zenon, <1>2, <1>3

\* A step outside admission, whose call keeps its operation and its size, or
\* ends without a permit.
LEMMA AsideAccounts ==
    ASSUME AdmissionInv, NEW j \in Jobs, Others(j), UNCHANGED admission,
           \/ job'[j].pc = "idle" /\ ~Slot(j)
           \/ /\ ~Slot(j) /\ job'[j].pc = "admit" /\ job'[j].op = "read"
           \/ /\ ~Slot(j) /\ job'[j].pc = "open" /\ job'[j].op # "read"
           \/ /\ job[j].pc \in {"open", "lock", "work"}
              /\ \/ job'[j].pc \in {"lock", "work"}
                 \/ job'[j].pc = "drop" /\ job[j].op = "read"
              /\ job'[j].op = job[j].op /\ job'[j].size = job[j].size
    PROVE  Accounts(j)
<1>1. active' = active /\ active_bytes' = active_bytes
  BY Zenon DEF admission
<1>2. active' <= Limit /\ active_bytes' <= ByteLimit
  BY Zenon, <1>1, CountTypes
<1>3. (Slot(j)' <=> Slot(j)) /\ (Paid(j)' <=> Paid(j)) /\ (Paid(j) => job'[j].size = job[j].size)
  BY Standing
<1>4. job'[j].pc \in {"admit", "charge", "refuse", "drop", "dropped"} => job'[j].op = "read"
  OBVIOUS
<1> QED BY Zenon, <1>1, <1>2, <1>3, <1>4 DEF Accounts, CountsSlot, CountsBytes

\* Submitting a call admits nobody.
LEMMA SubmitAccounts ==
    ASSUME IInv, AdmissionInv, NEW j \in Jobs, Submit(j)
    PROVE  Accounts(j)
<1>1. SubmitStep(j) /\ UNCHANGED admission
  BY Zenon, SubmitEffect DEF Submit
<1>2. PICK r \in Requests :
      job' = [job EXCEPT ![j] =
          IF r.size > ByteLimit THEN Resting
          ELSE [pc |-> IF r.op = "read" THEN "admit" ELSE "open", op |-> r.op, path |-> r.path,
                sources |-> r.sources, size |-> r.size, stamp |-> made', todo |-> {},
                target |-> 0, cells |-> <<>>]]
  BY Zenon DEF Submit
<1> DEFINE c == [pc |-> IF r.op = "read" THEN "admit" ELSE "open", op |-> r.op, path |-> r.path,
                 sources |-> r.sources, size |-> r.size, stamp |-> made', todo |-> {},
                 target |-> 0, cells |-> <<>>]
<1>3. job'[j] = Resting \/ job'[j] = c
  BY Zenon, <1>2 DEF IInv, JobTypes
<1>4. (c.pc = "admit" /\ c.op = "read") \/ (c.pc = "open" /\ c.op # "read")
  BY Zenon
<1>5. Resting.pc = "idle"
  BY Zenon DEF Resting
<1>6. ~Slot(j)
  BY Zenon, <1>1, Standing DEF SubmitStep
<1> HIDE DEF c
<1>7. Others(j) /\ UNCHANGED admission
  BY Zenon, <1>1 DEF SubmitStep
<1> QED BY Zenon, <1>3, <1>4, <1>5, <1>6, <1>7, AsideAccounts

\* The steps of BlockingAdmission.
LEMMA AdmissionAccounts ==
    ASSUME IInv, AdmissionInv, NEW j \in Jobs,
           try_acquire(j) \/ charge_bytes(j) \/ refuse(j) \/ drop_bytes(j) \/ drop_slot(j)
    PROVE  Accounts(j)
<1>t. JobTypes
  BY Zenon DEF IInv
<1>o. job[j].pc \in {"admit", "charge", "refuse", "drop", "dropped"} => job[j].op = "read"
  BY Zenon DEF AdmissionInv
<1>1. CASE try_acquire(j)
  <2>1. job[j].pc = "admit" /\ UNCHANGED active_bytes /\ "charge" \in Labels
    BY Zenon, <1>1 DEF try_acquire, Labels
  <2>2. CASE active >= Limit /\ Rest(j) /\ UNCHANGED active
    <3>1. Others(j) /\ job'[j].pc = "idle"
      BY Zenon, <1>t, <2>2, RestEffect
    <3> QED BY <2>1, <2>2, <3>1, Standing, CountTypes DEF Accounts, CountsSlot, CountsBytes
  <2>3. CASE ~(active >= Limit) /\ Become(j, "charge") /\ active' = active + 1
    <3>1. Others(j) /\ job'[j].pc = "charge" /\ job'[j].op = "read"
      BY Zenon, <1>t, <1>o, <2>1, <2>3, BecomeEffect
    <3>2. active' <= Limit /\ active_bytes' <= ByteLimit
      BY <2>1, <2>3, CountTypes
    <3> QED BY Zenon, <1>o, <2>1, <2>3, <3>1, <3>2, Standing DEF Accounts, CountsSlot, CountsBytes
  <2> QED BY Zenon, <1>1, <2>2, <2>3 DEF try_acquire
<1>2. CASE charge_bytes(j)
  <2>1. job[j].pc = "charge" /\ UNCHANGED active /\ {"refuse", "open"} \subseteq Labels
    BY Zenon, <1>2 DEF charge_bytes, Labels
  <2>2. CASE Become(j, "refuse") /\ UNCHANGED active_bytes
    <3>1. Others(j) /\ job'[j].pc = "refuse" /\ job'[j].op = "read"
      BY Zenon, <1>t, <1>o, <2>1, <2>2, BecomeEffect
    <3> QED BY Zenon, <1>o, <2>1, <2>2, <3>1, Standing, CountTypes DEF Accounts, CountsSlot,
        CountsBytes
  <2>3. CASE /\ ~(active_bytes + job[j].size > ByteLimit) /\ Become(j, "open")
             /\ active_bytes' = active_bytes + job[j].size
    <3>1. /\ Others(j) /\ job'[j].pc = "open" /\ job'[j].op = "read"
          /\ job'[j].size = job[j].size /\ job[j].size \in Nat
      BY Zenon, <1>t, <1>o, <2>1, <2>3, BecomeEffect
    <3>2. active' <= Limit /\ active_bytes' <= ByteLimit
      BY <2>1, <2>3, <3>1, CountTypes
    <3> QED BY Zenon, <1>o, <2>1, <2>3, <3>1, <3>2, Standing DEF Accounts, CountsSlot, CountsBytes
  <2> QED BY Zenon, <1>2, <2>2, <2>3 DEF charge_bytes
<1>3. CASE refuse(j) \/ drop_slot(j)
  <2>1. /\ job[j].pc \in {"refuse", "dropped"} /\ active' = active - 1 /\ UNCHANGED active_bytes
        /\ Rest(j)
    BY Zenon, <1>3 DEF refuse, drop_slot
  <2>2. Others(j) /\ job'[j].pc = "idle"
    BY Zenon, <1>t, <2>1, RestEffect
  <2>3. active' <= Limit /\ active_bytes' <= ByteLimit
    BY <2>1, CountTypes
  <2> QED BY Zenon, <1>o, <2>1, <2>2, <2>3, Standing DEF Accounts, CountsSlot, CountsBytes
<1>4. CASE drop_bytes(j)
  <2>1. /\ job[j].pc = "drop" /\ active_bytes' = active_bytes - job[j].size /\ UNCHANGED active
        /\ Become(j, "dropped") /\ "dropped" \in Labels
    BY Zenon, <1>4 DEF drop_bytes, Labels
  <2>2. Others(j) /\ job'[j].pc = "dropped" /\ job'[j].op = "read" /\ job[j].size \in Nat
    BY Zenon, <1>t, <1>o, <2>1, BecomeEffect
  <2>3. active' <= Limit /\ active_bytes' <= ByteLimit
    BY <2>1, <2>2, CountTypes
  <2> QED BY Zenon, <1>o, <2>1, <2>2, <2>3, Standing DEF Accounts, CountsSlot, CountsBytes
<1> QED BY Zenon, <1>1, <1>2, <1>3, <1>4

\* A step that replaces the record of a call is a step of it alone.
LEMMA Replaced ==
    ASSUME JobTypes, NEW j \in Jobs, NEW f, job' = [job EXCEPT ![j] = f]
    PROVE  Others(j) /\ job'[j] = f
BY Zenon DEF JobTypes, Others

\* Locking and working leave admission alone.
LEMMA WorkAccounts ==
    ASSUME IInv, AdmissionInv, NEW j \in Jobs,
           open_random(j) \/ lock_file(j) \/ create_staged_locked_nofollow(j) \/ Touch(j)
    PROVE  Accounts(j)
<1>1. job[j].pc \in {"open", "lock", "work"} /\ UNCHANGED admission
  BY Zenon DEF open_random, lock_file, create_staged_locked_nofollow, Touch
<1>2. job[j] \in Calls /\ JobTypes
  BY Zenon, <1>1, CallTypes DEF IInv
<1> DEFINE Kept == /\ Others(j) /\ job'[j].pc \in {"lock", "work"} /\ job'[j].op = job[j].op
                   /\ job'[j].size = job[j].size
<1> SUFFICES Kept
  BY Zenon, <1>1, AsideAccounts
<1>3. CASE open_random(j)
  <2> DEFINE i == dir[job[j].path]
             todo == lock_set(i, {dir[p] : p \in job[j].sources},
                              IF job[j].op = "read" THEN "shared" ELSE "exclusive")
             f == [job[j] EXCEPT !.pc = "lock", !.target = i, !.todo = todo]
  <2>1. job' = [job EXCEPT ![j] = f]
    BY Zenon, <1>3 DEF open_random
  <2> HIDE DEF i, todo
  <2>2. f.pc = "lock" /\ f.op = job[j].op /\ f.size = job[j].size
    BY Zenon, <1>2 DEF Calls
  <2> HIDE DEF f
  <2> QED BY Zenon, <1>2, <2>1, <2>2, Replaced
<1>4. CASE lock_file(j)
  <2> DEFINE rest == job[j].todo \ {next_lock(job[j].todo)}
             x == IF rest = {} THEN "work" ELSE "lock"
             f == [job[j] EXCEPT !.todo = rest, !.pc = x]
  <2>1. job' = [job EXCEPT ![j] = f]
    BY Zenon, <1>4 DEF lock_file
  <2>2. x \in {"lock", "work"}
    BY Zenon
  <2> HIDE DEF rest, x
  <2>3. f.pc = x /\ f.op = job[j].op /\ f.size = job[j].size
    BY Zenon, <1>2 DEF Calls
  <2> HIDE DEF f
  <2> QED BY Zenon, <1>2, <2>1, <2>2, <2>3, Replaced
<1>5. CASE create_staged_locked_nofollow(j)
  <2> DEFINE i == Oldest + job[j].stamp
             f == [job[j] EXCEPT !.pc = "work", !.target = i]
  <2>1. job' = [job EXCEPT ![j] = f]
    BY Zenon, <1>5 DEF create_staged_locked_nofollow
  <2> HIDE DEF i
  <2>2. f.pc = "work" /\ f.op = job[j].op /\ f.size = job[j].size
    BY Zenon, <1>2 DEF Calls
  <2> HIDE DEF f
  <2> QED BY Zenon, <1>2, <2>1, <2>2, Replaced
<1>6. CASE Touch(j)
  <2> DEFINE q == Append(job[j].cells, IF job[j].op = "read"
                                       THEN content[job[j].target][Len(job[j].cells) + 1]
                                       ELSE job[j].stamp)
             f == [job[j] EXCEPT !.cells = q]
  <2>1. job' = [job EXCEPT ![j] = f] /\ job[j].pc = "work"
    BY Zenon, <1>6 DEF Touch
  <2> HIDE DEF q
  <2>2. f.pc = job[j].pc /\ f.op = job[j].op /\ f.size = job[j].size
    BY Zenon, <1>2 DEF Calls
  <2> HIDE DEF f
  <2> QED BY Zenon, <1>2, <2>1, <2>2, Replaced
<1> QED BY Zenon, <1>3, <1>4, <1>5, <1>6

\* A call that ends: a read goes on to give its permit back, the others had none.
LEMMA EndAccounts ==
    ASSUME IInv, AdmissionInv, NEW j \in Jobs, Close(j) \/ Fail(j) \/ publish(j) \/ Discard(j)
    PROVE  Accounts(j)
<1>1. job[j].pc = "work" /\ UNCHANGED admission
  BY Zenon DEF Close, Fail, publish, Discard
<1>2. (job[j].op = "read" /\ Become(j, "drop")) \/ (job[j].op # "read" /\ Rest(j))
  BY Zenon DEF Close, Fail, publish, Discard
<1>3. JobTypes /\ "drop" \in Labels
  BY Zenon DEF IInv, Labels
<1>4. CASE job[j].op = "read" /\ Become(j, "drop")
  <2>1. /\ Others(j) /\ job'[j].pc = "drop" /\ job'[j].op = job[j].op
        /\ job'[j].size = job[j].size
    BY Zenon, <1>1, <1>3, <1>4, BecomeEffect
  <2> QED BY Zenon, <1>1, <1>4, <2>1, AsideAccounts
<1>5. CASE job[j].op # "read" /\ Rest(j)
  <2>1. Others(j) /\ job'[j].pc = "idle" /\ ~Slot(j)
    BY Zenon, <1>3, <1>5, RestEffect, Standing
  <2> QED BY Zenon, <1>1, <2>1, AsideAccounts
<1> QED BY Zenon, <1>2, <1>4, <1>5

\* Nobody is admitted at the start.
LEMMA InitAdmission == SidecarInit => AdmissionInv
<1> SUFFICES ASSUME SidecarInit PROVE AdmissionInv
  BY Zenon
<1>1. \A j \in Jobs : job[j].pc = "idle"
  BY Zenon DEF SidecarInit, Resting
<1>2. Admitted = {}
  BY Zenon, <1>1 DEF Admitted
<1>3. Charged = {}
  BY Zenon, <1>2 DEF Charged
<1>4. HeldBytes = {}
  BY Zenon, <1>3 DEF HeldBytes
<1>5. active = 0 /\ active_bytes = 0 /\ 0 <= Limit /\ 0 <= ByteLimit
  BY SidecarAssumption DEF SidecarInit
<1> QED BY Zenon, <1>1, <1>2, <1>4, <1>5, FS_EmptySet DEF AdmissionInv, AdmissionExact

\* Calls are counted while they run, through refusals half way and permits half
\* dropped, and what they leave on disk is whole.
THEOREM SidecarsAreSafe == SidecarSpec => []SidecarsSafe
<1>1. IInv /\ AdmissionInv /\ [SidecarNext]_svars => AdmissionInv'
  <2> SUFFICES ASSUME IInv, AdmissionInv, [SidecarNext]_svars PROVE AdmissionInv'
    BY Zenon
  <2>1. CASE UNCHANGED svars
    <3>1. job' = job /\ active' = active /\ active_bytes' = active_bytes
      BY Zenon, <2>1 DEF svars
    <3> QED BY Zenon, <3>1 DEF AdmissionInv, AdmissionExact, Admitted, HeldBytes, Charged,
        InputBytes
  <2>2. CASE SidecarNext
    <3> PICK j \in Jobs :
           \/ Submit(j) \/ try_acquire(j) \/ charge_bytes(j) \/ refuse(j)
           \/ drop_bytes(j) \/ drop_slot(j)
           \/ open_random(j) \/ lock_file(j) \/ create_staged_locked_nofollow(j)
           \/ Touch(j) \/ Close(j) \/ Fail(j) \/ publish(j) \/ Discard(j)
      BY Zenon, <2>2 DEF SidecarNext
    <3>1. Accounts(j)
      BY Zenon, SubmitAccounts, AdmissionAccounts, WorkAccounts, EndAccounts
    <3> QED BY Zenon, <3>1, AccountsKeep
  <2> QED BY Zenon, <2>1, <2>2
<1>2. AdmissionInv => AdmissionExact
  BY Zenon DEF AdmissionInv
<1>3. SidecarSpec => []AdmissionExact
  BY <1>1, <1>2, InitAdmission, InductiveInv, PTL DEF SidecarSpec
<1> QED BY <1>3, SidecarsStayWhole, PTL DEF SidecarsSafe

=============================================================================
