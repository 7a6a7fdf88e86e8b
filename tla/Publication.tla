---------------------------- MODULE Publication ----------------------------
(***************************************************************************)
(* Publication of rows to the shared in-memory key directory               *)
(* (store/publication_epoch.ex and store/promoted_publication.ex).         *)
(*                                                                         *)
(* Every shard has an epoch counter, odd while a publication is open, and  *)
(* four rows of a shared table: the writer latch, the publisher fence, the *)
(* lifecycle row and the lifecycle generation.  Writers are processes that *)
(* may die at any step and leave all of this behind.  Readers take no lock:*)
(* they read the epochs, the rows, and the epochs again, and they repair   *)
(* what a dead writer left.  Each atomic operation on the counters or on   *)
(* the table is one step.                                                  *)
(*                                                                         *)
(* A writer executes one of four operations:                               *)
(*   plain    with_write: one shard, no fence;                             *)
(*   promoted a scope that publishes to one or several shards;             *)
(*   replace  a lifecycle operation that rewrites the rows of one shard    *)
(*            (flush, snapshot install, opening of the storage);           *)
(*   startup  the start of a shard process: a lifecycle operation that     *)
(*            first resets the epoch, the latch and the fence.             *)
(*                                                                         *)
(* A shard process may start while others use its shard, and its reset     *)
(* looks at no owner: an open publication loses epoch, latch and fence.    *)
(* The properties leave such a shard out, as long as it is shaken: until   *)
(* every publication, start and read on it has ended.                      *)
(***************************************************************************)
EXTENDS Integers, FiniteSets

CONSTANTS
    Shards,           \* shard indexes, a set of naturals
    Rows, Home(_),    \* rows of the key directory and the shard of each
    Writers,          \* processes that publish; a new process is a new writer
    Readers,          \* processes that read
    None,             \* an absent table row
    Operations,       \* who may begin what: records of writer, kind and span
    Reads,            \* the reads readers may begin: records of mode and span
    MaxPublications   \* bound on the number of operations begun

ASSUME ShardAssumption == Shards \subseteq Nat

ASSUME RowAssumption ==
    /\ \A x \in Rows : Home(x) \in Shards
    /\ \A s \in Shards : \E x \in Rows : Home(x) = s

ASSUME NoneAssumption == None \notin Writers /\ "failed" \notin Writers /\ None # "failed"

\* Only a scope and a plain read may cover several shards.
ASSUME OperationAssumption ==
    \A o \in Operations :
       /\ o.kind \in {"plain", "promoted", "replace", "startup"}
       /\ o.span \subseteq Shards /\ o.span # {}
       /\ o.kind # "promoted" => \E s \in Shards : o.span = {s}

ASSUME ReadAssumption ==
    \A d \in Reads :
       /\ d.mode \in {"plain", "promoted"}
       /\ d.span \subseteq Shards /\ d.span # {}
       /\ d.mode = "promoted" => \E s \in Shards : d.span = {s}

ASSUME BoundAssumption == MaxPublications \in Nat

VARIABLES
    epoch, latch, fence, life, generation,   \* the shared state of each shard
    rows,                                    \* the content of the key directory
    alive,                                   \* the writers still running
    pc, kind, span, num, todo, token, mine, left, failed,  \* each writer's operation
    at, mode, asked, pend, before, broken, victim, since, unread, got,  \* each reader's
    pubs, dirty, shaken, disturbed, torn, mixed  \* history, for the properties

shared  == <<epoch, latch, fence, life, generation, rows, alive>>
writing == <<pc, kind, span, num, todo, token, mine, left, failed>>
reading == <<at, mode, asked, pend, before, broken, victim, since, unread, got>>
history == <<pubs, dirty, shaken, disturbed, torn, mixed>>
vars    == <<shared, writing, reading, history>>

Odd(e) == e % 2 = 1
RowsOf(S) == {x \in Rows : Home(x) \in S}
Counts == 0..MaxPublications
Publishes(k) == k \in {"plain", "promoted"}

Init ==
    /\ epoch = [s \in Shards |-> 0]
    /\ latch = [s \in Shards |-> None]
    /\ fence = [s \in Shards |-> None]
    /\ life = [s \in Shards |-> None]
    /\ generation = [s \in Shards |-> 0]
    /\ rows = [x \in Rows |-> 0]
    /\ alive = Writers
    /\ pc = [w \in Writers |-> "idle"]
    /\ kind = [w \in Writers |-> "plain"]
    /\ span = [w \in Writers |-> {}]
    /\ num = [w \in Writers |-> 0]
    /\ todo = [w \in Writers |-> {}]
    /\ token = [w \in Writers |-> [s \in Shards |-> 0]]
    /\ mine = [w \in Writers |-> {}]
    /\ left = [w \in Writers |-> {}]
    /\ failed = {}
    /\ at = [r \in Readers |-> "idle"]
    /\ mode = [r \in Readers |-> "plain"]
    /\ asked = [r \in Readers |-> {}]
    /\ pend = [r \in Readers |-> {}]
    /\ before = [r \in Readers |-> [s \in Shards |-> 0]]
    /\ broken = [r \in Readers |-> None]
    /\ victim = [r \in Readers |-> None]
    /\ since = [r \in Readers |-> 0]
    /\ unread = [r \in Readers |-> {}]
    /\ got = [r \in Readers |-> [x \in Rows |-> 0]]
    /\ pubs = 0
    /\ dirty = {} /\ shaken = {}
    /\ disturbed = {} /\ torn = {} /\ mixed = {}

-----------------------------------------------------------------------------
(* Operations begin.                                                       *)

\* The process that applies a shard's commands runs its scopes and lifecycle
\* operations one after the other; with_write is also called by the process
\* that mirrors flows to disk.  A shard has one process, and its supervisor starts
\* a new one alone when it dies, while all the others run on.
MayOverlap(k, l) ==
    \/ "plain" \in {k, l}
    \/ "startup" \in {k, l} /\ k # l

\* A reset that meets a publication of the same shard.
Clash(k, l) == (k = "startup" /\ Publishes(l)) \/ (Publishes(k) /\ l = "startup")

\* A publication, a start or a read of shard s is under way.
InUse(s) ==
    \/ \E w \in Writers : s \in span[w] /\ kind[w] # "replace"
    \/ \E r \in Readers : s \in asked[r]
StillShaken == {s \in shaken : InUse(s)}

BeginOperation(w, k, S) ==
    /\ [by |-> w, kind |-> k, span |-> S] \in Operations
    /\ w \in alive /\ pc[w] = "idle" /\ pubs < MaxPublications
    /\ \A v \in alive \ {w} :
          pc[v] # "idle" /\ span[v] \cap S # {} => MayOverlap(k, kind[v])
    /\ pubs' = pubs + 1
    /\ pc' = [pc EXCEPT ![w] = IF Publishes(k) THEN "latch" ELSE "barrier"]
    /\ kind' = [kind EXCEPT ![w] = k]
    /\ span' = [span EXCEPT ![w] = S]
    /\ num' = [num EXCEPT ![w] = pubs + 1]
    /\ todo' = [todo EXCEPT ![w] = S]
    /\ left' = [left EXCEPT ![w] = RowsOf(S)]
    /\ shaken' = StillShaken \cup
                    {s \in S : \E v \in Writers : s \in span[v] /\ Clash(k, kind[v])}
    /\ UNCHANGED <<shared, token, mine, failed, reading, dirty, disturbed, torn, mixed>>

with_write(w)     == \E s \in Shards : BeginOperation(w, "plain", {s})
with_scope(w)     == \E S \in SUBSET Shards : BeginOperation(w, "promoted", S)
with_lifecycle(w) == \E s \in Shards : BeginOperation(w, "replace", {s})
init(w)           == \E s \in Shards : BeginOperation(w, "startup", {s})

\* The operation of w is over, and what it kept in its process is gone.
Over(w) ==
    /\ pc' = [pc EXCEPT ![w] = "idle"]
    /\ kind' = [kind EXCEPT ![w] = "plain"]
    /\ span' = [span EXCEPT ![w] = {}]
    /\ num' = [num EXCEPT ![w] = 0]
    /\ todo' = [todo EXCEPT ![w] = {}]
    /\ token' = [token EXCEPT ![w] = [s \in Shards |-> 0]]
    /\ mine' = [mine EXCEPT ![w] = {}]
    /\ left' = [left EXCEPT ![w] = {}]
    /\ failed' = failed \ {w}

-----------------------------------------------------------------------------
(* A publication: for each shard in ascending order, take the latch, close *)
(* an epoch that was left odd, open the epoch; register the fences; write  *)
(* the rows; drop the fences; close the epochs in descending order.        *)

Least(s, S)    == s \in S /\ \A t \in S : s <= t
Greatest(s, S) == s \in S /\ \A t \in S : t <= s
Open(w)        == {s \in Shards : token[w][s] # 0}

\* Mutant: a live owner's latch is deleted too.
acquire_by_force(w) ==
    /\ w \in alive /\ pc[w] = "latch"
    /\ \E s \in todo[w] :
          /\ Least(s, todo[w])
          /\ \/ /\ latch[s] = None
                /\ latch' = [latch EXCEPT ![s] = w]
                /\ pc' = [pc EXCEPT ![w] = "repair"]
             \/ /\ latch[s] # None
                /\ latch' = [latch EXCEPT ![s] = None]
                /\ UNCHANGED pc
    /\ UNCHANGED <<epoch, fence, life, generation, rows, alive, kind, span, num, todo,
                   token, mine, left, failed, reading, history>>

\* The clause for the latch's own owner, which raises, is not modelled: a process
\* finds its own latch only after a reset has met its publication.
acquire_writer_latch(w) ==
    /\ w \in alive /\ pc[w] = "latch"
    /\ \E s \in todo[w] :
          /\ Least(s, todo[w])
          /\ \/ /\ latch[s] = None
                /\ latch' = [latch EXCEPT ![s] = w]
                /\ pc' = [pc EXCEPT ![w] = "repair"]
             \/ /\ latch[s] # None /\ latch[s] \notin alive
                /\ latch' = [latch EXCEPT ![s] = None]
                /\ UNCHANGED pc
    /\ UNCHANGED <<epoch, fence, life, generation, rows, alive, kind, span, num, todo,
                   token, mine, left, failed, reading, history>>

\* Mutant: an epoch left odd is not closed.
repair_nothing(w) ==
    /\ w \in alive /\ pc[w] = "repair"
    /\ \E s \in todo[w] :
          /\ Least(s, todo[w])
          /\ epoch' = [epoch EXCEPT ![s] = @]
    /\ pc' = [pc EXCEPT ![w] = "open"]
    /\ UNCHANGED <<latch, fence, life, generation, rows, alive, kind, span, num, todo,
                   token, mine, left, failed, reading, history>>

repair_orphaned_odd_epoch(w) ==
    /\ w \in alive /\ pc[w] = "repair"
    /\ \E s \in todo[w] :
          /\ Least(s, todo[w])
          /\ epoch' = [epoch EXCEPT ![s] = IF Odd(@) THEN @ + 1 ELSE @]
    /\ pc' = [pc EXCEPT ![w] = "open"]
    /\ UNCHANGED <<latch, fence, life, generation, rows, alive, kind, span, num, todo,
                   token, mine, left, failed, reading, history>>

begin_atomic_write(w) ==
    /\ w \in alive /\ pc[w] = "open"
    /\ \E s \in todo[w] :
          /\ Least(s, todo[w])
          /\ ~Odd(epoch[s])
          /\ epoch' = [epoch EXCEPT ![s] = @ + 1]
          /\ token' = [token EXCEPT ![w][s] = epoch[s] + 1]
          /\ todo' = [todo EXCEPT ![w] = IF @ # {s} THEN @ \ {s}
                                         ELSE IF kind[w] = "promoted" THEN span[w] ELSE {}]
          /\ pc' = [pc EXCEPT ![w] = IF todo[w] # {s} THEN "latch"
                                     ELSE IF kind[w] = "promoted" THEN "fence" ELSE "publish"]
    /\ UNCHANGED <<latch, fence, life, generation, rows, alive, kind, span, num,
                   mine, left, failed, reading, history>>

\* publish also opens the epoch again when it is no longer its own (owned_epoch?):
\* the shard is shaken then, and this is not modelled.
register_fence(w) ==
    /\ w \in alive /\ pc[w] = "fence"
    /\ \E s \in todo[w] :
          /\ fence' = [fence EXCEPT ![s] = IF @ = None THEN w ELSE @]
          /\ mine' = [mine EXCEPT ![w] = IF fence[s] = None THEN @ \cup {s} ELSE @]
          /\ todo' = [todo EXCEPT ![w] = @ \ {s}]
          /\ pc' = [pc EXCEPT ![w] = IF todo[w] = {s} THEN "publish" ELSE @]
    /\ UNCHANGED <<epoch, latch, life, generation, rows, alive, kind, span, num,
                   token, left, failed, reading, history>>

publish(w) ==
    /\ w \in alive /\ pc[w] = "publish"
    /\ \E x \in left[w] :
          /\ rows' = [rows EXCEPT ![x] = num[w]]
          /\ left' = [left EXCEPT ![w] = @ \ {x}]
          /\ pc' = [pc EXCEPT ![w] = IF left[w] = {x} THEN "finish" ELSE @]
    /\ UNCHANGED <<epoch, latch, fence, life, generation, alive, kind, span, num, todo,
                   token, mine, failed, reading, history>>

\* Some but not all rows of w's publication are written.
Partial(w) == pc[w] = "publish" /\ left[w] # {} /\ left[w] # RowsOf(span[w])

\* The shards whose rows a promoted publication will not complete.
Abandoned(w) == IF kind[w] = "promoted" /\ Partial(w) THEN span[w] \ shaken ELSE {}

\* The publication raises, or its result is an error.
fail_scope(w) ==
    /\ w \in alive /\ pc[w] \in {"publish", "finish"}
    /\ failed' = failed \cup {w}
    /\ pc' = [pc EXCEPT ![w] = "finish"]
    /\ dirty' = dirty \cup Abandoned(w)
    /\ UNCHANGED <<shared, kind, span, num, todo, token, mine, left, reading,
                   pubs, shaken, disturbed, torn, mixed>>

\* Mutant: the fences are dropped after a failure too.
finish_unfenced(w) ==
    /\ w \in alive /\ pc[w] = "finish"
    /\ fence' = [s \in Shards |-> IF s \in mine[w] /\ fence[s] = w
                                  THEN None ELSE fence[s]]
    /\ pc' = [pc EXCEPT ![w] = "close"]
    /\ UNCHANGED <<epoch, latch, life, generation, rows, alive, kind, span, num, todo,
                   token, mine, left, failed, reading, history>>

finish(w) ==
    /\ w \in alive /\ pc[w] = "finish"
    /\ fence' = [s \in Shards |-> IF w \notin failed /\ s \in mine[w] /\ fence[s] = w
                                  THEN None ELSE fence[s]]
    /\ pc' = [pc EXCEPT ![w] = "close"]
    /\ UNCHANGED <<epoch, latch, life, generation, rows, alive, kind, span, num, todo,
                   token, mine, left, failed, reading, history>>

\* The token s is done with: close the next one, or return.
Closed(w, s) ==
    IF Open(w) = {s} THEN Over(w)
    ELSE /\ token' = [token EXCEPT ![w][s] = 0]
         /\ pc' = [pc EXCEPT ![w] = "close"]
         /\ UNCHANGED <<kind, span, num, todo, mine, left, failed>>

end_write(w) ==
    /\ w \in alive /\ pc[w] = "close"
    /\ \E s \in Open(w) :
          /\ Greatest(s, Open(w))
          /\ IF epoch[s] = token[w][s]
             THEN /\ epoch' = [epoch EXCEPT ![s] = @ + 1]
                  /\ pc' = [pc EXCEPT ![w] = "unlatch"]
                  /\ UNCHANGED <<kind, span, num, todo, token, mine, left, failed>>
             ELSE Closed(w, s) /\ UNCHANGED epoch
    /\ UNCHANGED <<latch, fence, life, generation, rows, alive, reading, history>>

delete_writer_latch(w) ==
    /\ w \in alive /\ pc[w] = "unlatch"
    /\ \E s \in Open(w) :
          /\ Greatest(s, Open(w))
          /\ latch' = [latch EXCEPT ![s] = IF @ = w THEN None ELSE @]
          /\ Closed(w, s)
    /\ UNCHANGED <<epoch, fence, life, generation, rows, alive, reading, history>>

-----------------------------------------------------------------------------
(* A lifecycle operation rewrites rows without opening the epoch.          *)

\* A dead owner's row, or the one a failed operation left, is replaced in one
\* operation; the row of a live owner is waited for.
acquire_lifecycle(w) ==
    /\ w \in alive /\ pc[w] = "barrier"
    /\ \E s \in span[w] :
          /\ life[s] \notin alive
          /\ life' = [life EXCEPT ![s] = w]
    /\ pc' = [pc EXCEPT ![w] = "generation"]
    /\ UNCHANGED <<epoch, latch, fence, generation, rows, alive, kind, span, num, todo,
                   token, mine, left, failed, reading, history>>

\* A new reference, unlike all before it.
NewGeneration(w) ==
    /\ w \in alive /\ pc[w] = "generation"
    /\ \E s \in span[w] : generation' = [generation EXCEPT ![s] = @ + 1]
    /\ pc' = [pc EXCEPT ![w] = IF kind[w] = "startup" THEN "reset" ELSE "replace"]
    /\ UNCHANGED <<epoch, latch, fence, life, rows, alive, kind, span, num, todo,
                   token, mine, left, failed, reading, history>>

\* PublicationEpoch.reset: get, put if odd, delete the latch, delete the fence.
reset_get(w) ==
    /\ w \in alive /\ pc[w] = "reset"
    /\ \E s \in span[w] : token' = [token EXCEPT ![w][s] = epoch[s]]
    /\ pc' = [pc EXCEPT ![w] = "reset_put"]
    /\ UNCHANGED <<shared, kind, span, num, todo, mine, left, failed, reading, history>>

reset_put(w) ==
    /\ w \in alive /\ pc[w] = "reset_put"
    /\ \E s \in span[w] :
          epoch' = [epoch EXCEPT ![s] = IF Odd(token[w][s]) THEN token[w][s] + 1 ELSE @]
    /\ pc' = [pc EXCEPT ![w] = "reset_latch"]
    /\ UNCHANGED <<latch, fence, life, generation, rows, alive, kind, span, num, todo,
                   token, mine, left, failed, reading, history>>

reset_latch(w) ==
    /\ w \in alive /\ pc[w] = "reset_latch"
    /\ \E s \in span[w] : latch' = [latch EXCEPT ![s] = None]
    /\ pc' = [pc EXCEPT ![w] = "reset_fence"]
    /\ UNCHANGED <<epoch, fence, life, generation, rows, alive, kind, span, num, todo,
                   token, mine, left, failed, reading, history>>

reset_fence(w) ==
    /\ w \in alive /\ pc[w] = "reset_fence"
    /\ \E s \in span[w] : /\ fence' = [fence EXCEPT ![s] = None]
                          /\ token' = [token EXCEPT ![w][s] = 0]
    /\ pc' = [pc EXCEPT ![w] = "replace"]
    /\ UNCHANGED <<epoch, latch, life, generation, rows, alive, kind, span, num, todo,
                   mine, left, failed, reading, history>>

Replace(w) ==
    /\ w \in alive /\ pc[w] = "replace"
    /\ \E x \in left[w] :
          /\ rows' = [rows EXCEPT ![x] = num[w]]
          /\ left' = [left EXCEPT ![w] = @ \ {x}]
          /\ dirty' = dirty \cup {Home(x)}
          /\ disturbed' = disturbed \cup {r \in Readers : at[r] = "rows" /\ Home(x) \in asked[r]}
    /\ UNCHANGED <<epoch, latch, fence, life, generation, alive, pc, kind, span, num, todo,
                   token, mine, failed, reading, pubs, shaken, torn, mixed>>

\* On success the fence goes first, then the operation's own lifecycle row.
LifecycleSuccess(w) ==
    /\ w \in alive /\ pc[w] = "replace" /\ left[w] = {}
    /\ \E s \in span[w] : /\ fence' = [fence EXCEPT ![s] = None]
                          /\ dirty' = dirty \ {s}
    /\ pc' = [pc EXCEPT ![w] = "leave"]
    /\ UNCHANGED <<epoch, latch, life, generation, rows, alive, kind, span, num, todo,
                   token, mine, left, failed, reading, pubs, shaken, disturbed, torn, mixed>>

DeleteLifecycle(w) ==
    /\ w \in alive /\ pc[w] = "leave"
    /\ \E s \in span[w] : life' = [life EXCEPT ![s] = IF @ = w THEN None ELSE @]
    /\ Over(w)
    /\ UNCHANGED <<epoch, latch, fence, generation, rows, alive, reading, history>>

LifecycleFailure(w) ==
    /\ w \in alive /\ pc[w] = "replace"
    /\ \E s \in span[w] : life' = [life EXCEPT ![s] = "failed"]
    /\ Over(w)
    /\ UNCHANGED <<epoch, latch, fence, generation, rows, alive, reading, history>>

\* A process is killed or crashes, wherever it is in its operation.
Die(w) ==
    /\ w \in alive /\ pc[w] # "idle"
    /\ alive' = alive \ {w}
    /\ dirty' = dirty \cup Abandoned(w)
    /\ Over(w)
    /\ UNCHANGED <<epoch, latch, fence, life, generation, rows, reading,
                   pubs, shaken, disturbed, torn, mixed>>

-----------------------------------------------------------------------------
(* Readers.  A plain read covers one or several shards; a promoted read    *)
(* covers one, and falls back to the serialised reader (returns to idle)   *)
(* when a fence, a lifecycle row or a new generation shows.                *)

BeginRead(r, m, S) ==
    /\ [mode |-> m, span |-> S] \in Reads
    /\ at[r] = "idle"
    /\ at' = [at EXCEPT ![r] = "before"]
    /\ mode' = [mode EXCEPT ![r] = m]
    /\ asked' = [asked EXCEPT ![r] = S]
    /\ pend' = [pend EXCEPT ![r] = S]
    /\ shaken' = StillShaken
    /\ UNCHANGED <<shared, writing, before, broken, victim, since, unread, got,
                   pubs, dirty, disturbed, torn, mixed>>

read(r) == \E S \in SUBSET Shards : BeginRead(r, "plain", S)

promoted_read(r) == \E s \in Shards : life[s] = None /\ BeginRead(r, "promoted", {s})

\* What an attempt of the reader has learned so far, forgotten.
Forget(r) ==
    /\ before' = [before EXCEPT ![r] = [s \in Shards |-> 0]]
    /\ since' = [since EXCEPT ![r] = 0]
    /\ unread' = [unread EXCEPT ![r] = {}]
    /\ got' = [got EXCEPT ![r] = [x \in Rows |-> 0]]
    /\ disturbed' = disturbed \ {r} /\ torn' = torn \ {r} /\ mixed' = mixed \ {r}

\* The reader begins again (read_stable).
Retry(r) ==
    /\ at' = [at EXCEPT ![r] = "before"]
    /\ pend' = [pend EXCEPT ![r] = asked[r]]
    /\ Forget(r)
    /\ UNCHANGED <<mode, asked>>

\* The reader returns to its caller, with its result or with :fallback.
Back(r) ==
    /\ at' = [at EXCEPT ![r] = "idle"]
    /\ mode' = [mode EXCEPT ![r] = "plain"]
    /\ asked' = [asked EXCEPT ![r] = {}]
    /\ pend' = [pend EXCEPT ![r] = {}]
    /\ Forget(r)

GoTo(r, label) ==
    /\ at' = [at EXCEPT ![r] = label]
    /\ UNCHANGED <<mode, asked, pend, before, since, unread, got, disturbed, torn, mixed>>

\* One epoch of the first pass.  After the last, an odd one sends the reader to
\* the repair of the odd ones, and otherwise the function runs.
read_epochs(r) ==
    /\ at[r] = "before"
    /\ \E s \in pend[r] :
          LET seen == [before[r] EXCEPT ![s] = epoch[s]]
              odd  == {t \in asked[r] : Odd(seen[t])}
          IN  /\ before' = [before EXCEPT ![r] = seen]
              /\ IF pend[r] # {s}
                 THEN pend' = [pend EXCEPT ![r] = @ \ {s}] /\ UNCHANGED <<at, unread>>
                 ELSE IF odd # {}
                 THEN /\ at' = [at EXCEPT ![r] = "repair"]
                      /\ pend' = [pend EXCEPT ![r] = odd]
                      /\ UNCHANGED unread
                 ELSE /\ at' = [at EXCEPT ![r] = IF mode[r] = "plain" THEN "rows"
                                                 ELSE "generation"]
                      /\ pend' = [pend EXCEPT ![r] = {}]
                      /\ unread' = [unread EXCEPT ![r] = RowsOf(asked[r])]
    /\ UNCHANGED <<shared, writing, mode, asked, broken, victim, since, got, history>>

Repaired(r, s) ==
    IF pend[r] = {s} THEN Retry(r)
    ELSE /\ pend' = [pend EXCEPT ![r] = @ \ {s}]
         /\ at' = [at EXCEPT ![r] = "repair"]
         /\ UNCHANGED <<mode, asked, before, since, unread, got, disturbed, torn, mixed>>

\* Mutant: an epoch is repaired only when the latch row is missing.
repair_missing_owner(r) ==
    /\ at[r] = "repair"
    /\ \E s \in pend[r] :
          IF latch[s] # None
          THEN Repaired(r, s) /\ UNCHANGED <<broken, victim>>
          ELSE /\ broken' = [broken EXCEPT ![r] = s]
               /\ victim' = [victim EXCEPT ![r] = latch[s]]
               /\ GoTo(r, "exchange")
    /\ UNCHANGED <<shared, writing, pubs, dirty, shaken>>

\* A live owner is left alone; a dead owner, or no owner, is repaired.
repair_dead_writer_epoch(r) ==
    /\ at[r] = "repair"
    /\ \E s \in pend[r] :
          IF latch[s] \in alive
          THEN Repaired(r, s) /\ UNCHANGED <<broken, victim>>
          ELSE /\ broken' = [broken EXCEPT ![r] = s]
               /\ victim' = [victim EXCEPT ![r] = latch[s]]
               /\ GoTo(r, "exchange")
    /\ UNCHANGED <<shared, writing, pubs, dirty, shaken>>

\* The compare-and-exchange and the deletion of the dead owner's latch row, which
\* no other process waits for, are one step.
RepairExchange(r) ==
    /\ at[r] = "exchange"
    /\ LET s == broken[r]
       IN  /\ epoch' = [epoch EXCEPT ![s] = IF @ = before[r][s] THEN @ + 1 ELSE @]
           /\ latch' = [latch EXCEPT ![s] = IF @ = victim[r] THEN None ELSE @]
           /\ Repaired(r, s)
    /\ broken' = [broken EXCEPT ![r] = None]
    /\ victim' = [victim EXCEPT ![r] = None]
    /\ UNCHANGED <<fence, life, generation, rows, alive, writing, pubs, dirty, shaken>>

lifecycle_generation(r) ==
    /\ at[r] = "generation"
    /\ \E s \in asked[r] : since' = [since EXCEPT ![r] = generation[s]]
    /\ at' = [at EXCEPT ![r] = "fence"]
    /\ UNCHANGED <<shared, writing, mode, asked, pend, before, broken, victim, unread, got, history>>

fence_clear(r) ==
    /\ at[r] = "fence"
    /\ IF \A s \in asked[r] : fence[s] = None
       THEN GoTo(r, "life") ELSE Back(r)
    /\ UNCHANGED <<shared, writing, broken, victim, pubs, dirty, shaken>>

lifecycle_clear(r) ==
    /\ at[r] = "life"
    /\ IF \A s \in asked[r] : life[s] = None
       THEN GoTo(r, "rows") ELSE Back(r)
    /\ UNCHANGED <<shared, writing, broken, victim, pubs, dirty, shaken>>

\* At the instant the last row is read: the result is not the present content or a
\* live publication is half written; or some of the content was abandoned.
Torn(r, result) ==
    \/ \E x \in RowsOf(asked[r]) : result[x] # rows[x]
    \/ \E w \in alive : span[w] \cap asked[r] # {} /\ Partial(w)
Mixed(r) == asked[r] \cap dirty # {}

\* After the last row the two facts above stand for the result.
ReadRow(r) ==
    /\ at[r] = "rows"
    /\ \E x \in unread[r] :
          LET result == [got[r] EXCEPT ![x] = rows[x]]
          IN  /\ unread' = [unread EXCEPT ![r] = @ \ {x}]
              /\ IF unread[r] # {x}
                 THEN got' = [got EXCEPT ![r] = result] /\ UNCHANGED <<at, pend, torn, mixed>>
                 ELSE /\ got' = [got EXCEPT ![r] = [y \in Rows |-> 0]]
                      /\ at' = [at EXCEPT ![r] = IF mode[r] = "plain" THEN "check"
                                                 ELSE "life_again"]
                      /\ pend' = [pend EXCEPT ![r] = asked[r]]
                      /\ torn' = IF Torn(r, result) THEN torn \cup {r} ELSE torn \ {r}
                      /\ mixed' = IF Mixed(r) THEN mixed \cup {r} ELSE mixed \ {r}
    /\ UNCHANGED <<shared, writing, mode, asked, before, broken, victim, since,
                   pubs, dirty, shaken, disturbed>>

lifecycle_still_clear(r) ==
    /\ at[r] = "life_again"
    /\ IF \A s \in asked[r] : life[s] = None
       THEN GoTo(r, "generation_again") ELSE Back(r)
    /\ UNCHANGED <<shared, writing, broken, victim, pubs, dirty, shaken>>

same_generation(r) ==
    /\ at[r] = "generation_again"
    /\ IF \A s \in asked[r] : generation[s] = since[r]
       THEN GoTo(r, "check") ELSE Back(r)
    /\ UNCHANGED <<shared, writing, broken, victim, pubs, dirty, shaken>>

\* Mutant: the second pass only looks for an open publication.
recheck_odd_only(r) ==
    /\ at[r] = "check"
    /\ \E s \in pend[r] :
          IF Odd(epoch[s]) THEN Retry(r)
          ELSE /\ pend' = [pend EXCEPT ![r] = @ \ {s}]
               /\ at' = [at EXCEPT ![r] = IF pend[r] = {s} THEN "done" ELSE @]
               /\ UNCHANGED <<mode, asked, before, since, unread, got, disturbed, torn, mixed>>
    /\ UNCHANGED <<shared, writing, broken, victim, pubs, dirty, shaken>>

\* One epoch of the second pass: a difference sends the reader back.
recheck_epochs(r) ==
    /\ at[r] = "check"
    /\ \E s \in pend[r] :
          IF epoch[s] # before[r][s] THEN Retry(r)
          ELSE /\ pend' = [pend EXCEPT ![r] = @ \ {s}]
               /\ at' = [at EXCEPT ![r] = IF pend[r] = {s} THEN "done" ELSE @]
               /\ UNCHANGED <<mode, asked, before, since, unread, got, disturbed, torn, mixed>>
    /\ UNCHANGED <<shared, writing, broken, victim, pubs, dirty, shaken>>

Return(r) ==
    /\ at[r] = "done"
    /\ Back(r)
    /\ UNCHANGED <<shared, writing, broken, victim, pubs, dirty, shaken>>

-----------------------------------------------------------------------------
WriterStep(w) ==
    \/ acquire_writer_latch(w) \/ repair_orphaned_odd_epoch(w) \/ begin_atomic_write(w)
    \/ register_fence(w) \/ publish(w) \/ fail_scope(w) \/ finish(w)
    \/ end_write(w) \/ delete_writer_latch(w)
    \/ acquire_lifecycle(w) \/ NewGeneration(w)
    \/ reset_get(w) \/ reset_put(w) \/ reset_latch(w) \/ reset_fence(w)
    \/ Replace(w) \/ LifecycleSuccess(w) \/ DeleteLifecycle(w) \/ LifecycleFailure(w)

ReaderStep(r) ==
    \/ read_epochs(r) \/ repair_dead_writer_epoch(r) \/ RepairExchange(r)
    \/ lifecycle_generation(r) \/ fence_clear(r) \/ lifecycle_clear(r)
    \/ ReadRow(r) \/ lifecycle_still_clear(r) \/ same_generation(r)
    \/ recheck_epochs(r) \/ Return(r)

Next ==
    \/ \E w \in Writers : \/ with_write(w) \/ with_scope(w) \/ with_lifecycle(w) \/ init(w)
                          \/ WriterStep(w) \/ Die(w)
    \/ \E r \in Readers : read(r) \/ promoted_read(r) \/ ReaderStep(r)

Spec == Init /\ [][Next]_vars

\* A process that runs takes its next step: the scheduler of the runtime is fair,
\* and every wait in this code is a loop that yields or sleeps and tries again.
FairSpec == /\ Spec
            /\ \A w \in Writers : WF_vars(WriterStep(w))
            /\ \A r \in Readers : WF_vars(ReaderStep(r))

-----------------------------------------------------------------------------
Labels == {"idle", "latch", "repair", "open", "fence", "publish", "finish", "close", "unlatch",
           "barrier", "generation", "reset", "reset_put", "reset_latch", "reset_fence",
           "replace", "leave"}
ReadLabels == {"idle", "before", "repair", "exchange", "generation", "fence", "life", "rows",
               "life_again", "generation_again", "check", "done"}
WriterTypes ==
    /\ epoch \in [Shards -> Nat]
    /\ latch \in [Shards -> Writers \cup {None}]
    /\ fence \in [Shards -> Writers \cup {None}]
    /\ life \in [Shards -> Writers \cup {None, "failed"}]
    /\ generation \in [Shards -> Nat]
    /\ rows \in [Rows -> Counts]
    /\ alive \subseteq Writers
    /\ pc \in [Writers -> Labels]
    /\ kind \in [Writers -> {"plain", "promoted", "replace", "startup"}]
    /\ span \in [Writers -> SUBSET Shards]
    /\ num \in [Writers -> Counts]
    /\ todo \in [Writers -> SUBSET Shards]
    /\ token \in [Writers -> [Shards -> Nat]]
    /\ mine \in [Writers -> SUBSET Shards]
    /\ left \in [Writers -> SUBSET Rows]
    /\ failed \subseteq Writers
    /\ pubs \in Counts
    /\ dirty \subseteq Shards
    /\ shaken \subseteq Shards

ReaderTypes ==
    /\ at \in [Readers -> ReadLabels]
    /\ mode \in [Readers -> {"plain", "promoted"}]
    /\ asked \in [Readers -> SUBSET Shards]
    /\ pend \in [Readers -> SUBSET Shards]
    /\ before \in [Readers -> [Shards -> Nat]]
    /\ broken \in [Readers -> Shards \cup {None}]
    /\ victim \in [Readers -> Writers \cup {None}]
    /\ since \in [Readers -> Nat]
    /\ unread \in [Readers -> SUBSET Rows]
    /\ got \in [Readers -> [Rows -> Counts]]
    /\ disturbed \subseteq Readers /\ torn \subseteq Readers /\ mixed \subseteq Readers

\* The type of the variables.  The token of an open publication is an odd epoch,
\* which is what begin_atomic_write returns.
TypeOK ==
    /\ WriterTypes
    /\ ReaderTypes
    /\ \A w \in Writers, s \in Shards :
          Publishes(kind[w]) /\ token[w][s] # 0 => Odd(token[w][s])

\* A live publication keeps what it holds: until end_write has closed it, nobody
\* steals the latch of a shard it has opened, and nobody (a reader's repair, the
\* next writer's repair, a late end_write) closes or moves its epoch.  Only the
\* reset of a shard process that starts meanwhile does, and the harm ends with the
\* operations it met: what begins on the shard after them is safe again.
OpenIsKept ==
    \A w \in alive, s \in Shards \ shaken :
       Publishes(kind[w]) /\ token[w][s] # 0 =>
          /\ latch[s] = w
          /\ epoch[s] = token[w][s] \/ (pc[w] = "unlatch" /\ Greatest(s, Open(w)))

\* A read that returns was a snapshot of all the shards it covers: the result is
\* the content at the instant the last row was read, and no live publication on
\* these shards was half written then.  A plain read promises this only against
\* publications, not against a lifecycle operation that rewrites rows meanwhile.
ReadIsAtomic ==
    \A r \in Readers :
       at[r] = "done" /\ r \notin disturbed /\ asked[r] \cap shaken = {} => r \notin torn

\* A promoted read that returns a result saw no row of a publication that failed
\* or died half way and no row of a lifecycle operation under way, and was not
\* disturbed by one: the fence, the lifecycle row and the generation, checked in
\* that order around the epoch, leave no gap.
PromotedReadIsWhole ==
    \A r \in Readers :
       at[r] = "done" /\ mode[r] = "promoted" /\ asked[r] \cap shaken = {} =>
          r \notin torn \cup mixed

\* What a read returns, plain or promoted, was there all at once: also while a
\* shard process starts, as long as its reset meets no publication.
ReadIsWhole == ReadIsAtomic /\ PromotedReadIsWhole

\* Rows that a failed or killed publisher left half written, or that a lifecycle
\* operation has begun to rewrite, stay behind a fence or a lifecycle row until
\* a lifecycle operation has completed.  The rows of a publication whose fence a
\* starting shard process deleted are not among them.
AbandonedIsFenced ==
    \A s \in dirty : fence[s] # None \/ life[s] # None

\* A reader that has begun returns, whatever dead writers left behind: it repairs
\* their odd epochs itself instead of waiting for them for ever.  A reset that meets
\* a publication can break this: a live process may be left with a latch it will
\* not delete, and a reader waits for live owners.
ReadReturns == [](shaken = {}) => \A r \in Readers : at[r] # "idle" ~> at[r] = "idle"

\* All operations come to their end or die, so that after the last one nothing is
\* under way: latches and lifecycle rows of dead owners are taken over, and no
\* writer waits for an epoch nobody will close, unless a reset has met it.
WritersComeToRest == [](shaken = {}) => <>[](\A w \in Writers : pc[w] = "idle")
=============================================================================
