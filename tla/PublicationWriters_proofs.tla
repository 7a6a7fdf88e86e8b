--------------------- MODULE PublicationWriters_proofs ----------------------
(***************************************************************************)
(* Proofs about Publication, part one: the inductive invariant, how a step *)
(* of one actor frames the state of the others, types, overlap, what a     *)
(* writer holds, the epochs it has opened and the fences of abandoned rows. *)
(***************************************************************************)
EXTENDS Publication, TLAPS

PubLabels == {"latch", "repair", "open", "fence", "publish", "finish", "close", "unlatch"}
Rewriting == {"reset", "reset_put", "reset_latch", "reset_fence", "replace", "leave"}

\* Two operations that use the same shard are of kinds that may overlap, and a start
\* meets a publication only on a shaken shard.
OverlapInv ==
    \A v, w \in Writers :
       v # w /\ pc[v] # "idle" /\ pc[w] # "idle" =>
          \A s \in span[v] \cap span[w] :
             /\ MayOverlap(kind[v], kind[w])
             /\ s \notin shaken => ~Clash(kind[v], kind[w])

\* What the label of a writer says about the rest of its state.
Shape(w) ==
    /\ pc[w] # "idle" => w \in alive
    /\ pc[w] = "idle" => kind[w] = "plain" /\ span[w] = {}
    /\ pc[w] # "idle" /\ kind[w] # "promoted" => \E s \in Shards : span[w] = {s}
    /\ todo[w] \subseteq span[w] /\ mine[w] \subseteq span[w]
    /\ \A s \in Shards : token[w][s] # 0 => s \in span[w]
    /\ \A x \in left[w] : Home(x) \in span[w]
    /\ pc[w] # "idle" => (Publishes(kind[w]) <=> pc[w] \in PubLabels)
    /\ pc[w] \in {"reset", "reset_put", "reset_latch", "reset_fence"} => kind[w] = "startup"
    /\ pc[w] = "fence" => kind[w] = "promoted"
    /\ pc[w] \in {"latch", "repair", "open"} \/ kind[w] # "promoted" => mine[w] = {}

\* A publication opens all its shards, each under the latch, before it writes.
Opening(w) ==
    /\ pc[w] \in {"latch", "repair", "open"} =>
          \A s \in span[w] : s \in todo[w] <=> token[w][s] = 0
    /\ pc[w] \in {"repair", "open"} =>
          \A s \in todo[w] \ shaken : Least(s, todo[w]) => latch[s] = w
    /\ pc[w] \in {"fence", "publish", "finish"} => \A s \in span[w] : token[w][s] # 0

\* The epoch a reset has read is the present one, or has been repaired since.
Resetting(w) ==
    pc[w] = "reset_put" =>
       \A s \in span[w] \ shaken : \/ epoch[s] = token[w][s]
                                   \/ Odd(token[w][s]) /\ epoch[s] = token[w][s] + 1

WriterInv == \A w \in Writers : Shape(w) /\ Opening(w) /\ Resetting(w)

\* A publication under way holds its latches and epochs.
Held(w, s) ==
    Publishes(kind[w]) /\ token[w][s] # 0 =>
       /\ Odd(token[w][s])
       /\ s \notin shaken =>
             /\ latch[s] = w
             /\ epoch[s] = token[w][s] \/ (pc[w] = "unlatch" /\ Greatest(s, Open(w)))

HeldInv == \A w \in Writers, s \in Shards : Held(w, s)

\* The fence and the lifecycle row around rows that are not whole.
Barrier(w) ==
    /\ pc[w] \in Rewriting \cup {"generation"} => \A s \in span[w] : life[s] = w
    /\ pc[w] = "leave" => \A s \in span[w] : s \notin dirty

Fenced(w) ==
    /\ pc[w] = "fence" => \A s \in (span[w] \ todo[w]) \ shaken : fence[s] # None
    /\ pc[w] = "publish" /\ kind[w] = "promoted" => \A s \in span[w] \ shaken : fence[s] # None
    /\ pc[w] \in {"fence", "publish", "finish"} /\ w \notin failed =>
          \A s \in mine[w] : s \notin dirty \/ life[s] # None

FenceInv == AbandonedIsFenced /\ \A w \in Writers : Barrier(w) /\ Fenced(w)

Calm(r)    == \A s \in asked[r] : s \notin shaken
Same(r)    == Calm(r) /\ \A s \in asked[r] : epoch[s] = before[r][s]
Pending(r) == Calm(r) /\ \A s \in pend[r] : epoch[s] = before[r][s]
Fresh(r)   == \A s \in asked[r] : generation[s] = since[r]

\* What a reader has noted.
Noted(r) ==
    /\ \A s \in Shards \ shaken : before[r][s] <= epoch[s]
    /\ \A s \in Shards \ asked[r] : before[r][s] = 0
    /\ at[r] = "idle" => asked[r] = {}
    /\ pend[r] \subseteq asked[r]
    /\ mode[r] = "promoted" => \E s \in Shards : asked[r] = {s}
    /\ at[r] \in {"generation", "fence", "life", "life_again", "generation_again"} =>
          mode[r] = "promoted"
    /\ at[r] \notin {"idle", "before", "repair", "exchange"} =>
          \A s \in asked[r] : ~Odd(before[r][s])
    /\ at[r] \in {"fence", "life", "rows", "life_again", "generation_again"}
          /\ mode[r] = "promoted" => \A s \in asked[r] : since[r] <= generation[s]
    /\ at[r] \in {"generation", "fence", "life"} => unread[r] = RowsOf(asked[r])
    /\ at[r] \in {"life_again", "generation_again"} => pend[r] = asked[r]
    /\ at[r] = "done" => pend[r] = {}

\* The epoch a reader is about to repair is not the one of a live publication.
Repairing(r) ==
    /\ at[r] \in {"repair", "exchange"} => \A s \in pend[r] : Odd(before[r][s])
    /\ at[r] = "exchange" =>
          /\ broken[r] \in pend[r] /\ victim[r] \notin alive
          /\ broken[r] \notin shaken =>
                \A w \in Writers :
                   Publishes(kind[w]) => token[w][broken[r]] # before[r][broken[r]]

\* What a reader has established, as long as the epochs and the generation it has
\* noted are still the present ones.
Clear(r) ==
    Same(r) /\ Fresh(r) =>
       /\ at[r] = "life" => \A s \in asked[r] : s \notin dirty \/ life[s] # None
       /\ at[r] = "rows" /\ mode[r] = "promoted" =>
             \A s \in asked[r] : /\ s \notin dirty
                                 /\ \A w \in Writers : pc[w] \in Rewriting => s \notin span[w]

Reading(r) ==
    at[r] = "rows" /\ Same(r) /\ (IF mode[r] = "plain" THEN r \notin disturbed ELSE Fresh(r)) =>
       \A x \in RowsOf(asked[r]) \ unread[r] : got[r][x] = rows[x]

Judged(r) ==
    /\ at[r] \in {"life_again", "generation_again"} /\ Same(r) /\ Fresh(r) =>
          r \notin torn /\ r \notin mixed
    /\ at[r] \in {"check", "done"} /\ Pending(r) =>
          /\ mode[r] = "plain" /\ r \notin disturbed => r \notin torn
          /\ mode[r] = "promoted" => r \notin torn /\ r \notin mixed

Attempting(r) == Noted(r) /\ Repairing(r) /\ Clear(r) /\ Reading(r) /\ Judged(r)
ReaderInv == \A r \in Readers : Attempting(r)

IInv == WriterTypes /\ ReaderTypes /\ OverlapInv /\ WriterInv /\ HeldInv /\ FenceInv /\ ReaderInv

Kinds == {"plain", "promoted", "replace", "startup"}
BeginAct(w) == with_write(w) \/ with_scope(w) \/ with_lifecycle(w) \/ init(w)
WriterAct(w) == BeginAct(w) \/ WriterStep(w) \/ Die(w)
ReadAct(r) == read(r) \/ promoted_read(r)
ReaderAct(r) == ReadAct(r) \/ ReaderStep(r)
WriterSide == <<writing, fence, life, generation, rows, alive, pubs, dirty>>

\* What an operation that begins is like.
LEMMA Begins ==
    ASSUME NEW w \in Writers, BeginAct(w)
    PROVE  \E k \in Kinds, S \in SUBSET Shards :
              /\ BeginOperation(w, k, S)
              /\ S # {}
              /\ k # "promoted" => \E s \in Shards : S = {s}
<1>1. ASSUME NEW k, NEW S, BeginOperation(w, k, S)
      PROVE  k \in Kinds /\ S \subseteq Shards /\ S # {} /\ (k # "promoted" => \E s \in Shards : S = {s})
  BY Zenon, <1>1, OperationAssumption DEF BeginOperation, Kinds
<1> QED
  BY <1>1, Zenon DEF BeginAct, with_write, with_scope, with_lifecycle, init

\* What a read that begins is like.
LEMMA ReadBegins ==
    ASSUME NEW r \in Readers, ReadAct(r)
    PROVE  \E m \in {"plain", "promoted"}, S \in SUBSET Shards :
              /\ BeginRead(r, m, S)
              /\ m = "promoted" => \E s \in Shards : S = {s}
<1>1. ASSUME NEW m, NEW S, BeginRead(r, m, S)
      PROVE  m \in {"plain", "promoted"} /\ S \subseteq Shards /\ (m = "promoted" => \E s \in Shards : S = {s})
  BY Zenon, <1>1, ReadAssumption DEF BeginRead
<1> QED
  BY <1>1, Zenon DEF ReadAct, read, promoted_read

\* A reader changes no more of the writers' side than epochs and latches, and that
\* only in its repair.
LEMMA ReaderFrame ==
    ASSUME NEW r \in Readers, ReaderAct(r)
    PROVE  /\ UNCHANGED WriterSide
           /\ ~RepairExchange(r) => UNCHANGED <<epoch, latch>>
           /\ ~ReadAct(r) => UNCHANGED shaken
<1>1. CASE ReadAct(r)
  BY <1>1, Zenon DEF ReadAct, read, promoted_read, BeginRead, WriterSide, shared, writing, history
<1>2. CASE read_epochs(r)
  BY Zenon, <1>2 DEF read_epochs, WriterSide, shared, writing, history
<1>3. CASE repair_dead_writer_epoch(r)
  BY Zenon, <1>3 DEF repair_dead_writer_epoch, WriterSide, shared, writing, history
<1>4. CASE RepairExchange(r)
  BY Zenon, <1>4 DEF RepairExchange, WriterSide, shared, writing, history
<1>5. CASE lifecycle_generation(r)
  BY Zenon, <1>5 DEF lifecycle_generation, WriterSide, shared, writing, history
<1>6. CASE fence_clear(r)
  BY Zenon, <1>6 DEF fence_clear, WriterSide, shared, writing, history
<1>7. CASE lifecycle_clear(r)
  BY Zenon, <1>7 DEF lifecycle_clear, WriterSide, shared, writing, history
<1>8. CASE ReadRow(r)
  BY Zenon, <1>8 DEF ReadRow, WriterSide, shared, writing, history
<1>9. CASE lifecycle_still_clear(r)
  BY Zenon, <1>9 DEF lifecycle_still_clear, WriterSide, shared, writing, history
<1>10. CASE same_generation(r)
  BY Zenon, <1>10 DEF same_generation, WriterSide, shared, writing, history
<1>11. CASE recheck_epochs(r)
  BY Zenon, <1>11 DEF recheck_epochs, WriterSide, shared, writing, history
<1>12. CASE Return(r)
  BY Zenon, <1>12 DEF Return, WriterSide, shared, writing, history
<1> QED
  BY Zenon, <1>1, <1>2, <1>3, <1>4, <1>5, <1>6, <1>7, <1>8, <1>9, <1>10, <1>11, <1>12 DEF
      ReaderAct, ReaderStep

\* A writer leaves the readers alone, but for the note that it disturbed them.
LEMMA WriterFrame ==
    ASSUME NEW w \in Writers, WriterAct(w)
    PROVE  /\ UNCHANGED <<reading, torn, mixed>>
           /\ ~Replace(w) => UNCHANGED disturbed
           /\ ~BeginAct(w) => UNCHANGED shaken
<1>1. CASE BeginAct(w)
  BY <1>1, Begins, Zenon DEF BeginOperation
<1>2. CASE acquire_writer_latch(w)
  BY Zenon, <1>2 DEF acquire_writer_latch, history
<1>3. CASE repair_orphaned_odd_epoch(w)
  BY Zenon, <1>3 DEF repair_orphaned_odd_epoch, history
<1>4. CASE begin_atomic_write(w)
  BY Zenon, <1>4 DEF begin_atomic_write, history
<1>5. CASE register_fence(w)
  BY Zenon, <1>5 DEF register_fence, history
<1>6. CASE publish(w)
  BY Zenon, <1>6 DEF publish, history
<1>7. CASE fail_scope(w)
  BY Zenon, <1>7 DEF fail_scope, history
<1>8. CASE finish(w)
  BY Zenon, <1>8 DEF finish, history
<1>9. CASE end_write(w)
  BY Zenon, <1>9 DEF end_write, history
<1>10. CASE delete_writer_latch(w)
  BY Zenon, <1>10 DEF delete_writer_latch, history
<1>11. CASE acquire_lifecycle(w)
  BY Zenon, <1>11 DEF acquire_lifecycle, history
<1>12. CASE NewGeneration(w)
  BY Zenon, <1>12 DEF NewGeneration, history
<1>13. CASE reset_get(w)
  BY Zenon, <1>13 DEF reset_get, history
<1>14. CASE reset_put(w)
  BY Zenon, <1>14 DEF reset_put, history
<1>15. CASE reset_latch(w)
  BY Zenon, <1>15 DEF reset_latch, history
<1>16. CASE reset_fence(w)
  BY Zenon, <1>16 DEF reset_fence, history
<1>17. CASE Replace(w)
  BY <1>17, Zenon DEF Replace, history
<1>18. CASE LifecycleSuccess(w)
  BY Zenon, <1>18 DEF LifecycleSuccess, history
<1>19. CASE DeleteLifecycle(w)
  BY Zenon, <1>19 DEF DeleteLifecycle, history
<1>20. CASE LifecycleFailure(w)
  BY Zenon, <1>20 DEF LifecycleFailure, history
<1>21. CASE Die(w)
  BY Zenon, <1>21 DEF Die, history
<1> QED
  BY Zenon, <1>1, <1>2, <1>3, <1>4, <1>5, <1>6, <1>7, <1>8, <1>9, <1>10, <1>11, <1>12, <1>13, <1>14, <1>15, <1>16, <1>17, <1>18, <1>19, <1>20, <1>21 DEF
      WriterAct, WriterStep

\* A shard stays shaken while a publication, a start or a read uses it.
LEMMA Unshaken ==
    ASSUME [Next]_vars, NEW s, s \notin shaken'
    PROVE  \/ s \notin shaken
           \/ /\ \A v \in Writers : s \in span[v] => kind[v] = "replace"
              /\ \A r \in Readers : s \notin asked[r]
<1> SUFFICES ASSUME s \in shaken, InUse(s) PROVE FALSE
  BY Zenon DEF InUse
<1>1. ASSUME NEW w \in Writers, WriterAct(w) PROVE s \in shaken'
  <2>1. CASE BeginAct(w)
    BY Zenon, <2>1, Begins DEF BeginOperation, StillShaken
  <2> QED BY Zenon, <1>1, <2>1, WriterFrame
<1>2. ASSUME NEW r \in Readers, ReaderAct(r) PROVE s \in shaken'
  <2>1. CASE ReadAct(r)
    BY Zenon, <2>1, ReadBegins DEF BeginRead, StillShaken
  <2> QED BY Zenon, <1>2, <2>1, ReaderFrame
<1>3. CASE UNCHANGED vars
  BY Zenon, <1>3 DEF vars, history
<1> QED
  BY Zenon, <1>1, <1>2, <1>3 DEF Next, BeginAct, WriterAct, ReaderAct, ReadAct

\* The shared state and the writers' state keep their types.
LEMMA WriterTypesStep == IInv /\ [Next]_vars => WriterTypes'
<1> SUFFICES ASSUME IInv, [Next]_vars PROVE WriterTypes'
  BY Zenon
<1>a. WriterTypes
  BY Zenon DEF IInv
<1> USE BoundAssumption DEF Counts
<1>1. ASSUME NEW w \in Writers, BeginAct(w) PROVE WriterTypes'
  <2>1. PICK k \in Kinds, S \in SUBSET Shards : BeginOperation(w, k, S)
    BY Zenon, <1>1, Begins
  <2>2. RowsOf(S) \subseteq Rows
    BY Zenon DEF RowsOf
  <2>3. shaken' \subseteq Shards
    BY Zenon, <1>a, <2>1 DEF BeginOperation, StillShaken, WriterTypes
  <2> QED BY <1>a, <2>1, <2>2, <2>3 DEF WriterTypes, BeginOperation, shared, Labels, Kinds
<1>2. ASSUME NEW w \in Writers, acquire_writer_latch(w) PROVE WriterTypes'
  <2>1. latch' \in [Shards -> Writers \cup {None}] /\ pc' \in [Writers -> Labels]
    <3>1. PICK s \in todo[w] :
             \/ /\ latch' = [latch EXCEPT ![s] = w]
                /\ pc' = [pc EXCEPT ![w] = "repair"]
             \/ /\ latch' = [latch EXCEPT ![s] = None]
                /\ UNCHANGED pc
      BY Zenon, <1>2 DEF acquire_writer_latch
    <3>2. latch \in [Shards -> Writers \cup {None}] /\ pc \in [Writers -> Labels]
      BY Zenon, <1>a DEF WriterTypes
    <3>3. "repair" \in Labels
      BY Zenon DEF Labels
    <3> QED BY Zenon, <3>1, <3>2, <3>3
  <2> QED BY Zenon, <1>a, <1>2, <2>1 DEF WriterTypes, acquire_writer_latch, history
<1>3. ASSUME NEW w \in Writers, repair_orphaned_odd_epoch(w) PROVE WriterTypes'
  BY <1>a, <1>3 DEF WriterTypes, repair_orphaned_odd_epoch, shared, writing, history, Labels, Odd
<1>4. ASSUME NEW w \in Writers, begin_atomic_write(w) PROVE WriterTypes'
  BY <1>a, <1>4 DEF WriterTypes, begin_atomic_write, shared, writing, history, Labels, Odd
<1>5. ASSUME NEW w \in Writers, register_fence(w) PROVE WriterTypes'
  BY <1>a, <1>5 DEF WriterTypes, register_fence, shared, writing, history, Labels
<1>6. ASSUME NEW w \in Writers, publish(w) PROVE WriterTypes'
  BY <1>a, <1>6 DEF WriterTypes, publish, shared, writing, history, Labels
<1>7. ASSUME NEW w \in Writers, fail_scope(w) PROVE WriterTypes'
  BY Zenon, <1>a, <1>7 DEF WriterTypes, fail_scope, shared, writing, history, Labels, Abandoned
<1>8. ASSUME NEW w \in Writers, finish(w) PROVE WriterTypes'
  BY Zenon, <1>a, <1>8 DEF WriterTypes, finish, shared, writing, history, Labels
<1>9. ASSUME NEW w \in Writers, end_write(w) PROVE WriterTypes'
  <2>1. epoch' \in [Shards -> Nat]
    BY SMTT(30), <1>9, <1>a DEF WriterTypes, end_write, Open
  <2>2. CASE UNCHANGED <<kind, span, num, todo, token, mine, left, failed>> /\ pc' \in [Writers -> Labels]
    BY Zenon, <1>a, <1>9, <2>1, <2>2 DEF WriterTypes, end_write, history
  <2>3. CASE Over(w)
    BY <1>a, <1>9, <2>1, <2>3 DEF WriterTypes, end_write, Over, Labels, history
  <2>4. CASE /\ \E s \in Shards : token' = [token EXCEPT ![w][s] = 0]
             /\ pc' = [pc EXCEPT ![w] = "close"]
             /\ UNCHANGED <<kind, span, num, todo, mine, left, failed>>
    BY <1>a, <1>9, <2>1, <2>4 DEF WriterTypes, end_write, Labels, history
  <2> QED BY <1>a, <1>9, <2>2, <2>3, <2>4, Zenon DEF WriterTypes, end_write, Closed, Open, Labels
<1>10. ASSUME NEW w \in Writers, delete_writer_latch(w) PROVE WriterTypes'
  <2>1. latch' \in [Shards -> Writers \cup {None}]
    BY Zenon, <1>10, <1>a DEF WriterTypes, delete_writer_latch, Open
  <2>2. CASE UNCHANGED <<kind, span, num, todo, token, mine, left, failed>> /\ pc' \in [Writers -> Labels]
    BY Zenon, <1>a, <1>10, <2>1, <2>2 DEF WriterTypes, delete_writer_latch, history
  <2>3. CASE Over(w)
    BY <1>a, <1>10, <2>1, <2>3 DEF WriterTypes, delete_writer_latch, Over, Labels, history
  <2>4. CASE /\ \E s \in Shards : token' = [token EXCEPT ![w][s] = 0]
             /\ pc' = [pc EXCEPT ![w] = "close"]
             /\ UNCHANGED <<kind, span, num, todo, mine, left, failed>>
    BY <1>a, <1>10, <2>1, <2>4 DEF WriterTypes, delete_writer_latch, Labels, history
  <2> QED BY <1>a, <1>10, <2>2, <2>3, <2>4, Zenon DEF WriterTypes, delete_writer_latch, Closed,
      Open, Labels
<1>11. ASSUME NEW w \in Writers, acquire_lifecycle(w) PROVE WriterTypes'
  BY <1>a, <1>11 DEF WriterTypes, acquire_lifecycle, shared, writing, history, Labels
<1>12. ASSUME NEW w \in Writers, NewGeneration(w) PROVE WriterTypes'
  BY <1>a, <1>12 DEF WriterTypes, NewGeneration, shared, writing, history, Labels
<1>13. ASSUME NEW w \in Writers, reset_get(w) PROVE WriterTypes'
  BY <1>a, <1>13 DEF WriterTypes, reset_get, shared, writing, history, Labels
<1>14. ASSUME NEW w \in Writers, reset_put(w) PROVE WriterTypes'
  BY <1>a, <1>14 DEF WriterTypes, reset_put, shared, writing, history, Labels, Odd
<1>15. ASSUME NEW w \in Writers, reset_latch(w) PROVE WriterTypes'
  BY Zenon, <1>a, <1>15 DEF WriterTypes, reset_latch, shared, writing, history, Labels
<1>16. ASSUME NEW w \in Writers, reset_fence(w) PROVE WriterTypes'
  BY <1>a, <1>16 DEF WriterTypes, reset_fence, shared, writing, history, Labels
<1>17. ASSUME NEW w \in Writers, Replace(w) PROVE WriterTypes'
  BY <1>a, <1>17, RowAssumption DEF WriterTypes, Replace
<1>18. ASSUME NEW w \in Writers, LifecycleSuccess(w) PROVE WriterTypes'
  BY Zenon, <1>a, <1>18 DEF WriterTypes, LifecycleSuccess, shared, writing, history, Labels
<1>19. ASSUME NEW w \in Writers, DeleteLifecycle(w) PROVE WriterTypes'
  BY <1>a, <1>19 DEF WriterTypes, DeleteLifecycle, shared, writing, history, Labels, Over
<1>20. ASSUME NEW w \in Writers, LifecycleFailure(w) PROVE WriterTypes'
  BY <1>a, <1>20 DEF WriterTypes, LifecycleFailure, shared, writing, history, Labels, Over
<1>21. ASSUME NEW w \in Writers, Die(w) PROVE WriterTypes'
  BY <1>a, <1>21 DEF WriterTypes, Die, shared, writing, history, Labels, Over, Abandoned
<1>22. ASSUME NEW r \in Readers, ReaderAct(r) PROVE WriterTypes'
  <2>1. UNCHANGED WriterSide
    BY Zenon, <1>22, ReaderFrame
  <2>2. epoch' \in [Shards -> Nat] /\ latch' \in [Shards -> Writers \cup {None}]
    <3>1. epoch \in [Shards -> Nat] /\ latch \in [Shards -> Writers \cup {None}]
      BY Zenon, <1>a DEF WriterTypes
    <3>2. CASE RepairExchange(r)
      <4>1. PICK s \in Shards : \E e, v :
               /\ epoch' = [epoch EXCEPT ![s] = IF epoch[s] = e THEN epoch[s] + 1 ELSE epoch[s]]
               /\ latch' = [latch EXCEPT ![s] = IF latch[s] = v THEN None ELSE latch[s]]
        <5>1. broken[r] \in Shards
          BY Zenon, <3>2 DEF RepairExchange, IInv, ReaderInv, Attempting, Repairing, Noted,
              ReaderTypes
        <5> QED BY <3>2, <5>1, Zenon DEF RepairExchange
      <4>2. epoch' \in [Shards -> Nat]
        BY <4>1, <3>1
      <4>3. latch' \in [Shards -> Writers \cup {None}]
        BY Zenon, <4>1, <3>1
      <4> QED BY Zenon, <4>2, <4>3
    <3> QED BY Zenon, <1>22, <3>1, <3>2, ReaderFrame
  <2>3. shaken' \subseteq Shards
    <3>1. CASE ReadAct(r)
      BY Zenon, <1>a, <3>1, ReadBegins DEF BeginRead, StillShaken, WriterTypes
    <3> QED BY Zenon, <1>22, <1>a, <3>1, ReaderFrame DEF WriterTypes
  <2> QED BY Zenon, <1>a, <2>1, <2>2, <2>3 DEF WriterTypes, WriterSide, writing
<1>23. CASE UNCHANGED vars
  BY Zenon, <1>23, <1>a DEF WriterTypes, vars, shared, writing, history
<1> QED
  BY Zenon, <1>1, <1>2, <1>3, <1>4, <1>5, <1>6, <1>7, <1>8, <1>9, <1>10, <1>11, <1>12, <1>13, <1>14, <1>15, <1>16, <1>17, <1>18, <1>19, <1>20, <1>21, <1>22, <1>23 DEF
      Next, BeginAct, WriterStep, ReaderAct, ReadAct

\* A reader that forgets its attempt keeps the types.
LEMMA ForgetTypes ==
    ASSUME NEW r \in Readers, ReaderTypes, Forget(r)
    PROVE  /\ before' \in [Readers -> [Shards -> Nat]]
           /\ since' \in [Readers -> Nat]
           /\ unread' \in [Readers -> SUBSET Rows]
           /\ got' \in [Readers -> [Rows -> Counts]]
           /\ disturbed' \subseteq Readers /\ torn' \subseteq Readers /\ mixed' \subseteq Readers
<1> USE BoundAssumption DEF Counts
<1>1. before' \in [Readers -> [Shards -> Nat]]
  <2>1. [s \in Shards |-> 0] \in [Shards -> Nat]
    BY Zenon
  <2> QED BY Zenon, <2>1 DEF ReaderTypes, Forget
<1>2. since' \in [Readers -> Nat] /\ unread' \in [Readers -> SUBSET Rows]
  BY DEF ReaderTypes, Forget
<1>3. got' \in [Readers -> [Rows -> Counts]]
  <2>1. [x \in Rows |-> 0] \in [Rows -> Counts]
    OBVIOUS
  <2> QED BY Zenon, <2>1 DEF ReaderTypes, Forget
<1> QED BY Zenon, <1>1, <1>2, <1>3 DEF ReaderTypes, Forget

RepairTypes ==
    /\ broken \in [Readers -> Shards \cup {None}]
    /\ victim \in [Readers -> Writers \cup {None}]

\* A shard less to go through.
LEMMA PendTypes ==
    ASSUME NEW r \in Readers, NEW s, ReaderTypes, pend' = [pend EXCEPT ![r] = @ \ {s}]
    PROVE  pend' \in [Readers -> SUBSET Shards]
<1>1. pend[r] \ {s} \in SUBSET Shards
  BY Zenon DEF ReaderTypes
<1> QED BY Zenon, <1>1 DEF ReaderTypes

\* An attempt that begins again, ends or goes on keeps the types.
LEMMA MoveTypes ==
    ASSUME NEW r \in Readers, ReaderTypes, RepairTypes',
           Retry(r) \/ Back(r) \/ \E l \in ReadLabels : GoTo(r, l)
    PROVE  ReaderTypes'
<1>1. CASE Retry(r)
  <2>1. at' \in [Readers -> ReadLabels] /\ pend' \in [Readers -> SUBSET Shards]
    BY Zenon, <1>1 DEF Retry, ReaderTypes, ReadLabels
  <2> QED BY <1>1, <2>1, ForgetTypes, Zenon DEF Retry, ReaderTypes, RepairTypes
<1>2. CASE Back(r)
  <2>1. /\ at' \in [Readers -> ReadLabels] /\ mode' \in [Readers -> {"plain", "promoted"}]
        /\ asked' \in [Readers -> SUBSET Shards] /\ pend' \in [Readers -> SUBSET Shards]
    BY Zenon, <1>2 DEF Back, ReaderTypes, ReadLabels
  <2> QED BY <1>2, <2>1, ForgetTypes, Zenon DEF Back, ReaderTypes, RepairTypes
<1>3. CASE \E l \in ReadLabels : GoTo(r, l)
  BY <1>3 DEF GoTo, ReaderTypes, RepairTypes
<1> QED BY Zenon, <1>1, <1>2, <1>3

\* The readers' state keeps its types.
LEMMA ReaderTypesStep == IInv /\ [Next]_vars => ReaderTypes'
<1> SUFFICES ASSUME IInv, [Next]_vars PROVE ReaderTypes'
  BY Zenon
<1>a. WriterTypes /\ ReaderTypes
  BY Zenon DEF IInv
<1> USE BoundAssumption DEF Counts
<1>1. ASSUME NEW r \in Readers, ReadAct(r) PROVE ReaderTypes'
  <2>1. PICK m \in {"plain", "promoted"}, S \in SUBSET Shards : BeginRead(r, m, S)
    BY Zenon, <1>1, ReadBegins
  <2>2. at' \in [Readers -> ReadLabels] /\ mode' \in [Readers -> {"plain", "promoted"}]
    BY Zenon, <1>a, <2>1 DEF BeginRead, ReaderTypes, ReadLabels
  <2>3. asked' \in [Readers -> SUBSET Shards] /\ pend' \in [Readers -> SUBSET Shards]
    BY Zenon, <1>a, <2>1 DEF BeginRead, ReaderTypes
  <2> QED BY Zenon, <1>a, <2>1, <2>2, <2>3 DEF BeginRead, ReaderTypes, history
<1>2. ASSUME NEW r \in Readers, read_epochs(r) PROVE ReaderTypes'
  <2>1. PICK s \in pend[r] : before' = [before EXCEPT ![r] = [before[r] EXCEPT ![s] = epoch[s]]]
    BY <1>2, Zenon DEF read_epochs
  <2>2. before' \in [Readers -> [Shards -> Nat]]
    BY Zenon, <1>a, <2>1 DEF WriterTypes, ReaderTypes
  <2>3. at' \in [Readers -> ReadLabels]
    BY <1>a, <1>2 DEF read_epochs, ReaderTypes, ReadLabels
  <2>a. pend[r] \subseteq Shards /\ asked[r] \subseteq Shards
    BY Zenon, <1>a DEF ReaderTypes
  <2>4. pend' \in [Readers -> SUBSET Shards]
    <3>1. \E X \in SUBSET Shards : pend' = [pend EXCEPT ![r] = X]
      BY Zenon, <1>2, <2>a DEF read_epochs
    <3> QED BY Zenon, <1>a, <3>1 DEF ReaderTypes
  <2>5. unread' \in [Readers -> SUBSET Rows]
    <3>1. RowsOf(asked[r]) \in SUBSET Rows
      BY Zenon DEF RowsOf
    <3>2. UNCHANGED unread \/ unread' = [unread EXCEPT ![r] = RowsOf(asked[r])]
      BY Zenon, <1>2 DEF read_epochs
    <3> QED BY Zenon, <1>a, <3>1, <3>2 DEF ReaderTypes
  <2> QED BY Zenon, <1>a, <1>2, <2>2, <2>3, <2>4, <2>5 DEF read_epochs, ReaderTypes, history
<1>3. ASSUME NEW r \in Readers, repair_dead_writer_epoch(r) PROVE ReaderTypes'
  <2>1. PICK s \in pend[r] :
           IF latch[s] \in alive
           THEN Repaired(r, s) /\ UNCHANGED <<broken, victim>>
           ELSE /\ broken' = [broken EXCEPT ![r] = s]
                /\ victim' = [victim EXCEPT ![r] = latch[s]]
                /\ GoTo(r, "exchange")
    BY Zenon, <1>3 DEF repair_dead_writer_epoch
  <2>2. s \in Shards /\ latch[s] \in Writers \cup {None}
    BY Zenon, <1>a, <2>1 DEF WriterTypes, ReaderTypes
  <2>3. RepairTypes'
    BY <1>a, <2>1, <2>2, Zenon DEF ReaderTypes, RepairTypes
  <2>4. Retry(r) \/ (\E l \in ReadLabels : GoTo(r, l)) \/ (Repaired(r, s) /\ pend[r] # {s})
    BY Zenon, <2>1 DEF Repaired, ReadLabels
  <2>5. CASE Repaired(r, s) /\ pend[r] # {s}
    <3>1. pend' = [pend EXCEPT ![r] = @ \ {s}] /\ at' = [at EXCEPT ![r] = "repair"]
      BY Zenon, <2>5 DEF Repaired
    <3>2. pend' \in [Readers -> SUBSET Shards]
      BY <1>a, <3>1, PendTypes, Zenon
    <3>3. at' \in [Readers -> ReadLabels]
      BY Zenon, <1>a, <3>1 DEF ReaderTypes, ReadLabels
    <3> QED BY Zenon, <1>a, <2>3, <2>5, <3>2, <3>3 DEF Repaired, ReaderTypes, RepairTypes
  <2> QED BY Zenon, <1>a, <2>3, <2>4, <2>5, MoveTypes
<1>4. ASSUME NEW r \in Readers, RepairExchange(r) PROVE ReaderTypes'
  <2>1. RepairTypes'
    BY Zenon, <1>a, <1>4 DEF ReaderTypes, RepairTypes, RepairExchange
  <2>2. Repaired(r, broken[r])
    BY Zenon, <1>4 DEF RepairExchange
  <2>3. CASE pend[r] # {broken[r]}
    <3>1. pend' = [pend EXCEPT ![r] = @ \ {broken[r]}] /\ at' = [at EXCEPT ![r] = "repair"]
      BY Zenon, <2>2, <2>3 DEF Repaired
    <3>2. pend' \in [Readers -> SUBSET Shards]
      BY <1>a, <3>1, PendTypes, Zenon
    <3>3. at' \in [Readers -> ReadLabels]
      BY Zenon, <1>a, <3>1 DEF ReaderTypes, ReadLabels
    <3> QED BY Zenon, <1>a, <2>1, <2>2, <2>3, <3>2, <3>3 DEF Repaired, ReaderTypes, RepairTypes
  <2>4. CASE Retry(r)
    BY Zenon, <1>a, <2>1, <2>4, MoveTypes
  <2> QED BY Zenon, <2>2, <2>3, <2>4 DEF Repaired
<1>5. ASSUME NEW r \in Readers, lifecycle_generation(r) PROVE ReaderTypes'
  <2>1. PICK s \in asked[r] : since' = [since EXCEPT ![r] = generation[s]]
    BY <1>5, Zenon DEF lifecycle_generation
  <2>2. generation[s] \in Nat
    BY Zenon, <1>a, <2>1 DEF WriterTypes, ReaderTypes
  <2> QED BY Zenon, <1>a, <1>5, <2>1, <2>2 DEF lifecycle_generation, ReaderTypes, ReadLabels,
      history
<1>6. ASSUME NEW r \in Readers, fence_clear(r) PROVE ReaderTypes'
  <2>1. RepairTypes'
    BY Zenon, <1>a, <1>6 DEF ReaderTypes, RepairTypes, fence_clear
  <2>2. Back(r) \/ \E l \in ReadLabels : GoTo(r, l)
    BY Zenon, <1>6 DEF fence_clear, ReadLabels
  <2> QED BY Zenon, <1>a, <2>1, <2>2, MoveTypes
<1>7. ASSUME NEW r \in Readers, lifecycle_clear(r) PROVE ReaderTypes'
  <2>1. RepairTypes'
    BY Zenon, <1>a, <1>7 DEF ReaderTypes, RepairTypes, lifecycle_clear
  <2>2. Back(r) \/ \E l \in ReadLabels : GoTo(r, l)
    BY Zenon, <1>7 DEF lifecycle_clear, ReadLabels
  <2> QED BY Zenon, <1>a, <2>1, <2>2, MoveTypes
<1>8. ASSUME NEW r \in Readers, ReadRow(r) PROVE ReaderTypes'
  <2>1. PICK x \in unread[r] : got' = [got EXCEPT ![r] = [got[r] EXCEPT ![x] = rows[x]]]
                           \/ got' = [got EXCEPT ![r] = [y \in Rows |-> 0]]
    BY Zenon, <1>8 DEF ReadRow
  <2>2. [got[r] EXCEPT ![x] = rows[x]] \in [Rows -> Counts] /\ [y \in Rows |-> 0] \in [Rows -> Counts]
    BY <1>a, <2>1 DEF WriterTypes, ReaderTypes
  <2>3. got' \in [Readers -> [Rows -> Counts]]
    BY <1>a, <2>1, <2>2, Zenon DEF ReaderTypes
  <2>4. at' \in [Readers -> ReadLabels]
    BY <1>a, <1>8, ZenonT(40) DEF ReadRow, ReaderTypes, ReadLabels
  <2>5. pend' \in [Readers -> SUBSET Shards]
    <3>1. UNCHANGED pend \/ pend' = [pend EXCEPT ![r] = asked[r]]
      BY Zenon, <1>8 DEF ReadRow
    <3> QED BY <1>a, <3>1, Zenon DEF ReaderTypes
  <2>6. unread' \in [Readers -> SUBSET Rows]
    BY <1>a, <1>8 DEF ReadRow, ReaderTypes
  <2>7. torn' \subseteq Readers /\ mixed' \subseteq Readers
    BY <1>a, <1>8 DEF ReadRow, ReaderTypes
  <2> QED BY Zenon, <1>a, <1>8, <2>3, <2>4, <2>5, <2>6, <2>7 DEF ReadRow, ReaderTypes
<1>9. ASSUME NEW r \in Readers, lifecycle_still_clear(r) PROVE ReaderTypes'
  <2>1. RepairTypes'
    BY Zenon, <1>a, <1>9 DEF ReaderTypes, RepairTypes, lifecycle_still_clear
  <2>2. Back(r) \/ \E l \in ReadLabels : GoTo(r, l)
    BY Zenon, <1>9 DEF lifecycle_still_clear, ReadLabels
  <2> QED BY Zenon, <1>a, <2>1, <2>2, MoveTypes
<1>10. ASSUME NEW r \in Readers, same_generation(r) PROVE ReaderTypes'
  <2>1. RepairTypes'
    BY Zenon, <1>a, <1>10 DEF ReaderTypes, RepairTypes, same_generation
  <2>2. Back(r) \/ \E l \in ReadLabels : GoTo(r, l)
    BY Zenon, <1>10 DEF same_generation, ReadLabels
  <2> QED BY Zenon, <1>a, <2>1, <2>2, MoveTypes
<1>11. ASSUME NEW r \in Readers, recheck_epochs(r) PROVE ReaderTypes'
  <2>1. RepairTypes'
    BY Zenon, <1>a, <1>11 DEF ReaderTypes, RepairTypes, recheck_epochs
  <2>2. CASE Retry(r)
    BY Zenon, <1>a, <2>1, <2>2, MoveTypes
  <2>3. CASE ~Retry(r)
    <3>1. PICK s \in pend[r] : /\ pend' = [pend EXCEPT ![r] = @ \ {s}]
                              /\ at' = [at EXCEPT ![r] = IF pend[r] = {s} THEN "done" ELSE @]
      BY Zenon, <1>11, <2>3 DEF recheck_epochs
    <3>2. pend' \in [Readers -> SUBSET Shards]
      BY <1>a, <3>1, PendTypes, Zenon
    <3>3. at' \in [Readers -> ReadLabels]
      BY Zenon, <1>a, <3>1 DEF ReaderTypes, ReadLabels
    <3> QED BY Zenon, <1>a, <1>11, <2>1, <2>3, <3>2, <3>3 DEF recheck_epochs, ReaderTypes,
        RepairTypes
  <2> QED BY Zenon, <2>2, <2>3
<1>12. ASSUME NEW r \in Readers, Return(r) PROVE ReaderTypes'
  <2>1. RepairTypes'
    BY Zenon, <1>a, <1>12 DEF ReaderTypes, RepairTypes, Return
  <2>2. Back(r) \/ \E l \in ReadLabels : GoTo(r, l)
    BY Zenon, <1>12 DEF Return, ReadLabels
  <2> QED BY Zenon, <1>a, <2>1, <2>2, MoveTypes
<1>13. ASSUME NEW w \in Writers, WriterAct(w) PROVE ReaderTypes'
  <2>1. UNCHANGED <<reading, torn, mixed>>
    BY Zenon, <1>13, WriterFrame
  <2>2. disturbed' \subseteq Readers
    BY Zenon, <1>13, <1>a, WriterFrame DEF ReaderTypes, Replace
  <2> QED BY Zenon, <1>a, <2>1, <2>2 DEF ReaderTypes, reading
<1>14. CASE UNCHANGED vars
  BY Zenon, <1>14, <1>a DEF ReaderTypes, vars, reading, history
<1> QED
  BY Zenon, <1>1, <1>2, <1>3, <1>4, <1>5, <1>6, <1>7, <1>8, <1>9, <1>10, <1>11, <1>12, <1>13, <1>14 DEF
      Next, BeginAct, WriterAct, ReaderStep, ReadAct

\* The state of writer v's own operation.
Own(v) == <<pc[v], kind[v], span[v], num[v], todo[v], token[v], mine[v], left[v]>>

\* A step of one writer leaves the operations of the others alone.
LEMMA OtherWriters ==
    ASSUME WriterTypes, NEW w \in Writers, WriterAct(w), NEW v \in Writers, v # w
    PROVE  UNCHANGED Own(v) /\ (v \in alive' <=> v \in alive) /\ (v \in failed' <=> v \in failed)
<1>1. CASE BeginAct(w)
  <2>1. PICK k \in Kinds, S \in SUBSET Shards : BeginOperation(w, k, S)
    BY Zenon, <1>1, Begins
  <2> QED BY Zenon, <2>1 DEF BeginOperation, Own, WriterTypes, shared
<1>2. CASE acquire_writer_latch(w)
  BY Zenon, <1>2 DEF acquire_writer_latch, Own, WriterTypes
<1>3. CASE repair_orphaned_odd_epoch(w)
  BY Zenon, <1>3 DEF repair_orphaned_odd_epoch, Own, WriterTypes
<1>4. CASE begin_atomic_write(w)
  BY <1>4 DEF begin_atomic_write, Own, WriterTypes
<1>5. CASE register_fence(w)
  BY Zenon, <1>5 DEF register_fence, Own, WriterTypes
<1>6. CASE publish(w)
  BY Zenon, <1>6 DEF publish, Own, WriterTypes
<1>7. CASE fail_scope(w)
  BY Zenon, <1>7 DEF fail_scope, Own, WriterTypes, shared
<1>8. CASE finish(w)
  BY Zenon, <1>8 DEF finish, Own, WriterTypes
<1>9. CASE end_write(w)
  BY <1>9 DEF end_write, Own, WriterTypes, Closed, Over
<1>10. CASE delete_writer_latch(w)
  BY <1>10 DEF delete_writer_latch, Own, WriterTypes, Closed, Over
<1>11. CASE acquire_lifecycle(w)
  BY Zenon, <1>11 DEF acquire_lifecycle, Own, WriterTypes
<1>12. CASE NewGeneration(w)
  BY Zenon, <1>12 DEF NewGeneration, Own, WriterTypes
<1>13. CASE reset_get(w)
  BY Zenon, <1>13 DEF reset_get, Own, WriterTypes, shared
<1>14. CASE reset_put(w)
  BY Zenon, <1>14 DEF reset_put, Own, WriterTypes
<1>15. CASE reset_latch(w)
  BY Zenon, <1>15 DEF reset_latch, Own, WriterTypes
<1>16. CASE reset_fence(w)
  BY Zenon, <1>16 DEF reset_fence, Own, WriterTypes
<1>17. CASE Replace(w)
  BY Zenon, <1>17 DEF Replace, Own, WriterTypes
<1>18. CASE LifecycleSuccess(w)
  BY Zenon, <1>18 DEF LifecycleSuccess, Own, WriterTypes
<1>19. CASE DeleteLifecycle(w)
  BY Zenon, <1>19 DEF DeleteLifecycle, Own, WriterTypes, Over
<1>20. CASE LifecycleFailure(w)
  BY <1>20 DEF LifecycleFailure, Own, WriterTypes, Over
<1>21. CASE Die(w)
  BY Zenon, <1>21 DEF Die, Own, WriterTypes, Over
<1> QED
  BY Zenon, <1>1, <1>2, <1>3, <1>4, <1>5, <1>6, <1>7, <1>8, <1>9, <1>10, <1>11, <1>12, <1>13, <1>14, <1>15, <1>16, <1>17, <1>18, <1>19, <1>20, <1>21 DEF
      WriterAct, WriterStep
\* A writer that steps stays in the same operation, or ends it.
LEMMA WriterMoves ==
    ASSUME NEW w \in Writers, WriterStep(w) \/ Die(w)
    PROVE  /\ pc[w] # "idle" /\ w \in alive
           /\ Over(w) \/ UNCHANGED <<kind, span, num>>
<1>1. CASE acquire_writer_latch(w)
  BY Zenon, <1>1 DEF acquire_writer_latch
<1>2. CASE repair_orphaned_odd_epoch(w)
  BY Zenon, <1>2 DEF repair_orphaned_odd_epoch
<1>3. CASE begin_atomic_write(w)
  BY Zenon, <1>3 DEF begin_atomic_write
<1>4. CASE register_fence(w)
  BY Zenon, <1>4 DEF register_fence
<1>5. CASE publish(w)
  BY Zenon, <1>5 DEF publish
<1>6. CASE fail_scope(w)
  BY Zenon, <1>6 DEF fail_scope
<1>7. CASE finish(w)
  BY Zenon, <1>7 DEF finish
<1>8. CASE end_write(w)
  BY Zenon, <1>8 DEF end_write, Closed
<1>9. CASE delete_writer_latch(w)
  BY Zenon, <1>9 DEF delete_writer_latch, Closed
<1>10. CASE acquire_lifecycle(w)
  BY Zenon, <1>10 DEF acquire_lifecycle
<1>11. CASE NewGeneration(w)
  BY Zenon, <1>11 DEF NewGeneration
<1>12. CASE reset_get(w)
  BY Zenon, <1>12 DEF reset_get
<1>13. CASE reset_put(w)
  BY Zenon, <1>13 DEF reset_put
<1>14. CASE reset_latch(w)
  BY Zenon, <1>14 DEF reset_latch
<1>15. CASE reset_fence(w)
  BY Zenon, <1>15 DEF reset_fence
<1>16. CASE Replace(w)
  BY Zenon, <1>16 DEF Replace
<1>17. CASE LifecycleSuccess(w)
  BY Zenon, <1>17 DEF LifecycleSuccess
<1>18. CASE DeleteLifecycle(w)
  BY Zenon, <1>18 DEF DeleteLifecycle
<1>19. CASE LifecycleFailure(w)
  BY Zenon, <1>19 DEF LifecycleFailure
<1>20. CASE Die(w)
  BY Zenon, <1>20 DEF Die
<1> QED
  BY Zenon, <1>1, <1>2, <1>3, <1>4, <1>5, <1>6, <1>7, <1>8, <1>9, <1>10, <1>11, <1>12, <1>13, <1>14, <1>15, <1>16, <1>17, <1>18, <1>19, <1>20 DEF
      WriterStep
\* A writer that steps has begun an operation, and keeps it until it is idle.
LEMMA WriterSteps ==
    ASSUME WriterTypes, NEW w \in Writers, WriterStep(w) \/ Die(w)
    PROVE  /\ pc[w] # "idle" /\ w \in alive
           /\ pc'[w] # "idle" => UNCHANGED <<kind[w], span[w], num[w]>>
<1>1. CASE Over(w)
  BY <1>1, WriterMoves, Zenon DEF Over, WriterTypes
<1> QED BY Zenon, <1>1, WriterMoves

\* Operations on the same shard stay of kinds that may overlap: every start looks
\* at all the operations under way.
LEMMA OverlapStep == IInv /\ [Next]_vars => OverlapInv'
<1> SUFFICES ASSUME IInv, [Next]_vars PROVE OverlapInv'
  BY Zenon
<1>a. WriterTypes /\ OverlapInv /\ \A w \in Writers : Shape(w)
  BY Zenon DEF IInv, WriterInv
<1> SUFFICES ASSUME NEW u \in Writers, NEW v \in Writers, u # v,
                    pc'[u] # "idle", pc'[v] # "idle", NEW s, s \in span'[u], s \in span'[v]
             PROVE  /\ MayOverlap(kind'[u], kind'[v])
                    /\ s \notin shaken' => ~Clash(kind'[u], kind'[v])
  BY Zenon DEF OverlapInv, MayOverlap, Clash, Publishes
<1>b. ASSUME UNCHANGED <<kind[u], span[u], kind[v], span[v]>>, pc[u] # "idle", pc[v] # "idle"
      PROVE  /\ MayOverlap(kind'[u], kind'[v])
             /\ s \notin shaken' => ~Clash(kind'[u], kind'[v])
  <2>1. Clash(kind[u], kind[v]) => kind[u] # "replace"
    BY Zenon DEF Clash, Publishes
  <2>2. MayOverlap(kind[u], kind[v]) /\ (s \notin shaken => ~Clash(kind[u], kind[v]))
    BY Zenon, <1>a, <1>b DEF OverlapInv
  <2> QED BY Zenon, <1>b, <2>1, <2>2, Unshaken
<1>1. ASSUME NEW w \in Writers, BeginAct(w)
      PROVE  /\ MayOverlap(kind'[u], kind'[v])
             /\ s \notin shaken' => ~Clash(kind'[u], kind'[v])
  <2>1. PICK k \in Kinds, S \in SUBSET Shards : BeginOperation(w, k, S)
    BY Zenon, <1>1, Begins
  <2>2. /\ \A y \in Writers : y # w => pc'[y] = pc[y] /\ span'[y] = span[y] /\ kind'[y] = kind[y]
        /\ span'[w] = S /\ kind'[w] = k
    BY Zenon, <2>1, <1>a DEF BeginOperation, WriterTypes
  <2>3. ASSUME NEW y \in Writers, y # w, pc[y] # "idle", s \in span[y], s \in S
        PROVE  /\ MayOverlap(k, kind[y]) /\ MayOverlap(kind[y], k)
               /\ s \notin shaken' => ~Clash(k, kind[y]) /\ ~Clash(kind[y], k)
    BY Zenon, <2>1, <2>3, <1>a DEF BeginOperation, Shape, MayOverlap, Clash
  <2>4. CASE u # w /\ v # w
    BY Zenon, <2>2, <2>4, <1>b
  <2>5. CASE u = w
    BY Zenon, <2>2, <2>3, <2>5
  <2>6. CASE v = w
    BY Zenon, <2>2, <2>3, <2>6
  <2> QED BY Zenon, <2>4, <2>5, <2>6
<1>2. ASSUME NEW w \in Writers, WriterStep(w) \/ Die(w)
      PROVE  /\ MayOverlap(kind'[u], kind'[v])
             /\ s \notin shaken' => ~Clash(kind'[u], kind'[v])
  <2>1. ASSUME NEW y \in Writers, pc'[y] # "idle"
        PROVE  pc[y] # "idle" /\ span'[y] = span[y] /\ kind'[y] = kind[y]
    <3>1. CASE y = w
      BY Zenon, <1>2, <1>a, <2>1, <3>1, WriterSteps
    <3>2. CASE y # w
      BY Zenon, <1>2, <1>a, <2>1, <3>2, OtherWriters DEF WriterAct, Own
    <3> QED BY Zenon, <3>1, <3>2
  <2> QED BY Zenon, <1>b, <2>1
<1>3. ASSUME NEW r \in Readers, ReaderAct(r)
      PROVE  /\ MayOverlap(kind'[u], kind'[v])
             /\ s \notin shaken' => ~Clash(kind'[u], kind'[v])
  BY Zenon, <1>3, <1>b, ReaderFrame DEF WriterSide, writing
<1>4. CASE UNCHANGED vars
  BY Zenon, <1>4, <1>b DEF vars, writing
<1> QED
  BY Zenon, <1>1, <1>2, <1>3, <1>4 DEF Next, BeginAct, WriterAct, ReaderAct, ReadAct

-----------------------------------------------------------------------------
(* What a writer holds *)

\* The state of an operation that begins.
LEMMA BeginOwn ==
    ASSUME WriterTypes, NEW w \in Writers, BeginAct(w)
    PROVE  /\ pc[w] = "idle" /\ w \in alive
           /\ UNCHANGED <<shared, token[w], mine[w], failed, dirty>>
           /\ pubs' = pubs + 1 /\ num'[w] = pubs + 1
           /\ kind'[w] \in Kinds
           /\ pc'[w] = IF Publishes(kind'[w]) THEN "latch" ELSE "barrier"
           /\ kind'[w] # "promoted" => \E s \in Shards : span'[w] = {s}
           /\ span'[w] \subseteq Shards /\ todo'[w] = span'[w] /\ left'[w] = RowsOf(span'[w])
<1>1. PICK k \in Kinds, S \in SUBSET Shards :
         BeginOperation(w, k, S) /\ (k # "promoted" => \E s \in Shards : S = {s})
  BY Zenon, Begins
<1> QED BY Zenon, <1>1 DEF BeginOperation, WriterTypes

\* The label of a writer fits the rest of its state.
LEMMA ShapeOwn ==
    ASSUME WriterTypes, NEW w \in Writers, Shape(w), WriterAct(w)
    PROVE  Shape(w)'
<1>a. WriterTypes /\ Shape(w)
  BY Zenon
<1>1. CASE BeginAct(w)
  BY <1>1, <1>a, BeginOwn DEF Shape, Kinds, Publishes, PubLabels, RowsOf, shared, WriterTypes
<1>2. CASE acquire_writer_latch(w)
  BY Zenon, <1>2, <1>a DEF acquire_writer_latch, Shape, WriterTypes, Publishes, PubLabels, Open,
      RowsOf
<1>3. CASE repair_orphaned_odd_epoch(w)
  BY Zenon, <1>3, <1>a DEF repair_orphaned_odd_epoch, Shape, WriterTypes, Publishes, PubLabels,
      Open, RowsOf
<1>4. CASE begin_atomic_write(w)
  BY SMTT(30), <1>4, <1>a DEF begin_atomic_write, Shape, WriterTypes, Publishes, PubLabels, Open,
      RowsOf
<1>5. CASE register_fence(w)
  BY SMTT(30), <1>5, <1>a DEF register_fence, Shape, WriterTypes, Publishes, PubLabels, Open, RowsOf
<1>6. CASE publish(w)
  BY <1>6, <1>a DEF publish, Shape, WriterTypes, Publishes, PubLabels, Open, RowsOf
<1>7. CASE fail_scope(w)
  BY Zenon, <1>7, <1>a DEF fail_scope, Shape, WriterTypes, Publishes, PubLabels, Open, RowsOf,
      shared
<1>8. CASE finish(w)
  BY Zenon, <1>8, <1>a DEF finish, Shape, WriterTypes, Publishes, PubLabels, Open, RowsOf
<1>9. CASE end_write(w)
  <2>1. CASE Over(w)
    BY Zenon, <1>a, <1>9, <2>1 DEF end_write, Over, Shape, WriterTypes
  <2>2. CASE UNCHANGED <<kind, span, todo, token, mine, left, alive>> /\ pc' = [pc EXCEPT ![w] = "unlatch"]
    BY Zenon, <1>a, <1>9, <2>2 DEF end_write, Shape, WriterTypes, Publishes, PubLabels
  <2>3. CASE /\ UNCHANGED <<kind, span, todo, mine, left, alive>> /\ pc' = [pc EXCEPT ![w] = "close"]
             /\ \E s \in Shards : token' = [token EXCEPT ![w][s] = 0]
    BY <1>a, <1>9, <2>3 DEF end_write, Shape, WriterTypes, Publishes, PubLabels
  <2> QED BY Zenon, <1>9, <2>1, <2>2, <2>3 DEF end_write, Closed, Open
<1>10. CASE delete_writer_latch(w)
  <2>1. CASE Over(w)
    BY Zenon, <1>a, <1>10, <2>1 DEF delete_writer_latch, Over, Shape, WriterTypes
  <2>2. CASE UNCHANGED <<kind, span, todo, token, mine, left, alive>> /\ pc' = [pc EXCEPT ![w] = "unlatch"]
    BY Zenon, <1>a, <1>10, <2>2 DEF delete_writer_latch, Shape, WriterTypes, Publishes, PubLabels
  <2>3. CASE /\ UNCHANGED <<kind, span, todo, mine, left, alive>> /\ pc' = [pc EXCEPT ![w] = "close"]
             /\ \E s \in Shards : token' = [token EXCEPT ![w][s] = 0]
    BY <1>a, <1>10, <2>3 DEF delete_writer_latch, Shape, WriterTypes, Publishes, PubLabels
  <2> QED BY Zenon, <1>10, <2>1, <2>2, <2>3 DEF delete_writer_latch, Closed, Open
<1>11. CASE acquire_lifecycle(w)
  BY Zenon, <1>11, <1>a DEF acquire_lifecycle, Shape, WriterTypes, Publishes, PubLabels, Open,
      RowsOf
<1>12. CASE NewGeneration(w)
  BY Zenon, <1>12, <1>a DEF NewGeneration, Shape, WriterTypes, Publishes, PubLabels, Open, RowsOf
<1>13. CASE reset_get(w)
  BY <1>13, <1>a DEF reset_get, Shape, WriterTypes, Publishes, PubLabels, Open, RowsOf, shared
<1>14. CASE reset_put(w)
  BY Zenon, <1>14, <1>a DEF reset_put, Shape, WriterTypes, Publishes, PubLabels, Open, RowsOf
<1>15. CASE reset_latch(w)
  BY Zenon, <1>15, <1>a DEF reset_latch, Shape, WriterTypes, Publishes, PubLabels, Open, RowsOf
<1>16. CASE reset_fence(w)
  BY SMTT(30), <1>16, <1>a DEF reset_fence, Shape, WriterTypes, Publishes, PubLabels, Open, RowsOf
<1>17. CASE Replace(w)
  BY <1>17, <1>a DEF Replace, Shape, WriterTypes, Publishes, PubLabels, Open, RowsOf
<1>18. CASE LifecycleSuccess(w)
  BY Zenon, <1>18, <1>a DEF LifecycleSuccess, Shape, WriterTypes, Publishes, PubLabels, Open, RowsOf
<1>19. CASE DeleteLifecycle(w)
  BY Zenon, <1>19, <1>a DEF DeleteLifecycle, Shape, WriterTypes, Publishes, PubLabels, Open,
      RowsOf, Over
<1>20. CASE LifecycleFailure(w)
  BY <1>20, <1>a DEF LifecycleFailure, Shape, WriterTypes, Publishes, PubLabels, Open, RowsOf, Over
<1>21. CASE Die(w)
  BY Zenon, <1>21, <1>a DEF Die, Shape, WriterTypes, Publishes, PubLabels, Open, RowsOf, Over
<1> QED
  BY Zenon, <1>1, <1>2, <1>3, <1>4, <1>5, <1>6, <1>7, <1>8, <1>9, <1>10, <1>11, <1>12, <1>13, <1>14, <1>15, <1>16, <1>17, <1>18, <1>19, <1>20, <1>21 DEF
      WriterAct, WriterStep

\* Which steps of a writer change which part of the shared state.
LEMMA Changes ==
    ASSUME NEW w \in Writers, WriterAct(w)
    PROVE  /\ UNCHANGED epoch \/ repair_orphaned_odd_epoch(w) \/ begin_atomic_write(w)
                              \/ end_write(w) \/ reset_put(w)
           /\ UNCHANGED latch \/ acquire_writer_latch(w) \/ delete_writer_latch(w) \/ reset_latch(w)
           /\ UNCHANGED fence \/ register_fence(w) \/ finish(w) \/ reset_fence(w) \/ LifecycleSuccess(w)
           /\ UNCHANGED life \/ acquire_lifecycle(w) \/ DeleteLifecycle(w) \/ LifecycleFailure(w)
           /\ UNCHANGED generation \/ NewGeneration(w)
           /\ UNCHANGED rows \/ publish(w) \/ Replace(w)
           /\ UNCHANGED dirty \/ fail_scope(w) \/ Die(w) \/ Replace(w) \/ LifecycleSuccess(w)
           /\ UNCHANGED pubs \/ BeginAct(w)
           /\ alive' \subseteq alive
<1>1. CASE BeginAct(w)
  BY <1>1, Zenon DEF BeginAct, shared, history, with_write, with_scope, with_lifecycle, init,
      BeginOperation
<1>2. CASE acquire_writer_latch(w)
  BY Zenon, <1>2 DEF acquire_writer_latch, shared, history
<1>3. CASE repair_orphaned_odd_epoch(w)
  BY <1>3, Zenon DEF repair_orphaned_odd_epoch, shared, history
<1>4. CASE begin_atomic_write(w)
  BY <1>4, Zenon DEF begin_atomic_write, shared, history
<1>5. CASE register_fence(w)
  BY <1>5, Zenon DEF register_fence, shared, history
<1>6. CASE publish(w)
  BY <1>6, Zenon DEF publish, shared, history
<1>7. CASE fail_scope(w)
  BY Zenon, <1>7 DEF fail_scope, shared, history
<1>8. CASE finish(w)
  BY Zenon, <1>8 DEF finish, shared, history
<1>9. CASE end_write(w)
  BY Zenon, <1>9 DEF end_write, shared, history, Closed
<1>10. CASE delete_writer_latch(w)
  BY <1>10, Zenon DEF delete_writer_latch, shared, history, Closed
<1>11. CASE acquire_lifecycle(w)
  BY <1>11, Zenon DEF acquire_lifecycle, shared, history
<1>12. CASE NewGeneration(w)
  BY <1>12, Zenon DEF NewGeneration, shared, history
<1>13. CASE reset_get(w)
  BY Zenon, <1>13 DEF reset_get, shared, history
<1>14. CASE reset_put(w)
  BY <1>14, Zenon DEF reset_put, shared, history
<1>15. CASE reset_latch(w)
  BY <1>15, Zenon DEF reset_latch, shared, history
<1>16. CASE reset_fence(w)
  BY <1>16, Zenon DEF reset_fence, shared, history
<1>17. CASE Replace(w)
  BY <1>17, Zenon DEF Replace, shared, history
<1>18. CASE LifecycleSuccess(w)
  BY <1>18, Zenon DEF LifecycleSuccess, shared, history
<1>19. CASE DeleteLifecycle(w)
  BY <1>19, Zenon DEF DeleteLifecycle, shared, history
<1>20. CASE LifecycleFailure(w)
  BY <1>20, Zenon DEF LifecycleFailure, shared, history
<1>21. CASE Die(w)
  BY Zenon, <1>21 DEF Die, shared, history
<1> QED
  BY <1>1, <1>2, <1>3, <1>4, <1>5, <1>6, <1>7, <1>8, <1>9, <1>10, <1>11, <1>12, <1>13, <1>14, <1>15, <1>16, <1>17, <1>18, <1>19, <1>20, <1>21, Zenon DEF
      WriterAct, WriterStep
\* A shard has one process, which starts once at a time; a scope shares its shard only
\* with plain writes and a start; and a start meets no publication on a shard that is
\* not shaken.
LEMMA Alone ==
    ASSUME OverlapInv, NEW v \in Writers, NEW w \in Writers, v # w,
           pc[v] # "idle", pc[w] # "idle", NEW s \in Shards, s \in span[v], s \in span[w]
    PROVE  /\ kind[v] # "startup" \/ kind[w] # "startup"
           /\ kind[v] = "promoted" => kind[w] \in {"plain", "startup"}
           /\ s \notin shaken => ~Clash(kind[v], kind[w])
BY Zenon DEF OverlapInv, MayOverlap

\* Of a set of shards one is the least, and one the greatest.
LEMMA Extremes ==
    ASSUME NEW S \in SUBSET Shards, NEW s \in S, NEW t \in S
    PROVE  /\ Least(s, S) /\ Least(t, S) => s = t
           /\ Greatest(s, S) /\ Greatest(t, S) => s = t
BY ShardAssumption DEF Least, Greatest

\* A publication opens its shards one by one, each under its latch.
LEMMA OpeningOwn ==
    ASSUME WriterTypes, NEW w \in Writers, Shape(w), Opening(w), WriterAct(w)
    PROVE  Opening(w)'
<1>a. WriterTypes /\ Shape(w) /\ Opening(w)
  BY Zenon
<1>b. todo[w] \in SUBSET Shards
  BY Zenon DEF WriterTypes
<1>1. CASE BeginAct(w)
  <2>1. \A s \in Shards : token'[w][s] = 0
    BY Zenon, <1>1, <1>a, BeginOwn DEF Shape
  <2> QED BY Zenon, <1>1, <1>a, <2>1, BeginOwn DEF Opening
<1>2. CASE acquire_writer_latch(w)
  <2>1. PICK s \in todo[w] : Least(s, todo[w]) /\ (latch' = [latch EXCEPT ![s] = w] \/ pc' = pc)
    BY Zenon, <1>2 DEF acquire_writer_latch
  <2>2. s \in Shards /\ \A t \in todo[w] : Least(t, todo[w]) => t = s
    <3>1. ASSUME NEW t \in todo[w], Least(t, todo[w]) PROVE t = s
      BY Zenon, <1>b, <2>1, <3>1, Extremes
    <3> QED BY Zenon, <1>b, <2>1, <3>1
  <2>3. UNCHANGED <<span, todo, token>> /\ pc[w] = "latch" /\ pc'[w] \in {"latch", "repair"}
    BY Zenon, <1>2, <1>a DEF acquire_writer_latch, WriterTypes
  <2>4. pc'[w] = "repair" => latch'[s] = w
    BY Zenon, <1>a, <2>1, <2>2, <2>3 DEF WriterTypes
  <2> QED BY Zenon, <1>a, <2>2, <2>3, <2>4 DEF Opening, Least
<1>3. CASE repair_orphaned_odd_epoch(w)
  BY Zenon, <1>3, <1>a, <1>b DEF repair_orphaned_odd_epoch, Opening, WriterTypes, Shape, Least,
      Publishes, history
<1>4. CASE begin_atomic_write(w)
  BY SMTT(30), <1>4, <1>a, <1>b DEF begin_atomic_write, Opening, WriterTypes, Shape, Least,
      Publishes
<1>5. CASE register_fence(w)
  BY <1>5, <1>a, <1>b DEF register_fence, Opening, WriterTypes, Shape, Least, Publishes
<1>6. CASE publish(w)
  BY Zenon, <1>6, <1>a, <1>b DEF publish, Opening, WriterTypes, Shape, Least, Publishes
<1>7. CASE fail_scope(w)
  BY Zenon, <1>7, <1>a, <1>b DEF fail_scope, Opening, WriterTypes, Shape, Least, Publishes, shared
<1>8. CASE finish(w)
  BY Zenon, <1>8, <1>a, <1>b DEF finish, Opening, WriterTypes, Shape, Least, Publishes
<1>9. CASE end_write(w)
  BY SMTT(30), <1>9, <1>a, <1>b DEF end_write, Opening, WriterTypes, Shape, Least, Publishes,
      Closed, Over
<1>10. CASE delete_writer_latch(w)
  BY <1>10, <1>a, <1>b DEF delete_writer_latch, Opening, WriterTypes, Shape, Least, Publishes,
      Closed, Over
<1>11. CASE acquire_lifecycle(w)
  BY Zenon, <1>11, <1>a, <1>b DEF acquire_lifecycle, Opening, WriterTypes, Shape, Least, Publishes
<1>12. CASE NewGeneration(w)
  BY Zenon, <1>12, <1>a, <1>b DEF NewGeneration, Opening, WriterTypes, Shape, Least, Publishes
<1>13. CASE reset_get(w)
  BY Zenon, <1>13, <1>a, <1>b DEF reset_get, Opening, WriterTypes, Shape, Least, Publishes, shared
<1>14. CASE reset_put(w)
  BY Zenon, <1>14, <1>a, <1>b DEF reset_put, Opening, WriterTypes, Shape, Least, Publishes
<1>15. CASE reset_latch(w)
  BY Zenon, <1>15, <1>a, <1>b DEF reset_latch, Opening, WriterTypes, Shape, Least, Publishes
<1>16. CASE reset_fence(w)
  BY Zenon, <1>16, <1>a, <1>b DEF reset_fence, Opening, WriterTypes, Shape, Least, Publishes
<1>17. CASE Replace(w)
  BY Zenon, <1>17, <1>a, <1>b DEF Replace, Opening, WriterTypes, Shape, Least, Publishes
<1>18. CASE LifecycleSuccess(w)
  BY <1>18, <1>a, <1>b DEF LifecycleSuccess, Opening, WriterTypes, Shape, Least, Publishes
<1>19. CASE DeleteLifecycle(w)
  BY Zenon, <1>19, <1>a, <1>b DEF DeleteLifecycle, Opening, WriterTypes, Shape, Least, Publishes,
      Over
<1>20. CASE LifecycleFailure(w)
  BY <1>20, <1>a, <1>b DEF LifecycleFailure, Opening, WriterTypes, Shape, Least, Publishes, Over
<1>21. CASE Die(w)
  BY Zenon, <1>21, <1>a, <1>b DEF Die, Opening, WriterTypes, Shape, Least, Publishes, Over
<1> QED
  BY Zenon, <1>1, <1>2, <1>3, <1>4, <1>5, <1>6, <1>7, <1>8, <1>9, <1>10, <1>11, <1>12, <1>13, <1>14, <1>15, <1>16, <1>17, <1>18, <1>19, <1>20, <1>21 DEF
      WriterAct, WriterStep

\* A reset notes the epoch it reads.
LEMMA ResettingOwn ==
    ASSUME WriterTypes, NEW w \in Writers, Shape(w), Resetting(w), WriterAct(w)
    PROVE  Resetting(w)'
<1>a. WriterTypes /\ Shape(w) /\ Resetting(w)
  BY Zenon
<1>1. CASE BeginAct(w)
  BY <1>1, <1>a, BeginOwn, Zenon DEF Resetting, Kinds, Publishes, PubLabels, RowsOf, shared,
      WriterTypes, Shape
<1>2. CASE acquire_writer_latch(w)
  BY Zenon, <1>2, <1>a DEF acquire_writer_latch, Resetting, WriterTypes, Shape
<1>3. CASE repair_orphaned_odd_epoch(w)
  BY ZenonT(40), <1>3, <1>a DEF repair_orphaned_odd_epoch, Resetting, WriterTypes, Shape
<1>4. CASE begin_atomic_write(w)
  <2>1. pc'[w] # "reset_put"
    BY ZenonT(40), SMTT(20), <1>4, <1>a DEF begin_atomic_write, WriterTypes
  <2> QED BY Zenon, <2>1 DEF Resetting
<1>5. CASE register_fence(w)
  <2>1. pc'[w] # "reset_put"
    BY ZenonT(40), SMTT(20), <1>5, <1>a DEF register_fence, WriterTypes
  <2> QED BY Zenon, <2>1 DEF Resetting
<1>6. CASE publish(w)
  BY Zenon, <1>6, <1>a DEF publish, Resetting, WriterTypes, Shape
<1>7. CASE fail_scope(w)
  BY Zenon, <1>7, <1>a DEF fail_scope, Resetting, WriterTypes, Shape, shared
<1>8. CASE finish(w)
  BY ZenonT(40), <1>8, <1>a DEF finish, Resetting, WriterTypes, Shape
<1>9. CASE end_write(w)
  <2>1. pc'[w] # "reset_put"
    BY ZenonT(40), SMTT(20), <1>9, <1>a DEF end_write, WriterTypes, Closed, Over
  <2> QED BY Zenon, <2>1 DEF Resetting
<1>10. CASE delete_writer_latch(w)
  <2>1. pc'[w] # "reset_put"
    BY ZenonT(40), SMTT(20), <1>10, <1>a DEF delete_writer_latch, WriterTypes, Closed, Over
  <2> QED BY Zenon, <2>1 DEF Resetting
<1>11. CASE acquire_lifecycle(w)
  BY Zenon, <1>11, <1>a DEF acquire_lifecycle, Resetting, WriterTypes, Shape
<1>12. CASE NewGeneration(w)
  BY ZenonT(40), <1>12, <1>a DEF NewGeneration, Resetting, WriterTypes, Shape
<1>13. CASE reset_get(w)
  BY <1>13, <1>a DEF reset_get, Resetting, WriterTypes, Shape, shared
<1>14. CASE reset_put(w)
  BY Zenon, <1>14, <1>a DEF reset_put, Resetting, WriterTypes, Shape
<1>15. CASE reset_latch(w)
  BY Zenon, <1>15, <1>a DEF reset_latch, Resetting, WriterTypes, Shape
<1>16. CASE reset_fence(w)
  BY Zenon, <1>16, <1>a DEF reset_fence, Resetting, WriterTypes, Shape
<1>17. CASE Replace(w)
  BY Zenon, <1>17, <1>a DEF Replace, Resetting, WriterTypes, Shape
<1>18. CASE LifecycleSuccess(w)
  BY Zenon, <1>18, <1>a DEF LifecycleSuccess, Resetting, WriterTypes, Shape
<1>19. CASE DeleteLifecycle(w)
  BY Zenon, <1>19, <1>a DEF DeleteLifecycle, Resetting, WriterTypes, Shape, Over
<1>20. CASE LifecycleFailure(w)
  BY Zenon, <1>20, <1>a DEF LifecycleFailure, Resetting, WriterTypes, Shape, Over
<1>21. CASE Die(w)
  BY Zenon, <1>21, <1>a DEF Die, Resetting, WriterTypes, Shape, Over
<1> QED
  BY Zenon, <1>1, <1>2, <1>3, <1>4, <1>5, <1>6, <1>7, <1>8, <1>9, <1>10, <1>11, <1>12, <1>13, <1>14, <1>15, <1>16, <1>17, <1>18, <1>19, <1>20, <1>21 DEF
      WriterAct, WriterStep

\* What the repair of a reader can do to a shard: it closes an odd epoch that is the
\* token of no publication, and it deletes the latch of a writer that is dead.
LEMMA RepairEffect ==
    ASSUME WriterTypes, NEW r \in Readers, Repairing(r), ReaderAct(r), NEW s \in Shards
    PROVE  /\ \/ epoch'[s] = epoch[s]
              \/ /\ Odd(epoch[s]) /\ epoch'[s] = epoch[s] + 1
                 /\ s \notin shaken =>
                       \A w \in Writers : Publishes(kind[w]) => token[w][s] # epoch[s]
           /\ latch'[s] = latch[s] \/ latch[s] \notin alive
<1>1. CASE RepairExchange(r)
  <2>1. /\ at[r] = "exchange"
        /\ epoch' = [epoch EXCEPT ![broken[r]] = IF @ = before[r][broken[r]] THEN @ + 1 ELSE @]
        /\ latch' = [latch EXCEPT ![broken[r]] = IF @ = victim[r] THEN None ELSE @]
    BY Zenon, <1>1 DEF RepairExchange
  <2>2. CASE s = broken[r]
    BY Zenon, <2>1, <2>2 DEF WriterTypes, Repairing
  <2>3. CASE s # broken[r]
    BY Zenon, <2>1, <2>3 DEF WriterTypes
  <2> QED BY Zenon, <2>2, <2>3
<1> QED BY Zenon, <1>1, ReaderFrame

\* What the label of a writer says, the opening and the reset of the
\* epochs, kept by all steps.
LEMMA WriterInvStep == IInv /\ [Next]_vars => WriterInv'
<1> SUFFICES ASSUME IInv, [Next]_vars PROVE WriterInv'
  BY Zenon
<1>a. WriterTypes /\ ReaderTypes /\ OverlapInv /\ WriterInv
  BY Zenon DEF IInv
<1>1. ASSUME NEW w \in Writers, WriterAct(w) PROVE WriterInv'
  <2>2. Shape(w)' /\ Opening(w)' /\ Resetting(w)'
    BY Zenon, <1>1, <1>a, ShapeOwn, OpeningOwn, ResettingOwn DEF WriterInv
  <2>3. ASSUME NEW v \in Writers, v # w
        PROVE  Shape(v)' /\ Opening(v)' /\ Resetting(v)'
    <3>1. /\ Shape(v) /\ Opening(v) /\ Resetting(v) /\ Shape(w)
          /\ UNCHANGED Own(v) /\ (v \in alive' <=> v \in alive)
      BY Zenon, <1>1, <1>a, <2>3, OtherWriters DEF WriterInv
    <3>a. \A s \in span[v] : kind[v] # "replace" /\ s \notin shaken' => s \notin shaken
      BY Zenon, Unshaken
    <3>2. Shape(v)'
      BY Zenon, <3>1 DEF Shape, Own
    <3>4. Opening(v)'
      <4>1. ASSUME pc[v] \in {"repair", "open"}, NEW s \in todo[v], s \notin shaken, latch[s] = v
            PROVE  latch'[s] = v
        <5>1. /\ s \in Shards /\ s \in span[v] /\ v \in alive /\ v # None
              /\ pc[v] # "idle" /\ Publishes(kind[v])
          BY Zenon, <1>a, <3>1, <4>1, NoneAssumption DEF WriterTypes, Shape, PubLabels
        <5>2. CASE acquire_writer_latch(w)
          BY Zenon, <1>a, <4>1, <5>1, <5>2 DEF acquire_writer_latch, WriterTypes
        <5>3. CASE delete_writer_latch(w)
          BY Zenon, <1>a, <2>3, <4>1, <5>1, <5>3 DEF delete_writer_latch, WriterTypes
        <5>4. CASE reset_latch(w) /\ s \in span[w]
          BY Zenon, <1>a, <2>3, <3>1, <4>1, <5>1, <5>4, Alone DEF reset_latch, Shape, Clash
        <5>5. CASE reset_latch(w) /\ s \notin span[w]
          BY Zenon, <1>a, <4>1, <5>1, <5>5 DEF reset_latch, WriterTypes
        <5> QED BY Zenon, <1>1, <4>1, <5>2, <5>3, <5>4, <5>5, Changes
      <4>2. pc[v] \in {"repair", "open"} => kind[v] # "replace" /\ todo[v] \subseteq span[v]
        BY Zenon, <3>1 DEF Shape, PubLabels, Publishes
      <4> QED BY Zenon, <3>1, <3>a, <4>1, <4>2 DEF Opening, Own
    <3>5. Resetting(v)'
      <4>1. ASSUME pc[v] = "reset_put", NEW s \in span[v], s \notin shaken
            PROVE  epoch'[s] = epoch[s]
        <5>1. s \in Shards /\ kind[v] = "startup"
          BY Zenon, <1>a, <3>1, <4>1 DEF WriterTypes, Shape
        <5>2. pc[w] \in {"repair", "open", "close", "reset_put"} => s \notin span[w]
          <6>1. CASE pc[w] \in {"repair", "open", "close"}
            BY Zenon, <1>a, <2>3, <3>1, <4>1, <5>1, <6>1, Alone DEF Shape, PubLabels, Clash
          <6>2. CASE pc[w] = "reset_put"
            BY Zenon, <1>a, <2>3, <3>1, <4>1, <5>1, <6>2, Alone DEF Shape
          <6> QED BY Zenon, <6>1, <6>2
        <5>3. CASE repair_orphaned_odd_epoch(w)
          BY SMTT(30), <1>a, <3>1, <5>1, <5>2, <5>3 DEF repair_orphaned_odd_epoch, WriterTypes,
              Shape
        <5>4. CASE begin_atomic_write(w)
          BY SMTT(30), <1>a, <3>1, <5>1, <5>2, <5>4 DEF begin_atomic_write, WriterTypes, Shape
        <5>5. CASE end_write(w)
          BY <1>a, <3>1, <5>1, <5>2, <5>5 DEF end_write, Open, WriterTypes, Shape
        <5>6. CASE reset_put(w)
          BY Zenon, <1>a, <3>1, <5>1, <5>2, <5>6 DEF reset_put, WriterTypes, Shape
        <5> QED BY Zenon, <1>1, <5>3, <5>4, <5>5, <5>6, Changes
      <4>2. pc[v] = "reset_put" => kind[v] # "replace"
        BY Zenon, <3>1 DEF Shape
      <4> QED BY Zenon, <3>1, <3>a, <4>1, <4>2 DEF Resetting, Own
    <3> QED BY Zenon, <3>2, <3>4, <3>5
  <2> QED BY Zenon, <2>2, <2>3 DEF WriterInv
<1>2. ASSUME NEW r \in Readers, ReaderAct(r) PROVE WriterInv'
  <2>1. Repairing(r)
    BY Zenon DEF IInv, ReaderInv, Attempting
  <2>2. UNCHANGED <<writing, alive>>
    BY Zenon, <1>2, ReaderFrame DEF WriterSide
  <2>3. ASSUME NEW w \in Writers PROVE Shape(w)'
    BY Zenon, <1>a, <2>2 DEF writing, WriterInv, Shape
  <2>a. ASSUME NEW w \in Writers, pc[w] \in {"repair", "open", "reset_put"}
        PROVE  todo[w] \subseteq span[w] /\ \A s \in span[w] : s \notin shaken' => s \notin shaken
    <3>1. todo[w] \subseteq span[w] /\ kind[w] # "replace"
      BY Zenon, <1>a, <2>a DEF WriterInv, Shape, PubLabels, Publishes
    <3> QED BY Zenon, <3>1, Unshaken
  <2>4. ASSUME NEW w \in Writers PROVE Opening(w)'
    <3>1. ASSUME pc[w] \in {"repair", "open"}, NEW s \in todo[w], latch[s] = w PROVE latch'[s] = w
      BY ZenonT(40), <1>2, <1>a, <2>1, <3>1, RepairEffect DEF WriterTypes, WriterInv, Shape
    <3>2. Opening(w) /\ UNCHANGED <<pc, todo, span, token>>
      BY Zenon, <1>a, <2>2 DEF writing, WriterInv
    <3> QED BY Zenon, <2>a, <3>1, <3>2 DEF Opening
  <2>5. ASSUME NEW w \in Writers PROVE Resetting(w)'
    <3>1. ASSUME NEW s \in span[w]
          PROVE  epoch'[s] = epoch[s] \/ (Odd(epoch[s]) /\ epoch'[s] = epoch[s] + 1)
      BY Zenon, <1>2, <1>a, <2>1, RepairEffect DEF WriterTypes
    <3>2. ASSUME NEW s \in span[w] PROVE epoch[s] \in Nat /\ token[w][s] \in Nat
      BY ZenonT(40), <1>a DEF WriterTypes
    <3>3. Resetting(w) /\ UNCHANGED <<pc, span, token>>
      BY Zenon, <1>a, <2>2 DEF writing, WriterInv
    <3>4. ASSUME pc[w] = "reset_put", NEW s \in span[w], s \notin shaken'
          PROVE  \/ epoch'[s] = token[w][s]
                 \/ Odd(token[w][s]) /\ epoch'[s] = token[w][s] + 1
      <4>1. s \notin shaken
        BY Zenon, <2>a, <3>4
      <4>2. \/ epoch[s] = token[w][s]
            \/ Odd(token[w][s]) /\ epoch[s] = token[w][s] + 1
        BY Zenon, <3>3, <3>4, <4>1 DEF Resetting
      <4> QED BY <3>1, <3>2, <4>2 DEF Odd
    <3> QED BY Zenon, <3>3, <3>4 DEF Resetting
  <2> QED BY Zenon, <1>a, <2>2, <2>3, <2>4, <2>5 DEF WriterInv
<1>3. CASE UNCHANGED vars
  BY ZenonT(40), <1>3, <1>a DEF WriterInv, Shape, Opening, Resetting, vars, shared,
      writing, history
<1> QED
  BY Zenon, <1>1, <1>2, <1>3 DEF Next, BeginAct, WriterAct, ReaderAct, ReadAct

\* The epoch after an even one is odd.
LEMMA NextIsOdd == \A e \in Nat : ~Odd(e) => Odd(e + 1)
BY DEF Odd

\* A writer that holds a token is in the middle of a publication.
LEMMA HoldsAlive ==
    ASSUME WriterTypes, NEW w \in Writers, Shape(w), NEW s \in Shards, token[w][s] # 0
    PROVE  w \in alive /\ pc[w] # "idle" /\ s \in span[w] /\ w # None
BY Zenon, NoneAssumption DEF WriterTypes, Shape

\* The steps of a publication keep what the publication itself holds.
LEMMA HeldOwn ==
    ASSUME WriterTypes, NEW w \in Writers, Shape(w), Opening(w), WriterAct(w),
           NEW s \in Shards, \A t \in Shards : Held(w, t)
    PROVE  Held(w, s)'
<1>a. WriterTypes /\ Shape(w) /\ Opening(w) /\ Held(w, s)
  BY Zenon
<1>1. CASE BeginAct(w)
  BY Zenon, <1>1, <1>a, BeginOwn DEF Held, Shape
<1>2. CASE Over(w)
  BY Zenon, <1>2, <1>a DEF Held, Over, WriterTypes
<1>3. CASE acquire_writer_latch(w)
  <2>1. token[w][s] # 0 /\ Publishes(kind[w]) /\ s \notin shaken => latch'[s] = latch[s]
    <3> SUFFICES ASSUME token[w][s] # 0, Publishes(kind[w]), s \notin shaken
                 PROVE  latch'[s] = latch[s]
      BY Zenon
    <3>1. PICK x \in todo[w] : /\ latch[x] = None \/ latch[x] \notin alive
                              /\ \/ latch' = [latch EXCEPT ![x] = w]
                                 \/ latch' = [latch EXCEPT ![x] = None]
      BY Zenon, <1>3 DEF acquire_writer_latch
    <3>2. latch[s] = w /\ w \in alive /\ w # None
      BY Zenon, <1>a, HoldsAlive DEF Held
    <3>3. s # x
      BY Zenon, <3>1, <3>2
    <3>4. s \in DOMAIN latch
      BY Zenon, <1>a DEF WriterTypes
    <3> QED BY Zenon, <3>1, <3>3, <3>4
  <2>2. UNCHANGED <<epoch, kind, token, shaken>> /\ pc[w] # "unlatch"
    BY Zenon, <1>3 DEF acquire_writer_latch, history
  <2> QED BY Zenon, <1>a, <2>1, <2>2 DEF Held
<1>4. CASE repair_orphaned_odd_epoch(w)
  <2>1. token[w][s] # 0 => epoch'[s] = epoch[s]
    BY ZenonT(40), SMTT(20), <1>4, <1>a DEF repair_orphaned_odd_epoch, WriterTypes, Opening, Shape
  <2>2. UNCHANGED <<latch, kind, token, shaken>> /\ pc[w] # "unlatch"
    BY Zenon, <1>4 DEF repair_orphaned_odd_epoch, history
  <2> QED BY ZenonT(40), <1>a, <2>1, <2>2 DEF Held
<1>5. CASE begin_atomic_write(w)
  <2>1. PICK t \in todo[w] : /\ Least(t, todo[w]) /\ ~Odd(epoch[t])
                             /\ epoch' = [epoch EXCEPT ![t] = @ + 1]
                             /\ token' = [token EXCEPT ![w][t] = epoch[t] + 1]
    BY <1>5, Zenon DEF begin_atomic_write
  <2>2. UNCHANGED <<latch, kind, shaken>> /\ pc[w] = "open"
    BY Zenon, <1>5 DEF begin_atomic_write, history
  <2>3. CASE s = t
    <3>1. s \notin shaken => latch[s] = w
      BY Zenon, <1>a, <2>1, <2>2, <2>3 DEF Opening
    <3>2. epoch'[s] = epoch[s] + 1 /\ token'[w][s] = epoch[s] + 1
      BY Zenon, <1>a, <2>1, <2>3 DEF WriterTypes
    <3>3. Odd(epoch[s] + 1)
      BY Zenon, <1>a, <2>1, <2>3, NextIsOdd DEF WriterTypes
    <3> QED BY Zenon, <2>2, <3>1, <3>2, <3>3 DEF Held
  <2>4. CASE s # t
    <3>1. epoch'[s] = epoch[s] /\ token'[w][s] = token[w][s]
      BY Zenon, <1>a, <2>1, <2>4 DEF WriterTypes
    <3> QED BY Zenon, <1>a, <2>2, <3>1 DEF Held
  <2> QED BY Zenon, <2>3, <2>4
<1>6. CASE end_write(w)
  <2>1. PICK t \in Open(w) :
           /\ Greatest(t, Open(w))
           /\ IF epoch[t] = token[w][t]
              THEN /\ epoch' = [epoch EXCEPT ![t] = @ + 1]
                   /\ pc' = [pc EXCEPT ![w] = "unlatch"]
                   /\ UNCHANGED <<kind, token>>
              ELSE /\ Over(w) \/ (token' = [token EXCEPT ![w][t] = 0] /\ UNCHANGED kind)
                   /\ UNCHANGED epoch
    BY Zenon, <1>6 DEF end_write, Closed
  <2>2. UNCHANGED <<latch, shaken>> /\ pc[w] = "close"
    BY Zenon, <1>6 DEF end_write, history
  <2>3. CASE epoch[t] = token[w][t]
    <3>1. t \in Shards /\ Open(w)' = Open(w) /\ pc'[w] = "unlatch"
      BY Zenon, <1>a, <2>1, <2>3 DEF Open, WriterTypes
    <3>2. s # t => epoch'[s] = epoch[s]
      BY Zenon, <1>a, <2>1, <2>3 DEF WriterTypes
    <3>3. UNCHANGED <<kind, token, latch>> /\ Greatest(t, Open(w))
      BY Zenon, <2>1, <2>2, <2>3
    <3> QED BY Zenon, <1>a, <2>2, <3>1, <3>2, <3>3 DEF Held, Greatest
  <2>4. CASE epoch[t] # token[w][t] /\ ~Over(w)
    <3>1. /\ token' = [token EXCEPT ![w][t] = 0]
          /\ UNCHANGED <<kind, epoch>>
      BY Zenon, <2>1, <2>4
    <3>2. w \in DOMAIN token /\ s \in DOMAIN token[w]
      BY Zenon, <1>a DEF WriterTypes
    <3>3. token'[w][s] = 0 \/ token'[w][s] = token[w][s]
      BY Zenon, <3>1, <3>2
    <3> QED BY Zenon, <1>a, <2>2, <3>1, <3>3 DEF Held
  <2> QED BY Zenon, <1>2, <2>3, <2>4
<1>7. CASE delete_writer_latch(w) /\ ~Over(w)
  <2>1. PICK t \in Open(w) :
           /\ Greatest(t, Open(w))
           /\ latch' = [latch EXCEPT ![t] = IF @ = w THEN None ELSE @]
           /\ token' = [token EXCEPT ![w][t] = 0]
    BY <1>7, Zenon DEF delete_writer_latch, Closed
  <2>2. UNCHANGED <<epoch, kind, shaken>>
    BY Zenon, <1>7 DEF delete_writer_latch, Closed, history
  <2>3. CASE s = t
    <3>1. token'[w][s] = 0
      BY Zenon, <1>a, <2>1, <2>3 DEF WriterTypes
    <3> QED BY Zenon, <3>1 DEF Held
  <2>4. CASE s # t
    <3>1. latch'[s] = latch[s] /\ token'[w][s] = token[w][s]
      BY Zenon, <1>a, <2>1, <2>4 DEF WriterTypes, Open
    <3>2. ~Greatest(s, Open(w))
      BY <2>1, <2>4, Extremes, Zenon DEF Greatest, Open
    <3> QED BY Zenon, <1>a, <2>2, <3>1, <3>2 DEF Held
  <2> QED BY Zenon, <2>3, <2>4
<1>8. CASE ~Publishes(kind[w]) /\ ~BeginAct(w)
  BY Zenon, <1>8, <1>2, WriterMoves DEF Held, WriterAct
<1>9. CASE /\ Publishes(kind[w]) /\ ~Over(w) /\ ~BeginAct(w) /\ ~acquire_writer_latch(w)
           /\ ~repair_orphaned_odd_epoch(w) /\ ~begin_atomic_write(w)
           /\ ~end_write(w) /\ ~delete_writer_latch(w)
  <2>1. pc[w] \in PubLabels
    BY Zenon, <1>a, <1>9, WriterMoves DEF Shape, WriterAct
  <2>2. register_fence(w) \/ publish(w) \/ fail_scope(w) \/ finish(w)
    BY Zenon, <1>9, <2>1 DEF WriterAct, WriterStep, Die, acquire_lifecycle, NewGeneration,
        reset_get,
          reset_put, reset_latch, reset_fence, Replace, LifecycleSuccess, DeleteLifecycle,
          LifecycleFailure, PubLabels
  <2>3. UNCHANGED <<epoch, latch, kind, token, shaken>> /\ pc[w] # "unlatch"
    BY Zenon, <2>2 DEF register_fence, publish, fail_scope, finish, shared, history
  <2> QED BY Zenon, <1>a, <2>3 DEF Held
<1> QED
  BY Zenon, <1>1, <1>2, <1>3, <1>4, <1>5, <1>6, <1>7, <1>8, <1>9

\* A publication under way keeps its latches and epochs, whatever the others do.
LEMMA HeldStep == IInv /\ [Next]_vars => HeldInv'
<1> SUFFICES ASSUME IInv, [Next]_vars PROVE HeldInv'
  BY Zenon
<1>a. WriterTypes /\ OverlapInv /\ WriterInv /\ \A w \in Writers, s \in Shards : Held(w, s)
  BY Zenon DEF IInv, HeldInv
<1> SUFFICES ASSUME NEW v \in Writers, NEW s \in Shards PROVE Held(v, s)'
  BY Zenon DEF HeldInv
<1>b. Shape(v)
  BY Zenon, <1>a DEF WriterInv
<1>d. Publishes(kind[v]) /\ token[v][s] # 0 /\ s \notin shaken =>
         /\ Odd(token[v][s]) /\ latch[s] = v
         /\ epoch[s] = token[v][s] \/ (pc[v] = "unlatch" /\ Greatest(s, Open(v)))
  BY Zenon, <1>a DEF Held
<1>c. Publishes(kind[v]) /\ token[v][s] # 0 /\ s \notin shaken' => s \notin shaken
  BY Zenon, <1>b, Unshaken DEF Shape, Publishes
<1>1. ASSUME NEW w \in Writers, WriterAct(w) PROVE Held(v, s)'
  <2>1. CASE v = w
    BY ZenonT(40), <1>1, <1>a, <2>1, HeldOwn DEF WriterInv
  <2>2. CASE v # w /\ Publishes(kind[v]) /\ token[v][s] # 0 /\ s \notin shaken
    <3>1. UNCHANGED Own(v) /\ UNCHANGED Open(v)
      BY Zenon, <1>1, <1>a, <2>2, OtherWriters DEF Own, Open
    <3>2. latch[s] = v /\ v \in alive /\ v # None /\ pc[v] # "idle" /\ s \in span[v]
      BY Zenon, <1>a, <1>b, <2>2, HoldsAlive DEF Held
    <3>3. pc[w] # "idle" /\ s \in span[w] => kind[w] # "startup"
      BY Zenon, <1>a, <2>2, <3>2, Alone DEF Clash
    <3>4. Shape(w) /\ Opening(w) /\ Held(w, s)
      BY Zenon, <1>a DEF WriterInv
    <3>5. latch'[s] = v
      <4>1. CASE acquire_writer_latch(w)
        BY Zenon, <1>a, <3>2, <4>1 DEF acquire_writer_latch, WriterTypes
      <4>2. CASE delete_writer_latch(w)
        BY Zenon, <1>a, <2>2, <3>2, <4>2 DEF delete_writer_latch, WriterTypes
      <4>3. CASE reset_latch(w)
        BY Zenon, <1>a, <3>2, <3>3, <3>4, <4>3 DEF reset_latch, WriterTypes, Shape
      <4> QED BY Zenon, <1>1, <3>2, <4>1, <4>2, <4>3, Changes
    <3>6. epoch'[s] = epoch[s]
      <4>1. CASE repair_orphaned_odd_epoch(w)
        BY Zenon, <1>a, <2>2, <3>2, <3>4, <4>1 DEF repair_orphaned_odd_epoch, WriterTypes, Opening
      <4>2. CASE begin_atomic_write(w)
        BY <1>a, <2>2, <3>2, <3>4, <4>2 DEF begin_atomic_write, WriterTypes, Opening
      <4>3. CASE end_write(w)
        <5>1. token[w][s] = 0
          BY Zenon, <2>2, <3>2, <3>4, <4>3 DEF Held, end_write, Shape, Publishes, PubLabels
        <5> QED BY Zenon, <1>a, <4>3, <5>1 DEF end_write, WriterTypes, Open
      <4>4. CASE reset_put(w)
        BY Zenon, <1>a, <3>3, <3>4, <4>4 DEF reset_put, WriterTypes, Shape
      <4> QED BY Zenon, <1>1, <4>1, <4>2, <4>3, <4>4, Changes
    <3>7. UNCHANGED <<pc[v], kind[v], token[v]>> /\ UNCHANGED Open(v)
      BY Zenon, <3>1 DEF Own
    <3> QED BY Zenon, <1>d, <2>2, <3>5, <3>6, <3>7 DEF Held
  <2>3. CASE v # w /\ ~(Publishes(kind[v]) /\ token[v][s] # 0 /\ s \notin shaken)
    BY Zenon, <1>1, <1>a, <1>c, <2>3, OtherWriters DEF Held, Own
  <2> QED BY Zenon, <2>1, <2>2, <2>3
<1>2. ASSUME NEW r \in Readers, ReaderAct(r) PROVE Held(v, s)'
  <2>1. Repairing(r)
    BY Zenon DEF IInv, ReaderInv, Attempting
  <2>2. UNCHANGED <<writing, alive>> /\ UNCHANGED Open(v)
    BY Zenon, <1>2, ReaderFrame DEF WriterSide, writing, Open
  <2>3. CASE Publishes(kind[v]) /\ token[v][s] # 0 /\ s \notin shaken
    <3>1. latch'[s] = latch[s]
      BY ZenonT(40), SMTT(20), <1>2, <1>a, <1>b, <2>1, <2>3, RepairEffect, HoldsAlive DEF Held
    <3>2. epoch[s] = token[v][s] => epoch'[s] = epoch[s]
      BY Zenon, <1>2, <1>a, <2>1, <2>3, RepairEffect
    <3>3. UNCHANGED <<pc, kind, token>> /\ UNCHANGED Open(v)
      BY Zenon, <2>2 DEF writing
    <3> QED BY Zenon, <1>d, <2>3, <3>1, <3>2, <3>3 DEF Held
  <2> QED BY Zenon, <1>a, <1>c, <2>2, <2>3 DEF Held, writing
<1>3. CASE UNCHANGED vars
  BY Zenon, <1>3, <1>a DEF Held, Open, vars, shared, writing, history
<1> QED
  BY Zenon, <1>1, <1>2, <1>3 DEF Next, BeginAct, WriterAct, ReaderAct, ReadAct

\* How rows of a shard come to be abandoned.
LEMMA DirtyGrows ==
    ASSUME WriterTypes, NEW w \in Writers, Shape(w), WriterAct(w), NEW s \in Shards, s \in dirty', s \notin dirty
    PROVE  /\ s \in span[w] /\ pc[w] # "idle"
           /\ \/ /\ kind[w] = "promoted" /\ pc[w] = "publish" /\ s \notin shaken
                 /\ fail_scope(w) \/ Die(w)
              \/ pc[w] = "replace" /\ Replace(w)
<1>1. CASE fail_scope(w) \/ Die(w)
  BY Zenon, <1>1 DEF fail_scope, Die, Abandoned, Partial
<1>2. CASE Replace(w)
  BY <1>2, ZenonT(40) DEF Replace, Shape
<1>3. CASE LifecycleSuccess(w)
  BY Zenon, <1>3 DEF LifecycleSuccess
<1> QED BY Zenon, <1>1, <1>2, <1>3, Changes

\* How the fence of a shard goes.
LEMMA FenceDrops ==
    ASSUME WriterTypes, NEW w \in Writers, Shape(w), WriterAct(w),
           NEW s \in Shards, fence[s] # None, fence'[s] = None
    PROVE  /\ s \in span[w] /\ pc[w] # "idle"
           /\ \/ finish(w) /\ kind[w] = "promoted" /\ w \notin failed /\ s \in mine[w]
              \/ ~Publishes(kind[w]) /\ pc[w] \in Rewriting /\ (reset_fence(w) \/ s \notin dirty')
<1>1. CASE register_fence(w)
  BY <1>1, NoneAssumption DEF register_fence, WriterTypes
<1>2. CASE finish(w)
  BY Zenon, <1>2 DEF finish, Shape, WriterTypes
<1>3. CASE reset_fence(w)
  BY <1>3, Zenon DEF reset_fence, Shape, WriterTypes, Rewriting, PubLabels
<1>4. CASE LifecycleSuccess(w)
  BY Zenon, <1>4 DEF LifecycleSuccess, Shape, WriterTypes, Rewriting, PubLabels
<1> QED BY Zenon, <1>1, <1>2, <1>3, <1>4, Changes

\* How the lifecycle row of a shard goes.
LEMMA LifeDrops ==
    ASSUME WriterTypes, NEW w \in Writers, Shape(w), WriterAct(w),
           NEW s \in Shards, life[s] # None, life'[s] = None
    PROVE  s \in span[w] /\ pc[w] = "leave" /\ ~Publishes(kind[w]) /\ DeleteLifecycle(w)
<1>1. CASE acquire_lifecycle(w)
  BY Zenon, <1>1, NoneAssumption DEF acquire_lifecycle, WriterTypes
<1>2. CASE DeleteLifecycle(w)
  BY <1>2, NoneAssumption, Zenon DEF DeleteLifecycle, WriterTypes, Shape, PubLabels
<1>3. CASE LifecycleFailure(w)
  BY Zenon, <1>3, NoneAssumption DEF LifecycleFailure, WriterTypes
<1> QED BY Zenon, <1>1, <1>2, <1>3, Changes

\* Rows that are not whole stay behind a fence or a lifecycle row.
LEMMA AbandonedStep ==
    ASSUME IInv, NEW w \in Writers, WriterAct(w)
    PROVE  AbandonedIsFenced'
<1>a. WriterTypes /\ Shape(w) /\ AbandonedIsFenced /\ Barrier(w) /\ Fenced(w)
  BY Zenon DEF IInv, WriterInv, FenceInv
<1> SUFFICES ASSUME NEW s \in Shards, s \in dirty', fence'[s] = None, life'[s] = None PROVE FALSE
  BY Zenon, <1>a, WriterTypesStep DEF AbandonedIsFenced, WriterTypes, Next, WriterAct, BeginAct
<1>1. CASE s \notin dirty
  <2>1. CASE /\ kind[w] = "promoted" /\ pc[w] = "publish" /\ s \in span[w] /\ s \notin shaken
             /\ fail_scope(w) \/ Die(w)
    <3>1. fence[s] # None
      BY Zenon, <1>a, <2>1 DEF Fenced
    <3> QED BY Zenon, <2>1, <3>1 DEF fail_scope, Die, shared
  <2>2. CASE pc[w] = "replace" /\ s \in span[w] /\ Replace(w)
    <3>1. life[s] = w
      BY Zenon, <1>a, <2>2 DEF Barrier, Rewriting
    <3> QED BY Zenon, <2>2, <3>1, NoneAssumption DEF Replace
  <2> QED BY Zenon, <1>1, <1>a, <2>1, <2>2, DirtyGrows
<1>2. CASE s \in dirty /\ fence[s] # None /\ life[s] = None
  <2>1. CASE finish(w) /\ w \notin failed /\ s \in mine[w]
    BY Zenon, <1>a, <1>2, <2>1 DEF Fenced, finish
  <2>2. CASE pc[w] \in Rewriting /\ s \in span[w]
    BY Zenon, <1>a, <1>2, <2>2, NoneAssumption DEF Barrier
  <2> QED BY Zenon, <1>a, <1>2, <2>1, <2>2, FenceDrops
<1>3. CASE s \in dirty /\ life[s] # None
  BY Zenon, <1>a, <1>3, LifeDrops DEF Barrier
<1> QED BY Zenon, <1>a, <1>1, <1>2, <1>3 DEF AbandonedIsFenced

\* A lifecycle operation keeps its row, and leaves no row half rewritten.
LEMMA BarrierStep ==
    ASSUME IInv, NEW w \in Writers, WriterAct(w), NEW v \in Writers
    PROVE  Barrier(v)'
<1>a. WriterTypes /\ OverlapInv /\ Shape(v) /\ Shape(w) /\ Barrier(v) /\ Barrier(w)
  BY Zenon DEF IInv, WriterInv, FenceInv
<1>1. CASE v = w
  <2>1. CASE acquire_lifecycle(w)
    <3>1. PICK t \in Shards : span[w] = {t}
      BY Zenon, <1>a, <2>1 DEF acquire_lifecycle, Shape, PubLabels, Publishes
    <3>2. life' = [life EXCEPT ![t] = w] /\ UNCHANGED span
      BY Zenon, <2>1, <3>1 DEF acquire_lifecycle
    <3>3. pc'[w] = "generation" /\ life'[t] = w
      BY Zenon, <1>a, <2>1, <3>2 DEF acquire_lifecycle, WriterTypes
    <3> QED BY Zenon, <1>1, <3>1, <3>2, <3>3 DEF Barrier
  <2>2. CASE LifecycleSuccess(w)
    <3>1. PICK t \in Shards : span[w] = {t}
      BY Zenon, <1>a, <2>2 DEF LifecycleSuccess, Shape, PubLabels, Publishes
    <3>2. dirty' = dirty \ {t} /\ UNCHANGED <<life, span>> /\ pc[w] \in Rewriting
      BY Zenon, <2>2, <3>1 DEF LifecycleSuccess, Rewriting
    <3> QED BY Zenon, <1>a, <1>1, <3>1, <3>2 DEF Barrier
  <2>3. CASE Over(w) \/ BeginAct(w)
    BY <1>a, <1>1, <2>3, BeginOwn, ZenonT(40) DEF Over, Barrier, WriterTypes, Rewriting
  <2>4. CASE NewGeneration(w) \/ reset_get(w) \/ reset_put(w) \/ reset_latch(w) \/ reset_fence(w) \/ Replace(w)
    <3>1. UNCHANGED <<life, span>> /\ pc[w] \in Rewriting \cup {"generation"} /\ pc'[w] # "leave"
      BY Zenon, <1>a, <2>4 DEF NewGeneration, reset_get, reset_put, reset_latch, reset_fence,
          Replace, shared, WriterTypes, Rewriting
    <3> QED BY Zenon, <1>a, <1>1, <3>1 DEF Barrier
  <2>5. CASE pc'[w] \in PubLabels
    BY Zenon, <1>1, <2>5 DEF Barrier, PubLabels, Rewriting
  <2>6. acquire_writer_latch(w) \/ repair_orphaned_odd_epoch(w) \/ begin_atomic_write(w)
           \/ register_fence(w) \/ publish(w) \/ fail_scope(w) \/ finish(w)
           \/ ((end_write(w) \/ delete_writer_latch(w)) /\ ~Over(w)) => pc'[w] \in PubLabels
    BY ZenonT(40), <1>a DEF acquire_writer_latch, repair_orphaned_odd_epoch,
          begin_atomic_write, register_fence, publish, fail_scope, finish, end_write, delete_writer_latch, Closed, PubLabels, WriterTypes
  <2>7. DeleteLifecycle(w) \/ LifecycleFailure(w) \/ Die(w) => Over(w)
    BY Zenon DEF DeleteLifecycle, LifecycleFailure, Die
  <2> QED BY Zenon, <2>1, <2>2, <2>3, <2>4, <2>5, <2>6, <2>7 DEF WriterAct, WriterStep
<1>2. CASE v # w
  <2>1. UNCHANGED Own(v)
    BY Zenon, <1>a, <1>2, OtherWriters
  <2>2. ASSUME pc[v] \in Rewriting \cup {"generation"}, NEW s \in span[v] PROVE life'[s] = v
    <3>1. s \in Shards /\ life[s] = v /\ v \in alive /\ v # None
      BY Zenon, <1>a, <2>2, NoneAssumption DEF WriterTypes, Barrier, Shape, Rewriting
    <3>2. CASE acquire_lifecycle(w)
      BY Zenon, <1>a, <3>1, <3>2 DEF acquire_lifecycle, WriterTypes
    <3>3. CASE DeleteLifecycle(w)
      BY Zenon, <1>a, <1>2, <3>1, <3>3 DEF DeleteLifecycle, WriterTypes
    <3>4. CASE LifecycleFailure(w)
      <4>1. s \notin span[w]
        BY Zenon, <1>a, <1>2, <3>1, <3>4 DEF LifecycleFailure, Barrier, Rewriting
      <4> QED BY Zenon, <1>a, <3>1, <3>4, <4>1 DEF LifecycleFailure, WriterTypes
    <3> QED BY <3>1, <3>2, <3>3, <3>4, Changes, Zenon
  <2>3. ASSUME pc[v] = "leave", NEW s \in span[v] PROVE s \notin dirty'
    <3>1. s \in Shards /\ s \notin dirty /\ life[s] = v /\ ~Publishes(kind[v])
      BY Zenon, <1>a, <2>3 DEF WriterTypes, Barrier, Shape, Rewriting, PubLabels
    <3>2. ASSUME pc[w] # "idle", s \in span[w], s \notin shaken PROVE kind[w] # "promoted"
      <4>1. kind[w] = "promoted" => kind[v] = "startup"
        BY Zenon, <1>a, <1>2, <2>3, <3>1, <3>2, Alone DEF Publishes
      <4> QED BY Zenon, <1>a, <1>2, <2>3, <3>1, <3>2, <4>1, Alone DEF Clash, Publishes
    <3>3. ~(pc[w] = "replace" /\ s \in span[w])
      BY Zenon, <1>a, <1>2, <3>1 DEF Barrier, Rewriting
    <3> QED BY Zenon, <1>a, <3>1, <3>2, <3>3, DirtyGrows
  <2> QED BY Zenon, <2>1, <2>2, <2>3 DEF Barrier, Own
<1> QED BY Zenon, <1>1, <1>2

\* A scope registers its fences before it writes, and drops them only when the rows
\* are whole.
LEMMA FencedStep ==
    ASSUME IInv, NEW w \in Writers, WriterAct(w), NEW v \in Writers
    PROVE  Fenced(v)'
<1>a. /\ WriterTypes /\ OverlapInv /\ Shape(v) /\ Shape(w) /\ Fenced(v) /\ Barrier(w)
      /\ AbandonedIsFenced
  BY Zenon DEF IInv, WriterInv, FenceInv
<1>1. CASE v = w
  <2>1. CASE register_fence(w)
    <3>1. PICK s \in todo[w] :
             /\ fence' = [fence EXCEPT ![s] = IF @ = None THEN w ELSE @]
             /\ mine' = [mine EXCEPT ![w] = IF fence[s] = None THEN @ \cup {s} ELSE @]
             /\ todo' = [todo EXCEPT ![w] = @ \ {s}]
             /\ pc' = [pc EXCEPT ![w] = IF todo[w] = {s} THEN "publish" ELSE @]
      BY <2>1, Zenon DEF register_fence
    <3>2. s \in Shards /\ pc[w] = "fence" /\ UNCHANGED <<span, kind, failed, dirty, shaken, life>>
      BY Zenon, <2>1, <3>1, <1>a DEF register_fence, WriterTypes, history
    <3>3. \A t \in (span[w] \ todo'[w]) \ shaken : fence'[t] # None
      BY Zenon, <1>a, <1>1, <3>1, <3>2, NoneAssumption DEF Fenced, WriterTypes
    <3>4. pc'[w] = "publish" => todo'[w] = {}
      BY Zenon, <1>a, <3>1, <3>2 DEF WriterTypes
    <3>5. \A t \in mine'[w] : t \in mine[w] \/ (t = s /\ fence[s] = None)
      BY Zenon, <1>a, <3>1 DEF WriterTypes
    <3>6. fence[s] = None => s \notin dirty \/ life[s] # None
      BY Zenon, <1>a DEF AbandonedIsFenced
    <3> QED BY Zenon, <1>a, <1>1, <3>2, <3>3, <3>4, <3>5, <3>6 DEF Fenced
  <2>2. CASE publish(w) \/ finish(w)
    <3>1. /\ pc[w] \in {"publish", "finish"}
          /\ UNCHANGED <<kind, span, mine, failed, dirty, shaken, life>>
      BY Zenon, <2>2 DEF publish, finish, history
    <3>2. pc'[w] \in {"publish", "finish", "close"} /\ (pc'[w] = "publish" => pc[w] = "publish" /\ UNCHANGED fence)
      BY Zenon, <1>a, <2>2 DEF publish, finish, WriterTypes
    <3> QED BY Zenon, <1>a, <1>1, <3>1, <3>2 DEF Fenced
  <2>3. CASE fail_scope(w)
    BY Zenon, <1>a, <1>1, <2>3 DEF fail_scope, Fenced, WriterTypes
  <2>4. CASE begin_atomic_write(w)
    BY <1>a, <1>1, <2>4 DEF begin_atomic_write, Fenced, WriterTypes, Shape
  <2>5. CASE pc'[w] \notin {"fence", "publish", "finish"}
    BY Zenon, <1>1, <2>5 DEF Fenced
  <2>6. CASE acquire_writer_latch(w) \/ repair_orphaned_odd_epoch(w) \/ end_write(w) \/ delete_writer_latch(w)
    BY <1>a, <2>5, <2>6 DEF acquire_writer_latch, repair_orphaned_odd_epoch, end_write,
          delete_writer_latch, Closed, Over, WriterTypes
  <2>7. CASE acquire_lifecycle(w) \/ NewGeneration(w) \/ reset_get(w) \/ reset_put(w)
             \/ reset_latch(w) \/ reset_fence(w) \/ Replace(w) \/ LifecycleSuccess(w)
    BY Zenon, <1>a, <2>5, <2>7 DEF acquire_lifecycle, NewGeneration, reset_get, reset_put,
          reset_latch, reset_fence, Replace, LifecycleSuccess, WriterTypes
  <2>8. CASE DeleteLifecycle(w) \/ LifecycleFailure(w) \/ Die(w)
    <3>1. pc' = [pc EXCEPT ![w] = "idle"]
      BY Zenon, <2>8 DEF DeleteLifecycle, LifecycleFailure, Die, Over
    <3> QED BY Zenon, <1>a, <2>5, <3>1 DEF WriterTypes
  <2>9. CASE BeginAct(w)
    BY Zenon, <1>a, <2>5, <2>9, BeginOwn
  <2> QED BY Zenon, <2>1, <2>2, <2>3, <2>4, <2>6, <2>7, <2>8, <2>9 DEF WriterAct, WriterStep
<1>2. CASE v # w
  <2>1. UNCHANGED Own(v) /\ (v \in failed' <=> v \in failed)
    BY Zenon, <1>a, <1>2, OtherWriters
  <2>a. kind[v] = "promoted" => \A s \in span[v] : s \notin shaken' => s \notin shaken
    BY Zenon, Unshaken DEF Next, WriterAct, BeginAct
  <2>2. ASSUME NEW s \in Shards, s \in span[v], kind[v] = "promoted", pc[v] # "idle",
               pc[w] # "idle", s \in span[w]
        PROVE  kind[w] \in {"plain", "startup"} /\ (s \notin shaken => kind[w] = "plain")
    BY Zenon, <1>a, <1>2, <2>2, Alone DEF Clash, Publishes
  <2>3. ASSUME pc[v] # "idle", kind[v] = "promoted", NEW s \in span[v], s \notin shaken,
               fence[s] # None
        PROVE  fence'[s] # None
    BY Zenon, <1>a, <2>2, <2>3, FenceDrops DEF WriterTypes, Publishes
  <2>4. ASSUME pc[v] # "idle", NEW s \in mine[v], s \notin dirty \/ life[s] # None
        PROVE  s \notin dirty' \/ life'[s] # None
    <3>1. s \in Shards /\ s \in span[v] /\ kind[v] = "promoted"
      BY Zenon, <1>a, <2>4 DEF WriterTypes, Shape
    <3>2. s \in span[w] /\ pc[w] # "idle" => kind[w] # "promoted"
      BY Zenon, <2>2, <2>4, <3>1
    <3>3. CASE s \notin dirty /\ s \in dirty'
      <4>1. Replace(w) /\ life[s] = w
        BY Zenon, <1>a, <3>1, <3>2, <3>3, DirtyGrows DEF Barrier, Rewriting
      <4> QED BY Zenon, <4>1, NoneAssumption DEF Replace
    <3>4. CASE life[s] # None /\ life'[s] = None
      <4>1. DeleteLifecycle(w) /\ s \notin dirty
        BY Zenon, <1>a, <3>1, <3>4, LifeDrops DEF Barrier
      <4> QED BY Zenon, <4>1 DEF DeleteLifecycle, history
    <3> QED BY Zenon, <2>4, <3>3, <3>4
  <2>5. pc[v] = "fence" => kind[v] = "promoted"
    BY Zenon, <1>a DEF Shape
  <2> QED BY Zenon, <1>a, <2>1, <2>a, <2>3, <2>4, <2>5 DEF Fenced, Own
<1> QED BY Zenon, <1>1, <1>2

\* The fences and the lifecycle rows, kept by all steps.
LEMMA FenceStep == IInv /\ [Next]_vars => FenceInv'
<1> SUFFICES ASSUME IInv, [Next]_vars PROVE FenceInv'
  BY Zenon
<1>1. ASSUME NEW w \in Writers, WriterAct(w) PROVE FenceInv'
  BY Zenon, <1>1, AbandonedStep, BarrierStep, FencedStep DEF FenceInv
<1>2. CASE UNCHANGED WriterSide
  <2>1. /\ FenceInv /\ UNCHANGED <<fence, life, dirty, pc, kind, span, todo, mine, failed>>
        /\ \A w \in Writers : pc[w] = "fence" => kind[w] = "promoted"
    BY Zenon, <1>2 DEF IInv, WriterSide, writing, WriterInv, Shape
  <2>2. \A w \in Writers : kind[w] = "promoted" =>
           \A s \in span[w] : s \notin shaken' => s \notin shaken
    BY Zenon, Unshaken
  <2> QED BY Zenon, <2>1, <2>2 DEF FenceInv, AbandonedIsFenced, Barrier, Fenced
<1>3. UNCHANGED vars => UNCHANGED WriterSide
  BY Zenon DEF vars, shared, history, WriterSide
<1> QED
  BY Zenon, <1>1, <1>2, <1>3, ReaderFrame DEF Next, BeginAct, WriterAct, ReaderAct, ReadAct
=============================================================================
