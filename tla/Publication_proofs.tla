------------------------ MODULE Publication_proofs --------------------------
(***************************************************************************)
(* Proofs about Publication, part two: what a reader's attempt knows,      *)
(* and the theorems, for any number of shards, rows, writers, readers and  *)
(* operations, shard processes that start under other users included.      *)
(***************************************************************************)
EXTENDS PublicationWriters_proofs

\* The epoch of a publication under way is never the initial one.
LEMMA OddIsPositive == \A e : Odd(e) => e # 0
BY DEF Odd

\* Epochs only grow, but for a reset that meets a publication.
LEMMA EpochGrows ==
    ASSUME IInv, [Next]_vars, NEW s \in Shards, s \notin shaken
    PROVE  epoch[s] <= epoch'[s]
<1>a. WriterTypes /\ epoch[s] \in Nat
  BY Zenon DEF IInv, WriterTypes
<1>1. ASSUME NEW w \in Writers, WriterAct(w) PROVE epoch[s] <= epoch'[s]
  <2>1. CASE repair_orphaned_odd_epoch(w)
    BY <1>a, <2>1 DEF repair_orphaned_odd_epoch, WriterTypes
  <2>2. CASE begin_atomic_write(w)
    BY <1>a, <2>2 DEF begin_atomic_write, WriterTypes
  <2>3. CASE end_write(w)
    <3>1. UNCHANGED epoch \/ \E t : epoch' = [epoch EXCEPT ![t] = @ + 1]
      BY Zenon, <2>3 DEF end_write
    <3> QED BY SMTT(30), <1>a, <3>1 DEF WriterTypes
  <2>4. CASE reset_put(w)
    <3>1. Resetting(w) /\ token[w][s] \in Nat
      <4>1. token[w] \in [Shards -> Nat]
        BY Zenon, <1>a DEF WriterTypes
      <4> QED BY Zenon, <4>1 DEF IInv, WriterInv
    <3>2. epoch'[s] = epoch[s] \/ (s \in span[w] /\ epoch'[s] = token[w][s] + 1)
      BY Zenon, <1>a, <2>4 DEF reset_put, WriterTypes
    <3> QED BY <1>a, <2>4, <3>1, <3>2 DEF reset_put, Resetting
  <2> QED BY <1>a, <1>1, <2>1, <2>2, <2>3, <2>4, Changes
<1>2. ASSUME NEW r \in Readers, ReaderAct(r) PROVE epoch[s] <= epoch'[s]
  BY <1>a, <1>2, RepairEffect DEF IInv, ReaderInv, Attempting
<1>3. CASE UNCHANGED vars
  BY <1>a, <1>3 DEF vars, shared
<1> QED
  BY Zenon, <1>1, <1>2, <1>3 DEF Next, BeginAct, WriterAct, ReaderAct, ReadAct

\* So do generations.
LEMMA GenerationGrows ==
    ASSUME IInv, NEW w \in Writers, WriterAct(w), NEW s \in Shards
    PROVE  /\ generation[s] <= generation'[s]
           /\ NewGeneration(w) /\ s \in span[w] => generation[s] < generation'[s]
<1>a. WriterTypes /\ Shape(w) /\ generation[s] \in Nat
  BY Zenon DEF IInv, WriterInv, WriterTypes
<1>1. CASE NewGeneration(w)
  <2>1. PICK t \in Shards : span[w] = {t}
    BY Zenon, <1>a, <1>1 DEF NewGeneration, Shape, PubLabels, Publishes
  <2>2. generation' = [generation EXCEPT ![t] = @ + 1]
    BY Zenon, <1>1, <2>1 DEF NewGeneration
  <2> QED BY <1>a, <2>1, <2>2 DEF WriterTypes
<1>2. CASE ~NewGeneration(w)
  BY <1>a, <1>2, Changes
<1> QED BY Zenon, <1>1, <1>2

\* While a publication writes, the epochs of its shards are odd.
LEMMA OpenIsOdd ==
    ASSUME IInv, NEW w \in Writers, pc[w] \in {"fence", "publish", "finish"}, NEW s \in span[w],
           s \notin shaken
    PROVE  Odd(epoch[s])
<1>1. WriterTypes /\ Shape(w) /\ Opening(w) /\ s \in Shards /\ Held(w, s)
  BY Zenon DEF IInv, WriterInv, HeldInv, WriterTypes
<1>2. token[w][s] # 0 /\ Publishes(kind[w])
  BY Zenon, <1>1 DEF Opening, Shape, PubLabels
<1> QED BY Zenon, <1>1, <1>2 DEF Held

\* The state of reader r's own attempt.
Attempt(r) == <<at[r], mode[r], asked[r], pend[r], before[r], broken[r], victim[r],
                since[r], unread[r], got[r], r \in torn, r \in mixed>>

\* A step of one reader leaves the attempts of the others alone.
LEMMA OtherReaders ==
    ASSUME ReaderTypes, NEW q \in Readers, ReaderAct(q), NEW r \in Readers, r # q
    PROVE  UNCHANGED Attempt(r) /\ (r \in disturbed' <=> r \in disturbed)
<1>1. CASE ReadAct(q)
  BY <1>1, Zenon DEF ReadAct, Attempt, ReaderTypes, history, read, promoted_read, BeginRead
<1>2. CASE read_epochs(q)
  BY <1>2 DEF read_epochs, Attempt, ReaderTypes, history
<1>3. CASE repair_dead_writer_epoch(q)
  BY <1>3 DEF repair_dead_writer_epoch, Attempt, ReaderTypes, history, Repaired, Retry, Forget, GoTo
<1>4. CASE RepairExchange(q)
  BY <1>4 DEF RepairExchange, Attempt, ReaderTypes, history, Repaired, Retry, Forget
<1>5. CASE lifecycle_generation(q)
  BY Zenon, <1>5 DEF lifecycle_generation, Attempt, ReaderTypes, history
<1>6. CASE fence_clear(q)
  BY <1>6 DEF fence_clear, Attempt, ReaderTypes, history, GoTo, Back, Forget
<1>7. CASE lifecycle_clear(q)
  BY <1>7 DEF lifecycle_clear, Attempt, ReaderTypes, history, GoTo, Back, Forget
<1>8. CASE ReadRow(q)
  BY <1>8 DEF ReadRow, Attempt, ReaderTypes, history
<1>9. CASE lifecycle_still_clear(q)
  BY <1>9 DEF lifecycle_still_clear, Attempt, ReaderTypes, history, GoTo, Back, Forget
<1>10. CASE same_generation(q)
  BY <1>10 DEF same_generation, Attempt, ReaderTypes, history, GoTo, Back, Forget
<1>11. CASE recheck_epochs(q)
  BY <1>11 DEF recheck_epochs, Attempt, ReaderTypes, history, Retry, Forget
<1>12. CASE Return(q)
  BY <1>12 DEF Return, Attempt, ReaderTypes, history, Back, Forget
<1> QED
  BY Zenon, <1>1, <1>2, <1>3, <1>4, <1>5, <1>6, <1>7, <1>8, <1>9, <1>10, <1>11, <1>12 DEF
      ReaderAct, ReaderStep

\* A counter that only grows and comes back to a value below it has not moved.
LEMMA Squeezed ==
    ASSUME NEW a \in Nat, NEW b \in Nat, NEW c, a <= b, b <= c, c = a
    PROVE  b = a
BY SMTT(30)

\* Zero, what a reader has noted at first, is behind every counter.
LEMMA Bottom == \A n \in Nat : 0 <= n
BY SMTT(30)

\* What was noted of a counter stays behind it as the counter grows.
LEMMA Behind ==
    ASSUME NEW a \in Nat, NEW b \in Nat, NEW c \in Nat, a <= b, b <= c
    PROVE  a <= c
BY SMTT(30)

\* Epochs, noted or present, are numbers.
LEMMA Numbers ==
    ASSUME WriterTypes, ReaderTypes, NEW r \in Readers, NEW s \in Shards
    PROVE  before[r][s] \in Nat /\ epoch[s] \in Nat
<1>1. before[r] \in [Shards -> Nat] /\ epoch \in [Shards -> Nat]
  BY Zenon DEF WriterTypes, ReaderTypes
<1> QED BY Zenon, <1>1

\* Epochs that are the noted ones after a step were so before it.
LEMMA Still ==
    ASSUME IInv, [Next]_vars, NEW r \in Readers, UNCHANGED Attempt(r)
    PROVE  (Same(r)' => Same(r)) /\ (Pending(r)' => Pending(r))
<1>1. UNCHANGED <<asked[r], pend[r], before[r]>>
  BY Zenon DEF Attempt
<1>2. asked[r] \subseteq Shards /\ pend[r] \subseteq asked[r]
  BY Zenon DEF IInv, ReaderTypes, ReaderInv, Attempting, Noted
<1>3. Calm(r)' => Calm(r)
  BY Zenon, <1>1, Unshaken DEF Calm
<1>4. ASSUME NEW s \in Shards, s \notin shaken, epoch'[s] = before[r][s]
      PROVE  epoch[s] = before[r][s]
  <2>1. before[r][s] \in Nat /\ epoch[s] \in Nat /\ before[r][s] <= epoch[s]
    BY Zenon, <1>4, Numbers DEF IInv, ReaderInv, Attempting, Noted
  <2> QED BY Zenon, <1>4, <2>1, EpochGrows, Squeezed
<1>5. Calm(r) => \A s \in asked[r] : s \notin shaken
  BY Zenon DEF Calm
<1> QED BY Zenon, <1>1, <1>2, <1>3, <1>4, <1>5 DEF Same, Pending

\* The noted epochs stay behind the present ones.
LEMMA BeforeKept ==
    ASSUME IInv, [Next]_vars, NEW r \in Readers, before'[r] = before[r] \/ before'[r] = [s \in Shards |-> 0],
           NEW s \in Shards, s \notin shaken'
    PROVE  before'[r][s] <= epoch'[s]
<1>1. before[r][s] \in Nat /\ epoch[s] \in Nat /\ epoch'[s] \in Nat
  <2>1. before[r][s] \in Nat /\ epoch[s] \in Nat
    BY Zenon, Numbers DEF IInv
  <2>2. epoch' \in [Shards -> Nat]
    BY Zenon, WriterTypesStep DEF WriterTypes
  <2> QED BY Zenon, <2>1, <2>2
<1>2. Noted(r)
  BY Zenon DEF IInv, ReaderInv, Attempting
<1>3. CASE before'[r][s] = 0
  BY Zenon, <1>1, <1>3, Bottom
<1>4. CASE before'[r] = before[r] /\ s \notin shaken
  BY Zenon, <1>1, <1>2, <1>4, EpochGrows, Behind DEF Noted
<1>5. CASE before'[r] = before[r] /\ s \in shaken
  BY Zenon, <1>2, <1>3, <1>5, Unshaken DEF Noted
<1>6. CASE before'[r] = [t \in Shards |-> 0]
  BY ZenonT(40), <1>3, <1>6
<1> QED BY Zenon, <1>4, <1>5, <1>6

\* What a reader has noted survives the steps of writers.
LEMMA NotedByWriter ==
    ASSUME IInv, NEW w \in Writers, WriterAct(w), NEW r \in Readers
    PROVE  Noted(r)'
<1>1. UNCHANGED reading /\ Noted(r) /\ asked[r] \subseteq Shards
  BY Zenon, WriterFrame DEF IInv, ReaderInv, Attempting, ReaderTypes
<1>2. ASSUME NEW s \in Shards, s \notin shaken' PROVE before[r][s] <= epoch'[s]
  BY Zenon, <1>1, <1>2, BeforeKept DEF reading, Next, WriterAct, BeginAct
<1>3. ASSUME NEW s \in asked[r], since[r] <= generation[s] PROVE since[r] <= generation'[s]
  <2>1. generation[s] <= generation'[s] /\ generation'[s] \in Nat
    BY <1>1, GenerationGrows, WriterTypesStep DEF WriterTypes, Next, WriterAct, BeginAct, Counts
  <2>2. since[r] \in Nat /\ generation[s] \in Nat
    BY <1>1 DEF IInv, WriterTypes, ReaderTypes, Counts
  <2> QED BY <1>3, <2>1, <2>2
<1> QED BY Zenon, <1>1, <1>2, <1>3 DEF Noted, reading

\* A publication never takes the token a reader is about to repair.
LEMMA RepairingByWriter ==
    ASSUME IInv, NEW w \in Writers, WriterAct(w), NEW r \in Readers
    PROVE  Repairing(r)'
<1>a. WriterTypes /\ ReaderTypes /\ Shape(w) /\ Repairing(r) /\ Noted(r)
  BY Zenon DEF IInv, WriterInv, ReaderInv, Attempting
<1>1. UNCHANGED reading /\ alive' \subseteq alive
  BY Zenon, WriterFrame, Changes
<1>2. ASSUME at[r] = "exchange", broken[r] \notin shaken', NEW v \in Writers, Publishes(kind'[v])
      PROVE  token'[v][broken[r]] # before[r][broken[r]]
  <2>c. broken[r] \in pend[r] /\ broken[r] \in asked[r] /\ broken[r] \in Shards
    BY Zenon, <1>a, <1>2 DEF Repairing, Noted, ReaderTypes
  <2>d. broken[r] \notin shaken
    BY Zenon, <1>2, <2>c, Unshaken DEF Next, WriterAct, BeginAct
  <2>a. /\ broken[r] \in Shards /\ Odd(before[r][broken[r]])
        /\ Publishes(kind[v]) => token[v][broken[r]] # before[r][broken[r]]
    BY Zenon, <1>a, <1>2, <2>c, <2>d DEF Repairing
  <2>b. before[r][broken[r]] # 0
    BY <2>a DEF Odd
  <2>1. CASE v # w
    BY Zenon, <1>a, <1>2, <2>1, <2>a, OtherWriters DEF Own
  <2>2. CASE v = w /\ (BeginAct(w) \/ Over(w))
    BY <1>a, <2>2, <2>a, <2>b, BeginOwn DEF Over, Shape, WriterTypes
  <2>3. CASE v = w /\ begin_atomic_write(w)
    <3>1. PICK t \in todo[w] : token' = [token EXCEPT ![w][t] = epoch[t] + 1]
      BY <2>3, Zenon DEF begin_atomic_write
    <3>2. kind'[w] = kind[w]
      BY Zenon, <2>3 DEF begin_atomic_write
    <3>3. CASE t = broken[r]
      <4>1. token'[w][t] = epoch[t] + 1
        BY Zenon, <1>a, <3>1, <3>3, <2>a DEF WriterTypes
      <4>2. before[r][t] <= epoch[t] /\ before[r][t] \in Nat /\ epoch[t] \in Nat
        BY Zenon, <1>a, <2>a, <2>d, <3>3, Numbers DEF Noted
      <4>3. before[r][t] # epoch[t] + 1
        BY <4>2
      <4> QED BY Zenon, <2>3, <3>3, <4>1, <4>3
    <3>4. CASE t # broken[r]
      BY Zenon, <1>a, <1>2, <2>3, <2>a, <3>1, <3>2, <3>4 DEF WriterTypes
    <3> QED BY Zenon, <3>3, <3>4
  <2>4. CASE v = w /\ ~BeginAct(w) /\ ~Over(w) /\ ~begin_atomic_write(w)
    <3>1. kind'[w] = kind[w]
      BY Zenon, <1>a, <2>4, WriterMoves DEF WriterAct
    <3>2. UNCHANGED token \/ (\E s : token' = [token EXCEPT ![w][s] = 0]) \/ ~Publishes(kind[w])
      <4>1. CASE pc[w] \in PubLabels
        BY <2>4, <4>1, Zenon DEF WriterAct, WriterStep, PubLabels, acquire_writer_latch,
              repair_orphaned_odd_epoch, register_fence, publish, fail_scope, finish,
              end_write, delete_writer_latch, Closed, Die, acquire_lifecycle, NewGeneration,
              reset_get, reset_put, reset_latch, reset_fence, Replace, LifecycleSuccess,
              DeleteLifecycle, LifecycleFailure
      <4>2. CASE pc[w] \notin PubLabels
        BY Zenon, <1>a, <2>4, <4>2, WriterMoves DEF Shape, WriterAct
      <4> QED BY Zenon, <4>1, <4>2
    <3> QED BY <1>a, <1>2, <2>4, <2>a, <2>b, <3>1, <3>2 DEF WriterTypes
  <2> QED BY Zenon, <2>1, <2>2, <2>3, <2>4
<1> QED BY Zenon, <1>a, <1>1, <1>2 DEF Repairing, reading

\* A lifecycle operation begins to rewrite with its new generation.
LEMMA Enters ==
    ASSUME WriterTypes, NEW w \in Writers, WriterAct(w), pc'[w] \in Rewriting, pc[w] \notin Rewriting
    PROVE  NewGeneration(w)
<1>1. CASE BeginAct(w)
  BY Zenon, <1>1, BeginOwn DEF Rewriting
<1>2. CASE acquire_writer_latch(w)
  BY Zenon, <1>2 DEF acquire_writer_latch, Rewriting, WriterTypes
<1>3. CASE repair_orphaned_odd_epoch(w)
  BY Zenon, <1>3 DEF repair_orphaned_odd_epoch, Rewriting, WriterTypes
<1>4. CASE begin_atomic_write(w)
  BY <1>4 DEF begin_atomic_write, Rewriting, WriterTypes
<1>5. CASE register_fence(w)
  BY <1>5 DEF register_fence, Rewriting, WriterTypes
<1>6. CASE publish(w)
  BY Zenon, <1>6 DEF publish, Rewriting, WriterTypes
<1>7. CASE fail_scope(w)
  BY Zenon, <1>7 DEF fail_scope, Rewriting, WriterTypes, shared
<1>8. CASE finish(w)
  BY Zenon, <1>8 DEF finish, Rewriting, WriterTypes
<1>9. CASE end_write(w)
  BY <1>9 DEF end_write, Rewriting, WriterTypes, Closed, Over
<1>10. CASE delete_writer_latch(w)
  BY <1>10 DEF delete_writer_latch, Rewriting, WriterTypes, Closed, Over
<1>11. CASE acquire_lifecycle(w)
  BY Zenon, <1>11 DEF acquire_lifecycle, Rewriting, WriterTypes
<1>12. CASE reset_get(w)
  BY Zenon, <1>12 DEF reset_get, Rewriting, WriterTypes, shared
<1>13. CASE reset_put(w)
  BY Zenon, <1>13 DEF reset_put, Rewriting, WriterTypes
<1>14. CASE reset_latch(w)
  BY Zenon, <1>14 DEF reset_latch, Rewriting, WriterTypes
<1>15. CASE reset_fence(w)
  BY Zenon, <1>15 DEF reset_fence, Rewriting, WriterTypes
<1>16. CASE Replace(w)
  BY Zenon, <1>16 DEF Replace, Rewriting, WriterTypes
<1>17. CASE LifecycleSuccess(w)
  BY Zenon, <1>17 DEF LifecycleSuccess, Rewriting, WriterTypes
<1>18. CASE DeleteLifecycle(w)
  BY Zenon, <1>18 DEF DeleteLifecycle, Rewriting, WriterTypes, Over
<1>19. CASE LifecycleFailure(w)
  BY Zenon, <1>19 DEF LifecycleFailure, Rewriting, WriterTypes, Over
<1>20. CASE Die(w)
  BY Zenon, <1>20 DEF Die, Rewriting, WriterTypes, Over
<1> QED
  BY Zenon, <1>1, <1>2, <1>3, <1>4, <1>5, <1>6, <1>7, <1>8, <1>9, <1>10, <1>11, <1>12, <1>13, <1>14, <1>15, <1>16, <1>17, <1>18, <1>19, <1>20 DEF
      WriterAct, WriterStep
\* What a reader has established survives the steps of writers, or else an epoch or
\* the generation shows it.
LEMMA ClearByWriter ==
    ASSUME IInv, NEW w \in Writers, WriterAct(w), NEW r \in Readers
    PROVE  Clear(r)'
<1>a. /\ WriterTypes /\ ReaderTypes /\ Shape(w) /\ Barrier(w)
      /\ Noted(r) /\ Clear(r) /\ asked[r] \subseteq Shards
  BY Zenon DEF IInv, WriterInv, FenceInv, ReaderInv, Attempting, ReaderTypes
<1>1. UNCHANGED reading
  BY Zenon, WriterFrame
<1>b. UNCHANGED Attempt(r)
  BY Zenon, WriterFrame DEF reading, Attempt
<1> SUFFICES ASSUME Same(r)', Fresh(r)', at[r] = "life" \/ (at[r] = "rows" /\ mode[r] = "promoted")
             PROVE  Clear(r)'
  BY Zenon, <1>1 DEF Clear, reading
<1>2. Same(r) /\ \A s \in asked[r] : s \notin shaken /\ ~Odd(epoch[s]) /\ epoch[s] = epoch'[s]
  <2>1. Same(r)
    BY Zenon, <1>b, Still DEF Next, WriterAct, BeginAct
  <2>2. \A s \in asked[r] : ~Odd(before[r][s])
    BY Zenon, <1>a DEF Noted
  <2> QED BY Zenon, <1>1, <2>1, <2>2 DEF Same, Calm, reading
<1>3. mode[r] = "promoted"
  BY Zenon, <1>a DEF Noted
<1>4. Fresh(r) /\ \A s \in asked[r] : ~(NewGeneration(w) /\ s \in span[w])
  <2>1. ASSUME NEW s \in asked[r] PROVE generation[s] = since[r] /\ ~(NewGeneration(w) /\ s \in span[w])
    <3>1. since[r] <= generation[s] /\ generation'[s] = since[r]
      BY Zenon, <1>a, <1>1, <1>3 DEF Noted, Fresh, reading
    <3>2. since[r] \in Nat /\ generation[s] \in Nat
      BY <1>a DEF WriterTypes, ReaderTypes, Counts
    <3> QED BY <1>a, <3>1, <3>2, GenerationGrows
  <2> QED BY Zenon, <2>1 DEF Fresh
<1>5. ASSUME NEW s \in asked[r], s \notin dirty, s \in dirty'
      PROVE  pc[w] = "replace" /\ s \in span[w] /\ Replace(w)
  <2>1. ~(pc[w] = "publish" /\ s \in span[w])
    BY Zenon, <1>2, OpenIsOdd
  <2> QED BY Zenon, <1>a, <1>5, <2>1, DirtyGrows
<1>6. CASE at[r] = "life"
  <2> SUFFICES ASSUME NEW s \in asked[r], s \in dirty', life'[s] = None PROVE FALSE
    BY Zenon, <1>1, <1>6 DEF Clear, reading
  <2>1. CASE s \notin dirty
    <3>1. life[s] = w /\ UNCHANGED life
      BY Zenon, <1>a, <1>5, <2>1 DEF Barrier, Rewriting, Replace
    <3> QED BY Zenon, <3>1, NoneAssumption
  <2>2. CASE s \in dirty
    <3>1. life[s] # None
      BY Zenon, <1>2, <1>4, <1>6, <1>a, <2>2 DEF Clear
    <3> QED BY Zenon, <1>a, <2>2, <3>1, LifeDrops DEF Barrier
  <2> QED BY Zenon, <2>1, <2>2
<1>7. CASE at[r] = "rows"
  <2>1. \A s \in asked[r] : s \notin dirty /\ \A v \in Writers : pc[v] \in Rewriting => s \notin span[v]
    BY Zenon, <1>2, <1>3, <1>4, <1>7, <1>a DEF Clear
  <2>2. \A s \in asked[r] : s \notin dirty'
    BY Zenon, <1>5, <2>1 DEF Rewriting
  <2>3. ASSUME NEW s \in asked[r], NEW v \in Writers, pc'[v] \in Rewriting PROVE s \notin span'[v]
    <3>1. CASE v # w
      BY Zenon, <1>a, <2>1, <2>3, <3>1, OtherWriters DEF Own
    <3>2. CASE v = w /\ pc[w] \in Rewriting
      <4>1. span'[w] = span[w]
        BY Zenon, <1>a, <2>3, <3>2, WriterSteps, BeginOwn DEF WriterAct, Rewriting
      <4> QED BY Zenon, <2>1, <3>2, <4>1
    <3>3. CASE v = w /\ pc[w] \notin Rewriting
      <4>1. NewGeneration(w)
        BY Zenon, <1>a, <2>3, <3>3, Enters
      <4> QED BY <1>4, <3>3, <4>1, Zenon DEF NewGeneration
    <3> QED BY Zenon, <3>1, <3>2, <3>3
  <2> QED BY Zenon, <1>1, <1>7, <2>2, <2>3 DEF Clear, reading
<1> QED BY Zenon, <1>6, <1>7

\* The rows a reader has read survive the steps of writers, or else an epoch, the
\* generation or the note of the disturbance shows it.
LEMMA ReadingByWriter ==
    ASSUME IInv, NEW w \in Writers, WriterAct(w), NEW r \in Readers
    PROVE  Reading(r)'
<1>a. /\ WriterTypes /\ ReaderTypes /\ Shape(w) /\ Noted(r) /\ Clear(r) /\ Reading(r)
      /\ asked[r] \subseteq Shards
  BY Zenon DEF IInv, WriterInv, ReaderInv, Attempting, ReaderTypes
<1>1. UNCHANGED reading /\ UNCHANGED Attempt(r)
  BY Zenon, WriterFrame DEF reading, Attempt
<1> SUFFICES ASSUME at[r] = "rows", Same(r)',
                    (IF mode[r] = "plain" THEN r \notin disturbed' ELSE Fresh(r)'),
                    NEW x \in RowsOf(asked[r]) \ unread[r]
             PROVE  got[r][x] = rows'[x]
  BY Zenon, <1>1 DEF Reading, reading
<1>2. Same(r) /\ \A s \in asked[r] : s \notin shaken /\ ~Odd(epoch[s])
  <2>1. Same(r)
    BY Zenon, <1>1, Still DEF Next, WriterAct, BeginAct
  <2> QED BY Zenon, <1>a, <2>1 DEF Same, Calm, Noted
<1>3. mode[r] = "plain" => r \notin disturbed
  BY Zenon, <1>a, WriterFrame DEF Replace
<1>4. mode[r] # "plain" => mode[r] = "promoted" /\ Fresh(r)
  <2>1. CASE mode[r] # "plain"
    <3>1. mode[r] = "promoted"
      BY Zenon, <1>a, <2>1 DEF ReaderTypes
    <3>2. ASSUME NEW s \in asked[r] PROVE generation[s] = since[r]
      <4>1. since[r] <= generation[s] /\ generation'[s] = since[r]
        BY Zenon, <1>a, <1>1, <2>1, <3>1 DEF Noted, Fresh, reading
      <4>2. since[r] \in Nat /\ generation[s] \in Nat
        BY <1>a DEF WriterTypes, ReaderTypes, Counts
      <4> QED BY <1>a, <4>1, <4>2, GenerationGrows
    <3> QED BY Zenon, <3>1, <3>2 DEF Fresh
  <2> QED BY Zenon, <2>1
<1>5. got[r][x] = rows[x] /\ x \in Rows /\ Home(x) \in asked[r]
  BY Zenon, <1>a, <1>2, <1>3, <1>4 DEF Reading, RowsOf
<1>6. CASE publish(w)
  <2>1. PICK y \in left[w] : rows' = [rows EXCEPT ![y] = num[w]]
    BY <1>6, Zenon DEF publish
  <2>2. Home(y) \notin shaken => Odd(epoch[Home(y)])
    BY Zenon, <1>6, <1>a, OpenIsOdd DEF publish, Shape
  <2> QED BY Zenon, <1>a, <1>2, <1>5, <2>1, <2>2 DEF WriterTypes
<1>7. CASE Replace(w)
  <2>1. PICK y \in left[w] :
           /\ rows' = [rows EXCEPT ![y] = num[w]]
           /\ disturbed' = disturbed \cup {q \in Readers : at[q] = "rows" /\ Home(y) \in asked[q]}
    BY <1>7, Zenon DEF Replace
  <2>2. mode[r] = "plain" => x # y
    BY Zenon, <1>5, <2>1
  <2>3. mode[r] # "plain" => x # y
    BY Zenon, <1>a, <1>2, <1>4, <1>5, <1>7 DEF Clear, Replace, Rewriting, Shape
  <2> QED BY Zenon, <1>a, <1>5, <2>1, <2>2, <2>3 DEF WriterTypes
<1> QED BY Zenon, <1>5, <1>6, <1>7, Changes

\* So does the verdict on a result.
LEMMA JudgedByWriter ==
    ASSUME IInv, NEW w \in Writers, WriterAct(w), NEW r \in Readers
    PROVE  Judged(r)'
<1>a. /\ WriterTypes /\ ReaderTypes /\ Noted(r) /\ Judged(r) /\ asked[r] \subseteq Shards
  BY Zenon DEF IInv, ReaderInv, Attempting, ReaderTypes
<1>1. UNCHANGED <<reading, torn, mixed>> /\ UNCHANGED Attempt(r)
  BY Zenon, WriterFrame DEF reading, Attempt
<1>2. at[r] # "rows" => (r \in disturbed' <=> r \in disturbed)
  BY Zenon, WriterFrame DEF Replace
<1>3. (Same(r)' => Same(r)) /\ (Pending(r)' => Pending(r))
  BY ZenonT(40), <1>1, Still DEF Next, WriterAct, BeginAct
<1>4. at[r] \in {"life_again", "generation_again"} /\ Fresh(r)' => Fresh(r)
  <2> SUFFICES ASSUME at[r] \in {"life_again", "generation_again"}, Fresh(r)', NEW s \in asked[r]
               PROVE  generation[s] = since[r]
    BY Zenon DEF Fresh
  <2>1. since[r] <= generation[s] /\ generation'[s] = since[r]
    BY Zenon, <1>a, <1>1 DEF Noted, Fresh, reading
  <2>2. since[r] \in Nat /\ generation[s] \in Nat
    BY <1>a DEF WriterTypes, ReaderTypes, Counts
  <2>3. generation[s] <= generation'[s]
    BY Zenon, <1>a, GenerationGrows
  <2>4. generation'[s] = since[r] /\ since[r] <= generation[s]
    BY Zenon, <2>1
  <2> QED BY Zenon, <2>2, <2>3, <2>4, Squeezed
<1> QED BY Zenon, <1>a, <1>1, <1>2, <1>3, <1>4 DEF Judged, reading

\* An attempt survives the steps of other readers: they only repair epochs.
LEMMA AttemptByReader ==
    ASSUME IInv, NEW q \in Readers, ReaderAct(q), NEW r \in Readers, r # q
    PROVE  Attempting(r)'
<1>a. ReaderTypes /\ WriterTypes /\ Attempting(r)
  BY Zenon DEF IInv, ReaderInv
<1>1. UNCHANGED Attempt(r) /\ (r \in disturbed' <=> r \in disturbed)
  BY Zenon, <1>a, OtherReaders
<1>2. UNCHANGED <<writing, generation, rows, alive, life, dirty>>
  BY Zenon, ReaderFrame DEF WriterSide
<1>3. (Same(r)' => Same(r)) /\ (Pending(r)' => Pending(r))
  BY Zenon, <1>1, Still DEF Next, ReaderAct, ReadAct
<1>4. Fresh(r)' <=> Fresh(r)
  BY Zenon, <1>1, <1>2 DEF Fresh, Attempt
<1>5. Noted(r)'
  <2>1. ASSUME NEW s \in Shards, s \notin shaken' PROVE before'[r][s] <= epoch'[s]
    BY Zenon, <1>1, <2>1, BeforeKept DEF Attempt, Next, ReaderAct, ReadAct
  <2>2. UNCHANGED <<at[r], mode[r], asked[r], pend[r], before[r], since[r], unread[r], generation>>
    BY Zenon, <1>1, <1>2 DEF Attempt
  <2> QED BY ZenonT(40), <1>a, <2>1, <2>2 DEF Attempting, Noted
<1>6. Repairing(r)'
  <2>1. /\ Repairing(r) /\ UNCHANGED <<kind, token, alive>>
        /\ UNCHANGED <<at[r], pend[r], before[r], broken[r], victim[r]>>
    BY Zenon, <1>a, <1>1, <1>2 DEF Attempting, Attempt, writing
  <2>2. at[r] = "exchange" /\ broken[r] \notin shaken' => broken[r] \notin shaken
    BY Zenon, <1>a, Unshaken DEF Attempting, Noted, Repairing, Next, ReaderAct, ReadAct
  <2> QED BY Zenon, <2>1, <2>2 DEF Repairing
<1>7. Clear(r)'
  BY ZenonT(40), <1>a, <1>1, <1>2, <1>3, <1>4 DEF Attempting, Clear, Attempt, writing
<1>8. Reading(r)'
  BY ZenonT(40), <1>a, <1>1, <1>2, <1>3, <1>4 DEF Attempting, Reading, Attempt
<1>9. Judged(r)'
  BY Zenon, <1>a, <1>1, <1>3, <1>4 DEF Attempting, Judged, Attempt
<1> QED BY Zenon, <1>5, <1>6, <1>7, <1>8, <1>9 DEF Attempting

\* An attempt that begins again, or a reader that is idle, has nothing to lose.
LEMMA Afresh ==
    ASSUME IInv, [Next]_vars, NEW r \in Readers, Retry(r) \/ Back(r)
    PROVE  Attempting(r)'
<1>a. ReaderTypes /\ Attempting(r)
  BY Zenon DEF IInv, ReaderInv
<1>1. /\ at'[r] \in {"idle", "before"} /\ pend'[r] = asked'[r] /\ (at'[r] = "idle" => asked'[r] = {})
      /\ before'[r] = [s \in Shards |-> 0]
      /\ (mode'[r] = mode[r] /\ asked'[r] = asked[r]) \/ mode'[r] = "plain"
  <2>1. CASE Retry(r)
    BY Zenon, <1>a, <2>1 DEF Retry, Forget, ReaderTypes
  <2>2. CASE Back(r)
    BY Zenon, <1>a, <2>2 DEF Back, Forget, ReaderTypes
  <2> QED BY Zenon, <2>1, <2>2
<1>2. Noted(r)'
  <2>1. \A s \in Shards : before'[r][s] = 0
    BY Zenon, <1>1
  <2>2. \A s \in Shards \ shaken' : before'[r][s] <= epoch'[s]
    BY Zenon, <1>1, BeforeKept
  <2> QED BY Zenon, <1>a, <1>1, <2>1, <2>2 DEF Attempting, Noted
<1> QED BY Zenon, <1>1, <1>2 DEF Attempting, Repairing, Clear, Reading, Judged

\* The steps of a reader keep its own attempt.
LEMMA AttemptOwn ==
    ASSUME IInv, NEW r \in Readers, ReaderAct(r)
    PROVE  Attempting(r)'
<1>n. [Next]_vars
  BY Zenon DEF Next, ReaderAct, ReadAct
<1>a. ReaderTypes /\ WriterTypes /\ asked[r] \subseteq Shards
  BY Zenon DEF IInv, ReaderTypes
<1>b. Noted(r) /\ Repairing(r) /\ Clear(r) /\ Reading(r) /\ Judged(r)
  BY Zenon DEF IInv, ReaderInv, Attempting
<1>c. CASE Retry(r) \/ Back(r)
  BY Zenon, <1>c, <1>n, Afresh
<1>1. CASE ReadAct(r)
  <2>1. PICK m \in {"plain", "promoted"}, S \in SUBSET Shards :
           BeginRead(r, m, S) /\ (m = "promoted" => \E s \in Shards : S = {s})
    BY Zenon, <1>1, ReadBegins
  <2>2. at'[r] = "before" /\ mode'[r] = m /\ asked'[r] = S /\ pend'[r] = S /\ before' = before
    BY Zenon, <1>a, <2>1 DEF BeginRead, ReaderTypes
  <2>a. \A s \in Shards : before'[r][s] = 0
    BY Zenon, <1>b, <2>1, <2>2 DEF BeginRead, Noted
  <2>b. \A s \in Shards \ shaken' : before'[r][s] <= epoch'[s]
    BY Zenon, <1>n, <2>2, BeforeKept
  <2>3. Noted(r)'
    BY Zenon, <2>1, <2>2, <2>a, <2>b DEF Noted
  <2> QED BY Zenon, <2>2, <2>3 DEF Attempting, Repairing, Clear, Reading, Judged
<1>2. CASE read_epochs(r)
  <2>1. PICK s \in pend[r] :
          /\ before' = [before EXCEPT ![r] = [before[r] EXCEPT ![s] = epoch[s]]]
          /\ \/ /\ pend' = [pend EXCEPT ![r] = @ \ {s}] /\ UNCHANGED <<at, unread>>
             \/ /\ at' = [at EXCEPT ![r] = "repair"]
                /\ pend' = [pend EXCEPT ![r] = {t \in asked[r] : Odd([before[r] EXCEPT ![s] = epoch[s]][t])}]
             \/ /\ {t \in asked[r] : Odd([before[r] EXCEPT ![s] = epoch[s]][t])} = {}
                /\ at' = [at EXCEPT ![r] = IF mode[r] = "plain" THEN "rows" ELSE "generation"]
                /\ pend' = [pend EXCEPT ![r] = {}]
                /\ unread' = [unread EXCEPT ![r] = RowsOf(asked[r])]
    BY <1>2, Zenon DEF read_epochs
  <2>2. at[r] = "before" /\ UNCHANGED <<mode, asked, epoch, shaken>> /\ s \in asked[r] /\ s \in Shards
    BY Zenon, <1>2, <1>a, <1>b, <2>1 DEF read_epochs, shared, history, Noted
  <2>3. before'[r] = [before[r] EXCEPT ![s] = epoch[s]]
    BY Zenon, <1>a, <2>1 DEF ReaderTypes
  <2>4. /\ \A t \in Shards \ shaken' : before'[r][t] <= epoch'[t]
        /\ \A t \in Shards \ asked'[r] : before'[r][t] = 0
    <3>1. before[r] \in [Shards -> Nat] /\ epoch[s] <= epoch[s]
      BY <1>a, <2>2 DEF ReaderTypes, WriterTypes
    <3> QED BY Zenon, <1>b, <2>2, <2>3, <3>1 DEF Noted
  <2>5. CASE pend' = [pend EXCEPT ![r] = @ \ {s}] /\ UNCHANGED <<at, unread>>
    <3>1. pend'[r] \subseteq asked[r] /\ at'[r] = "before"
      BY Zenon, <1>a, <1>b, <2>2, <2>5 DEF Noted, ReaderTypes
    <3> QED BY Zenon, <1>b, <2>2, <2>4, <3>1 DEF Attempting, Noted, Repairing, Clear, Reading,
        Judged
  <2>6. CASE /\ at' = [at EXCEPT ![r] = "repair"]
             /\ pend' = [pend EXCEPT ![r] = {t \in asked[r] : Odd([before[r] EXCEPT ![s] = epoch[s]][t])}]
    <3>1. at'[r] = "repair" /\ pend'[r] \subseteq asked[r] /\ \A t \in pend'[r] : Odd(before'[r][t])
      BY Zenon, <1>a, <2>3, <2>6 DEF ReaderTypes
    <3> QED BY Zenon, <1>b, <2>2, <2>4, <3>1 DEF Attempting, Noted, Repairing, Clear, Reading,
        Judged
  <2>7. CASE /\ {t \in asked[r] : Odd([before[r] EXCEPT ![s] = epoch[s]][t])} = {}
             /\ at' = [at EXCEPT ![r] = IF mode[r] = "plain" THEN "rows" ELSE "generation"]
             /\ pend' = [pend EXCEPT ![r] = {}]
             /\ unread' = [unread EXCEPT ![r] = RowsOf(asked[r])]
    <3>1. \A t \in asked[r] : ~Odd(before'[r][t])
      BY Zenon, <2>3, <2>7
    <3>2. /\ at'[r] = IF mode[r] = "plain" THEN "rows" ELSE "generation"
          /\ pend'[r] = {} /\ unread'[r] = RowsOf(asked[r])
      BY Zenon, <1>a, <2>7 DEF ReaderTypes
    <3>3. mode[r] \in {"plain", "promoted"}
      BY Zenon, <1>a DEF ReaderTypes
    <3>4. Noted(r)'
      BY Zenon, <1>b, <2>2, <2>4, <3>1, <3>2, <3>3 DEF Noted, RowsOf
    <3> QED BY Zenon, <2>2, <3>2, <3>3, <3>4 DEF Attempting, Repairing, Clear, Reading, Judged,
        RowsOf
  <2> QED BY Zenon, <2>1, <2>5, <2>6, <2>7
<1>3. ASSUME NEW s \in Shards, Repaired(r, s), at[r] \in {"repair", "exchange"},
             \A t \in pend[r] : Odd(before[r][t])
      PROVE  Attempting(r)'
  <2>1. CASE ~Retry(r)
    <3>1. /\ pend' = [pend EXCEPT ![r] = @ \ {s}] /\ at' = [at EXCEPT ![r] = "repair"]
          /\ UNCHANGED <<mode, asked, before>>
      BY Zenon, <1>3, <2>1 DEF Repaired
    <3>2. pend'[r] \subseteq pend[r] /\ at'[r] = "repair"
      BY Zenon, <1>a, <3>1 DEF ReaderTypes
    <3>3. Noted(r)'
      BY Zenon, <1>n, <1>b, <3>1, <3>2, BeforeKept DEF Noted
    <3> QED BY Zenon, <1>3, <3>1, <3>2, <3>3 DEF Attempting, Repairing, Clear, Reading, Judged
  <2> QED BY Zenon, <1>c, <2>1
<1>4. CASE repair_dead_writer_epoch(r)
  <2>1. PICK s \in pend[r] :
           \/ latch[s] \in alive /\ Repaired(r, s)
           \/ /\ latch[s] \notin alive
              /\ broken' = [broken EXCEPT ![r] = s]
              /\ victim' = [victim EXCEPT ![r] = latch[s]]
              /\ GoTo(r, "exchange")
    BY Zenon, <1>4 DEF repair_dead_writer_epoch
  <2>2. at[r] = "repair" /\ s \in Shards /\ (\A t \in pend[r] : Odd(before[r][t])) /\ UNCHANGED <<shared, writing, shaken>>
    BY Zenon, <1>4, <1>a, <1>b, <2>1 DEF repair_dead_writer_epoch, Repairing, Noted
  <2>3. CASE /\ latch[s] \notin alive
             /\ broken' = [broken EXCEPT ![r] = s]
             /\ victim' = [victim EXCEPT ![r] = latch[s]]
             /\ GoTo(r, "exchange")
    <3>1. /\ at'[r] = "exchange" /\ broken'[r] = s /\ victim'[r] = latch[s]
          /\ UNCHANGED <<mode, asked, pend, before>>
      BY Zenon, <1>a, <2>3 DEF GoTo, ReaderTypes
    <3>2. Noted(r)'
      BY Zenon, <1>n, <1>b, <3>1, BeforeKept DEF Noted
    <3>3. ASSUME s \notin shaken, NEW w \in Writers, Publishes(kind[w])
          PROVE  token[w][s] # before[r][s]
      <4>1. before[r][s] # 0
        BY Zenon, <2>1, <2>2, OddIsPositive
      <4>2. Shape(w) /\ Held(w, s)
        BY ZenonT(30), <2>2 DEF IInv, WriterInv, HeldInv
      <4> QED BY Zenon, <1>a, <2>2, <2>3, <3>3, <4>1, <4>2, HoldsAlive DEF Held
    <3>4. Repairing(r)'
      <4>1. /\ alive' = alive /\ kind' = kind /\ token' = token /\ before' = before /\ pend' = pend
            /\ shaken' = shaken
        BY Zenon, <2>2, <3>1 DEF shared, writing
      <4>2. (\A t \in pend'[r] : Odd(before'[r][t])) /\ Odd(before[r][s]) /\ latch[s] \notin alive
        BY Zenon, <2>1, <2>2, <2>3, <4>1
      <4>3. broken'[r] \in pend'[r] /\ victim'[r] \notin alive'
        BY Zenon, <2>1, <2>2, <3>1, <4>1, <4>2
      <4>4. broken'[r] \notin shaken' =>
               \A w \in Writers :
                  Publishes(kind'[w]) => token'[w][broken'[r]] # before'[r][broken'[r]]
        BY Zenon, <3>1, <3>3, <4>1
      <4> QED BY Zenon, <4>2, <4>3, <4>4 DEF Repairing
    <3> QED BY Zenon, <3>1, <3>2, <3>4 DEF Attempting, Clear, Reading, Judged
  <2> QED BY Zenon, <1>3, <2>1, <2>2, <2>3
<1>5. CASE RepairExchange(r)
  <2>1. Repaired(r, broken[r]) /\ at[r] = "exchange" /\ broken[r] \in Shards
    BY Zenon, <1>5, <1>a, <1>b DEF RepairExchange, Repairing, Noted
  <2>2. \A t \in pend[r] : Odd(before[r][t])
    BY Zenon, <1>b, <2>1 DEF Repairing
  <2> QED BY Zenon, <1>3, <2>1, <2>2
<1>6. CASE lifecycle_generation(r)
  <2>1. PICK s \in Shards : asked[r] = {s}
    BY Zenon, <1>6, <1>b DEF lifecycle_generation, Noted
  <2>2. since' = [since EXCEPT ![r] = generation[s]] /\ at' = [at EXCEPT ![r] = "fence"]
    BY Zenon, <1>6, <2>1 DEF lifecycle_generation
  <2>3. at[r] = "generation" /\ UNCHANGED <<generation, mode, asked, pend, before, unread>>
    BY Zenon, <1>6 DEF lifecycle_generation, shared
  <2>4. since'[r] = generation[s] /\ at'[r] = "fence" /\ generation[s] <= generation[s]
    BY <1>a, <2>2 DEF ReaderTypes, WriterTypes, Counts
  <2>5. Noted(r)'
    BY Zenon, <1>n, <1>b, <2>1, <2>3, <2>4, BeforeKept DEF Noted, RowsOf
  <2> QED BY Zenon, <2>4, <2>5 DEF Attempting, Repairing, Clear, Reading, Judged
<1>7. ASSUME NEW l, GoTo(r, l)
      PROVE  /\ at'[r] = l
             /\ UNCHANGED <<mode, asked, pend, before, since, unread, got, disturbed, torn, mixed>>
  BY Zenon, <1>7, <1>a DEF GoTo, ReaderTypes
<1>8. CASE fence_clear(r)
  <2>1. CASE GoTo(r, "life") /\ \A s \in asked[r] : fence[s] = None
    <3>0. /\ at'[r] = "life"
          /\ UNCHANGED <<mode, asked, pend, before, since, unread, got, disturbed, torn, mixed>>
      BY Zenon, <1>7, <2>1
    <3>1. at[r] = "fence" /\ UNCHANGED <<epoch, generation, life, dirty>>
      BY Zenon, <1>8 DEF fence_clear, shared
    <3>2. Noted(r)'
      BY Zenon, <1>n, <1>b, <3>0, <3>1, BeforeKept DEF Noted, RowsOf
    <3>3. \A s \in asked[r] : s \notin dirty \/ life[s] # None
      BY Zenon, <2>1 DEF IInv, FenceInv, AbandonedIsFenced
    <3> QED BY Zenon, <3>0, <3>1, <3>2, <3>3 DEF Attempting, Repairing, Clear, Reading, Judged
  <2> QED BY Zenon, <1>c, <1>8, <2>1 DEF fence_clear
<1>9. CASE lifecycle_clear(r)
  <2>1. CASE GoTo(r, "rows") /\ \A s \in asked[r] : life[s] = None
    <3>0. /\ at'[r] = "rows"
          /\ UNCHANGED <<mode, asked, pend, before, since, unread, got, disturbed, torn, mixed>>
      BY Zenon, <1>7, <2>1
    <3>1. at[r] = "life" /\ UNCHANGED <<shared, writing, dirty, shaken>>
      BY Zenon, <1>9 DEF lifecycle_clear
    <3>2. Noted(r)'
      BY Zenon, <1>n, <1>b, <3>0, <3>1, BeforeKept DEF Noted, shared
    <3>3. ASSUME NEW s \in asked[r], NEW w \in Writers, pc[w] \in Rewriting PROVE s \notin span[w]
      BY Zenon, <2>1, <3>3, NoneAssumption DEF IInv, FenceInv, Barrier
    <3>4. (Same(r)' => Same(r)) /\ (Fresh(r)' => Fresh(r))
      BY Zenon, <3>0, <3>1 DEF Same, Calm, Fresh, shared
    <3>5. Clear(r)'
      BY Zenon, <1>b, <2>1, <3>0, <3>1, <3>3, <3>4 DEF Clear, shared, writing
    <3>6. RowsOf(asked[r])' \ unread'[r] = {}
      BY <1>b, <3>0, <3>1, Zenon DEF Noted, RowsOf
    <3> QED BY Zenon, <3>0, <3>2, <3>5, <3>6 DEF Attempting, Repairing, Reading, Judged
  <2> QED BY Zenon, <1>c, <1>9, <2>1 DEF lifecycle_clear
<1>10. CASE lifecycle_still_clear(r)
  <2>1. CASE GoTo(r, "generation_again")
    <3>0. /\ at'[r] = "generation_again"
          /\ UNCHANGED <<mode, asked, pend, before, since, unread, got, disturbed, torn, mixed>>
      BY Zenon, <1>7, <2>1
    <3>1. at[r] = "life_again" /\ UNCHANGED <<epoch, generation, shaken>>
      BY <1>10, Zenon DEF lifecycle_still_clear, shared
    <3>2. Noted(r)'
      BY Zenon, <1>n, <1>b, <3>0, <3>1, BeforeKept DEF Noted
    <3>3. Judged(r)'
      BY Zenon, <1>b, <3>0, <3>1 DEF Judged, Same, Calm, Fresh
    <3> QED BY <3>0, <3>2, <3>3, Zenon DEF Attempting, Repairing, Clear, Reading
  <2> QED BY Zenon, <1>c, <1>10, <2>1 DEF lifecycle_still_clear
<1>11. CASE same_generation(r)
  <2>1. CASE GoTo(r, "check") /\ Fresh(r)
    <3>0. /\ at'[r] = "check"
          /\ UNCHANGED <<mode, asked, pend, before, since, unread, got, disturbed, torn, mixed>>
      BY Zenon, <1>7, <2>1
    <3>1. at[r] = "generation_again" /\ UNCHANGED <<epoch, generation, shaken>>
      BY Zenon, <1>11 DEF same_generation, shared
    <3>2. Noted(r)'
      BY <1>n, <1>b, <3>0, <3>1, BeforeKept, Zenon DEF Noted
    <3>3. mode[r] = "promoted" /\ pend[r] = asked[r]
      BY <1>b, <3>1, Zenon DEF Noted
    <3>4. Pending(r)' => Same(r)
      BY Zenon, <3>0, <3>1, <3>3 DEF Pending, Same, Calm
    <3>5. Judged(r)'
      BY Zenon, <1>b, <2>1, <3>0, <3>1, <3>3, <3>4 DEF Judged
    <3> QED BY Zenon, <3>0, <3>2, <3>5 DEF Attempting, Repairing, Clear, Reading
  <2> QED BY Zenon, <1>c, <1>11, <2>1 DEF same_generation, Fresh
<1>12. CASE recheck_epochs(r)
  <2>1. CASE ~Retry(r)
    <3>1. PICK s \in pend[r] :
             /\ epoch[s] = before[r][s]
             /\ pend' = [pend EXCEPT ![r] = @ \ {s}]
             /\ at' = [at EXCEPT ![r] = IF pend[r] = {s} THEN "done" ELSE @]
             /\ UNCHANGED <<mode, asked, before, since, unread, got, disturbed, torn, mixed>>
      BY <1>12, <2>1, Zenon DEF recheck_epochs
    <3>2. at[r] = "check" /\ UNCHANGED <<epoch, shaken>>
      BY Zenon, <1>12 DEF recheck_epochs, shared
    <3>3. pend'[r] = pend[r] \ {s} /\ at'[r] = IF pend[r] = {s} THEN "done" ELSE "check"
      BY ZenonT(30), <1>a, <3>1, <3>2 DEF ReaderTypes
    <3>4. Noted(r)'
      <4>1. UNCHANGED <<before, asked, mode, epoch, shaken>> /\ at[r] = "check"
        BY Zenon, <3>1, <3>2
      <4>2. /\ \A t \in Shards \ shaken' : before'[r][t] <= epoch'[t]
            /\ \A t \in Shards \ asked'[r] : before'[r][t] = 0
        BY Zenon, <1>b, <4>1 DEF Noted
      <4>3. at'[r] \in {"done", "check"} /\ (at'[r] = "done" => pend'[r] = {})
        BY Zenon, <3>3
      <4>4. pend'[r] \subseteq asked'[r]
        BY Zenon, <1>b, <3>3, <4>1 DEF Noted
      <4>5. /\ mode'[r] = "promoted" => \E t \in Shards : asked'[r] = {t}
            /\ \A t \in asked'[r] : ~Odd(before'[r][t])
        BY Zenon, <1>b, <4>1 DEF Noted
      <4> QED BY ZenonT(40), <4>2, <4>3, <4>4, <4>5 DEF Noted, Odd
    <3>5. Pending(r)' => Pending(r)
      BY ZenonT(40), <3>1, <3>2, <3>3 DEF Pending, Calm
    <3>6. Judged(r)'
      <4>1. UNCHANGED <<mode, disturbed, torn, mixed>> /\ at[r] = "check"
        BY Zenon, <3>1, <3>2
      <4>2. at'[r] \in {"done", "check"}
        BY Zenon, <3>3
      <4>3. Pending(r)' => /\ mode[r] = "plain" /\ r \notin disturbed => r \notin torn
                           /\ mode[r] = "promoted" => r \notin torn /\ r \notin mixed
        BY Zenon, <1>b, <3>5, <4>1 DEF Judged
      <4> QED BY Zenon, <4>1, <4>2, <4>3 DEF Judged
    <3> QED BY <3>3, <3>4, <3>6, Zenon DEF Attempting, Repairing, Clear, Reading
  <2> QED BY Zenon, <1>c, <2>1
<1>13. CASE Return(r)
  BY Zenon, <1>c, <1>13 DEF Return
<1>14. CASE ReadRow(r)
  <2>1. PICK x \in unread[r] :
          /\ unread' = [unread EXCEPT ![r] = @ \ {x}]
          /\ IF unread[r] # {x}
             THEN /\ got' = [got EXCEPT ![r] = [got[r] EXCEPT ![x] = rows[x]]]
                  /\ UNCHANGED <<at, pend, torn, mixed>>
             ELSE /\ at' = [at EXCEPT ![r] = IF mode[r] = "plain" THEN "check" ELSE "life_again"]
                  /\ pend' = [pend EXCEPT ![r] = asked[r]]
                  /\ torn' = IF Torn(r, [got[r] EXCEPT ![x] = rows[x]]) THEN torn \cup {r} ELSE torn \ {r}
                  /\ mixed' = IF Mixed(r) THEN mixed \cup {r} ELSE mixed \ {r}
    BY <1>14, Zenon DEF ReadRow
  <2>2. at[r] = "rows" /\ UNCHANGED <<shared, writing, mode, asked, before, since, dirty, shaken, disturbed>>
    BY Zenon, <1>14 DEF ReadRow
  <2>3. x \in Rows /\ got[r] \in [Rows -> Counts] /\ mode[r] \in {"plain", "promoted"}
    BY Zenon, <1>a, <2>1 DEF ReaderTypes
  <2>4. Same(r)' = Same(r) /\ Fresh(r)' = Fresh(r)
    BY Zenon, <2>2 DEF Same, Calm, Fresh, shared
  <2>5. CASE unread[r] # {x}
    <3>1. /\ got'[r] = [got[r] EXCEPT ![x] = rows[x]]
          /\ unread'[r] = unread[r] \ {x} /\ UNCHANGED <<at, pend, torn, mixed>>
      BY Zenon, <1>a, <2>1, <2>5 DEF ReaderTypes
    <3>2. Noted(r)'
      BY Zenon, <1>n, <1>b, <2>2, <3>1, BeforeKept DEF Noted, shared
    <3>3. Clear(r)'
      BY <1>b, <2>2, <2>4, <3>1, Zenon DEF Clear, shared, writing
    <3>4. ASSUME NEW y \in RowsOf(asked[r]) \ unread'[r],
                 \A z \in RowsOf(asked[r]) \ unread[r] : got[r][z] = rows[z]
          PROVE  got'[r][y] = rows[y]
      BY <2>3, <3>1, <3>4, Zenon DEF RowsOf
    <3>5. Reading(r)'
      BY <1>b, <2>2, <2>4, <3>1, <3>4, Zenon DEF Reading, shared, RowsOf
    <3> QED BY Zenon, <2>2, <3>1, <3>2, <3>3, <3>5 DEF Attempting, Repairing, Judged
  <2>6. CASE unread[r] = {x}
    <3>1. at'[r] = (IF mode[r] = "plain" THEN "check" ELSE "life_again") /\ pend'[r] = asked[r]
      BY Zenon, <1>a, <2>1, <2>6 DEF ReaderTypes
    <3>2. Noted(r)'
      BY <1>n, <1>b, <2>2, <2>3, <3>1, BeforeKept, Zenon DEF Noted, shared
    <3>3. ASSUME Same(r), IF mode[r] = "plain" THEN r \notin disturbed ELSE Fresh(r) PROVE r \notin torn'
      <4>1. \A y \in RowsOf(asked[r]) : [got[r] EXCEPT ![x] = rows[x]][y] = rows[y]
        <5>1. \A y \in RowsOf(asked[r]) \ {x} : got[r][y] = rows[y]
          BY <1>b, <2>2, <2>6, <3>3, Zenon DEF Reading
        <5> QED BY <2>3, <5>1, Zenon DEF RowsOf
      <4>2. ASSUME NEW w \in Writers, Partial(w), NEW s \in asked[r], s \in span[w] PROVE FALSE
        <5>1. Odd(epoch[s])
          BY <3>3, <4>2, OpenIsOdd, Zenon DEF Partial, Same, Calm
        <5> QED BY <1>b, <2>2, <3>3, <5>1, Zenon DEF Noted, Same
      <4>3. ~Torn(r, [got[r] EXCEPT ![x] = rows[x]])
        BY Zenon, <1>a, <4>1, <4>2 DEF Torn, WriterTypes
      <4> QED BY Zenon, <2>1, <2>6, <4>3
    <3>4. ASSUME Same(r), Fresh(r), mode[r] = "promoted" PROVE r \notin mixed'
      <4>1. ~Mixed(r)
        BY Zenon, <1>b, <2>2, <3>4 DEF Clear, Mixed
      <4> QED BY Zenon, <2>1, <2>6, <4>1
    <3>5. Pending(r)' => Same(r)
      BY Zenon, <2>2, <3>1 DEF Pending, Same, Calm, shared
    <3>6. Judged(r)'
      BY Zenon, <2>2, <2>3, <2>4, <3>1, <3>3, <3>4, <3>5 DEF Judged
    <3> QED BY <3>1, <3>2, <3>6, Zenon DEF Attempting, Repairing, Clear, Reading
  <2> QED BY Zenon, <2>5, <2>6
<1> QED
  BY Zenon, <1>1, <1>2, <1>4, <1>5, <1>6, <1>8, <1>9, <1>10, <1>11, <1>12, <1>13, <1>14
     DEF ReaderAct, ReaderStep

\* The attempts of all readers, kept by all steps.
LEMMA ReaderInvStep == IInv /\ [Next]_vars => ReaderInv'
<1> SUFFICES ASSUME IInv, [Next]_vars, NEW r \in Readers PROVE Attempting(r)'
  BY Zenon DEF ReaderInv
<1>1. ASSUME NEW w \in Writers, WriterAct(w) PROVE Attempting(r)'
  BY Zenon, <1>1, NotedByWriter, RepairingByWriter, ClearByWriter, ReadingByWriter, JudgedByWriter
     DEF Attempting
<1>2. ASSUME NEW q \in Readers, ReaderAct(q) PROVE Attempting(r)'
  BY Zenon, <1>2, AttemptByReader, AttemptOwn
<1>3. CASE UNCHANGED vars
  <2>1. Attempting(r) /\ UNCHANGED <<shared, writing, reading, history>>
    BY Zenon, <1>3 DEF IInv, ReaderInv, vars
  <2>2. (Same(r)' <=> Same(r)) /\ (Pending(r)' <=> Pending(r)) /\ (Fresh(r)' <=> Fresh(r))
    BY Zenon, <2>1 DEF Same, Pending, Calm, Fresh, shared, reading, history
  <2>3. Noted(r)' /\ Repairing(r)'
    BY Zenon, <2>1 DEF Attempting, Noted, Repairing, RowsOf, shared, writing, reading, history
  <2>4. Clear(r)' /\ Reading(r)' /\ Judged(r)'
    BY Zenon, <2>1, <2>2 DEF Attempting, Clear, Reading, Judged, RowsOf, shared, writing, reading,
        history
  <2> QED BY Zenon, <2>3, <2>4 DEF Attempting
<1> QED
  BY Zenon, <1>1, <1>2, <1>3 DEF Next, BeginAct, WriterAct, ReaderAct, ReadAct

\* The invariant holds at the start.
LEMMA InitInv == Init => IInv
<1> SUFFICES ASSUME Init PROVE IInv
  BY Zenon
<1>1. WriterTypes
  BY BoundAssumption DEF Init, WriterTypes, Counts, Labels
<1>2. ReaderTypes
  BY BoundAssumption DEF Init, ReaderTypes, Counts, ReadLabels
<1>3. OverlapInv
  BY Zenon DEF Init, OverlapInv
<1>4. WriterInv
  BY DEF Init, WriterInv, Shape, Opening, Resetting
<1>5. HeldInv
  BY Zenon DEF Init, HeldInv, Held
<1>6. FenceInv
  BY Zenon DEF Init, FenceInv, AbandonedIsFenced, Barrier, Fenced, Rewriting
<1>7. ReaderInv
  BY DEF Init, ReaderInv, Attempting, Noted, Repairing, Clear, Reading, Judged
<1> QED BY Zenon, <1>1, <1>2, <1>3, <1>4, <1>5, <1>6, <1>7 DEF IInv

\* The inductive invariant: the protocol of latches, epochs, fences, lifecycle rows and
\* generations of publication_epoch.ex and promoted_publication.ex keeps IInv, on every
\* shard where no reset has met a publication that is still under way.
THEOREM Invariance == Spec => []IInv
<1>1. Init => IInv
  BY Zenon, InitInv
<1>2. IInv /\ [Next]_vars => IInv'
  BY Zenon, WriterTypesStep, ReaderTypesStep, OverlapStep, WriterInvStep, HeldStep, FenceStep, ReaderInvStep
     DEF IInv
<1> QED BY <1>1, <1>2, PTL DEF Spec

\* The variables keep their types, and the token of begin_atomic_write is odd.
THEOREM TypeCorrect == Spec => []TypeOK
<1>1. IInv => TypeOK
  BY Zenon DEF IInv, TypeOK, HeldInv, Held
<1> QED BY <1>1, Invariance, PTL

\* A live publication keeps its latches and its epochs until end_write closes them:
\* acquire_writer_latch, the two repairs and end_write of others never touch them.
THEOREM OpenKept == Spec => []OpenIsKept
<1>1. IInv => OpenIsKept
  BY Zenon DEF IInv, OpenIsKept, HeldInv, Held, WriterTypes
<1> QED BY <1>1, Invariance, PTL

\* The result of read is a snapshot of all the shards it covers: the second pass over
\* the epochs finds every publication that changed a row or was half written.
THEOREM ReadAtomic == Spec => []ReadIsAtomic
<1>1. IInv => ReadIsAtomic
  BY Zenon DEF IInv, ReadIsAtomic, ReaderInv, Attempting, ReaderTypes, Noted, Judged, Pending, Calm
<1> QED BY <1>1, Invariance, PTL

\* The result of a promoted read holds no row of a publication that failed or died
\* half way, and none of a lifecycle operation under way.
THEOREM PromotedWhole == Spec => []PromotedReadIsWhole
<1>1. IInv => PromotedReadIsWhole
  BY Zenon DEF IInv, PromotedReadIsWhole, ReaderInv, Attempting, Noted, Judged, Pending, Calm
<1> QED BY <1>1, Invariance, PTL

\* What read and the promoted read return was there all at once.
THEOREM ReadsWhole == Spec => []ReadIsWhole
BY ReadAtomic, PromotedWhole, PTL DEF ReadIsWhole

\* Rows that are not whole stay behind a fence or a lifecycle row until a lifecycle
\* operation has completed: no sequence of deaths, failures and repairs exposes them.
THEOREM AbandonedFenced == Spec => []AbandonedIsFenced
<1>1. IInv => AbandonedIsFenced
  BY Zenon DEF IInv, FenceInv
<1> QED BY <1>1, Invariance, PTL
=============================================================================
