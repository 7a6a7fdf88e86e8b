------------------------------ MODULE FlowIndex ------------------------------
(***************************************************************************)
(* The native ordered index of the Flow engine (flow_index.rs): members    *)
(* scored under keys, held twice - in the BTreeSet `ordered' that answers  *)
(* the range and due queries, and in the map `lookup' that answers point   *)
(* queries - plus a count per key and two catalogs of the keys whose count *)
(* is positive.  Every NIF takes the resource's RwLock for its whole body, *)
(* so every NIF is one step; a reader that walks a key page by page takes  *)
(* the lock once per page, so writers get in between two of its pages.     *)
(***************************************************************************)
EXTENDS Integers, Sequences, FiniteSets, FiniteSetsExt, SequencesExt

CONSTANTS Keys,         \* keys, as integers in the byte order of the keys
          DueKeys,      \* the keys that due_key/1 recognises
          HistoryKeys,  \* the keys that history_index_key/1 recognises
          Members,      \* members, as positive integers in byte order
          EventVersion, \* [Members -> Nat]: the number after an event id's dash
          LaneTarget,   \* [Members -> Members \cup {0}]: a lane member's id, 0: none
          Scores,       \* f64 scores, as ordinals of IEEE's total order
          MaxItems,     \* MAX_FLOW_INDEX_REQUEST_ITEMS
          PutLists, PutNewLists, MoveLists, DeleteLists, \* requests
          Batches,      \* requests of apply_batch
          CountKeys, CountValues, \* keys and counts that a caller restores
          QueryKeys,    \* keys that range queries and delete_members name
          WalkKeys, PageSize, \* keys a reader walks, rows it asks for
          Infinity,     \* the ordinal of f64::INFINITY
          None          \* Option::None

VARIABLES index,    \* the FlowOrderedIndex
          restored, \* keys whose count a caller has overwritten
          walk      \* a reader that pages through one key

ivars == <<index, restored, walk>>
-----------------------------------------------------------------------------
\* The ordinals put -0.0 just below 0.0 and one ordinal between neighbours.
NegZero == -1

\* Score::canonical: IEEE equality and the order used by Score.
canonical(s) == IF s = NegZero THEN 0 ELSE s

history_event_version(m) == IF m = 0 THEN 0 ELSE EventVersion[m]

member_rank(k, m) == IF k \in HistoryKeys THEN history_event_version(m) ELSE 0

\* The empty member, which sorts before every other, is 0.
OrderedEntry(k, s, m) == [key |-> k, score |-> s, rank |-> member_rank(k, m), member |-> m]

LexLess(a, b) == \E i \in DOMAIN a : a[i] < b[i] /\ \A j \in 1..(i - 1) : a[j] = b[j]

SortKey(e) == <<e.key, canonical(e.score), e.rank, e.member>>

EntryLess(a, b) == LexLess(SortKey(a), SortKey(b))

\* BTreeSet::insert and ::remove compare with Ord: -0.0 and 0.0 are one score.
BTreeInsert(S, e) == IF \E f \in S : SortKey(f) = SortKey(e) THEN S ELSE S \cup {e}

BTreeRemove(S, e) == {f \in S : SortKey(f) # SortKey(e)}

\* A set of entries as the iterator of the BTreeSet yields it.
Ascending(S) == [i \in 1..Cardinality(S) |->
                   CHOOSE e \in S : Cardinality({f \in S : EntryLess(f, e)}) = i - 1]

\* Every reader takes an absent count for zero, and so does the map here.
EmptyIndex == [ordered |-> {}, lookup |-> <<>>, counts |-> [k \in Keys |-> 0], positive |-> {}, due |-> {}]

lookup_score(x, k, m) == IF <<k, m>> \in DOMAIN x.lookup THEN x.lookup[<<k, m>>] ELSE None

insert_lookup(x, k, m, s) ==
  [x EXCEPT !.lookup = [p \in DOMAIN x.lookup \cup {<<k, m>>} |->
                          IF p = <<k, m>> THEN s ELSE x.lookup[p]]]

remove_lookup(x, k, m) ==
  [x EXCEPT !.lookup = [p \in DOMAIN x.lookup \ {<<k, m>>} |-> x.lookup[p]]]

set_shared_count(x, k, c) ==
  [x EXCEPT !.counts[k] = c,
            !.positive = IF c > 0 THEN @ \cup {k} ELSE @ \ {k},
            !.due = IF c > 0 /\ k \in DueKeys THEN @ \cup {k} ELSE @ \ {k}]

increment_count(x, k, d) == IF d = 0 THEN x ELSE set_shared_count(x, k, x.counts[k] + d)

remove_count(x, k) ==
  [x EXCEPT !.counts[k] = 0, !.positive = @ \ {k}, !.due = @ \ {k}]

put(x, k, m, s, new_only) ==
  LET old == lookup_score(x, k, m)
      y == IF old # None
           THEN [x EXCEPT !.ordered = BTreeRemove(@, OrderedEntry(k, old, m))]
           ELSE increment_count(x, k, 1)
  IN IF old # None /\ new_only THEN x
     ELSE insert_lookup([y EXCEPT !.ordered = BTreeInsert(@, OrderedEntry(k, s, m))], k, m, s)

delete_without_count(x, k, m) ==
  LET old == lookup_score(x, k, m)
  IN IF old = None THEN x
     ELSE [remove_lookup(x, k, m) EXCEPT !.ordered = BTreeRemove(@, OrderedEntry(k, old, m))]

put_new_without_count(x, k, m, s) ==
  IF lookup_score(x, k, m) # None THEN x
  ELSE insert_lookup([x EXCEPT !.ordered = BTreeInsert(@, OrderedEntry(k, s, m))], k, m, s)

delete(x, k, m) ==
  IF lookup_score(x, k, m) = None THEN x
  ELSE increment_count(delete_without_count(x, k, m), k, -1)

move_member(x, from, to, m, s) ==
  IF from = to THEN put(x, to, m, s, FALSE)
  ELSE LET y == delete(delete(x, from, m), to, m)
       IN increment_count(insert_lookup([y EXCEPT !.ordered =
            BTreeInsert(@, OrderedEntry(to, s, m))], to, m, s), to, 1)
-----------------------------------------------------------------------------
(* Range queries.  A bound is <<kind, score>>.                             *)

NegInf == <<"neg_inf", 0>>
PosInf == <<"pos_inf", 0>>

can_match_min(b) == b[1] \notin {"pos_inf", "impossible"}
can_match_max(b) == b[1] \notin {"neg_inf", "impossible"}

\* The neighbour of a float; both zeros step to the least positive one.
next_score(s) == IF s = Infinity THEN None ELSE IF canonical(s) = 0 THEN 1 ELSE s + 1

\* A key's bytes followed by a zero byte: nothing lies between the two.
upper_key_for_exact_key(k) == k + 1

AfterKey(k) == OrderedEntry(upper_key_for_exact_key(k), -Infinity, 0)

lower_entry_for_exact_key(k, min) ==
  CASE min[1] = "neg_inf" -> OrderedEntry(k, -Infinity, 0)
    [] min[1] = "incl" -> OrderedEntry(k, min[2], 0)
    [] min[1] = "excl" /\ next_score(min[2]) # None -> OrderedEntry(k, next_score(min[2]), 0)
    [] OTHER -> None

\* An inclusive bound taken as an exclusive one.
upper_entry_short(k, max) ==
  CASE max[1] = "pos_inf" -> AfterKey(k)
    [] max[1] \in {"excl", "incl"} -> OrderedEntry(k, max[2], 0)
    [] OTHER -> None

upper_entry_for_exact_key(k, max) ==
  CASE max[1] = "pos_inf" -> AfterKey(k)
    [] max[1] = "excl" -> OrderedEntry(k, max[2], 0)
    [] max[1] = "incl" /\ max[2] = Infinity -> AfterKey(k)
    [] max[1] = "incl" -> OrderedEntry(k, next_score(max[2]), 0)
    [] OTHER -> None

\* The entries between the two bounds' entries: the half-open range of the set.
exact_key_range_bounds(x, k, min, max) ==
  LET lower == lower_entry_for_exact_key(k, min)
      upper == upper_entry_for_exact_key(k, max)
  IN IF lower = None \/ upper = None THEN {}
     ELSE {e \in x.ordered : ~EntryLess(e, lower) /\ EntryLess(e, upper)}

Rows(seq) == [i \in DOMAIN seq |-> <<seq[i].member, seq[i].score>>]

Slice(seq, offset, n) == SubSeq(seq, offset + 1, IF offset + n < Len(seq) THEN offset + n ELSE Len(seq))

range_slice(x, k, min, max, reverse, offset, n) ==
  IF ~can_match_min(min) \/ ~can_match_max(max) \/ n = 0 THEN <<>>
  ELSE LET seq == Ascending(exact_key_range_bounds(x, k, min, max))
       IN Rows(Slice(IF reverse THEN Reverse(seq) ELSE seq, offset, n))

range_reverse_before(x, k, min, max, cursor, offset, n) ==
  IF ~can_match_min(min) \/ ~can_match_max(max) \/ n = 0 THEN <<>>
  ELSE LET before == OrderedEntry(k, cursor[2], cursor[1])
           S == {e \in exact_key_range_bounds(x, k, min, max) : EntryLess(e, before)}
       IN Rows(Slice(Reverse(Ascending(S)), offset, n))

\* Mutant: the rank is left out of the comparison with the cursor.
range_forward_by_bytes(x, k, min, max, cursor, offset, n) ==
  IF ~can_match_min(min) \/ ~can_match_max(max) \/ n = 0 THEN <<>>
  ELSE LET S == {e \in exact_key_range_bounds(x, k, min, max) :
                   LexLess(<<canonical(cursor[2]), cursor[1]>>, <<canonical(e.score), e.member>>)}
       IN Rows(Slice(Ascending(S), offset, n))

range_forward_after(x, k, min, max, cursor, offset, n) ==
  IF ~can_match_min(min) \/ ~can_match_max(max) \/ n = 0 THEN <<>>
  ELSE LET after == OrderedEntry(k, cursor[2], cursor[1])
           S == {e \in exact_key_range_bounds(x, k, min, max) : EntryLess(after, e)}
       IN Rows(Slice(Ascending(S), offset, n))
-----------------------------------------------------------------------------
(* Due queries.                                                            *)

\* DueCursor: a key's entries from its first one until one is not due.
DueCursor(x, k, max) ==
  Ascending({e \in x.ordered : e.key = k /\ canonical(e.score) <= canonical(max)})

take_due(x, k, max, n) ==
  LET rows == Slice(DueCursor(x, k, max), 0, n)
  IN [rows |-> Rows(rows), index |-> FoldLeft(LAMBDA y, e : delete(y, k, e.member), x, rows)]

DueRows(seq) == [i \in DOMAIN seq |-> <<seq[i].key, seq[i].member, seq[i].score>>]

claim_due_candidates_single_key(x, k, max, limit, scan) ==
  DueRows(Slice(DueCursor(x, k, max), 0, IF limit < scan THEN limit ELSE scan))

\* DueCandidate's order: score, member, key, then the position of the key asked for.
CandidateLess(a, b) ==
  LexLess(<<canonical(a.e.score), a.e.member, a.e.key, a.i>>,
          <<canonical(b.e.score), b.e.member, b.e.key, b.i>>)

\* The heap of one head per key: each pop advances the cursor it came from.
HeapStep(acc, n) ==
  LET heads == {[e |-> acc.cursors[i][1], i |-> i] : i \in {j \in DOMAIN acc.cursors : acc.cursors[j] # <<>>}}
      top == CHOOSE c \in heads : \A d \in heads \ {c} : CandidateLess(c, d)
  IN IF heads = {} THEN acc
     ELSE [rows |-> Append(acc.rows, top.e), cursors |-> [acc.cursors EXCEPT ![top.i] = Tail(@)]]

claim_due_candidates(x, keys, max, limit, scan) ==
  IF keys = <<>> \/ limit = 0 \/ scan = 0 \/ x.ordered = {} THEN <<>>
  ELSE IF Len(keys) = 1 THEN claim_due_candidates_single_key(x, keys[1], max, limit, scan)
  ELSE LET cursors == [i \in DOMAIN keys |-> DueCursor(x, keys[i], max)]
           n == IF limit < scan THEN limit ELSE scan
       IN DueRows(FoldLeft(HeapStep, [rows |-> <<>>, cursors |-> cursors], [i \in 1..n |-> i]).rows)

\* range(lower..).next() for a key, if the entry found belongs to the key.
first_for_key(x, k) ==
  LET seq == Ascending({e \in x.ordered : ~EntryLess(e, OrderedEntry(k, -Infinity, 0))})
  IN IF seq # <<>> /\ seq[1].key = k THEN seq[1] ELSE None

\* A lane's oldest member and the due score of the Flow it stands for.
fifo_lane_heads(x, due, lanes) ==
  LET First(l) == first_for_key(x, l)
      found == SelectSeq(lanes, LAMBDA l : First(l) # None /\ LaneTarget[First(l).member] # 0)
  IN [i \in DOMAIN found |->
        <<found[i], First(found[i]).member, lookup_score(x, due, LaneTarget[First(found[i]).member])>>]

fifo_lane_heads_many(x, pairs) ==
  FoldLeft(LAMBDA acc, p : acc \o [i \in DOMAIN fifo_lane_heads(x, p[1], <<p[2]>>) |->
                                     <<p[1]>> \o fifo_lane_heads(x, p[1], <<p[2]>>)[i]], <<>>, pairs)

due_keys_present(x, keys, max) ==
  SelectSeq(keys, LAMBDA k : first_for_key(x, k) # None /\ canonical(first_for_key(x, k).score) <= canonical(max))

\* The catalog read is that of the positive due counts; `matching' stands for
\* the keys that pass the prefix, substring and suffix patterns.
earliest_due_score_matching(x, matching) ==
  LET found == {canonical(first_for_key(x, k).score) : k \in {j \in x.due \cap matching : first_for_key(x, j) # None}}
  IN IF found = {} THEN None ELSE CHOOSE s \in found : \A t \in found : s <= t

count_keys_page(x, due_only, cursor, limit) ==
  LET S == {k \in (IF due_only THEN x.due ELSE x.positive) : cursor = None \/ k > cursor}
      seq == [i \in 1..Cardinality(S) |-> CHOOSE k \in S : Cardinality({j \in S : j < k}) = i - 1]
  IN Slice(seq, 0, limit)
-----------------------------------------------------------------------------
(* The NIFs that write.  A request above the budget is refused before the  *)
(* lock is taken and changes nothing; so does one that finds the lock busy. *)

within_limits(items) == items <= MaxItems

ApplyPuts(x, es, new_only) == FoldLeft(LAMBDA y, e : put(y, e[1], e[2], e[3], new_only), x, es)

ApplyMoves(x, es) == FoldLeft(LAMBDA y, e : move_member(y, e[1], e[2], e[3], e[4]), x, es)

ApplyDeletes(x, es) == FoldLeft(LAMBDA y, e : delete(y, e[1], e[2]), x, es)

\* What a walking reader must not miss: the rows its key has held all along.
RowsOf(x, k) == {<<p[2], x.lookup[p]>> : p \in {q \in DOMAIN x.lookup : q[1] = k}}

Idle == [on |-> FALSE, key |-> CHOOSE k \in Keys : TRUE, reverse |-> FALSE, seen |-> <<>>, stable |-> {}]

Write(x) ==
  /\ index' = x
  /\ walk' = IF walk.on THEN [walk EXCEPT !.stable = @ \cap RowsOf(x, walk.key)] ELSE Idle

flow_index_put_entries(es) ==
  within_limits(Len(es)) /\ Write(ApplyPuts(index, es, FALSE)) /\ UNCHANGED restored

flow_index_put_new_entries(es) ==
  within_limits(Len(es)) /\ Write(ApplyPuts(index, es, TRUE)) /\ UNCHANGED restored

flow_index_move_entries(es) ==
  within_limits(Len(es)) /\ Write(ApplyMoves(index, es)) /\ UNCHANGED restored

flow_index_delete_members(k, ms) ==
  /\ within_limits(Len(ms))
  /\ Write(FoldLeft(LAMBDA y, m : delete(y, k, m), index, ms)) /\ UNCHANGED restored

flow_index_delete_entries(es) ==
  within_limits(Len(es)) /\ Write(ApplyDeletes(index, es)) /\ UNCHANGED restored

flow_index_take_due(k, max, n) ==
  Write(take_due(index, k, max, n).index) /\ UNCHANGED restored

flow_index_restore_count(k, c) ==
  Write(set_shared_count(index, k, c)) /\ restored' = restored \cup {k}

flow_index_delete_count(k) ==
  Write(remove_count(index, k)) /\ restored' = restored \cup {k}

\* add_count_delta, then one pass over the deltas when the batch is done.
apply_count_deltas(x, deltas) ==
  FoldSet(LAMBDA k, y : increment_count(y, k, deltas[k]), x, DOMAIN deltas)

\* delete_without_count and put_new_without_count, with the deltas they earn.
Deleting(acc, k, m) ==
  [x |-> delete_without_count(acc.x, k, m),
   d |-> [acc.d EXCEPT ![k] = @ - IF lookup_score(acc.x, k, m) # None THEN 1 ELSE 0]]

PuttingNew(acc, k, m, s) ==
  [x |-> put_new_without_count(acc.x, k, m, s),
   d |-> [acc.d EXCEPT ![k] = @ + IF lookup_score(acc.x, k, m) = None THEN 1 ELSE 0]]

\* Mutant: the claimed Flow is left in the index of the state it was claimed from.
ClaimKeepsState(acc, c) ==
  LET a == Deleting(acc, c.from_due, c.id)
      b == PuttingNew(a, c.to_due, c.id, c.to_due_score)
      e == PuttingNew(b, c.to_state, c.id, c.to_state_score)
      f == PuttingNew(e, c.inflight, c.id, c.lease_score)
  IN PuttingNew(f, c.worker, c.id, c.lease_score)

ClaimOne(acc, c) ==
  LET a == Deleting(acc, c.from_due, c.id)
      b == PuttingNew(a, c.to_due, c.id, c.to_due_score)
      d == Deleting(b, c.from_state, c.id)
      e == PuttingNew(d, c.to_state, c.id, c.to_state_score)
      f == PuttingNew(e, c.inflight, c.id, c.lease_score)
  IN PuttingNew(f, c.worker, c.id, c.lease_score)

RollbackOne(acc, c) ==
  LET a == Deleting(acc, c.to_due, c.id)
      b == PuttingNew(a, c.from_due, c.id, c.from_due_score)
      d == Deleting(b, c.to_state, c.id)
      e == Deleting(d, c.inflight, c.id)
      f == Deleting(e, c.worker, c.id)
  IN PuttingNew(f, c.from_state, c.id, c.from_state_score)

apply_claim_entries_locked(x, cs) ==
  LET acc == FoldLeft(ClaimOne, [x |-> x, d |-> [k \in Keys |-> 0]], cs)
  IN apply_count_deltas(acc.x, acc.d)

rollback_claim_entries(x, cs) ==
  LET acc == FoldLeft(RollbackOne, [x |-> x, d |-> [k \in Keys |-> 0]], cs)
  IN apply_count_deltas(acc.x, acc.d)

\* puts, new puts, moves, deletes and claims, in this order under one lock.
flow_index_apply_batch(b) ==
  /\ within_limits(Len(b.puts) + Len(b.news) + Len(b.moves) + Len(b.dels) + 6 * Len(b.claims))
  /\ Write(apply_claim_entries_locked(ApplyDeletes(ApplyMoves(ApplyPuts(
              ApplyPuts(index, b.puts, FALSE), b.news, TRUE), b.moves), b.dels), b.claims))
  /\ UNCHANGED restored
-----------------------------------------------------------------------------
(* A reader that walks a key: the first page by range_slice, each further   *)
(* page from the last row of the one before, until a page comes back short. *)

flow_index_range_slice(k, reverse) ==
  /\ ~walk.on
  /\ LET page == range_slice(index, k, NegInf, PosInf, reverse, 0, PageSize)
     IN walk' = [on |-> Len(page) = PageSize, key |-> k, reverse |-> reverse,
                 seen |-> page, stable |-> RowsOf(index, k)]
  /\ UNCHANGED <<index, restored>>

Turn(page) ==
  /\ walk' = [walk EXCEPT !.on = Len(page) = PageSize, !.seen = @ \o page]
  /\ UNCHANGED <<index, restored>>

flow_index_range_after_slice ==
  /\ walk.on /\ ~walk.reverse
  /\ Turn(range_forward_after(index, walk.key, NegInf, PosInf, Last(walk.seen), 0, PageSize))

flow_index_range_cursor_slice ==
  /\ walk.on /\ walk.reverse
  /\ Turn(range_reverse_before(index, walk.key, NegInf, PosInf, Last(walk.seen), 0, PageSize))
-----------------------------------------------------------------------------
IndexInit == index = EmptyIndex /\ restored = {} /\ walk = Idle

IndexNext ==
  \/ \E es \in PutLists : flow_index_put_entries(es)
  \/ \E es \in PutNewLists : flow_index_put_new_entries(es)
  \/ \E es \in MoveLists : flow_index_move_entries(es)
  \/ \E es \in DeleteLists : flow_index_delete_entries(es)
  \/ \E k \in QueryKeys : flow_index_delete_members(k, SetToSeq(Members))
  \/ \E b \in Batches : flow_index_apply_batch(b)
  \/ \E k \in DueKeys, max \in Scores : flow_index_take_due(k, max, 1)
  \/ \E k \in CountKeys, c \in CountValues : flow_index_restore_count(k, c)
  \/ \E k \in CountKeys : flow_index_delete_count(k)
  \/ \E k \in WalkKeys, reverse \in BOOLEAN : flow_index_range_slice(k, reverse)
  \/ flow_index_range_after_slice
  \/ flow_index_range_cursor_slice

IndexSpec == IndexInit /\ [][IndexNext]_ivars
-----------------------------------------------------------------------------
(* Properties.                                                             *)

\* The two copies of the index never drift apart, whatever sequence of puts,
\* moves, deletes, claims and roll-backs runs: the BTreeSet holds one entry for
\* each member of `lookup', at the score stored there and at the rank its bytes
\* earn; a key's count is the number of its members unless a caller restored
\* or dropped it; and both catalogs list exactly the keys with a positive count.
IndexCoherent ==
  /\ index.ordered = {OrderedEntry(p[1], index.lookup[p], p[2]) : p \in DOMAIN index.lookup}
  /\ \A k \in Keys \ restored : index.counts[k] = Cardinality(RowsOf(index, k))
  /\ index.positive = {k \in Keys : index.counts[k] > 0}
  /\ index.due = index.positive \cap DueKeys

\* A reader that pages through a key with the cursor of its last row, in either
\* direction, while writers change the key between two pages, returns every row
\* that stayed put throughout exactly once and in order - also among entries of
\* one score, where a history key orders by event version and not by bytes.
WalkComplete ==
  LET Held == SelectSeq(walk.seen, LAMBDA r : r \in walk.stable)
      Entry(r) == OrderedEntry(walk.key, r[2], r[1])
      Before(a, b) == IF walk.reverse THEN EntryLess(Entry(b), Entry(a)) ELSE EntryLess(Entry(a), Entry(b))
  IN /\ \A i, j \in DOMAIN Held : i < j => Before(Held[i], Held[j])
     /\ ~walk.on => \A r \in walk.stable : \E i \in DOMAIN Held : Held[i] = r

\* Whether a row's score satisfies a pair of bounds, as the caller means them.
Within(s, min, max) ==
  /\ CASE min[1] = "neg_inf" -> TRUE [] min[1] = "incl" -> canonical(s) >= canonical(min[2])
       [] min[1] = "excl" -> canonical(s) > canonical(min[2]) [] OTHER -> FALSE
  /\ CASE max[1] = "pos_inf" -> TRUE [] max[1] = "incl" -> canonical(s) <= canonical(max[2])
       [] max[1] = "excl" -> canonical(s) < canonical(max[2]) [] OTHER -> FALSE

Bounds == {NegInf, PosInf, <<"impossible", 0>>} \cup ({"incl", "excl"} \X (Scores \cup {Infinity}))

\* A range query returns exactly the rows of its key whose score the bounds
\* admit - the bounds being turned into entries of the ordered set through the
\* float next to a score, with -0.0 and 0.0 one score and infinity having no
\* neighbour - and never a row of the key that sorts next.
RangeExact ==
  \A k \in QueryKeys, min \in Bounds, max \in Bounds :
    LET rows == range_slice(index, k, min, max, FALSE, 0, Cardinality(Members))
        admitted == {r \in RowsOf(index, k) : Within(r[2], min, max)}
    IN ToSet(rows) = admitted /\ Len(rows) = Cardinality(admitted)

\* The candidates for a claim over several due keys, merged from one cursor per
\* key through a heap, are the earliest due rows of all the keys: as many as the
\* limits and the due rows allow, no row twice, none left out that sorts before
\* one returned.  The keys reported present are those with a due row, and the
\* earliest due score, found through the catalog, is the least of the rows'.
DueQueriesExact ==
  \A max \in Scores, n \in 1..2, scan \in 1..3 :
    LET keys == SetToSeq(DueKeys)
        rows == claim_due_candidates(index, keys, max, n, scan)
        due == {<<e.key, e.member, e.score>> : e \in {f \in index.ordered :
                  f.key \in DueKeys /\ canonical(f.score) <= canonical(max)}}
        Order(r) == <<canonical(r[3]), r[2], r[1]>>
        size == CHOOSE c \in 0..3 : c = IF n < scan THEN (IF n < Cardinality(due) THEN n ELSE Cardinality(due))
                                      ELSE IF scan < Cardinality(due) THEN scan ELSE Cardinality(due)
    IN /\ ToSet(rows) \subseteq due /\ Len(rows) = size
       /\ \A i \in DOMAIN rows, r \in due :
            \/ \E j \in 1..i : rows[j] = r
            \/ LexLess(Order(rows[i]), Order(r))
       /\ LET s == earliest_due_score_matching(index, DueKeys \ restored)
              all == {canonical(e.score) : e \in {f \in index.ordered : f.key \in DueKeys \ restored}}
          IN IF all = {} THEN s = None ELSE s \in all /\ \A t \in all : s <= t
       /\ due_keys_present(index, keys, max) = SelectSeq(keys, LAMBDA k : \E r \in due : r[1] = k)

\* Both kinds of query, on every index a write can leave (a walk changes none).
ReadsExact == walk = Idle => RangeExact /\ DueQueriesExact

\* Whoever reads the index, page by page or at once, gets what is in it.
QueriesExact == WalkComplete /\ ReadsExact
=============================================================================
