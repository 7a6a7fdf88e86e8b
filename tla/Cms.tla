-------------------------------- MODULE Cms --------------------------------
(***************************************************************************)
(* The count-min sketch file of cms.rs: depth rows of width signed 64-bit  *)
(* counters and the unsigned total of the increments.                      *)
(***************************************************************************)
EXTENDS ProbCells

CONSTANTS
    CmsWidth, CmsDepth,
    CmsChunk,        \* CMS_MERGE_CHUNK_COUNTERS
    CmsMaxCounters,  \* MAX_CMS_COUNTERS
    CmsMaxVisits,    \* MAX_CMS_MERGE_COUNTER_VISITS
    CmsCounterMax,   \* i64::MAX
    CmsTotalMax      \* u64::MAX

CmsCounter(k) == <<"cms", k>>
CmsTotal == <<"cms_total">>
CmsDims == <<"cms_dims">>       \* width and depth, fixed at creation

CmsCounters == CmsWidth * CmsDepth
CmsCells == {CmsCounter(k) : k \in 0..(CmsCounters - 1)} \cup {CmsTotal, CmsDims}

hash_indices_standalone(e) == DoubleHash(e, CmsDepth, CmsWidth)

(* The counters of an element: one per row.                                *)
CmsRow(e) ==
    LET cols == hash_indices_standalone(e)
    IN  [r \in 1..CmsDepth |-> (r - 1) * CmsWidth + cols[r]]

cms_counter_bytes(width, depth) ==
    IF width * depth > CmsMaxCounters THEN -1 ELSE width * depth
cms_mutation_token_offset(width, depth) ==
    IF cms_counter_bytes(width, depth) < 0 THEN -1 ELSE 1 + cms_counter_bytes(width, depth)
cms_file_size(width, depth) ==
    IF cms_mutation_token_offset(width, depth) < 0 THEN -1
    ELSE cms_mutation_token_offset(width, depth) + 1

cms_file_create(width, depth, maxDepth) ==
    IF width = 0 \/ depth = 0 \/ depth > maxDepth \/ cms_file_size(width, depth) < 0
    THEN Refused
    ELSE Planned(Nothing,
                 <<[c \in CmsCells |-> IF c = CmsDims THEN <<width, depth>> ELSE 0]>>)

(* A decrement never takes the unsigned total below zero: it saturates.    *)
cms_next_total_count(total, count) ==
    IF count < 0 THEN Max({total + count, 0})
    ELSE IF total + count > CmsTotalMax THEN -1 ELSE total + count

(* The two errors of a merge's sums.                                       *)
Overflow == -1
CannotBeNegative == -2

cms_next_merge_total_count(total, source, weight) ==
    LET next == total + source * weight
    IN  IF next < 0 THEN CannotBeNegative ELSE IF next > CmsTotalMax THEN Overflow ELSE next

cms_finalize_merge_counter(sum) ==
    IF sum < 0 THEN CannotBeNegative ELSE IF sum > CmsCounterMax THEN Overflow ELSE sum

Smallest(S) == CHOOSE x \in S : \A y \in S : x <= y

(* One increment of a batch, against the counters staged so far.           *)
CmsStageOne(acc, item) ==
    LET row == CmsRow(item.element)
        touched == Range(row)
        next == [k \in DOMAIN acc.counters |->
                    IF k \in touched THEN acc.counters[k] + item.count ELSE acc.counters[k]]
        total == cms_next_total_count(acc.total, item.count)
    IN  [counters |-> next,
         total |-> total,
         touched |-> acc.touched \cup touched,
         results |-> Append(acc.results, Smallest({next[k] : k \in touched})),
         ok |-> acc.ok /\ total >= 0
                /\ \A k \in touched : next[k] \in (-CmsCounterMax - 1)..CmsCounterMax]

cms_stage_increments(f, items) ==
    FoldLeft(CmsStageOne,
             [counters |-> [k \in 0..(CmsCounters - 1) |-> f[CmsCounter(k)]],
              total |-> f[CmsTotal], touched |-> {}, results |-> <<>>, ok |-> TRUE],
             items)

cms_encode_counts(counts) == counts
cms_decode_counts(encoded, items) ==
    IF Len(encoded) = Len(items) THEN encoded ELSE Nothing

(* Each changed counter is an image of its own, in file order, then the    *)
(* total.                                                                  *)
CmsIncrementImages(staged) ==
    LET touched == SetToSortSeq(staged.touched, <)
    IN  [i \in 1..Len(touched) |-> Cell(CmsCounter(touched[i]), staged.counters[touched[i]])]
          \o <<Cell(CmsTotal, staged.total)>>

CmsPlan(staged) ==
    IF staged.ok THEN Planned(staged.results, CmsIncrementImages(staged)) ELSE Refused

WithCounts(p) == Encoded(p, cms_encode_counts(p.result), p.result, TRUE)
cms_transactional_incrby(f, items) == WithCounts(CmsPlan(cms_stage_increments(f, items)))
cms_file_incrby_at(f, items) == cms_transactional_incrby(f, items)

cms_query_counts(f, elements) ==
    [i \in 1..Len(elements) |->
        Smallest({f[CmsCounter(k)] : k \in Range(CmsRow(elements[i]))})]

(* The unjournaled increment writes the same cells.                        *)
cms_file_incrby(f, items) == CmsPlan(cms_stage_increments(f, items))

cms_file_query(f, elements) == cms_query_counts(f, elements)
cms_file_info(f) == <<f[CmsDims][1], f[CmsDims][2], f[CmsTotal]>>

(* Merging replaces every counter of the destination by the weighted sum   *)
(* of the sources, a chunk of counters per image, and the total last.      *)
CmsMergeTotal(sources, weights) ==
    FoldLeft(LAMBDA total, i :
                IF total < 0 THEN total
                ELSE cms_next_merge_total_count(total, sources[i][CmsTotal], weights[i]),
             0, [i \in 1..Len(sources) |-> i])

CmsMergeCounter(sources, weights, k) ==
    cms_finalize_merge_counter(
        FoldLeft(LAMBDA sum, i : sum + sources[i][CmsCounter(k)] * weights[i],
                 0, [i \in 1..Len(sources) |-> i]))

(* The first error met decides: an overflow answers the command, a sum     *)
(* below zero does not.                                                    *)
MergeError(error) == IF error = Overflow THEN Refused ELSE Failed

cms_stage_merge(sources, weights) ==
    LET chunks == (CmsCounters + CmsChunk - 1) \div CmsChunk
        merged == [k \in 0..(CmsCounters - 1) |-> CmsMergeCounter(sources, weights, k)]
        total == CmsMergeTotal(sources, weights)
        chunk(j) == {k \in 0..(CmsCounters - 1) : k \div CmsChunk = j}
        wrong == {k \in DOMAIN merged : merged[k] < 0}
    IN  IF Len(sources) # Len(weights) THEN Refused
        ELSE IF CmsCounters * Len(sources) > CmsMaxVisits THEN Failed
        ELSE IF \E i \in 1..Len(sources) : sources[i][CmsDims] # <<CmsWidth, CmsDepth>>
        THEN Refused
        ELSE IF sources = <<>> THEN Planned(Nothing, <<>>)
        ELSE IF total < 0 THEN MergeError(total)
        ELSE IF wrong # {} THEN MergeError(merged[Smallest(wrong)])
        ELSE Planned(Nothing,
                     [j \in 1..chunks |->
                        [c \in {CmsCounter(k) : k \in chunk(j - 1)} |-> merged[c[2]]]]
                       \o <<Cell(CmsTotal, total)>>)

(* The unjournaled merge writes the plan's images in order and syncs once. *)
cms_apply_merge_plan(f, plan) == WriteImages(f, plan.images)

cms_file_merge(f, sources, weights, maxSources) ==
    IF Len(sources) # Len(weights) THEN Refused
    ELSE IF Len(sources) > maxSources THEN Failed
    ELSE cms_stage_merge(sources, weights)

(* The journaled merge checks the destination's token a first time before  *)
(* it needs the sources, which later commands may have removed, and again  *)
(* under the lock of all of them; both checks are ProbTxn's begin.  A      *)
(* merge of no source writes no transaction.                               *)
cms_file_merge_at(f, sources, weights, maxSources) ==
    LET p == cms_file_merge(f, sources, weights, maxSources)
    IN  Encoded(p, Nothing, Nothing, p.images # <<>>)

cms_file_query_async(f, elements) ==
    Sent(elements, [i \in 1..Len(elements) |->
        LET row == CmsRow(elements[i])
        IN  Smallest({f[CmsCounter(row[r])] : r \in DOMAIN row})])
cms_file_info_async(f) == Sent(Nothing, <<f[CmsDims][1], f[CmsDims][2], f[CmsTotal]>>)
=============================================================================
