-------------------------------- MODULE TopK --------------------------------
(***************************************************************************)
(* The top-k file of topk.rs: a small count-min sketch that estimates how  *)
(* often every element was added, and a binary min-heap of at most k       *)
(* elements ordered by the estimate at their last addition.  Every         *)
(* mutation reads both, works in memory and writes both back whole.        *)
(***************************************************************************)
EXTENDS ProbCells

CONSTANTS
    TopKSize,                  \* k
    TopKWidth, TopKDepth,
    TopKMaxCounters, TopKMaxK, \* MAX_TOPK_CMS_COUNTERS, MAX_TOPK_K
    TopKCounterMax,            \* i64::MAX
    TopKLongElements,          \* elements longer than MAX_ELEMENT_LEN
    NoEntry                    \* a heap slot past heap_len

TopKCounter(i) == <<"topk", i>>
HeapSlot(i) == <<"heap", i>>
HeapLen == <<"heap_len">>

TopKCounters == 0..(TopKWidth * TopKDepth - 1)
TopKCounterCells == {TopKCounter(i) : i \in TopKCounters}
HeapCells == {HeapSlot(i) : i \in 1..TopKSize}
TopKCells == TopKCounterCells \cup HeapCells \cup {HeapLen}

(* Header, counters, k heap slots and the token footer, or a refusal.      *)
topk_layout(k, width, depth) ==
    IF width * depth > TopKMaxCounters \/ k > TopKMaxK THEN Nothing
    ELSE [heap_offset |-> 1 + width * depth, token_offset |-> 1 + width * depth + k,
          file_size |-> 2 + width * depth + k]

topk_file_create_v2(k, width, depth) ==
    IF k = 0 \/ width = 0 \/ depth = 0 \/ topk_layout(k, width, depth) = Nothing
    THEN Refused
    ELSE Planned(Nothing, <<[c \in TopKCells |-> IF c \in HeapCells THEN NoEntry ELSE 0]>>)

v2_read_header(f) == f[HeapLen] <= TopKSize

v2_read_cms(f) == [i \in TopKCounters |-> f[TopKCounter(i)]]
v2_encode_cms(counters) == [c \in TopKCounterCells |-> counters[c[2]]]

v2_read_heap(f) == [i \in 1..f[HeapLen] |-> f[HeapSlot(i)]]
v2_encode_heap(entries) == [c \in {HeapSlot(i) : i \in 1..Len(entries)} |-> entries[c[2]]]

NoDuplicates(entries) ==
    \A i, j \in 1..Len(entries) : i # j => entries[i].element # entries[j].element

entry_precedes(left, right) ==
    \/ left.count < right.count
    \/ left.count = right.count /\ left.element < right.element

Swapped(entries, i, j) == [entries EXCEPT ![i] = entries[j], ![j] = entries[i]]

(* Towards the root while the entry precedes its parent.                   *)
SiftUpStep(acc, step) ==
    LET parent == acc.index \div 2
    IN  IF acc.index > 1 /\ entry_precedes(acc.entries[acc.index], acc.entries[parent])
        THEN [entries |-> Swapped(acc.entries, acc.index, parent), index |-> parent]
        ELSE acc
sift_up(entries, index) ==
    FoldLeft(SiftUpStep, [entries |-> entries, index |-> index], entries).entries

(* Towards the leaves while a child precedes the entry, the smaller child  *)
(* first.                                                                  *)
SiftDownStep(acc, step) ==
    LET n == Len(acc.entries)
        left == 2 * acc.index
        right == left + 1
        child == IF right <= n /\ entry_precedes(acc.entries[right], acc.entries[left])
                 THEN right ELSE left
    IN  IF left <= n /\ entry_precedes(acc.entries[child], acc.entries[acc.index])
        THEN [entries |-> Swapped(acc.entries, acc.index, child), index |-> child]
        ELSE acc
sift_down(entries, index) ==
    FoldLeft(SiftDownStep, [entries |-> entries, index |-> index], entries).entries

(* The heap read from the file is put in heap order before it is used.     *)
Heapify(entries) ==
    FoldLeft(sift_down, entries,
             [i \in 1..(Len(entries) \div 2) |-> (Len(entries) \div 2) + 1 - i])

(* One addition with its new estimate: the entry is re-placed, or inserted *)
(* while there is room, or takes the root's place when it beats it.  The   *)
(* answer is the evicted element, if any.                                  *)
HeapAdd(entries, e, estimated) ==
    LET at == {i \in 1..Len(entries) : entries[i].element = e}
        entry == [element |-> e, count |-> estimated]
        i == CHOOSE j \in at : TRUE
        previous == entries[i].count
        updated == [entries EXCEPT ![i] = entry]
    IN  IF at # {}
        THEN [entries |-> IF estimated < previous THEN sift_up(updated, i)
                          ELSE IF estimated > previous THEN sift_down(updated, i)
                          ELSE updated,
              evicted |-> Nothing]
        ELSE IF Len(entries) < TopKSize
        THEN [entries |-> sift_up(Append(entries, entry), Len(entries) + 1), evicted |-> Nothing]
        ELSE IF estimated <= entries[1].count
        THEN [entries |-> entries, evicted |-> Nothing]
        ELSE [entries |-> sift_down([entries EXCEPT ![1] = entry], 1),
              evicted |-> <<entries[1].element>>]

TopKRow(e) ==
    LET cols == DoubleHash(e, TopKDepth, TopKWidth)
    IN  {(r - 1) * TopKWidth + cols[r] : r \in 1..TopKDepth}

LeastOf(S) == CHOOSE x \in S : \A y \in S : x <= y

(* All rows are checked for overflow before any is changed.                *)
v2_cms_increment(counters, e, count) ==
    IF \E i \in TopKRow(e) : counters[i] + count > TopKCounterMax
    THEN [ok |-> FALSE, counters |-> counters, estimated |-> 0]
    ELSE LET next == [i \in TopKCounters |->
                        IF i \in TopKRow(e) THEN counters[i] + count ELSE counters[i]]
         IN  [ok |-> TRUE, counters |-> next,
              estimated |-> LeastOf({next[i] : i \in TopKRow(e)})]

v2_cms_estimate(counters, e) == LeastOf({counters[i] : i \in TopKRow(e)})

Added(acc, counters, add) ==
    [ok |-> TRUE, counters |-> counters, entries |-> add.entries,
     results |-> Append(acc.results, add.evicted)]

TopKStageOne(acc, item) ==
    LET inc == v2_cms_increment(acc.counters, item.element, item.count)
    IN  IF ~acc.ok \/ ~inc.ok THEN [acc EXCEPT !.ok = FALSE]
        ELSE Added(acc, inc.counters, HeapAdd(acc.entries, item.element, inc.estimated))

(* Counters whole, heap whole, heap_len: at most three images.             *)
StagedPlan(staged) ==
    LET heap == staged.entries
    IN  IF ~staged.ok THEN Refused
        ELSE Planned(staged.results,
                     <<v2_encode_cms(staged.counters)>>
                       \o (IF heap = <<>> THEN <<>> ELSE <<v2_encode_heap(heap)>>)
                       \o <<Cell(HeapLen, Len(heap))>>)

v2_stage_mutation(f, items) ==
    IF ~v2_read_header(f) \/ ~NoDuplicates(v2_read_heap(f)) THEN Failed
    ELSE StagedPlan(FoldLeft(TopKStageOne,
                             [ok |-> TRUE, counters |-> v2_read_cms(f),
                              entries |-> Heapify(v2_read_heap(f)), results |-> <<>>],
                             items))

v2_encode_mutation_results(results) == <<Len(results)>> \o results
v2_decode_mutation_results(encoded, items) ==
    IF Len(encoded) = Len(items) + 1 /\ encoded[1] = Len(items) THEN Tail(encoded)
    ELSE Nothing
v2_stale_mutation_results(items) == [i \in 1..Len(items) |-> Nothing]

(* Overlong elements and increments that are not positive are refused      *)
(* before the file is opened.                                              *)
ElementsFit(items) == \A i \in 1..Len(items) : items[i].element \notin TopKLongElements
Positive(items) == \A i \in 1..Len(items) : items[i].count > 0

topk_file_add_v2(f, items) == IF ~ElementsFit(items) THEN Refused ELSE v2_stage_mutation(f, items)
topk_file_incrby_v2(f, items) ==
    IF ~Positive(items) \/ ~ElementsFit(items) THEN Refused ELSE v2_stage_mutation(f, items)

(* The journaled mutations encode the evicted elements into the receipt.   *)
WithResults(p) == Encoded(p, v2_encode_mutation_results(p.result), p.result, TRUE)
v2_transactional_mutation(f, items) == WithResults(v2_stage_mutation(f, items))
topk_file_add_v2_at(f, items) ==
    IF ~ElementsFit(items) THEN Encoded(Refused, Nothing, Nothing, TRUE)
    ELSE v2_transactional_mutation(f, items)
topk_file_incrby_v2_at(f, items) ==
    IF ~Positive(items) \/ ~ElementsFit(items) THEN Encoded(Refused, Nothing, Nothing, TRUE)
    ELSE v2_transactional_mutation(f, items)

topk_file_query_v2(f, elements) ==
    [i \in 1..Len(elements) |->
        IF \E j \in 1..f[HeapLen] : f[HeapSlot(j)].element = elements[i] THEN 1 ELSE 0]

(* By count at the last addition, largest first, ties by element.          *)
Listed(a, b) == a.count > b.count \/ (a.count = b.count /\ a.element < b.element)
SortedHeap(f) == SetToSortSeq({f[HeapSlot(i)] : i \in 1..f[HeapLen]}, Listed)
topk_file_list_v2(f) ==
    [i \in 1..f[HeapLen] |-> SortedHeap(f)[i].element]

v2_list_with_counts(f) ==
    [i \in 1..f[HeapLen] |->
        <<SortedHeap(f)[i].element, v2_cms_estimate(v2_read_cms(f), SortedHeap(f)[i].element)>>]
topk_file_count_v2(f, elements) ==
    [i \in 1..Len(elements) |-> v2_cms_estimate(v2_read_cms(f), elements[i])]
topk_file_info_v2(f) == <<TopKSize, TopKWidth, TopKDepth>>

topk_file_list_with_count(f) == v2_list_with_counts(f)
topk_file_query_v2_async(f, elements) ==
    Sent(elements, [i \in 1..Len(elements) |->
        IF elements[i] \in {f[HeapSlot(j)].element : j \in 1..f[HeapLen]} THEN 1 ELSE 0])
topk_file_list_v2_async(f) ==
    Sent(Nothing, [i \in 1..f[HeapLen] |-> SortedHeap(f)[i].element])
topk_file_list_with_count_async(f) == Sent(Nothing, v2_list_with_counts(f))
topk_file_count_v2_async(f, elements) ==
    Sent(elements, [i \in 1..Len(elements) |-> v2_cms_estimate(v2_read_cms(f), elements[i])])
topk_file_info_v2_async(f) == Sent(Nothing, <<TopKSize, TopKWidth, TopKDepth>>)
=============================================================================
