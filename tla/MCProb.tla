------------------------------- MODULE MCProb -------------------------------
(***************************************************************************)
(* The journal ProbTxn with each of the four structures plugged in.  One   *)
(* file carries the cells of all four; every log mutates one of them.      *)
(***************************************************************************)
EXTENDS ProbTxn, Bloom, Cms, Cuckoo, TopK

MCCells == BloomCells \cup CmsCells \cup CuckooCells \cup TopKCells

Creates ==
    <<bloom_file_create(BloomBits, BloomHashes, 2), cms_file_create(CmsWidth, CmsDepth, 2),
      cuckoo_file_create(CuckooBuckets * CuckooSlots, CuckooSlots),
      topk_file_create_v2(TopKSize, TopKWidth, TopKDepth)>>
MCFresh ==
    [c \in MCCells |->
        LET k == CHOOSE k \in 1..4 : c \in DOMAIN Creates[k].images[1]
        IN  Creates[k].images[1][c]]

(* Hashes of the elements and fingerprints 1..3.                           *)
MCHash1 == <<0, 3, 4>>
MCHash2 == <<1, 1, 2>>
MCFp == <<0, 2, 1>>

Elements(e) == [i \in 1..Len(e.items) |-> e.items[i].element]
Item(el, n) == [element |-> el, count |-> n]
Op(op, items) == [target |-> "file", op |-> op, items |-> items]

BloomOps == {Op("bf_add", <<Item(1, 1)>>), Op("bf_madd", <<Item(2, 1), Item(3, 1)>>)}
CmsOps == {Op("cms_incrby", <<Item(1, 2), Item(2, 1)>>), Op("cms_incrby", <<Item(3, -1)>>),
           Op("merge", <<Item(0, 2)>>)}
SourceOps == {[target |-> "source", op |-> "cms_incrby", items |-> <<Item(1, n)>>] : n \in {2, -1}}
CuckooOps == {Op("cf_add", <<Item(1, 1)>>), Op("cf_add", <<Item(3, 1)>>),
              Op("cf_addnx", <<Item(2, 1)>>), Op("cf_del", <<Item(1, 1)>>)}
TopKOps == {Op("topk_incrby", <<Item(1, 2)>>), Op("topk_incrby", <<Item(2, 1), Item(3, 2)>>)}

MCPlan(f, e, src) ==
    LET x == e.items[1].element
    IN  CASE e.op = "bf_add" -> bloom_file_add_at(f, x)
          [] e.op = "bf_madd" -> bloom_file_madd_at(f, Elements(e))
          [] e.op = "cms_incrby" -> cms_file_incrby_at(f, e.items)
          [] e.op = "merge" -> cms_file_merge_at(f, <<src>>, <<e.items[1].count>>, 1)
          [] e.op = "cf_add" -> cuckoo_file_add_at(f, x)
          [] e.op = "cf_addnx" -> cuckoo_file_addnx_at(f, x)
          [] e.op = "cf_del" -> cuckoo_file_del_at(f, x)
          [] e.op = "topk_incrby" -> topk_file_incrby_v2_at(f, e.items)
          [] e.op = "topk_add" -> topk_file_add_v2_at(f, e.items)

MCDecode(result, e) ==
    CASE e.op \in {"bf_add", "bf_madd"} -> bloom_decode_results(result, e.items)
      [] e.op = "cms_incrby" -> cms_decode_counts(result, e.items)
      [] e.op = "merge" -> Nothing
      [] e.op \in {"cf_add", "cf_addnx", "cf_del"} -> cuckoo_decode_mutation_result(result)
      [] e.op \in {"topk_add", "topk_incrby"} -> v2_decode_mutation_results(result, e.items)

MCStale(f, e) ==
    CASE e.op \in {"bf_add", "bf_madd"} -> bloom_stale_results(e.items)
      [] e.op = "cms_incrby" -> cms_query_counts(f, Elements(e))
      [] e.op = "merge" -> Nothing
      [] e.op \in {"cf_add", "cf_addnx", "cf_del"} -> CuckooStale(e.op)
      [] e.op \in {"topk_add", "topk_incrby"} -> v2_stale_mutation_results(e.items)

MCDirect(f, e) ==
    Journaled(
        CASE e.op = "bf_madd" -> bloom_file_madd(f, Elements(e))
          [] e.op = "bf_add" -> bloom_file_add(f, e.items[1].element)
          [] e.op = "cms_incrby" -> cms_file_incrby(f, e.items)
          [] e.op = "cf_add" -> cuckoo_file_add(f, e.items[1].element)
          [] e.op = "cf_addnx" -> cuckoo_file_addnx(f, e.items[1].element)
          [] e.op = "cf_del" -> cuckoo_file_del(f, e.items[1].element)
          [] e.op = "topk_incrby" -> topk_file_incrby_v2(f, e.items)
          [] e.op = "topk_add" -> topk_file_add_v2(f, e.items))

MCSourceAfter(src, e) == WriteImages(src, cms_transactional_incrby(src, e.items).images)

(* Logs of three entries, in three indexes or with two in the first.       *)
TokenSets == {<<<<1, 1>>, <<1, 2>>, <<2, 1>>>>, <<<<1, 1>>, <<2, 1>>, <<3, 1>>>>}
WithTokens(ops3, tokens) ==
    [p \in 1..3 |-> [target |-> ops3[p].target, op |-> ops3[p].op, items |-> ops3[p].items,
                     token |-> tokens[p]]]
MCLogs ==
    UNION {{WithTokens(ops3, tokens) : ops3 \in [1..3 -> S], tokens \in TokenSets} :
           S \in {BloomOps, CuckooOps, TopKOps, CmsOps \cup SourceOps}}

MCLarge(t) == Len(t.images) >= 4
Kinds == {{"bf_madd", "bf_add"}, {"cms_incrby"}, {"cf_add", "cf_addnx", "cf_del"},
          {"topk_incrby", "topk_add"}}
DirectOps ==
    {o \in BloomOps \cup CuckooOps \cup TopKOps \cup CmsOps : o.op # "merge"}
      \cup {Op("topk_add", <<Item(1, 1)>>)}
MCDirectEntries(done) ==
    IF done = <<>> THEN DirectOps
    ELSE {o \in DirectOps : \E K \in Kinds : {o.op, done[1].op} \subseteq K}

(* The structures meet what ProbTxn_proofs asks of one, on every content   *)
(* that three mutations lead to: images stay within the cells and off the  *)
(* token, and, merges aside, receipts answer as the mutation did.          *)
Sources == {MCFresh} \cup {MCSourceAfter(MCFresh, e) : e \in SourceOps}
Mutations == BloomOps \cup CuckooOps \cup TopKOps \cup CmsOps
AfterOne(contents) ==
    contents \cup {Overlay(f, MCPlan(f, e, src).images) :
                      f \in contents, e \in Mutations, src \in Sources}
AfterThree == AfterOne(AfterOne(AfterOne({MCFresh})))
OnCells(images) == \A k \in 1..Len(images) : DOMAIN images[k] \subseteq MCCells \ {TokenCell}
ASSUME StructuresFit ==
    /\ \A f \in AfterThree, e \in Mutations, src \in Sources :
         LET plan == MCPlan(f, e, src)
         IN  /\ plan.ok /\ plan.commits => OnCells(plan.images)
             /\ e.op # "merge" =>
                  /\ plan.ok /\ plan.commits => /\ MCDecode(plan.result, e) = plan.answer
                                                /\ plan.answer # Nil /\ plan.answer # "error"
                  /\ plan.ok /\ ~plan.commits => plan.answer # Nil
                  /\ MCStale(f, e) # Nil
    /\ \A f \in AfterThree, o \in DirectOps :
         LET plan == MCDirect(f, o) IN plan.ok => OnCells(plan.images) /\ plan.answer # "error"

(***************************************************************************)
(* What the structures promise, against the history of the published       *)
(* mutations.                                                              *)
(***************************************************************************)
History == FlattenSeq([i \in 1..Len(ops) |->
              [j \in 1..Len(log[ops[i]].items) |->
                  [op |-> log[ops[i]].op, element |-> log[ops[i]].items[j].element,
                   count |-> log[ops[i]].items[j].count]]])
Did(opset) == SelectSeq(History, LAMBDA h : h.op \in opset)
Content == Body(file)
AllElements == 1..3

(* The sum of the counts of a history over the entries that satisfy P.     *)
SumOver(h, P(_)) ==
    FoldLeft(LAMBDA sum, i : IF P(i) THEN sum + h[i].count ELSE sum, 0, [i \in 1..Len(h) |-> i])

(* BF.EXISTS has no false negative and no bit beyond those of the added    *)
(* elements, and BF.CARD counts the additions that set a new bit.          *)
BloomTruth ==
    LET h == Did({"bf_madd", "bf_add"})
        before(i) == UNION {Positions(h[j].element) : j \in 1..(i - 1)}
    IN  /\ \A p \in 0..(BloomBits - 1) :
             (BitOf(p) \in Content[BloomByte(ByteOf(p))]) <=> (p \in before(Len(h) + 1))
        /\ bloom_file_card(Content) =
             Cardinality({i \in 1..Len(h) : ~(Positions(h[i].element) \subseteq before(i))})
        /\ bloom_read_header(Content)
        /\ \A i \in 1..Len(h) : bloom_file_exists(Content, h[i].element) = 1

SameClass(d, e) ==
    /\ cuckoo_file_fingerprint_and_bucket(d).fp = cuckoo_file_fingerprint_and_bucket(e).fp
    /\ Range(Candidates(d)) = Range(Candidates(e))

(* CF.COUNT of an element is the number of insertions of its fingerprint   *)
(* and buckets that were not deleted: moving fingerprints around loses and *)
(* duplicates none, and the header counts the occupied slots.              *)
CuckooTruth ==
    LET h == Did({"cf_add", "cf_addnx", "cf_del"})
        copies(e) == FoldLeft(LAMBDA n, i :
                        IF ~SameClass(h[i].element, e) THEN n
                        ELSE CASE h[i].op = "cf_add" -> n + 1
                               [] h[i].op = "cf_addnx" -> Max({n, 1})
                               [] h[i].op = "cf_del" -> Max({n - 1, 0}),
                        0, [i \in 1..Len(h) |-> i])
    IN  /\ \A e \in AllElements : cuckoo_file_count(Content, e) = copies(e)
        /\ \A e \in AllElements :
             (cuckoo_file_exists(Content, e) = 1) <=> (copies(e) > 0)
        /\ Content[CuckooItems] =
             Cardinality({c \in CuckooSlotCells : Content[c] # Empty})

(* Every counter of the sketch is the sum of the increments hashed to it.  *)
CmsTruth ==
    LET h == Did({"cms_incrby"})
    IN  (\A i \in 1..Len(ops) : log[ops[i]].op # "merge") =>
        \A k \in 0..(CmsCounters - 1) :
           Content[CmsCounter(k)] = SumOver(h, LAMBDA i : k \in Range(CmsRow(h[i].element)))

(* The estimate of an element after the first n additions of a history.    *)
EstimateAfter(h, n, e) ==
    LeastOf({SumOver(SubSeq(h, 1, n), LAMBDA i : k \in TopKRow(h[i].element)) : k \in TopKRow(e)})
LastAdd(h, e) == LET at == {i \in 1..Len(h) : h[i].element = e} IN
    IF at = {} THEN 0 ELSE CHOOSE i \in at : \A j \in at : j <= i

(* The heap is in heap order without duplicates, every listed element has  *)
(* the estimate of its last addition, and an element is left out only when *)
(* the heap is full of elements that beat it.                              *)
TopKTruth ==
    LET h == Did({"topk_incrby", "topk_add"})
        heap == v2_read_heap(Content)
        listed == {heap[i].element : i \in 1..Len(heap)}
        last(e) == EstimateAfter(h, LastAdd(h, e), e)
    IN  /\ NoDuplicates(heap)
        /\ \A i \in 2..Len(heap) : ~entry_precedes(heap[i], heap[i \div 2])
        /\ \A i \in 1..Len(heap) : heap[i].count = last(heap[i].element)
        /\ \A e \in AllElements \ listed : LastAdd(h, e) # 0 =>
             Len(heap) = TopKSize /\ \A i \in 1..Len(heap) : last(e) <= heap[i].count
        /\ \A e \in AllElements :
             v2_cms_estimate(v2_read_cms(Content), e) >= SumOver(h, LAMBDA i : h[i].element = e)

(* The filters answer for exactly what was added to them.                  *)
FiltersTruthful == pc = "idle" => BloomTruth /\ CuckooTruth

(* The sketches count exactly what was added to them.                      *)
SketchesTruthful == pc = "idle" => CmsTruth /\ TopKTruth

Batches == {<<1>>, <<2, 3>>, <<1, 2, 3>>}
Agrees(async, sync) == async.sent => async.value = sync

(* A mutation without a token changes the content and answers exactly as   *)
(* the journaled one would, and an asynchronous read answers as the        *)
(* synchronous one, in every content the file can have.                    *)
PathsAgree ==
    pc = "idle" =>
        /\ \A o \in DirectOps :
            LET d == MCDirect(Content, o)
                j == MCPlan(Content, o, source)
            IN  /\ d.ok = j.ok
                /\ d.ok => /\ d.answer = j.answer
                           /\ Overlay(Content, d.images) = Overlay(Content, j.images)
        /\ \A e \in AllElements :
            /\ Agrees(bloom_file_exists_async(Content, e), bloom_file_exists(Content, e))
            /\ Agrees(cuckoo_file_exists_async(Content, e), cuckoo_file_exists(Content, e))
            /\ Agrees(cuckoo_file_count_async(Content, e), cuckoo_file_count(Content, e))
        /\ \A b \in Batches :
            /\ Agrees(bloom_file_mexists_async(Content, b), bloom_file_mexists(Content, b))
            /\ Agrees(cms_file_query_async(Content, b), cms_file_query(Content, b))
            /\ Agrees(cuckoo_file_mexists_async(Content, b), cuckoo_file_mexists(Content, b))
            /\ Agrees(topk_file_query_v2_async(Content, b), topk_file_query_v2(Content, b))
            /\ Agrees(topk_file_count_v2_async(Content, b), topk_file_count_v2(Content, b))
        /\ Agrees(bloom_file_card_async(Content), bloom_file_card(Content))
        /\ Agrees(bloom_file_info_async(Content), bloom_file_info(Content))
        /\ Agrees(cms_file_info_async(Content), cms_file_info(Content))
        /\ Agrees(cuckoo_file_info_async(Content), cuckoo_file_info(Content))
        /\ Agrees(topk_file_list_v2_async(Content), topk_file_list_v2(Content))
        /\ Agrees(topk_file_list_with_count_async(Content), topk_file_list_with_count(Content))
        /\ Agrees(topk_file_info_v2_async(Content), topk_file_info_v2(Content))

(* Filters and sketches tell what was put into them, on every path to them.  *)
AnswersTruthful == FiltersTruthful /\ SketchesTruthful /\ PathsAgree
=============================================================================
