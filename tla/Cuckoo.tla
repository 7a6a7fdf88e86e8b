------------------------------- MODULE Cuckoo -------------------------------
(***************************************************************************)
(* The cuckoo filter file of cuckoo_part_01.rs and cuckoo_part_02.rs:      *)
(* buckets of fingerprint slots, the number of stored fingerprints and the *)
(* number of deletions.  A fingerprint lives in one of two buckets, and    *)
(* the second is computed from the first and the fingerprint alone, so     *)
(* that an eviction can move a fingerprint without knowing its element.    *)
(***************************************************************************)
EXTENDS ProbCells

CONSTANTS
    CuckooBuckets, CuckooSlots,  \* num_buckets, bucket_size
    CuckooMaxKicks,              \* max_kicks
    CuckooFp,                    \* fingerprint bytes of every element's hash
    CuckooMaxSlots,              \* MAX_CUCKOO_BUCKET_BYTES, in slots
    CuckooCountMax               \* u64::MAX of num_items and num_deletes

Slot(b, s) == <<"slot", b, s>>
CuckooItems == <<"cuckoo_items">>
CuckooDeletes == <<"cuckoo_deletes">>
Empty == 0        \* the all-zero fingerprint

CuckooSlotCells == {Slot(b, s) : b \in 0..(CuckooBuckets - 1), s \in 0..(CuckooSlots - 1)}
CuckooCells == CuckooSlotCells \cup {CuckooItems, CuckooDeletes}

cuckoo_bucket_bytes(buckets, slots) ==
    IF buckets * slots > CuckooMaxSlots THEN -1 ELSE buckets * slots
cuckoo_bucket_count(capacity, slots) ==
    IF capacity = 0 \/ slots = 0 THEN -1 ELSE (capacity + slots - 1) \div slots
cuckoo_mutation_token_offset(buckets, slots) ==
    IF cuckoo_bucket_bytes(buckets, slots) < 0 THEN -1
    ELSE 1 + cuckoo_bucket_bytes(buckets, slots)
cuckoo_file_size(buckets, slots) ==
    IF cuckoo_mutation_token_offset(buckets, slots) < 0 THEN -1
    ELSE cuckoo_mutation_token_offset(buckets, slots) + 1

cuckoo_file_create(capacity, slots) ==
    IF \/ cuckoo_bucket_count(capacity, slots) < 0
       \/ cuckoo_file_size(cuckoo_bucket_count(capacity, slots), slots) < 0
    THEN Refused
    ELSE Planned(Nothing, <<[c \in CuckooCells |-> 0]>>)

cuckoo_num_items_after_insert(n) == IF n < CuckooCountMax THEN n + 1 ELSE -1
cuckoo_num_items_after_delete(n) == n - 1
cuckoo_num_deletes_after_delete(n) == IF n < CuckooCountMax THEN n + 1 ELSE -1

(* A header that counts more items than there are slots is rejected.       *)
cuckoo_read_header(f) == f[CuckooItems] <= CuckooBuckets * CuckooSlots

(* An all-zero fingerprint would read as an empty slot: it becomes 1.      *)
cuckoo_file_fingerprint_and_bucket(e) ==
    [fp |-> IF CuckooFp[e] = Empty THEN 1 ELSE CuckooFp[e],
     bucket |-> Hash1[e] % CuckooBuckets]

(* Mutant: the sum in place of the reflection.                             *)
alternate_by_sum(b, fp) == (Hash2[fp] + b) % CuckooBuckets

(* Reflection modulo the number of buckets: applying it twice comes back.  *)
cuckoo_file_alternate_bucket(b, fp) ==
    ((Hash2[fp] % CuckooBuckets) + CuckooBuckets - b) % CuckooBuckets

cuckoo_file_candidate_buckets(primary, alternate) ==
    IF alternate = primary THEN <<primary>> ELSE <<primary, alternate>>

cuckoo_file_read_slot(f, b, s) == f[Slot(b, s)]

Candidates(e) ==
    LET h == cuckoo_file_fingerprint_and_bucket(e)
    IN  cuckoo_file_candidate_buckets(h.bucket, cuckoo_file_alternate_bucket(h.bucket, h.fp))

(* The slots of the given buckets in the order the code scans them.        *)
Scan(buckets) ==
    [i \in 1..(Len(buckets) * CuckooSlots) |->
        Slot(buckets[(i - 1) \div CuckooSlots + 1], (i - 1) % CuckooSlots)]

(* The first scanned slot that holds v, or Nothing.                        *)
FirstWith(f, buckets, v) ==
    LET scan == Scan(buckets)
        hits == {i \in 1..Len(scan) : f[scan[i]] = v}
    IN  IF hits = {} THEN Nothing ELSE scan[CHOOSE i \in hits : \A j \in hits : i <= j]

(* One kick: the carried fingerprint takes a slot of the current bucket,   *)
(* and the evicted one takes the first empty slot of its other bucket, or  *)
(* is carried on from there.                                               *)
CuckooKick(acc, kick) ==
    LET slot == Slot(acc.bucket, kick % CuckooSlots)
        evicted == acc.slots[slot]
        placed == [acc.slots EXCEPT ![slot] = acc.fp]
        alt == cuckoo_file_alternate_bucket(acc.bucket, evicted)
        free == FirstWith(placed, <<alt>>, Empty)
    IN  IF acc.done THEN acc
        ELSE IF free # Nothing
        THEN [slots |-> [placed EXCEPT ![free] = evicted], fp |-> Empty, bucket |-> alt,
              staged |-> acc.staged \cup {slot, free}, done |-> TRUE]
        ELSE [slots |-> placed, fp |-> evicted, bucket |-> alt,
              staged |-> acc.staged \cup {slot}, done |-> FALSE]

(* The whole eviction is staged: when no slot is found within max_kicks    *)
(* the file has not been touched.                                          *)
cuckoo_file_stage_eviction(f, fp, start) ==
    FoldLeft(CuckooKick,
             [slots |-> f, fp |-> fp, bucket |-> start, staged |-> {}, done |-> FALSE],
             [k \in 1..CuckooMaxKicks |-> k - 1])

SlotBefore(c, d) == c[2] < d[2] \/ (c[2] = d[2] /\ c[3] < d[3])

cuckoo_slot_after_image(slot, value) == Cell(slot, value)

StagedSlotImages(staged) ==
    LET slots == SetToSortSeq(staged.staged, SlotBefore)
    IN  [i \in 1..Len(slots) |-> cuckoo_slot_after_image(slots[i], staged.slots[slots[i]])]

EvictionPlan(staged, counted) ==
    IF staged.done THEN Planned(<<1>>, StagedSlotImages(staged) \o counted) ELSE Refused

cuckoo_insert_plan(f, e, add_nx) ==
    LET h == cuckoo_file_fingerprint_and_bucket(e)
        items == cuckoo_num_items_after_insert(f[CuckooItems])
        free == FirstWith(f, Candidates(e), Empty)
        counted == <<Cell(CuckooItems, items)>>
    IN  IF add_nx /\ FirstWith(f, Candidates(e), h.fp) # Nothing THEN Planned(<<0>>, <<>>)
        ELSE IF items < 0 THEN Failed
        ELSE IF free # Nothing
        THEN Planned(<<1>>, <<cuckoo_slot_after_image(free, h.fp)>> \o counted)
        ELSE EvictionPlan(cuckoo_file_stage_eviction(f, h.fp, h.bucket), counted)

cuckoo_delete_plan(f, e) ==
    LET hit == FirstWith(f, Candidates(e), cuckoo_file_fingerprint_and_bucket(e).fp)
        items == cuckoo_num_items_after_delete(f[CuckooItems])
        deletes == cuckoo_num_deletes_after_delete(f[CuckooDeletes])
    IN  IF hit = Nothing THEN Planned(<<0>>, <<>>)
        ELSE IF items < 0 \/ deletes < 0 THEN Failed
        ELSE Planned(<<1>>, <<cuckoo_slot_after_image(hit, Empty), Cell(CuckooItems, items),
                              Cell(CuckooDeletes, deletes)>>)

cuckoo_decode_mutation_result(encoded) ==
    IF encoded \in {<<0>>, <<1>>} THEN encoded ELSE Nothing

(* The plan of one mutation, and what its replay answers once the file has *)
(* moved past it.                                                          *)
cuckoo_transactional_mutation(f, op, e) ==
    CASE op = "cf_add"   -> cuckoo_insert_plan(f, e, FALSE)
      [] op = "cf_addnx" -> cuckoo_insert_plan(f, e, TRUE)
      [] op = "cf_del"   -> cuckoo_delete_plan(f, e)
cuckoo_file_mutate_at(f, op, e) == Journaled(cuckoo_transactional_mutation(f, op, e))
cuckoo_file_add_at(f, e) == cuckoo_file_mutate_at(f, "cf_add", e)
cuckoo_file_addnx_at(f, e) == cuckoo_file_mutate_at(f, "cf_addnx", e)
cuckoo_file_del_at(f, e) == cuckoo_file_mutate_at(f, "cf_del", e)
CuckooStale(op) == IF op = "cf_add" THEN <<1>> ELSE <<0>>

(* The unjournaled mutations scan both buckets in turn, even when they are *)
(* the same one, and write in place.                                       *)
Buckets(e) ==
    LET h == cuckoo_file_fingerprint_and_bucket(e)
    IN  <<h.bucket, cuckoo_file_alternate_bucket(h.bucket, h.fp)>>

cuckoo_file_try_eviction(f, fp, start, counted) ==
    EvictionPlan(cuckoo_file_stage_eviction(f, fp, start), counted)

cuckoo_file_add(f, e) ==
    LET h == cuckoo_file_fingerprint_and_bucket(e)
        items == cuckoo_num_items_after_insert(f[CuckooItems])
        free == FirstWith(f, Buckets(e), Empty)
    IN  IF items < 0 THEN Failed
        ELSE IF free # Nothing
        THEN Planned(<<1>>, <<Cell(free, h.fp), Cell(CuckooItems, items)>>)
        ELSE cuckoo_file_try_eviction(f, h.fp, h.bucket, <<Cell(CuckooItems, items)>>)

cuckoo_file_exists_in_open_file(f, e) ==
    IF FirstWith(f, Candidates(e), cuckoo_file_fingerprint_and_bucket(e).fp) = Nothing
    THEN 0 ELSE 1

cuckoo_file_addnx(f, e) ==
    IF cuckoo_file_exists_in_open_file(f, e) = 1 THEN Planned(<<0>>, <<>>)
    ELSE cuckoo_file_add(f, e)

cuckoo_file_del(f, e) ==
    LET hit == FirstWith(f, Buckets(e), cuckoo_file_fingerprint_and_bucket(e).fp)
        items == cuckoo_num_items_after_delete(f[CuckooItems])
        deletes == cuckoo_num_deletes_after_delete(f[CuckooDeletes])
    IN  IF hit = Nothing THEN Planned(<<0>>, <<>>)
        ELSE IF items < 0 \/ deletes < 0 THEN Failed
        ELSE Planned(<<1>>, <<Cell(hit, Empty), Cell(CuckooItems, items),
                              Cell(CuckooDeletes, deletes)>>)

cuckoo_file_exists(f, e) == cuckoo_file_exists_in_open_file(f, e)
cuckoo_file_mexists(f, elements) ==
    [i \in 1..Len(elements) |-> cuckoo_file_exists_in_open_file(f, elements[i])]
cuckoo_file_count(f, e) ==
    Cardinality({i \in 1..Len(Scan(Candidates(e))) :
                    f[Scan(Candidates(e))[i]] = cuckoo_file_fingerprint_and_bucket(e).fp})
cuckoo_file_info(f) ==
    <<CuckooBuckets, CuckooSlots, f[CuckooItems], f[CuckooDeletes],
      CuckooBuckets * CuckooSlots, CuckooMaxKicks>>

(* The asynchronous count reads the second bucket only when it is another  *)
(* one, as the synchronous one does.                                       *)
cuckoo_file_exists_async(f, e) == Sent(<<e>>, cuckoo_file_exists_in_open_file(f, e))
cuckoo_file_mexists_async(f, elements) ==
    Sent(elements, [i \in 1..Len(elements) |-> cuckoo_file_exists_in_open_file(f, elements[i])])
cuckoo_file_count_async(f, e) ==
    LET h == cuckoo_file_fingerprint_and_bucket(e)
        buckets == {h.bucket, cuckoo_file_alternate_bucket(h.bucket, h.fp)}
    IN  Sent(<<e>>, Cardinality({c \in CuckooSlotCells : c[2] \in buckets /\ f[c] = h.fp}))
cuckoo_file_info_async(f) ==
    Sent(Nothing, <<CuckooBuckets, CuckooSlots, f[CuckooItems], f[CuckooDeletes],
                    CuckooBuckets * CuckooSlots, CuckooMaxKicks>>)
=============================================================================
