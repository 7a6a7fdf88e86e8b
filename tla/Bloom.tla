------------------------------- MODULE Bloom -------------------------------
(***************************************************************************)
(* The Bloom filter file of bloom.rs: a bit array in bytes and the number  *)
(* of additions that set a new bit (BF.CARD).                              *)
(***************************************************************************)
EXTENDS ProbCells

CONSTANTS
    BloomBits,       \* num_bits of the filter
    ByteBits,        \* bits of a byte
    BloomHashes,     \* num_hashes
    BloomMaxVisits,  \* MAX_BLOOM_HASH_VISITS
    BloomMaxBits,    \* MAX_BLOOM_BITS
    BloomCountMax    \* largest value of the u64 count

BloomByte(o) == <<"bloom", o>>
BloomCount == <<"bloom_count">>
ByteOf(position) == position \div ByteBits
BitOf(position) == position % ByteBits

file_hash_positions(e) == DoubleHash(e, BloomHashes, BloomBits)

Positions(e) == Range(file_hash_positions(e))
TouchedBytes(elements) ==
    {ByteOf(p) : p \in UNION {Positions(elements[i]) : i \in 1..Len(elements)}}

(* The bit array must fit and the mutation token is the file's footer.     *)
bloom_mutation_token_offset(bits) ==
    IF bits > BloomMaxBits THEN -1 ELSE 1 + (bits + ByteBits - 1) \div ByteBits
bloom_file_size(bits) ==
    IF bloom_mutation_token_offset(bits) < 0 THEN -1
    ELSE bloom_mutation_token_offset(bits) + 1

BloomCells == {BloomByte(o) : o \in 0..((BloomBits - 1) \div ByteBits)} \cup {BloomCount}

(* A created filter has no bit set, or the dimensions are refused.         *)
bloom_file_create(bits, hashes, maxHashes) ==
    IF bits = 0 \/ hashes = 0 \/ hashes > maxHashes \/ bloom_file_size(bits) < 0
    THEN Refused
    ELSE Planned(Nothing, <<[c \in BloomCells |-> IF c = BloomCount THEN 0 ELSE {}]>>)

(* A header whose count exceeds its bits is rejected on every open.        *)
bloom_read_header(f) == f[BloomCount] <= BloomBits

bloom_count_after_add(count) == IF count < BloomCountMax THEN count + 1 ELSE -1

validate_bloom_batch_work(elements) == Len(elements) * BloomHashes <= BloomMaxVisits

bloom_load_touched_bytes(f, elements) ==
    [o \in TouchedBytes(elements) |-> f[BloomByte(o)]]

(* One element of a batch against the staged bytes: it is new when it sets *)
(* a bit that neither the file nor an earlier element of the batch set.    *)
BloomStageOne(acc, e) ==
    LET fresh == {p \in Positions(e) : BitOf(p) \notin acc.bytes[ByteOf(p)]}
        count == IF fresh = {} THEN acc.count ELSE bloom_count_after_add(acc.count)
    IN  [bytes |-> [o \in DOMAIN acc.bytes |->
                        acc.bytes[o] \cup {BitOf(p) : p \in {q \in fresh : ByteOf(q) = o}}],
         count |-> IF acc.count < 0 THEN acc.count ELSE count,
         results |-> Append(acc.results, IF fresh = {} THEN 0 ELSE 1)]

BloomStage(f, elements) ==
    FoldLeft(BloomStageOne,
             [bytes |-> bloom_load_touched_bytes(f, elements), count |-> f[BloomCount],
              results |-> <<>>],
             elements)

(* The runs of touched bytes in which some byte changed, each written whole. *)
bloom_store_touched_bytes(f, bytes) ==
    LET changed(run) == \E o \in run : f[BloomByte(o)] # bytes[o]
        runs == SelectSeq(Runs(DOMAIN bytes), changed)
    IN  [i \in 1..Len(runs) |->
            [c \in {BloomByte(o) : o \in runs[i]} |-> bytes[c[2]]]]

BloomImages(f, staged) ==
    bloom_store_touched_bytes(f, staged.bytes)
      \o (IF \E i \in 1..Len(staged.results) : staged.results[i] = 1
          THEN <<Cell(BloomCount, staged.count)>> ELSE <<>>)

BloomPlan(f, staged) ==
    IF staged.count < 0 THEN Failed ELSE Planned(staged.results, BloomImages(f, staged))

bloom_stage_transactional_madd(f, elements) ==
    IF ~validate_bloom_batch_work(elements) THEN Failed
    ELSE BloomPlan(f, BloomStage(f, elements))

bloom_encode_results(results) ==
    IF \A i \in 1..Len(results) : results[i] \in {0, 1} THEN results ELSE Nothing

WithBits(p) == Encoded(p, bloom_encode_results(p.result), p.result, TRUE)
bloom_transactional_madd(f, elements) == WithBits(bloom_stage_transactional_madd(f, elements))

bloom_file_add_at(f, e) == bloom_transactional_madd(f, <<e>>)
bloom_file_madd_at(f, elements) == bloom_transactional_madd(f, elements)

(* What a replayed addition answers once newer mutations have been applied. *)
bloom_stale_results(elements) == [i \in 1..Len(elements) |-> 0]

bloom_decode_results(encoded, elements) ==
    IF Len(encoded) = Len(elements) /\ \A i \in 1..Len(encoded) : encoded[i] \in {0, 1}
    THEN encoded ELSE Nothing

(* The unjournaled batch: nothing is written when no element is new.       *)
bloom_file_madd(f, elements) ==
    LET staged == BloomStage(f, elements)
    IN  IF ~validate_bloom_batch_work(elements) \/ staged.count < 0 THEN Failed
        ELSE IF \A i \in 1..Len(elements) : staged.results[i] = 0
             THEN Planned(staged.results, <<>>)
             ELSE Planned(staged.results,
                          bloom_store_touched_bytes(f, staged.bytes)
                            \o <<Cell(BloomCount, staged.count)>>)

(* The unjournaled addition writes each byte that misses one of its bits;  *)
(* the count is written once, after the bits.                              *)
bloom_file_add(f, e) ==
    LET bits(o) == f[BloomByte(o)] \cup {BitOf(p) : p \in {q \in Positions(e) : ByteOf(q) = o}}
        written == {o \in TouchedBytes(<<e>>) : bits(o) # f[BloomByte(o)]}
    IN  IF written = {} THEN Planned(<<0>>, <<>>)
        ELSE IF bloom_count_after_add(f[BloomCount]) < 0 THEN Failed
        ELSE Planned(<<1>>,
                     <<[c \in {BloomByte(o) : o \in written} |-> bits(c[2])],
                       Cell(BloomCount, bloom_count_after_add(f[BloomCount]))>>)

bloom_file_exists(f, e) ==
    IF \A p \in Positions(e) : BitOf(p) \in f[BloomByte(ByteOf(p))] THEN 1 ELSE 0
bloom_file_mexists(f, elements) ==
    IF ~validate_bloom_batch_work(elements) THEN Nothing
    ELSE [i \in 1..Len(elements) |-> bloom_file_exists(f, elements[i])]
bloom_file_card(f) == f[BloomCount]
bloom_file_info(f) == <<BloomBits, f[BloomCount], BloomHashes>>

(* The asynchronous reads are written out a second time in the code.       *)
bloom_file_exists_async(f, e) ==
    LET missing == {p \in Positions(e) : BitOf(p) \notin f[BloomByte(ByteOf(p))]}
    IN  Sent(<<e>>, IF missing = {} THEN 1 ELSE 0)
bloom_file_mexists_async(f, elements) ==
    LET found(e) == \A p \in Positions(e) : BitOf(p) \in f[BloomByte(ByteOf(p))]
    IN  Sent(elements,
             IF ~validate_bloom_batch_work(elements) THEN Nothing
             ELSE [i \in 1..Len(elements) |-> IF found(elements[i]) THEN 1 ELSE 0])
bloom_file_card_async(f) == Sent(Nothing, f[BloomCount])
bloom_file_info_async(f) == Sent(Nothing, <<BloomBits, f[BloomCount], BloomHashes>>)
=============================================================================
