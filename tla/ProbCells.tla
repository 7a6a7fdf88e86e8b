----------------------------- MODULE ProbCells -----------------------------
(***************************************************************************)
(* What the four probabilistic sidecar files (Bloom filter, count-min      *)
(* sketch, cuckoo filter, top-k) share: the way an element is hashed to    *)
(* positions, what a planned mutation is, and what writing its after-      *)
(* images does to a file.                                                  *)
(*                                                                         *)
(* A file's content is a function from cells to values.  A cell is a byte, *)
(* a counter, a fingerprint slot, a heap entry or a header field: the unit *)
(* the code reads and writes whole.  The layout header that never changes  *)
(* after creation (magic, dimensions) is kept in the constants of the      *)
(* structure's module.                                                     *)
(***************************************************************************)
EXTENDS Integers, Sequences, FiniteSets, SequencesExt, FiniteSetsExt

CONSTANTS
    Word,        \* the hashes are Word-valued: u64 arithmetic wraps at Word
    Hash1,       \* first hash of every element or fingerprint
    Hash2,       \* second, independently seeded hash
    MaxInput     \* elements an asynchronous request may carry

ASSUME HashAssumption == Word \in Nat \ {0}

Nothing == <<>>

(* Kirsch-Mitzenmacher double hashing: h1 + i * h2 (both operations wrap), *)
(* reduced to the table's size.                                            *)
DoubleHash(e, n, size) ==
    [i \in 1..n |-> ((Hash1[e] + (((i - 1) * Hash2[e]) % Word)) % Word) % size]

(* An image is a run of cells with their new values.  The images of one    *)
(* plan never overlap.                                                     *)
Writes(images) == UNION {DOMAIN images[i] : i \in 1..Len(images)}

WriteImages(content, images) ==
    [c \in DOMAIN content |->
        IF \E i \in 1..Len(images) : c \in DOMAIN images[i]
        THEN images[CHOOSE i \in 1..Len(images) : c \in DOMAIN images[i]][c]
        ELSE content[c]]

Cell(c, v) == [x \in {c} |-> v]

(* A plan is the outcome of staging a mutation against a file: an error,   *)
(* or the answer and the images to write.  The state machine knows some    *)
(* errors as answers to the command (prob_mutation_semantic_error?); every *)
(* other one is a failure of the storage.                                  *)
Refused == [ok |-> FALSE, semantic |-> TRUE, result |-> Nothing, images |-> <<>>]
Failed == [ok |-> FALSE, semantic |-> FALSE, result |-> Nothing, images |-> <<>>]
Planned(result, images) ==
    [ok |-> TRUE, semantic |-> TRUE, result |-> result, images |-> images]

(* A plan with what its receipt stores of the answer, and what a merge of  *)
(* nothing leaves out: it answers without a transaction.                   *)
Encoded(p, encoded, told, commits) ==
    [ok |-> p.ok, semantic |-> p.semantic, images |-> p.images, result |-> encoded,
     answer |-> told, commits |-> commits]

(* The receipt of most mutations stores the answer as it is.               *)
Journaled(p) == Encoded(p, p.result, p.result, TRUE)

(* The asynchronous reads copy their input, refuse too large a copy before *)
(* any work is queued, and send what a blocking thread reads under the     *)
(* shared lock.                                                            *)
checked_input_bytes(elements) == Len(elements) <= MaxInput
Sent(elements, value) ==
    IF checked_input_bytes(elements) THEN [sent |-> TRUE, value |-> value] ELSE [sent |-> FALSE]

(* The maximal runs of consecutive offsets of a set, in ascending order.   *)
RunFrom(offsets, o) ==
    {p \in offsets : p >= o /\ \A q \in o..p : q \in offsets}

RunStarts(offsets) == {o \in offsets : (o - 1) \notin offsets}

Runs(offsets) ==
    LET starts == SetToSortSeq(RunStarts(offsets), <)
    IN  [i \in 1..Len(starts) |-> RunFrom(offsets, starts[i])]
=============================================================================
