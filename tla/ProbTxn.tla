------------------------------ MODULE ProbTxn ------------------------------
(***************************************************************************)
(* The after-image journal of prob_txn.rs that makes a mutation of a       *)
(* probabilistic sidecar file atomic and exactly-once: a receipt with the  *)
(* images, the token and the answer is published beside the file before    *)
(* the file is written, and every later mutation, and the start of the     *)
(* shard, first completes the mutation the receipt describes.              *)
(*                                                                         *)
(* The module follows one file through the committed log of its shard.     *)
(* What a mutation does to the content is the constant operator Plan; the  *)
(* structures Bloom, Cms, Cuckoo and TopK are plugged in there.            *)
(***************************************************************************)
EXTENDS Integers, Sequences, FiniteSets

CONSTANTS
    Cells,            \* cells of the structure's file, the token excluded
    TokenCell,        \* the footer of the file
    Logs,             \* the committed logs considered
    Fresh,            \* content of a created file
    Plan(_, _, _),    \* what an entry does to a content, given the source file
    Direct(_, _),     \* the same by the call that takes no token
    Decode(_, _),     \* the answer an entry finds in a receipt
    DirectEntries(_), \* next entries of an instance that mutates without tokens
    MaxDirect,        \* how many of them
    Stale(_, _),      \* what an entry answers when the file is past it
    SourceAfter(_, _),\* the source file after an entry that mutates it
    Large(_),         \* receipts of at least COMPACT_RECEIPT_THRESHOLD_BYTES
    IndexMax,         \* largest log index (u64::MAX)
    MaxCrashes,
    Nil

ZERO == <<0, 0>>

\* Tokens are compared by index, then by ordinal within the index.
Before(s, t) == s[1] < t[1] \/ (s[1] = t[1] /\ s[2] < t[2])

ASSUME CellsAssumption == TokenCell \notin Cells

(* A log hands out its tokens in order.                                    *)
ASSUME LogsAssumption ==
    \A l \in Logs :
        /\ DOMAIN l = 1..Len(l)
        /\ \A p \in 1..Len(l) : l[p].token \in Nat \X Nat
        /\ \A p, q \in 1..Len(l) : p < q => Before(l[p].token, l[q].token)

VARIABLES
    log,       \* the committed entries of the shard, with their tokens
    mode,      \* "raft"; "local" without a log (index 0); "direct" without tokens
    cursor,    \* position of the entry being or next applied
    home,      \* "none", "pending" (the pending-create path) or "final"
    file,      \* content of the file, as every process reads it
    receipt,   \* the receipt at final_path.mutation
    preceipt,  \* the receipt at final_path.pending-create.mutation
    source,    \* content of another sketch of the shard, the source of merges
    stoken,    \* its token
    pc,        \* where the mutating call, or the start of the shard, is
    txn,       \* the transaction being written
    written,   \* images of it already written
    resume,    \* where to go on once the transaction is applied
    answer,    \* what the planned mutation will answer
    ideal,     \* what the file must hold: every published mutation, once
    ops,       \* positions of the published mutations, in order
    first,     \* the first answer given to each entry
    reply,     \* the last answer
    crashes

fileVars == <<home, file, receipt, preceipt>>
callVars == <<pc, txn, written, resume, answer>>
ghosts == <<ideal, ops, first, reply>>
vars == <<log, mode, cursor, fileVars, source, stoken, callVars, ghosts, crashes>>

(* The content with images written over it, in their order.                *)
Overlay(content, images) ==
    [c \in DOMAIN content |->
        LET at == {k \in 1..Len(images) : c \in DOMAIN images[k]}
        IN  IF at = {} THEN content[c]
            ELSE images[CHOOSE k \in at : \A j \in at : j <= k][c]]

Body(content) == [c \in Cells |-> content[c]]
read_token(content) == content[TokenCell]

NoTxn == [token |-> ZERO, images |-> <<>>, result |-> Nil]

(* The final path's receipt wins; the pending-create receipt is looked at  *)
(* only from the final path.                                               *)
read_transaction_if_present ==
    IF home = "pending" THEN preceipt
    ELSE IF receipt # Nil THEN receipt ELSE preceipt
OnlyPending == home = "final" /\ receipt = Nil /\ preceipt # Nil

(* A receipt is published atomically beside the path the call was given.   *)
WriteReceipt(t) ==
    IF home = "pending" THEN preceipt' = t /\ UNCHANGED receipt
    ELSE receipt' = t /\ UNCHANGED preceipt

entry == log[cursor]
Active == cursor <= Len(log)

Init ==
    /\ mode \in {"raft", "local", "direct"}
    /\ log \in IF mode = "direct" THEN {<<>>} ELSE Logs
    /\ cursor = 1 /\ home = "none"
    /\ file = [c \in Cells \cup {TokenCell} |-> IF c = TokenCell THEN ZERO ELSE Fresh[c]]
    /\ receipt = Nil /\ preceipt = Nil
    /\ source = Fresh /\ stoken = ZERO
    /\ pc = "idle" /\ txn = NoTxn /\ written = 0 /\ resume = "idle" /\ answer = Nil
    /\ ideal = Fresh /\ ops = <<>>
    /\ first = [p \in 1..Len(log) |-> Nil] /\ reply = Nil
    /\ crashes = 0

(* An entry of the log is applied: it opens the file with its exclusive    *)
(* lock, creating it under the pending-create path when there is none.     *)
Call ==
    /\ pc = "idle" /\ Active /\ entry.target = "file"
    /\ home' = IF home = "none" THEN "pending" ELSE home
    /\ pc' = "recover" /\ resume' = "decide"
    /\ UNCHANGED <<log, mode, cursor, file, receipt, preceipt, source, stoken, answer, txn, written,
                   ghosts, crashes>>

(* An entry for the source sketch; its own journal makes it one step here. *)
CallSource ==
    /\ pc = "idle" /\ Active /\ entry.target = "source"
    /\ LET new == mode # "raft" \/ Before(stoken, entry.token)
       IN  /\ source' = IF new THEN SourceAfter(source, entry) ELSE source
           /\ stoken' = IF new THEN entry.token ELSE stoken
    /\ cursor' = cursor + 1 /\ pc' = "boundary"
    /\ UNCHANGED <<log, mode, fileVars, txn, written, resume, answer, ghosts, crashes>>

(* Mutant: a start trusts the file as it finds it.                         *)
recover_trusts_file ==
    /\ pc = "recover" /\ pc' = resume
    /\ UNCHANGED <<log, mode, cursor, fileVars, source, stoken, answer, txn, written, resume,
                   ghosts, crashes>>

(* The first thing every mutation does: complete the one the receipt       *)
(* describes, unless the file already carries its token.  A receipt made   *)
(* for another layout is an error; no file changes its layout.             *)
recover ==
    /\ pc = "recover"
    /\ LET t == read_transaction_if_present
       IN  IF t = Nil THEN pc' = resume /\ UNCHANGED <<txn, written>>
           ELSE IF Before(read_token(file), t.token)
           THEN pc' = "apply" /\ txn' = t /\ written' = 0
           ELSE pc' = "settle" /\ txn' = t /\ written' = Len(t.images)
    /\ UNCHANGED <<log, mode, cursor, fileVars, source, stoken, answer, resume, ghosts, crashes>>

(* The images are written one by one, the token's last; then one fsync.    *)
apply_transaction ==
    /\ pc = "apply"
    /\ IF written < Len(txn.images)
       THEN /\ file' = Overlay(file, <<txn.images[written + 1]>>)
            /\ written' = written + 1 /\ UNCHANGED pc
       ELSE pc' = "settle" /\ UNCHANGED <<file, written>>
    /\ UNCHANGED <<log, mode, cursor, home, receipt, preceipt, source, stoken, answer, txn, resume,
                   ghosts, crashes>>

(* Mutant: compaction keeps only the token.                                *)
compact_forgets_result ==
    /\ pc = "settle"
    /\ \E promoted, compacted \in BOOLEAN :
         LET moved == OnlyPending /\ promoted
             main == IF moved THEN preceipt ELSE receipt
             small == [token |-> txn.token, images |-> <<>>, result |-> <<>>]
             squeeze == compacted /\ Large(txn) /\ txn.images # <<>>
         IN  /\ preceipt' = IF moved THEN Nil
                            ELSE IF squeeze /\ home = "pending" THEN small ELSE preceipt
             /\ receipt' = IF squeeze /\ home # "pending" THEN small ELSE main
    /\ pc' = resume
    /\ UNCHANGED <<log, mode, cursor, home, file, source, stoken, answer, txn, written, resume,
                   ghosts, crashes>>

(* A pending-create receipt is moved to the final path and a large receipt *)
(* loses its images.  Both are best effort.                                *)
promote_and_compact ==
    /\ pc = "settle"
    /\ \E promoted, compacted \in BOOLEAN :
         LET moved == OnlyPending /\ promoted
             main == IF moved THEN preceipt ELSE receipt
             small == [token |-> txn.token, images |-> <<>>, result |-> txn.result]
             squeeze == compacted /\ Large(txn) /\ txn.images # <<>>
         IN  /\ preceipt' = IF moved THEN Nil
                            ELSE IF squeeze /\ home = "pending" THEN small ELSE preceipt
             /\ receipt' = IF squeeze /\ home # "pending" THEN small ELSE main
    /\ pc' = resume
    /\ UNCHANGED <<log, mode, cursor, home, file, source, stoken, answer, txn, written, resume,
                   ghosts, crashes>>

(* On an instance without a log the token is the one after the file's.     *)
effective_token ==
    IF mode = "raft" THEN entry.token ELSE <<read_token(file)[1] + 1, entry.token[2]>>

Answer(result, how) ==
    /\ first' = [first EXCEPT ![cursor] = IF @ = Nil THEN result ELSE @]
    /\ reply' = [position |-> cursor, result |-> result, how |-> how]
    /\ cursor' = cursor + 1
    /\ pc' = "boundary"

(* Only a token above the file's own is applied.                           *)
applies(current, token) == Before(current, token)

(* A storage failure is not answered: the shard takes no further entry     *)
(* until it is restarted, and then replays this one.                       *)
Block == pc' = "blocked" /\ UNCHANGED <<cursor, first, reply>>

(* A newer token is planned against the recovered content; the file's own  *)
(* token is a replay of its last mutation; an older one changes nothing.   *)
(* A refusal that is an answer to the command ends it; any other blocks.   *)
begin ==
    /\ pc = "decide"
    /\ LET token == effective_token
           current == read_token(file)
           plan == Plan(Body(file), entry, source)
           t == read_transaction_if_present
       IN  IF token[1] > IndexMax THEN Block /\ UNCHANGED <<txn, resume, answer>>
           ELSE IF applies(current, token)
           THEN IF plan.ok /\ plan.commits
                THEN /\ txn' = [token |-> token, result |-> plan.result,
                                images |-> Append(plan.images, [c \in {TokenCell} |-> token])]
                     /\ pc' = "commit" /\ resume' = "answer" /\ answer' = plan.answer
                     /\ UNCHANGED <<first, reply, cursor>>
                ELSE /\ IF plan.ok \/ plan.semantic
                        THEN Answer(IF plan.ok THEN plan.answer ELSE "error", "refused")
                        ELSE Block
                     /\ UNCHANGED <<txn, resume, answer>>
           ELSE /\ IF current = token /\ t # Nil /\ t.token = token
                   THEN Answer(Decode(t.result, entry), "replay")
                   ELSE Answer(Stale(Body(file), entry), "stale")
                /\ UNCHANGED <<txn, resume, answer>>
    /\ UNCHANGED <<log, mode, fileVars, source, stoken, written, ideal, ops, crashes>>

(* The receipt is durable before the first image is written: from here on  *)
(* the mutation happens, whatever fails.                                   *)
write_transaction ==
    /\ pc = "commit"
    /\ WriteReceipt(txn)
    /\ ideal' = Overlay(ideal, txn.images)
    /\ ops' = Append(ops, cursor)
    /\ pc' = "apply" /\ written' = 0
    /\ UNCHANGED <<log, mode, cursor, home, file, source, stoken, answer, txn, resume, first, reply,
                   crashes>>

commit_returns ==
    /\ pc = "answer"
    /\ Answer(answer, "applied")
    /\ UNCHANGED <<log, mode, fileVars, source, stoken, answer, txn, written, resume, ideal, ops, crashes>>

(* At the end of a log index the created file takes its final name, then   *)
(* its receipt does.                                                       *)
EndOfIndex == mode # "raft" \/ ~Active \/ entry.token[1] # log[cursor - 1].token[1]

apply_boundary ==
    /\ pc = "boundary"
    /\ pc' = IF EndOfIndex /\ home = "pending" THEN "publish_file" ELSE "idle"
    /\ UNCHANGED <<log, mode, cursor, fileVars, source, stoken, answer, txn, written, resume, ghosts,
                   crashes>>

publish_pending_prob_file ==
    /\ pc = "publish_file"
    /\ home' = "final" /\ pc' = "publish_receipt"
    /\ UNCHANGED <<log, mode, cursor, file, receipt, preceipt, source, stoken, answer, txn, written,
                   resume, ghosts, crashes>>

publish_pending_prob_receipt ==
    /\ pc = "publish_receipt"
    /\ receipt' = preceipt /\ preceipt' = Nil /\ pc' = "idle"
    /\ UNCHANGED <<log, mode, cursor, home, file, source, stoken, answer, txn, written, resume, ghosts,
                   crashes>>

(* Where the log may be replayed from: the start of an index that is not   *)
(* past the last one whose apply boundary was completed.                   *)
Reached ==
    IF pc \in {"boundary", "publish_file", "publish_receipt"} THEN cursor - 1 ELSE cursor
Starts ==
    {p \in 1..Reached :
        p = 1 \/ p = Len(log) + 1 \/ log[p].token[1] # log[p - 1].token[1]}

(* A mutation without a token plans and writes in place, under the same    *)
(* lock; it is durable when it answers and not atomic if it is cut short,  *)
(* so no stop is considered in this mode.                                  *)
call_direct ==
    /\ pc = "idle" /\ mode = "direct" /\ Len(log) < MaxDirect
    /\ \E e \in DirectEntries(log) :
         LET plan == Direct(Body(file), e)
         IN  /\ plan.ok
             /\ log' = Append(log, e) /\ cursor' = cursor + 1
             /\ ops' = Append(ops, cursor)
             /\ file' = Overlay(file, plan.images) /\ ideal' = Overlay(ideal, plan.images)
             /\ first' = Append(first, plan.answer)
    /\ home' = "final"
    /\ UNCHANGED <<mode, receipt, preceipt, source, stoken, callVars, reply, crashes>>

(* The image being written may be there in part.                           *)
Torn(image, S) == [c \in S |-> image[c]]
CutShort ==
    \/ UNCHANGED file
    \/ /\ pc = "apply" /\ written < Len(txn.images)
       /\ \E S \in (SUBSET DOMAIN txn.images[written + 1]) \ {{}} :
            file' = Overlay(file, <<Torn(txn.images[written + 1], S)>>)

(* Writing the receipt, an image, or the file to the disk fails.  The call *)
(* lets go of the lock and the file stays as it is until the restart.      *)
fail ==
    /\ pc \in {"commit", "apply"} /\ CutShort /\ Block
    /\ UNCHANGED <<log, mode, home, receipt, preceipt, source, stoken, answer, txn, written, resume,
                   ideal, ops, crashes>>

(* The process stops, or is restarted after a failure.  The log is         *)
(* replayed from some earlier index; without a log the call is lost.  A    *)
(* file that was never published is removed with its receipt, and a log    *)
(* replays its creation.                                                   *)

stop ==
    /\ mode # "direct" /\ crashes < MaxCrashes /\ crashes' = crashes + 1
    /\ CutShort
    /\ cursor' \in IF mode = "raft" THEN Starts
                   ELSE {IF pc \in {"recover", "apply", "settle", "decide", "commit", "answer", "blocked"}
                         THEN cursor + 1 ELSE cursor}
    /\ pc' = "boot"
    /\ UNCHANGED <<log, mode, home, receipt, preceipt, source, stoken, answer, txn, written, resume,
                   ghosts>>

(* The shard starts: unpublished files go, a receipt left at the pending   *)
(* path is published, and the receipt's mutation is completed.             *)
Emptied == [c \in Cells \cup {TokenCell} |-> IF c = TokenCell THEN ZERO ELSE Fresh[c]]

recover_mutation_receipts ==
    /\ pc = "boot"
    /\ IF home = "final"
       THEN /\ receipt' = IF preceipt # Nil THEN preceipt ELSE receipt
            /\ preceipt' = Nil
            /\ UNCHANGED <<home, file, ghosts>>
       ELSE /\ home' = "none" /\ file' = Emptied /\ receipt' = Nil /\ preceipt' = Nil
            /\ ideal' = Fresh /\ ops' = <<>>
            /\ first' = [p \in DOMAIN first |-> Nil] /\ reply' = Nil
    /\ pc' = "recover" /\ resume' = "idle"
    /\ UNCHANGED <<log, mode, cursor, source, stoken, answer, txn, written, crashes>>

Next ==
    \/ Call \/ CallSource \/ recover \/ apply_transaction \/ promote_and_compact
    \/ begin \/ write_transaction \/ commit_returns
    \/ apply_boundary \/ publish_pending_prob_file \/ publish_pending_prob_receipt
    \/ call_direct \/ fail \/ stop \/ recover_mutation_receipts

Spec == Init /\ [][Next]_vars

(***************************************************************************)
(* Properties                                                              *)
(***************************************************************************)

(* What the file holds once the receipt that is there has been completed.  *)
Completed ==
    LET t == read_transaction_if_present
    IN  IF t # Nil /\ Before(read_token(file), t.token) THEN Overlay(file, t.images) ELSE file

(* Wherever the process stops or a write fails, between two images or in   *)
(* the middle of one, the file and its receipt together still hold every   *)
(* published mutation, each exactly once: completing the receipt gives     *)
(* that content.  And whoever gets the file's lock between two mutations   *)
(* of a shard that is not blocked sees it whole; a blocked shard may show  *)
(* a reader half a mutation.                                               *)
Recoverable ==
    /\ Body(Completed) = ideal
    /\ pc = "idle" => Body(file) = ideal

(* A merge whose sums overflowed is answered with an error, finds the      *)
(* source changed when it is replayed, and is applied then.                *)
LateMerge(p) == first[p] = "error" /\ log[p].op = "merge"

(* A replayed entry that the file recognises as its last mutation answers  *)
(* what the mutation answered the first time, compacted receipt or not.    *)
ReplayAnswersAsBefore ==
    reply # Nil /\ reply.how = "replay" =>
        reply.result = first[reply.position] \/ LateMerge(reply.position)

(* Replaying the log over a sidecar that is ahead of it does nothing: no   *)
(* entry takes effect twice, and none takes effect after it was refused.   *)
PublishedOnce ==
    /\ \A i, j \in 1..Len(ops) : i # j => ops[i] # ops[j]
    /\ \A i \in 1..Len(ops) : first[ops[i]] = "error" => LateMerge(ops[i])

(* A replay changes nothing: each entry takes effect once and answers once.  *)
ReplaysOnce == ReplayAnswersAsBefore /\ PublishedOnce
=============================================================================
