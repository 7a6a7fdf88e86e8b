------------------------------ MODULE ZsetOps ------------------------------
(***************************************************************************)
(* Sorted-set semantics over a transaction (ops.rs of zset_tree): every    *)
(* write keeps the two trees together and logs what it changed; every read *)
(* turns its bounds into positions of one of the trees.                    *)
(***************************************************************************)
EXTENDS ZsetTree

score_key(x, member) == <<score_prefix(x)>> \o member
score(tx, member) == get(tx, Member, member)
(* Mutant: the bound of a member range lacks the terminating zero.         *)
without_zero(bytes) == bytes
with_zero(bytes) == Append(bytes, 0)
logged(tx, op) == [tx EXCEPT !.log = Append(@, op)]
Counted(tx, more) == [tx EXCEPT !.count = @ + more]
Fail(tx) == [tx EXCEPT !.failed = TRUE]

(* Gives member a score.  A score equal to the member's own changes        *)
(* nothing; the stored score keeps the sign of a zero.                     *)
InBothTrees(tx, member, x) ==
    insert(insert(tx, Score, score_key(x, member), <<x>>), Member, member, <<x>>)
SetFrom(tx, member, x, prev) ==
    IF prev # <<>> /\ Value(prev[1]) = Value(x) THEN tx
    ELSE Counted(logged(InBothTrees(IF prev = <<>> THEN tx
                                    ELSE remove(tx, Score, score_key(prev[1], member)), member, x),
                        Set(member, x, prev)),
                 IF prev = <<>> THEN 1 ELSE 0)
set(tx, member, x) == IF is_nan(x) THEN Fail(tx) ELSE SetFrom(tx, member, x, score(tx, member))

DeleteFrom(tx, member, prev) ==
    IF prev = <<>> THEN tx
    ELSE Counted(logged(remove(remove(tx, Score, score_key(prev[1], member)), Member, member),
                        Removed(member, prev)),
                 -1)
delete(tx, member) == DeleteFrom(tx, member, score(tx, member))

(* One logged change again, and one logged change undone.                  *)
replay(tx, op) == IF op.set THEN set(tx, op.member, op.score) ELSE delete(tx, op.member)
revert(tx, op) == IF op.prev # <<>> THEN set(tx, op.member, op.prev[1]) ELSE delete(tx, op.member)

-----------------------------------------------------------------------------
score_entry(e) == [member |-> From(e.key, 2), score |-> e.value[1]]
member_entry(e) == [member |-> e.key, score |-> e.value[1]]

(* Members at positions [start, end) of a tree, reversed when rev.         *)
Entered(tree, raw) ==
    [i \in 1..Len(raw) |-> IF tree = Score THEN score_entry(raw[i]) ELSE member_entry(raw[i])]
MaybeReversed(list, rev) == IF rev THEN Reverse(list) ELSE list
entries(tx, tree, start, end, rev) == MaybeReversed(Entered(tree, range(tx, tree, start, end)), rev)

(* Conditions are sets of flags; a result is the transaction and what the  *)
(* operation answers.                                                      *)
AddTo(tx, op, old) ==
    LET kept == \/ "nx" \in op.conditions
                \/ "gt" \in op.conditions /\ Value(op.score) <= Value(old[1])
                \/ "lt" \in op.conditions /\ Value(op.score) >= Value(old[1])
                \/ Value(op.score) = Value(old[1])
    IN  IF (IF old = <<>> THEN "xx" \in op.conditions ELSE kept)
        THEN [tx |-> tx, out |-> <<FALSE, FALSE>>]
        ELSE [tx |-> set(tx, op.member, op.score), out |-> <<old = <<>>, TRUE>>]
apply_add(tx, op) ==
    IF is_nan(op.score) THEN [tx |-> Fail(tx), out |-> <<>>]
    ELSE AddTo(tx, op, score(tx, op.member))

IncrFrom(tx, op, current) ==
    LET old == IF current = <<>> THEN 0 ELSE current[1]
        new == Plus(old, op.score)
        skipped == \/ current = <<>> /\ "xx" \in op.conditions
                   \/ current # <<>> /\ "nx" \in op.conditions
        invalid == \/ is_nan(new)
                   \/ is_infinite(new) /\ ~ is_infinite(old) /\ ~ is_infinite(op.score)
        kept == \/ "gt" \in op.conditions /\ Value(new) <= Value(old)
                \/ "lt" \in op.conditions /\ Value(new) >= Value(old)
    IN  IF skipped THEN [tx |-> tx, out |-> <<>>]
        ELSE IF invalid THEN [tx |-> Fail(tx), out |-> <<>>]
        ELSE IF current # <<>> /\ kept THEN [tx |-> tx, out |-> <<>>]
        ELSE [tx |-> set(tx, op.member, new), out |-> <<new>>]
apply_incr(tx, op) == IncrFrom(tx, op, score(tx, op.member))

Without(tx, popped) ==
    [tx |-> FoldLeft(delete, tx, [i \in 1..Len(popped) |-> popped[i].member]), out |-> popped]
(* Mutant: the highest are popped in rising order.                         *)
apply_pop_rising(tx, op) ==
    LET take == Smaller(op.count, tx.count)
        start == IF op.kind = "pop_min" THEN 0 ELSE tx.count - take
    IN  Without(tx, entries(tx, Score, start, start + take, FALSE))
apply_pop(tx, op) ==
    LET take == Smaller(op.count, tx.count)
        start == IF op.kind = "pop_min" THEN 0 ELSE tx.count - take
    IN  Without(tx, entries(tx, Score, start, start + take, op.kind = "pop_max"))

apply_op(tx, op) ==
    CASE op.kind = "add" -> apply_add(tx, op)
      [] op.kind = "incr" -> apply_incr(tx, op)
      [] op.kind = "remove" -> [tx |-> delete(tx, op.member), out |-> <<score(tx, op.member) # <<>>>>]
      [] op.kind \in {"pop_min", "pop_max"} -> apply_pop(tx, op)

(* The operations of one call, in order; an error ends the call.           *)
Answered(acc, r) == [tx |-> r.tx, outs |-> Append(acc.outs, r.out)]
ApplyNext(acc, op) == IF acc.tx.failed THEN acc ELSE Answered(acc, apply_op(acc.tx, op))
apply_ops(tx, ops) == FoldLeft(ApplyNext, [tx |-> tx, outs |-> <<>>], ops)

-----------------------------------------------------------------------------
(* Reads.  Optional results are <<>> or one element.                       *)
RankFrom(tx, r, rev) == IF rev THEN tx.count - 1 - r ELSE r
ScoredRank(tx, x, member, rev) ==
    IF x = <<>> THEN <<>> ELSE <<RankFrom(tx, rank(tx, Score, score_key(x[1], member)), rev)>>
member_rank(tx, member, rev) == ScoredRank(tx, score(tx, member), member, rev)

range_by_index(tx, first, last, rev) ==
    LET n == tx.count
        start == Larger(IF first < 0 THEN first + n ELSE first, 0)
        stop == Smaller(IF last < 0 THEN last + n ELSE last, n - 1)
    IN  IF start > stop \/ start >= n THEN <<>>
        ELSE IF rev THEN entries(tx, Score, n - 1 - stop, n - start, TRUE)
        ELSE entries(tx, Score, start, stop + 1, FALSE)

(* Bounds: [kind |-> "min" | "max" | "incl" | "excl", at |-> score or member]. *)
RankAfterScore(tx, x) ==
    LET next == next_score_prefix(score_prefix(x))
    IN  IF next = <<>> THEN tx.count ELSE rank(tx, Score, next)

score_lower(tx, bound) ==
    CASE bound.kind = "min" -> 0
      [] bound.kind = "max" -> tx.count
      [] bound.kind = "incl" -> rank(tx, Score, <<score_prefix(bound.at)>>)
      [] bound.kind = "excl" -> RankAfterScore(tx, bound.at)

score_upper(tx, bound) ==
    CASE bound.kind = "min" -> 0
      [] bound.kind = "max" -> tx.count
      [] bound.kind = "incl" -> RankAfterScore(tx, bound.at)
      [] bound.kind = "excl" -> rank(tx, Score, <<score_prefix(bound.at)>>)

lex_lower(tx, bound) ==
    CASE bound.kind = "min" -> 0
      [] bound.kind = "max" -> tx.count
      [] bound.kind = "incl" -> rank(tx, Member, bound.at)
      [] bound.kind = "excl" -> rank(tx, Member, with_zero(bound.at))

lex_upper(tx, bound) ==
    CASE bound.kind = "min" -> 0
      [] bound.kind = "max" -> tx.count
      [] bound.kind = "incl" -> rank(tx, Member, with_zero(bound.at))
      [] bound.kind = "excl" -> rank(tx, Member, bound.at)

(* Offset and limit on the positions [low, high), from the top when rev.   *)
window(low, high, rev, offset, limit) ==
    IF low >= high \/ offset >= high - low THEN <<0, 0>>
    ELSE IF rev
    THEN <<IF limit = <<>> THEN low ELSE Larger(high - offset - limit[1], low), high - offset>>
    ELSE <<low + offset, IF limit = <<>> THEN high ELSE Smaller(low + offset + limit[1], high)>>

WindowEntries(tx, tree, w, rev) == entries(tx, tree, w[1], w[2], rev)
range_by_score(tx, min, max, rev, offset, limit) ==
    WindowEntries(tx, Score, window(score_lower(tx, min), score_upper(tx, max), rev, offset, limit), rev)
range_by_lex(tx, min, max, rev, offset, limit) ==
    WindowEntries(tx, Member, window(lex_lower(tx, min), lex_upper(tx, max), rev, offset, limit), rev)
count_by_score(tx, min, max) == Larger(score_upper(tx, max) - score_lower(tx, min), 0)
count_by_lex(tx, min, max) == Larger(lex_upper(tx, max) - lex_lower(tx, min), 0)

(* Members at drawn positions; a position past the end fails the call.     *)
AllFound(found) ==
    [ok |-> \A i \in 1..Len(found) : found[i] # <<>>, entries |-> FlattenSeq(found)]
at_positions(tx, positions) ==
    AllFound([i \in 1..Len(positions) |-> entries(tx, Score, positions[i], positions[i] + 1, FALSE)])

(* Up to count members after a member, and where to go on when more remain.*)
ScanPage(page, more) ==
    [entries |-> page, next |-> IF more /\ page # <<>> THEN <<Last(page).member>> ELSE <<>>]
ScanFrom(tx, start, count) ==
    LET end == Smaller(start + count, tx.count)
    IN  ScanPage(entries(tx, Member, start, end, FALSE), end < tx.count)
scan(tx, after, count) ==
    ScanFrom(tx, IF after = <<>> THEN 0 ELSE rank(tx, Member, with_zero(after[1])), count)
=============================================================================
