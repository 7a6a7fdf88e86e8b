------------------------------ MODULE ZsetNif -------------------------------
(***************************************************************************)
(* The calls Elixir makes on a sorted-set tree (nif.rs of zset_tree): the  *)
(* terms they take, what they answer, and the empty answers of a file that *)
(* does not exist.  A term is a tuple whose first element is its atom.     *)
(***************************************************************************)
EXTENDS ZsetRebuild

(* Infinite scores have atoms of their own.                                *)
score_term(x) ==
    IF ~ is_infinite(x) THEN [float |-> x] ELSE [atom |-> IF x < SIGN THEN "inf" ELSE "neg_inf"]
entries_term(list) == [i \in 1..Len(list) |-> <<list[i].member, score_term(list[i].score)>>]

(* Flags above 15 have no meaning: bad_arg raises before a file is opened. *)
conditions ==
    [flags \in 0..15 |->
        {c \in {"nx", "xx", "gt", "lt"} :
            LET bit == CASE c = "nx" -> 1 [] c = "xx" -> 2 [] c = "gt" -> 4 [] c = "lt" -> 8
            IN  (flags \div bit) % 2 = 1}]

decode_op(term) ==
    CASE term[1] \in {"add", "incr"} ->
            [kind |-> term[1], member |-> term[2], score |-> term[3], conditions |-> conditions[term[4]]]
      [] term[1] = "remove" -> [kind |-> "remove", member |-> term[2]]
      [] term[1] \in {"pop_min", "pop_max"} -> [kind |-> term[1], count |-> term[2]]

outcome_term(op, out) ==
    CASE op.kind = "add" -> out
      [] op.kind = "incr" -> IF out = <<>> THEN [atom |-> "nil"] ELSE score_term(out[1])
      [] op.kind = "remove" -> out
      [] op.kind \in {"pop_min", "pop_max"} -> entries_term(out)

(* Bounds are <<"neg_inf">>, <<"inf">>, <<"min">>, <<"max">>, or a pair of *)
(* "incl" or "excl" and a score or member.                                 *)
Bound(kind, at) == [kind |-> kind, at |-> at]
decode_score_bound(term) ==
    CASE term[1] = "neg_inf" -> Bound("min", 0)
      [] term[1] = "inf" -> Bound("max", 0)
      [] term[1] \in {"incl", "excl"} -> Bound(term[1], term[2])
decode_lex_bound(term) ==
    IF term[1] \in {"min", "max"} THEN Bound(term[1], <<>>) ELSE Bound(term[1], term[2])

-----------------------------------------------------------------------------
(* Reads of the latest tree, <<tx>>, or of a missing file, <<>>.           *)
read_term(file, Read(_), empty) == IF file = <<>> THEN empty ELSE Read(file[1])

zset_tree_card(file) == read_term(file, LAMBDA tx : tx.count, 0)
zset_tree_scores(file, members) ==
    LET found(tx) == [i \in 1..Len(members) |->
                         LET x == score(tx, members[i])
                         IN  IF x = <<>> THEN [atom |-> "nil"] ELSE score_term(x[1])]
    IN  read_term(file, found, [i \in 1..Len(members) |-> [atom |-> "nil"]])
zset_tree_rank(file, member, rev) ==
    read_term(file, LAMBDA tx : member_rank(tx, member, rev), <<>>)
zset_tree_range_by_index(file, start, stop, rev) ==
    read_term(file, LAMBDA tx : entries_term(range_by_index(tx, start, stop, rev)), <<>>)
zset_tree_range_by_score(file, min, max, rev, offset, limit) ==
    read_term(file, LAMBDA tx : entries_term(
        range_by_score(tx, decode_score_bound(min), decode_score_bound(max), rev, offset, limit)), <<>>)
zset_tree_range_by_lex(file, min, max, rev, offset, limit) ==
    read_term(file, LAMBDA tx : entries_term(
        range_by_lex(tx, decode_lex_bound(min), decode_lex_bound(max), rev, offset, limit)), <<>>)
zset_tree_count_by_score(file, min, max) ==
    read_term(file, LAMBDA tx : count_by_score(tx, decode_score_bound(min), decode_score_bound(max)), 0)
zset_tree_count_by_lex(file, min, max) ==
    read_term(file, LAMBDA tx : count_by_lex(tx, decode_lex_bound(min), decode_lex_bound(max)), 0)
zset_tree_at_positions(file, positions) ==
    LET term(r) == IF r.ok THEN entries_term(r.entries) ELSE [atom |-> "error"]
    IN  read_term(file, LAMBDA tx : term(at_positions(tx, positions)), <<>>)
zset_tree_scan(file, after, count) ==
    LET term(r) == <<entries_term(r.entries), r.next>>
    IN  read_term(file, LAMBDA tx : term(scan(tx, after, count)), <<<<>>, <<>>>>)
=============================================================================
