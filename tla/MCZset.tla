------------------------------- MODULE MCZset -------------------------------
(***************************************************************************)
(* Instances of ZsetFile, the reference sorted set its answers and         *)
(* contents are held against, and the properties.                          *)
(***************************************************************************)
EXTENDS ZsetFile



Bit == [nx |-> 1, xx |-> 2, gt |-> 4, lt |-> 8]
Add(m, x, flags) == <<"add", m, x, FoldSet(LAMBDA f, n : n + Bit[f], 0, flags)>>
Incr(m, x, flags) == <<"incr", m, x, FoldSet(LAMBDA f, n : n + Bit[f], 0, flags)>>
Rem(m) == <<"remove", m>>
Pop(kind, n) == <<kind, n>>
Write(ops) == [writes |-> <<ops>>, fails |-> FALSE]

(* Members of one number, and one whose key needs overflow pages.          *)
M(i) == <<i>>
LongName == <<7, 1, 2, 3, 4, 5, 6, 7, 8, 9>>
LongToo == <<7, 1, 2, 3, 4, 5, 6, 7, 8, 8>>

(* Entries that grow both trees to three levels of nodes, then any two.    *)
GrowEntries == 4
Grow(k) ==
    [i \in 1..10 |-> LET j == 10 * (k - 1) + i
                     IN  Add(M(j), ((j * 5) % 6) + (IF j % 3 = 0 THEN 8 ELSE 0), {})]
    \o (IF k = GrowEntries THEN <<Add(LongName, 2, {})>> ELSE <<>>)
Removals(a, b) == [i \in 1..(b - a + 1) |-> Rem(M(a + i - 1))]
TreeEntries ==
    {Write(Removals(a, a + 8)) : a \in {1, 10, 18, 26, 32}}
    \cup {Write(<<Pop(k, n)>>) : k \in {"pop_min", "pop_max"}, n \in {1, 5, 9}}
    \cup {Write(<<Add(LongToo, 2, {}), Rem(LongName)>>),
          Write(<<Add(M(1), 3, {"nx"}), Add(M(2), 8, {"gt"}), Add(M(3), 1, {"lt"}), Add(M(20), 4, {"xx"})>>),
          Write(<<Add(M(3), 5, {"gt"}), Add(M(0), 8, {}), Add(M(0), 0, {}), Add(M(19), 13, {})>>),
          Write(<<Incr(M(4), 3, {}), Incr(M(5), 11, {"lt"}), Incr(M(30), 8, {}), Incr(LongName, 1, {"gt"})>>),
          Write(<<Incr(M(2), 4, {"nx"}), Incr(M(40), 4, {"xx"}), Incr(M(41), 10, {"nx"}),
                  Incr(M(4), 9, {"gt"})>>),
          Write(<<Add(M(2), 6, {}), Incr(M(4), 14, {}), Incr(M(2), 1, {})>>),
          Write(<<Add(M(5), 6, {}), Incr(M(5), 14, {})>>), Write(<<Rem(M(1)), Add(M(2), 7, {})>>),
          Write(<<Rem(M(50)), Incr(M(3), 5, {}), Incr(M(3), 5, {})>>),
          Write([i \in 1..9 |-> Add(M(50 + i), 3, {})]),
          Write([i \in 1..9 |-> Rem(M(4 * i))])}

(* A file of a few members, for crashes, compactions and readers.          *)
SmallStart == <<Add(M(1), 1, {}), Add(M(2), 2, {})>>
CrashEntries ==
    {[writes |-> <<<<Incr(M(2), 1, {})>>, <<Pop("pop_min", 1), Add(M(3), 8, {})>>>>, fails |-> FALSE],
     [writes |-> <<<<Rem(M(1)), Rem(M(2))>>, <<Add(M(2), 1, {})>>>>, fails |-> FALSE]}
ReadEntries(i) ==
    IF i = 2 THEN {[writes |-> <<<<Add(M(1), 4, {})>>, <<Rem(M(2))>>>>, fails |-> TRUE],
                   [writes |-> <<<<Incr(M(1), 1, {})>>>>, fails |-> TRUE]}
    ELSE {Write(<<Add(M(3), 1, {})>>), Write(<<Pop("pop_max", 2)>>)}

MCStart(m) == IF m \in {"tree", "readers"} THEN Grow(1) ELSE SmallStart
MCEntries(m, i) ==
    CASE m = "tree" -> IF i <= GrowEntries THEN {Write(Grow(i))} ELSE TreeEntries
      [] m = "crash" -> CrashEntries
      [] m \in {"readers", "replace", "rollback"} -> ReadEntries(i)
MCMaxEntries(m) == CASE m = "tree" -> GrowEntries + 2 [] m = "readers" -> 3 [] OTHER -> 2
MCMaxCrashes(m) == IF m \in {"crash", "rollback"} THEN 1 ELSE 0
MCMaxSyncs(m) == IF m \in {"crash", "rollback"} THEN 2 ELSE 0
MCMaxCompactions(m) == IF m \in {"crash", "replace"} THEN 1 ELSE 0
MCMaxReads(m) == IF m \in {"readers", "replace"} THEN 1 ELSE 0

-----------------------------------------------------------------------------
(* The reference: a sorted set is a function from members to scores.       *)
Members(c) == {e.member : e \in c}
ScoreIn(c, m) == (CHOOSE e \in c : e.member = m).score
With(c, m, x) == {e \in c : e.member # m} \cup {[member |-> m, score |-> x]}
Before(a, b) ==
    \/ Value(a.score) < Value(b.score)
    \/ Value(a.score) = Value(b.score) /\ Lt(a.member, b.member)
After(a, b) == Before(b, a)
First(c, n, Lower(_, _)) ==
    [i \in 1..Smaller(n, Cardinality(c)) |->
        CHOOSE e \in c : Cardinality({f \in c : Lower(f, e)}) = i - 1]
Ordered(list, Lower(_, _)) == \A i \in 1..(Len(list) - 1) : Lower(list[i], list[i + 1])

Asks(op, flag) == (op[4] \div Bit[flag]) % 2 = 1
Permits(op, known, new, old) ==
    IF ~ known THEN ~ Asks(op, "xx")
    ELSE /\ ~ Asks(op, "nx")
         /\ Asks(op, "gt") => Value(new) > Value(old)
         /\ Asks(op, "lt") => Value(new) < Value(old)
RefAdd(c, op) ==
    LET known == op[2] \in Members(c)
        old == IF known THEN ScoreIn(c, op[2]) ELSE 0
    IN  IF Permits(op, known, op[3], old) /\ (known => Value(op[3]) # Value(old))
        THEN [c |-> With(c, op[2], op[3]), out |-> <<~ known, TRUE>>]
        ELSE [c |-> c, out |-> <<FALSE, FALSE>>]
RefIncr(c, op) ==
    LET known == op[2] \in Members(c)
        old == IF known THEN ScoreIn(c, op[2]) ELSE 0
        new == Plus(old, op[3])
    IN  IF Permits(op, known, new, old)
        THEN [c |-> IF known /\ Value(new) = Value(old) THEN c ELSE With(c, op[2], new), out |-> score_term(new)]
        ELSE [c |-> c, out |-> [atom |-> "nil"]]
RefOp(c, op) ==
    CASE op[1] = "add" -> RefAdd(c, op)
      [] op[1] = "incr" -> RefIncr(c, op)
      [] op[1] = "remove" -> [c |-> {e \in c : e.member # op[2]}, out |-> <<op[2] \in Members(c)>>]
      [] op[1] \in {"pop_min", "pop_max"} ->
            LET out == IF op[1] = "pop_min" THEN First(c, op[2], Before) ELSE First(c, op[2], After)
            IN  [c |-> c \ Holds(out), out |-> entries_term(out)]
(* A score that is no number, or a sum of finite scores that is too large, *)
(* fails the whole write.                                                  *)
Refused(c, op) ==
    \/ op[1] = "add" /\ is_nan(op[3])
    \/ /\ op[1] = "incr"
       /\ LET known == op[2] \in Members(c)
              old == IF known THEN ScoreIn(c, op[2]) ELSE 0
              new == Plus(old, op[3])
          IN  /\ IF known THEN ~ Asks(op, "nx") ELSE ~ Asks(op, "xx")
              /\ is_nan(new) \/ (is_infinite(new) /\ ~ is_infinite(old) /\ ~ is_infinite(op[3]))
RefThen(acc, r) == [acc EXCEPT !.c = r.c, !.outs = Append(@, r.out)]
RefNext(acc, op) ==
    IF acc.failed \/ Refused(acc.c, op) THEN [acc EXCEPT !.failed = TRUE]
    ELSE RefThen(acc, RefOp(acc.c, op))
RefAllOrNone(c, r) ==
    IF r.failed THEN [c |-> c, outs |-> <<>>] ELSE [c |-> r.c, outs |-> r.outs]
RefWrite(c, ops) ==
    RefAllOrNone(c, FoldLeft(RefNext, [c |-> c, outs |-> <<>>, failed |-> FALSE], ops))
(* Its content and answers after the first n writes of an entry.           *)
RefAfter(acc, r) == [c |-> r.c, outs |-> Append(acc.outs, r.outs)]
RefPart(c, e, n) ==
    LET step(acc, ops) == RefAfter(acc, RefWrite(acc.c, ops))
    IN  FoldLeft(step, [c |-> c, outs |-> <<>>], SubSeq(e.writes, 1, n))
RefOutcome(c, e, r) == [c |-> IF e.fails THEN c ELSE r.c, outs |-> r.outs]
RefEntry(c, e) == RefOutcome(c, e, RefPart(c, e, Len(e.writes)))

VARIABLE ref   \* what each entry of the log leaves and answers
RefLog(i) == IF i = 0 THEN {} ELSE ref[i].c
RefToken(t) == IF t[1] = 0 THEN {} ELSE RefPart(RefLog(t[1] - 1), raftlog[t[1]], t[2]).c

MCInit == Init /\ ref = <<RefEntry({}, raftlog[1])>>
MCNext ==
    /\ Next
    /\ ref' = IF raftlog' = raftlog THEN ref ELSE Append(ref, RefEntry(Last(ref).c, Last(raftlog')))
MCSpec == MCInit /\ [][MCNext]_<<vars, ref>>

-----------------------------------------------------------------------------
Tx == Begin(Current.cells, StateNow[1])
ByName(a, b) == Lt(a.member, b.member)
AllScores == entries(Tx, Score, 0, Tx.count, FALSE)
AllMembers == entries(Tx, Member, 0, Tx.count, FALSE)

(* Between entries the file holds exactly what the applied entries leave,  *)
(* whatever crash, rewind, rollback or compaction came before; after a     *)
(* restart it may be ahead of the checkpoint by whole writes of the log    *)
(* that replaying will cut off, and never behind it.  Both trees hold the  *)
(* same members and are well formed.                                       *)
FileFollowsLog ==
    (wr.pc = "idle" /\ rd.pc = "idle") =>
        LET s == StateNow[1]
        IN  /\ StateNow # <<>>
            /\ IF s.token[1] > applied THEN ContentOf(Current.cells, s) = RefToken(s.token)
               ELSE ContentOf(Current.cells, s) = RefLog(applied)
            /\ check(Tx, Score) /\ check(Tx, Member)
            /\ Ordered(AllScores, Before)
            /\ Ordered(AllMembers, ByName) /\ Holds(AllMembers) = Holds(AllScores)

(* An entry answers the same every time it is applied, what a sorted set   *)
(* answers that holds what the log before it left: replies the Raft log    *)
(* already gave stay true after a restart.                                 *)
ReplayAnswersAsBefore ==
    wr.pc = "idle" =>
        \A i \in 1..Len(raftlog) : answers[i] \subseteq {ref[i].outs}

(* Replay never needs to go below what a compacted file can undo: rewind   *)
(* is never refused, because the floor a compaction drops history up to is *)
(* never past the checkpoint the log is replayed from.                     *)
RewindNeverRefused == wr.pc # "stuck"

(* A restart replays the log from its checkpoint to the same replies.      *)
ReplayWorks == ReplayAnswersAsBefore /\ RewindNeverRefused

(* A read that succeeds answers with the set as it was at one moment of    *)
(* the read, though frames are appended, cut off and their bytes reused,   *)
(* and files replaced, while it runs without a lock.                       *)
ReadIsAtomic == rd.pc = "done" => Holds(rd.out) \in seen

-----------------------------------------------------------------------------
(* What the reads answer, from the sorted list of the set.                 *)
Turned(list, rev) == IF rev THEN Reverse(list) ELSE list
Where(list, member) == {i \in 1..Len(list) : list[i].member = member}
Picked(list, lo, hi) ==
    LET a == Larger(lo, 0) b == Smaller(hi, Len(list) - 1)
    IN  IF a > b THEN <<>> ELSE SubSeq(list, a + 1, b + 1)
Absolute(list, i) == IF i < 0 THEN i + Len(list) ELSE i
AboveScore(bound, e) ==
    CASE bound[1] = "neg_inf" -> TRUE [] bound[1] = "inf" -> FALSE
      [] bound[1] = "incl" -> Value(e.score) >= Value(bound[2])
      [] bound[1] = "excl" -> Value(e.score) > Value(bound[2])
BelowScore(bound, e) ==
    CASE bound[1] = "neg_inf" -> FALSE [] bound[1] = "inf" -> TRUE
      [] bound[1] = "incl" -> Value(e.score) <= Value(bound[2])
      [] bound[1] = "excl" -> Value(e.score) < Value(bound[2])
AboveName(bound, e) ==
    CASE bound[1] = "min" -> TRUE [] bound[1] = "max" -> FALSE
      [] bound[1] = "incl" -> Le(bound[2], e.member) [] bound[1] = "excl" -> Lt(bound[2], e.member)
BelowName(bound, e) ==
    CASE bound[1] = "min" -> FALSE [] bound[1] = "max" -> TRUE
      [] bound[1] = "incl" -> Le(e.member, bound[2]) [] bound[1] = "excl" -> Lt(e.member, bound[2])
Limited(list, offset, limit) ==
    Picked(list, offset, IF limit = <<>> THEN Len(list) ELSE offset + limit[1] - 1)

ScoreBounds == {<<"neg_inf">>, <<"inf">>, <<"incl", 0>>, <<"excl", 8>>, <<"incl", 11>>, <<"excl", 2>>}
NameBounds == {<<"min">>, <<"max">>, <<"incl", M(7)>>, <<"excl", LongName>>}
Windows == {[rev |-> r, offset |-> 0, limit |-> <<>>] : r \in BOOLEAN}
           \cup {[rev |-> r, offset |-> 3, limit |-> <<4>>] : r \in BOOLEAN}

PointReads(file, list, names) ==
    /\ zset_tree_card(file) = Len(list)
    /\ \A m \in {M(1), M(9), LongName, LongToo, M(60)} :
          LET at == Where(list, m)
          IN  /\ zset_tree_scores(file, <<m>>) =
                    <<IF at = {} THEN [atom |-> "nil"] ELSE score_term(list[CHOOSE i \in at : TRUE].score)>>
              /\ \A rev \in BOOLEAN :
                    zset_tree_rank(file, m, rev) =
                        IF at = {} THEN <<>>
                        ELSE <<IF rev THEN Len(list) - (CHOOSE i \in at : TRUE)
                               ELSE (CHOOSE i \in at : TRUE) - 1>>
IndexReads(file, list) ==
    /\ \A i \in {-50, -6, 4}, j \in {-50, -2, 7, 60}, rev \in BOOLEAN :
          zset_tree_range_by_index(file, i, j, rev) =
              entries_term(Picked(Turned(list, rev), Absolute(list, i), Absolute(list, j)))
    /\ list # <<>> =>
          /\ zset_tree_at_positions(file, <<0, Len(list) - 1>>) = entries_term(<<list[1], Last(list)>>)
          /\ zset_tree_at_positions(file, <<Len(list)>>) = [atom |-> "error"]
BoundReads(file, list, names) ==
    /\ \A lo \in ScoreBounds, hi \in ScoreBounds :
          LET hits == SelectSeq(list, LAMBDA e : AboveScore(lo, e) /\ BelowScore(hi, e))
          IN  /\ zset_tree_count_by_score(file, lo, hi) = Len(hits)
              /\ \A w \in Windows : zset_tree_range_by_score(file, lo, hi, w.rev, w.offset, w.limit) =
                                       entries_term(Limited(Turned(hits, w.rev), w.offset, w.limit))
    /\ \A lo \in NameBounds, hi \in NameBounds :
          LET hits == SelectSeq(names, LAMBDA e : AboveName(lo, e) /\ BelowName(hi, e))
          IN  /\ zset_tree_count_by_lex(file, lo, hi) = Len(hits)
              /\ \A w \in Windows : zset_tree_range_by_lex(file, lo, hi, w.rev, w.offset, w.limit) =
                                       entries_term(Limited(Turned(hits, w.rev), w.offset, w.limit))
RECURSIVE Walk(_, _, _)
WalkOn(file, page, budget) ==
    IF page[2] = <<>> \/ budget = 0 THEN page[1] ELSE page[1] \o Walk(file, page[2], budget - 1)
Walk(file, after, budget) == WalkOn(file, zset_tree_scan(file, after, 7), budget)

(* Every read answers what the sorted list of the set says, by position,   *)
(* by score and by name, with every kind of bound, offset and limit, in    *)
(* both directions, over trees of several levels shaped by splits and      *)
(* merges and with long names; pages of a scan together give every member  *)
(* once; and a missing file reads as an empty set.                         *)
ReadsExact ==
    (mode = "tree" /\ wr.pc = "idle" /\ applied > GrowEntries) =>
        \A f \in {<<>>, <<Tx>>} :
            LET list == IF f = <<>> THEN <<>> ELSE AllScores
                names == IF f = <<>> THEN <<>> ELSE AllMembers
            IN  /\ PointReads(f, list, names) /\ IndexReads(f, list) /\ BoundReads(f, list, names)
                /\ Walk(f, <<>>, 10) = entries_term(names)
=============================================================================
