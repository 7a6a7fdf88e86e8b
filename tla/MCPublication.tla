--------------------------- MODULE MCPublication ---------------------------
(* An instance of Publication for TLC: two shards with a row each.          *)
EXTENDS Publication

CONSTANTS x1, x2, w1, w2

MCHome(x) == IF x = x1 THEN 1 ELSE 2

\* w1 applies the commands of the shards; w2 mirrors flows to disk, or is a shard
\* process that starts.
MCOperations ==
         [by : {w1}, kind : {"promoted"}, span : {{1, 2}}]
    \cup [by : {w1}, kind : {"replace"}, span : {{1}}]
    \cup [by : {w2}, kind : {"plain", "startup"}, span : {{1}}]

MCReads == {[mode |-> "plain", span |-> {1, 2}], [mode |-> "promoted", span |-> {1}]}
=============================================================================
