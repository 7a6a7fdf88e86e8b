------------------------------- MODULE MCStore -------------------------------
(* The active data file and the shared sidecars, each on its own: a run     *)
(* chooses at the start which of the two it is about.                       *)
EXTENDS BitcaskStore, SidecarIo

VARIABLE about

MCKeys == {<< <<"k">> >>, << <<"l">> >>}
K == << <<"k">> >>
L == << <<"l">> >>

\* Small records; a value that holds a record, in a batch larger than the ring;
\* an oversized value; an oversized key behind a good record.
Inner == encode_record(Deleted(L))
MCBatches ==
    {<<Record(K, << <<"x">> >>, 0)>>,
     <<Deleted(K)>>,
     <<Record(L, Inner, 5), Record(K, <<>>, 0), Record(L, <<>>, 0)>>,
     <<Record(K, <<>>, 0), Record(K \o L, <<>>, 0)>>,
     <<Record(L, << <<"y">>, <<"y">>, <<"y">>, <<"y">> >>, 0)>>}

\* Two sidecars, one of them under two names.
MCLinked == [p \in {"a", "b", "c"} |-> IF p = "b" THEN 2 ELSE 1]

Request(op, p, sources, size) == [op |-> op, path |-> p, sources |-> sources, size |-> size]
MCRequests ==
    {Request("read", "a", {}, 2), Request("read", "b", {}, 3), Request("read", "b", {}, 1),
     Request("write", "c", {}, 0), Request("create", "a", {}, 0),
     Request("merge", "a", {"b"}, 0), Request("merge", "b", {"a", "c"}, 0),
     Request("merge", "c", {"a", "b"}, 0)}

Symmetry == Permutations(Jobs)

MCInit == Init /\ SidecarInit /\ about \in {"log", "sidecars"}
          /\ (about = "sidecars" => ~ring)

MCNext ==
    \/ about = "log" /\ Next /\ UNCHANGED <<svars, about>>
    \/ about = "sidecars" /\ SidecarNext /\ UNCHANGED <<vars, about>>

MCSpec == MCInit /\ [][MCNext]_<<vars, svars, about>>
==============================================================================
