---------------------------- MODULE MCFlowIndex ----------------------------
(* Key 2 is key 1 followed by a zero byte; 4 is a history key.  Member 1    *)
(* sorts before 2 by its bytes and after it by its version, like "1000-10"  *)
(* and "1000-9"; it is also a lane member that stands for Flow 2.           *)
EXTENDS FlowClaim

MCWorkerKey == 3 :> 7 @@ 4 :> 8

MCEventVersion == 1 :> 10 @@ 2 :> 9
MCLaneTarget == 1 :> 2 @@ 2 :> 0
MCScores == {-1, 0, 1}
MCPuts == {<<<<1, 1, s>>>> : s \in Scores} \cup {<<<<k, m, 0>>>> : k \in {1, 2, 4}, m \in Members} \cup {<<<<4, 2, 1>>>>}
MCPutNews == {<<<<1, 1, 0>>, <<1, 2, 0>>>>, <<<<4, 1, 0>>, <<4, 2, 0>>>>}
MCMoves == {<<<<1, 2, m, 0>>>> : m \in Members} \cup {<<<<2, 1, 1, -1>>>>, <<<<1, 1, 1, 1>>>>}
MCDeletes == {<<<<k, m>>>> : k \in {1, 2, 4}, m \in Members}
MCClaim(m) == [id |-> m, from_due |-> 1, from_due_score |-> 0, to_due |-> 2, to_due_score |-> 0,
               from_state |-> 1, from_state_score |-> 0, to_state |-> 2, to_state_score |-> 0,
               inflight |-> 4, worker |-> 4, lease_score |-> 0]
MCBatches == {[puts |-> <<>>, news |-> <<<<4, 1, 0>>>>, moves |-> <<<<2, 1, 2, 0>>>>,
               dels |-> <<<<4, 2>>>>, claims |-> <<MCClaim(1), MCClaim(2)>>]}

NoRecord == [id |-> <<1>>, flow_type |-> TYPE, state |-> QUEUED, version |-> 1, created_at_ms |-> 0, updated_at_ms |-> 0,
  attempts |-> Nil, fencing_token |-> Nil, next_run_at_ms |-> 0, priority |-> Nil, ttl_ms |-> Nil,
  history_hot_max_events |-> Nil, history_max_events |-> Nil, retention_ttl_ms |-> Nil,
  terminal_retention_until_ms |-> Nil, max_active_ms |-> Nil, partition_key |-> Nil, payload_ref |-> Nil,
  parent_flow_id |-> Nil, parent_partition_key |-> Nil, root_flow_id |-> Nil, correlation_id |-> Nil, result_ref |-> Nil,
  error_ref |-> Nil, lease_owner |-> Nil, lease_token |-> Nil, lease_deadline_ms |-> Nil, run_state |-> Nil,
  rewound_to_event_id |-> Nil, child_groups |-> EmptyGroups]

\* Due now or later, never, of another type; with more fields; at the limits of the
\* counters; and one the native plan leaves to the general path.
MCRecords ==
  {NoRecord, [NoRecord EXCEPT !.next_run_at_ms = 1, !.updated_at_ms = 1], [NoRecord EXCEPT !.next_run_at_ms = Nil],
   [NoRecord EXCEPT !.flow_type = <<9>>],
   [NoRecord EXCEPT !.payload_ref = <<7, 7>>, !.child_groups = encode_bin(<<5, 6>>), !.ttl_ms = 3, !.priority = 2],
   [NoRecord EXCEPT !.fencing_token = U64Max - 1], [NoRecord EXCEPT !.version = MaxExact],
   [NoRecord EXCEPT !.correlation_id = <<4>>]}

\* Any record beside one due now, one due later and one past the native plan.
MCInitialRecords ==
  {rs \in [Members -> MCRecords] :
     rs[2] \in {NoRecord, [NoRecord EXCEPT !.next_run_at_ms = 1, !.updated_at_ms = 1], [NoRecord EXCEPT !.correlation_id = <<4>>]}}

BinFields == {"id", "flow_type", "partition_key", "root_flow_id", "lease_owner", "error_ref", "run_state", "rewound_to_event_id"}
IntFields == {"version", "attempts", "fencing_token", "next_run_at_ms", "lease_deadline_ms"}

MCSampleRecords ==
  {[NoRecord EXCEPT ![f] = b, ![g] = n] : f \in BinFields, g \in IntFields,
     b \in {Nil, <<>>, <<1>>, <<0, 3, 1, 5>>}, n \in {Nil, 0, MaxExact, U64Max - 1, U64Max}}
  \cup {[NoRecord EXCEPT !.child_groups = encode_bin(b), !.priority = n] : b \in {Nil, <<>>, <<0>>, <<5, 6>>}, n \in {Nil, 0, 7}}

NoEvent == [event |-> <<3>>, version |-> 1, now_ms |-> 5, state |-> <<2>>, priority |-> Nil, attempts |-> Nil,
  fencing_token |-> Nil, created_at_ms |-> Nil, updated_at_ms |-> Nil, next_run_at_ms |-> Nil,
  lease_deadline_ms |-> Nil, lease_owner |-> Nil, payload_ref |-> Nil, result_ref |-> Nil, error_ref |-> Nil,
  rewound_to_event_id |-> Nil, meta |-> <<>>]

MCSampleEvents ==
  {[NoEvent EXCEPT ![f] = b, ![g] = n, !.meta = m] : f \in {"lease_owner", "payload_ref", "rewound_to_event_id", "state"},
     g \in {"version", "attempts", "created_at_ms", "updated_at_ms", "next_run_at_ms", "lease_deadline_ms"},
     b \in {Nil, <<>>, <<1, 0>>}, n \in {Nil, 0, 5, U64Max - 1, U64Max},
     m \in {<<>>, <<<<<<1>>, <<>>>>, <<<<0>>, <<4, 4>>>>>>}}

MCSampleBytes == UNION {[1..n -> 0..(2 * Base - 1)] : n \in 0..MaxVarintBytes}

\* The index under its own operations, or under claims, or the codecs; a walk never
\* reads a count, so the two are explored apart.
NoClaims ==
  /\ values = [m \in Members |-> Nil] /\ pending = values /\ queue = Nil
  /\ applied = Nil /\ grants = {} /\ now = 0
NotCoding == coded = [kind |-> "none", of |-> <<>>, bytes |-> <<>>]
MCInit ==
  \/ IndexInit /\ NoClaims /\ NotCoding
  \/ ClaimInit /\ NotCoding
  \/ IndexInit /\ NoClaims /\ CodecInit
MCNext ==
  \/ queue = Nil /\ coded.kind = "none" /\ IndexNext /\ (restored' = {} \/ walk' = Idle) /\ UNCHANGED <<cvars, coded>>
  \/ queue # Nil /\ ClaimNext /\ UNCHANGED coded
  \/ CodecNext /\ UNCHANGED <<ivars, cvars>>
MCSpec == MCInit /\ [][MCNext]_<<ivars, cvars, coded>>
=============================================================================
