------------------------------ MODULE FlowClaim ------------------------------
(***************************************************************************)
(* Claims planned natively (flow_record_plan_claims_with_history) against  *)
(* the ordered index.  One Raft batch may hold several claim commands: each *)
(* reads the due candidates from the index and the records from the keydir, *)
(* and neither shows what the batch did so far: a staged apply puts its     *)
(* rows into the keydir, and its queued entries into the index, once the    *)
(* batch is flushed, and drops both when the flush fails.                   *)
(***************************************************************************)
EXTENDS FlowIndex, FlowRecord

CONSTANTS FromDue, ToDue, FromState, ToState, Inflight, \* five keys
          Workers,    \* the claiming workers, bytes
          WorkerKey,  \* the index key of each worker
          LeaseMs,    \* lease length
          Limit,      \* candidates and claims asked for by a command
          MaxNow,     \* bound on the clock
          MaxQueue,   \* bound on the index entries queued by a batch that takes another claim
          InitialRecords \* choices of a record for each Flow

VARIABLES values,   \* the value of each Flow in the keydir
          pending,  \* the values the batch under way will leave there
          queue,    \* index entries the batch has queued
          applied,  \* the entries applied last, and what they replaced
          grants,   \* the leases handed out
          now

cvars == <<values, pending, queue, applied, grants, now>>

QUEUED == <<1>>
RUNNING == <<2>>
TYPE == <<1>>

IdBytes(m) == <<m>>
-----------------------------------------------------------------------------
flow_claim_run_state(r) == IF r.state = RUNNING THEN QUEUED ELSE r.state

flow_record_fast_claim_shape(r) ==
  blank(r.parent_flow_id) /\ blank(r.correlation_id) /\ (blank(r.root_flow_id) \/ r.root_flow_id = r.id)

\* Both increments are checked, and the results must still have a successor.
checked_claim_counters(version, fencing) ==
  IF version + 1 < U64Max /\ fencing + 1 < U64Max THEN <<version + 1, fencing + 1>> ELSE Nil

claim_lease_token(worker, at, fencing) == <<worker, at, fencing>>

\* Saturating, as now_ms.saturating_add(lease_ms).
Deadline(at) == IF at + LeaseMs > U64Max THEN U64Max ELSE at + LeaseMs

\* Mutant: the claimed record is built from defaults instead of the record's own fields.
claimed_record_forgets(r, w, at, counters) ==
  encode_flow_record_compact([r EXCEPT !.state = RUNNING, !.version = counters[1], !.fencing_token = counters[2],
    !.updated_at_ms = at, !.next_run_at_ms = Deadline(at), !.ttl_ms = Nil, !.terminal_retention_until_ms = Nil,
    !.lease_owner = <<w>>, !.lease_token = claim_lease_token(w, at, counters[2]),
    !.lease_deadline_ms = Deadline(at), !.run_state = flow_claim_run_state(r), !.child_groups = EmptyGroups])

encode_claimed_record(r, w, at, counters) ==
  encode_flow_record_compact([r EXCEPT !.state = RUNNING, !.version = counters[1], !.fencing_token = counters[2],
    !.updated_at_ms = at, !.next_run_at_ms = Deadline(at), !.ttl_ms = Nil, !.terminal_retention_until_ms = Nil,
    !.lease_owner = <<w>>, !.lease_token = claim_lease_token(w, at, counters[2]),
    !.lease_deadline_ms = Deadline(at), !.run_state = flow_claim_run_state(r)])

ClaimHistory(r, w, at, counters) ==
  encode_flow_history_compact([event |-> <<3>>, version |-> counters[1], now_ms |-> at, state |-> RUNNING,
    priority |-> r.priority, attempts |-> r.attempts, fencing_token |-> counters[2], created_at_ms |-> r.created_at_ms,
    updated_at_ms |-> at, next_run_at_ms |-> Deadline(at), lease_deadline_ms |-> Deadline(at), lease_owner |-> <<w>>,
    payload_ref |-> r.payload_ref, result_ref |-> r.result_ref, error_ref |-> r.error_ref,
    rewound_to_event_id |-> r.rewound_to_event_id, meta |-> <<>>])

ClaimEntry(m, due_score, r, w, at) ==
  [id |-> m, from_due |-> FromDue, from_due_score |-> due_score, to_due |-> ToDue, to_due_score |-> Deadline(at),
   from_state |-> FromState, from_state_score |-> r.updated_at_ms, to_state |-> ToState, to_state_score |-> at,
   inflight |-> Inflight, worker |-> WorkerKey[w], lease_score |-> Deadline(at)]

\* Candidates passed over: another type or state, no run time, not yet due.
plan_skips(r, at) ==
  r.flow_type # TYPE \/ r.state # QUEUED \/ r.next_run_at_ms = Nil \/ r.next_run_at_ms > at

\* A candidate that is due, with its next counters: the value and the history
\* entry it gets, or the end of the plan when one of them cannot be encoded.
PlanDue(acc, c, r, w, at, recorded, counters) ==
  LET planned(next, history) ==
        [acc EXCEPT !.plans = Append(@, [id |-> c[1], next |-> next, history |-> history,
           entry |-> ClaimEntry(c[1], c[2], r, w, at), token |-> claim_lease_token(w, at, counters[2])])]
      plan == Then(encode_claimed_record(r, w, at, counters), LAMBDA next :
                Then(IF recorded THEN ClaimHistory(r, w, at, counters) ELSE <<>>, LAMBDA history :
                  planned(next, history)))
  IN  OrElse(plan, [acc EXCEPT !.fallback = TRUE])

\* A candidate whose record was read.
PlanRecord(acc, c, r, w, at, recorded) ==
  IF r.id # IdBytes(c[1]) THEN [acc EXCEPT !.fallback = TRUE]
  ELSE IF r.flow_type = TYPE /\ r.state = QUEUED /\ ~flow_record_fast_claim_shape(r) THEN [acc EXCEPT !.fallback = TRUE]
  ELSE IF plan_skips(r, at) THEN acc
  ELSE OrElse(Then(checked_claim_counters(r.version, r.fencing_token),
                   LAMBDA counters : PlanDue(acc, c, r, w, at, recorded, counters)),
              [acc EXCEPT !.fallback = TRUE])

\* One candidate of the plan, in order; "fallback" ends the plan.
plan_candidate(acc, c, vs, w, at, remaining, recorded) ==
  IF acc.fallback \/ Len(acc.plans) >= remaining THEN acc
  ELSE OrElse(Then(Then(vs[c[1]], decode_flow_record), LAMBDA r : PlanRecord(acc, c, r, w, at, recorded)),
              [acc EXCEPT !.stale = Append(@, c[1])])

flow_record_plan_claims_with_history(candidates, vs, w, at, remaining) ==
  FoldLeft(LAMBDA acc, c : plan_candidate(acc, c, vs, w, at, remaining, TRUE),
           [plans |-> <<>>, stale |-> <<>>, fallback |-> FALSE], candidates)

\* The planner without history entries.
flow_record_plan_claims(candidates, vs, w, at, remaining) ==
  FoldLeft(LAMBDA acc, c : plan_candidate(acc, c, vs, w, at, remaining, FALSE),
           [plans |-> <<>>, stale |-> <<>>, fallback |-> FALSE], candidates)
-----------------------------------------------------------------------------
\* The index rows of a lease.
LeaseRows(m, w, at, deadline) ==
  {<<ToDue, m, deadline>>, <<ToState, m, at>>, <<Inflight, m, deadline>>, <<WorkerKey[w], m, deadline>>}

\* What the index holds for a record, written by the commands that made it.
IndexRows(m, r) ==
  IF r.state = RUNNING
  THEN LeaseRows(m, r.lease_owner[1], r.updated_at_ms, r.lease_deadline_ms)
  ELSE {<<FromState, m, r.updated_at_ms>>} \cup
       (IF r.next_run_at_ms = Nil THEN {} ELSE {<<FromDue, m, r.next_run_at_ms>>})

Decoded(vs, m) == Then(vs[m], decode_flow_record)

ClaimInit ==
  /\ \E rs \in InitialRecords :
       values = [m \in Members |-> encode_flow_record_compact([rs[m] EXCEPT !.id = IdBytes(m)])]
  /\ index = FoldSet(LAMBDA e, x : put(x, e[1], e[2], e[3], FALSE), EmptyIndex,
                     UNION {IndexRows(m, Decoded(values, m)) : m \in Members})
  /\ pending = values /\ queue = <<>> /\ applied = Nil /\ grants = {} /\ now = 0
  /\ restored = {} /\ walk = Idle

\* Rows of the keydir; the batch's own writes are not in it yet.
hydrate_claim_candidates == values

Candidates ==
  LET rows == claim_due_candidates(index, <<FromDue>>, now, Limit, Limit)
  IN [i \in DOMAIN rows |-> <<rows[i][2], rows[i][3]>>]

PlanOf(p, m) == p.plans[CHOOSE i \in DOMAIN p.plans : p.plans[i].id = m]
PlannedIds(p) == {p.plans[i].id : i \in DOMAIN p.plans}

\* Mutant: the first of a batch's writes to a row is the one that stays.
stage_first(p) ==
  [m \in Members |-> IF m \in PlannedIds(p) /\ pending[m] = values[m] THEN PlanOf(p, m).next ELSE pending[m]]

\* The batch's writes to a row, the last of which stays.
stage(p) == [m \in Members |-> IF m \in PlannedIds(p) THEN PlanOf(p, m).next ELSE pending[m]]

\* What a plan that is not empty does: the batch's values, its queued index
\* operations and what its callers are told.
Planned(p, w) ==
  /\ ~p.fallback /\ p.plans # <<>>
  /\ pending' = stage(p)
  /\ queue' = queue \o [i \in DOMAIN p.plans |-> p.plans[i].entry]
  /\ grants' = grants \cup {[id |-> m, worker |-> w, at |-> now, token |-> PlanOf(p, m).token,
                             place |-> Len(queue), kept |-> FALSE] : m \in PlannedIds(p)}

\* One claim command of the batch: due candidates, their values, the plan.
claim_due(w) ==
  /\ applied = Nil /\ Len(queue) < MaxQueue
  /\ \E p \in {flow_record_plan_claims_with_history(Candidates, hydrate_claim_candidates, w, now, Limit)} : Planned(p, w)
  /\ UNCHANGED <<ivars, values, applied, now>>

\* The batch's values are durable: they enter the keydir, its queued index
\* operations are applied and its callers answered.
Flush ==
  /\ queue # <<>>
  /\ applied' = [entries |-> queue, values |-> values, grants |-> {g \in grants : g.kept}]
  /\ Write(apply_claim_entries_locked(index, queue))
  /\ values' = pending /\ queue' = <<>>
  /\ grants' = {[g EXCEPT !.kept = TRUE] : g \in grants}
  /\ UNCHANGED <<restored, pending, now>>

\* The flush failed: the batch's values, leases and queued operations are dropped.
Abort ==
  /\ queue # <<>>
  /\ pending' = values /\ queue' = <<>> /\ grants' = {g \in grants : g.kept}
  /\ UNCHANGED <<ivars, values, applied, now>>

flow_index_rollback_claim_entries ==
  /\ applied # Nil
  /\ Write(rollback_claim_entries(index, applied.entries))
  /\ values' = applied.values /\ pending' = applied.values /\ applied' = Nil /\ grants' = applied.grants
  /\ UNCHANGED <<restored, queue, now>>

\* The caller keeps a flushed batch.
Settle == applied # Nil /\ applied' = Nil /\ UNCHANGED <<ivars, values, pending, queue, grants, now>>

\* Commands of one batch may carry different times.
Tick == now < MaxNow /\ now' = now + 1 /\ UNCHANGED <<ivars, values, pending, queue, applied, grants>>

ClaimNext ==
  \/ \E w \in Workers : claim_due(w)
  \/ Flush \/ Abort \/ flow_index_rollback_claim_entries \/ Settle \/ Tick

ClaimSpec == ClaimInit /\ [][ClaimNext]_<<ivars, cvars>>
-----------------------------------------------------------------------------
(* Properties.                                                             *)

GrantsOf(m) == {g \in grants : g.id = m}

\* Between two batches the index says of every Flow what its stored record says,
\* after any mix of claims, failed flushes and roll-backs: a waiting Flow is in its
\* due and state indexes at the record's times, a running one in the running due,
\* state, in-flight and worker indexes at its lease deadline, and in no other.
\* A Flow that one batch handed out more than once is in these keys too, and in
\* the keys of all the workers, at the times of one of its leases.
IndexFollowsRecords ==
  queue = <<>> =>
    \A m \in Members :
      LET rows == {<<p[1], m, index.lookup[p]>> : p \in {q \in DOMAIN index.lookup : q[2] = m}}
          leased == UNION {LeaseRows(m, g.worker, g.at, Deadline(g.at)) : g \in GrantsOf(m)}
      IN IF Cardinality(GrantsOf(m)) <= 1 THEN rows = IndexRows(m, Decoded(values, m))
         ELSE rows \subseteq leased /\ {r[1] : r \in rows} = {r[1] : r \in leased}

\* Two claim commands of one batch read the same due candidates and the same rows,
\* and both may take a Flow.  Then the last one's lease is the one the record holds,
\* so that the others are refused by their token; and no later batch hands the Flow
\* out again.
OneHolder ==
  \A m \in Members : GrantsOf(m) # {} =>
    /\ \A g, h \in GrantsOf(m) : g.kept = h.kept /\ (g.place = h.place => g = h)
    /\ LET last == CHOOSE g \in GrantsOf(m) : \A h \in GrantsOf(m) : h.place <= g.place
           r == Decoded(pending, m)
       IN r.lease_token = last.token /\ r.lease_owner = <<last.worker>>

\* The claimed record, encoded by the planner and decoded by the next reader, is
\* the record it was planned from with a lease, one more version and one more
\* fencing token, and keeps every other field.
ClaimKeepsFields ==
  \A m \in Members : pending[m] # values[m] =>
    LET was == Decoded(values, m)
        is == Decoded(pending, m)
    IN /\ is.state = RUNNING /\ is.version = was.version + 1 /\ is.fencing_token = was.fencing_token + 1
       /\ is.lease_deadline_ms = is.next_run_at_ms
       /\ is.run_state = was.state /\ is.next_run_at_ms > is.updated_at_ms
       /\ \A f \in DOMAIN was \ {"state", "version", "fencing_token", "updated_at_ms", "next_run_at_ms", "ttl_ms",
                               "terminal_retention_until_ms", "lease_owner", "lease_token", "lease_deadline_ms", "run_state"} :
            is[f] = was[f]

\* The two planners take, skip and refuse the same candidates.
PlannersAgree ==
    LET w == Min(Workers)
        p == flow_record_plan_claims_with_history(Candidates, hydrate_claim_candidates, w, now, Limit)
        q == flow_record_plan_claims(Candidates, hydrate_claim_candidates, w, now, Limit)
    IN p.fallback = q.fallback /\ p.stale = q.stale
       /\ [i \in DOMAIN p.plans |-> [p.plans[i] EXCEPT !.history = <<>>]] = q.plans

\* What a claim plan may change of a record, by either planner.
ClaimsExact == ClaimKeepsFields /\ PlannersAgree

\* The index is one with itself and with the records it points to.
IndexTrue == IndexCoherent /\ IndexFollowsRecords

\* A record survives being written by one reader for the next, by the codec
\* alone and by a claim that rewrites it.
RecordsSurvive == ClaimsExact /\ RoundTrip
=============================================================================
