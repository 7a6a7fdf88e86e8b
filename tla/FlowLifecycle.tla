----------------------------- MODULE FlowLifecycle -----------------------------
(***************************************************************************)
(* One durable Flow record and every replicated command that changes it.   *)
(* The Raft state machine applies commands one at a time, so an action is  *)
(* the whole apply function of one command.  What is not ordered is the    *)
(* outside: a worker's command may arrive late, twice, after its lease was *)
(* taken over or after the record was rewound, and each command carries    *)
(* the time its sender read, which need not grow along the log.            *)
(*                                                                         *)
(* A command the code refuses, or answers without a write, is a stuttering *)
(* step, except that "acked" remembers the completions answered :ok.       *)
(***************************************************************************)
EXTENDS Integers, Sequences, FiniteSets

CONSTANTS Workers,       \* names presented as WORKER by FLOW.CLAIM_DUE
          Steps,         \* the application's own states, "queued" among them
          InitialStates, \* states the application creates Flows in
          SignalKeys,    \* idempotency keys of FLOW.SIGNAL
          Signals,       \* contents of signals, what their digest tells apart
          MaxNow,        \* command times are 0..MaxNow
          LeaseMs, BackoffMs, TtlMs,
          MaxActiveMs,   \* 0 when the Flow has no max_active_ms
          MaxRetries, ExhaustedTo,
          HistoryMax,    \* history_max_events
          MaxVersion,    \* bound on the number of changes of one record
          None           \* Elixir's nil, and a record that does not exist

Terminal == {"completed", "failed", "cancelled"}
States == Steps \cup Terminal \cup {"running"}

ASSUME StepsAssumption ==
    /\ "queued" \in Steps
    /\ Steps \cap (Terminal \cup {"running"}) = {}
ASSUME BoundsAssumption ==
    /\ MaxNow \in Nat /\ LeaseMs \in Nat /\ BackoffMs \in Nat
    /\ TtlMs \in Nat /\ MaxActiveMs \in Nat
    /\ MaxRetries \in Nat /\ HistoryMax \in Nat /\ MaxVersion \in Nat
    /\ ExhaustedTo \in Steps \cup Terminal /\ InitialStates \subseteq Steps \cup Terminal
ASSUME SignalsAssumption == Signals \subseteq [if_state : States, to : Steps \cup {None}]

Times == 0 .. MaxNow
Tokens == [worker : Workers, at : Nat, fencing : Nat]

\* A stored signal digest with its expiry; 0 is never.
SignalRows == [digest : Signals, expire : Nat]

Records ==
    [state : States, run_state : Steps \cup Terminal \cup {None}, version : Nat,
     attempts : Nat, fencing : Nat, token : Tokens \cup {None},
     deadline : Nat, due : Nat \cup {None}, created : Nat,
     retain : Nat \cup {None}]

Events ==
    {"created", "claimed", "lease_extended", "completed", "retry", "failed",
     "cancelled", "transitioned", "step_continued", "rescheduled", "signaled",
     "value_put", "rewound"}

History ==
    [event : Events, state : States, version : Nat, fencing : Nat,
     attempts : Nat, due : Nat \cup {None}]

ASSUME NoneAssumption ==
    None \notin Nat \cup States \cup Tokens \cup SignalRows \cup SignalKeys \cup Records

VARIABLES rec,        \* the stored record, or None
          history,    \* its history events, oldest first
          seen,       \* digest row stored under each signal idempotency key
          \* What happened to the Flow since its creation:
          issued,     \* every credential granted to a worker
          finishers,  \* credentials whose own command left the Flow completed
          acked,      \* credentials whose FLOW.COMPLETE was answered :ok
          delivered   \* per idempotency key, the state each signal applied under it found

flowVars == <<rec, history>>
workerVars == <<issued, finishers, acked>>
signalVars == <<seen, delivered>>
vars == <<flowVars, workerVars, signalVars>>

-------------------------------------------------------------------------------
(* Helpers of the state machine. *)

terminal_state(s) == s \in Terminal

\* flow_stamp_terminal_retention
Stamp(r, now) ==
    [r EXCEPT !.retain = IF terminal_state(r.state) /\ TtlMs > 0
                         THEN now + TtlMs ELSE None]

ClearLease(r) == [r EXCEPT !.token = None, !.deadline = 0]

GrantLease(r, worker, now) ==
    [r EXCEPT !.state = "running", !.version = @ + 1, !.fencing = @ + 1,
              !.token = [worker |-> worker, at |-> now, fencing |-> r.fencing + 1],
              !.deadline = now + LeaseMs, !.due = now + LeaseMs, !.retain = None]

retry_run_state(r) == IF r.run_state = None THEN "queued" ELSE r.run_state

claim_run_state(r) == IF r.state = "running" THEN retry_run_state(r) ELSE r.state

\* flow_active_timeout_expired_record?
TimedOut(r, now) ==
    /\ ~terminal_state(r.state)
    /\ MaxActiveMs > 0
    /\ r.created + MaxActiveMs <= now

running_lease(t) == rec # None /\ rec.state = "running" /\ rec.token = t

fencing_token(t) == rec.fencing = t.fencing

transition_lease(t) == rec.token = t

EventOf(event, r) ==
    [event |-> event, state |-> r.state, version |-> r.version,
     fencing |-> r.fencing, attempts |-> r.attempts, due |-> r.due]

Put(event, next) ==
    /\ next.version <= MaxVersion
    /\ rec' = next
    /\ history' = Append(history, EventOf(event, next))

\* A command of credential t leaves the record as next.
Finish(t, next) ==
    finishers' = IF t # None /\ next.state = "completed"
                 THEN finishers \cup {t} ELSE finishers

-------------------------------------------------------------------------------
Init ==
    /\ rec = None
    /\ history = <<>>
    /\ seen = [k \in SignalKeys |-> None]
    /\ issued = {} /\ finishers = {} /\ acked = {}
    /\ delivered = [k \in SignalKeys |-> <<>>]

create_record(state, now, runAt) ==
    Stamp([state |-> state, run_state |-> None, version |-> 1, attempts |-> 0,
           fencing |-> 0, token |-> None, deadline |-> 0, due |-> runAt,
           created |-> now, retain |-> None], now)

\* FLOW.CREATE of an unknown id; any state but "running" is accepted.
Create(state, now, runAt) ==
    /\ rec = None
    /\ Put("created", create_record(state, now, runAt))
    /\ UNCHANGED <<workerVars, signalVars>>

\* FLOW.START_AND_CLAIM: created already running under its first lease.
StartAndClaim(worker, runState, now) ==
    /\ rec = None
    /\ LET next == [GrantLease(create_record(runState, now, now), worker, now)
                      EXCEPT !.version = 1, !.run_state = runState, !.attempts = 1]
       IN  /\ Put("created", next)
           /\ issued' = issued \cup {next.token}
    /\ UNCHANGED <<finishers, acked, signalVars>>

\* Mutant: the due time of a running record is not looked at.
ClaimUndue(worker, now) ==
    /\ rec # None
    /\ ~TimedOut(rec, now)
    /\ rec.due # None
    /\ LET next == [GrantLease(rec, worker, now)
                      EXCEPT !.run_state = claim_run_state(rec)]
       IN  /\ Put("claimed", next)
           /\ issued' = issued \cup {next.token}
    /\ UNCHANGED <<finishers, acked, signalVars>>

\* FLOW.CLAIM_DUE, and FLOW.RECLAIM when the record is running: a running
\* record stays in the due index at its lease deadline.
Claim(worker, now) ==
    /\ rec # None
    /\ ~TimedOut(rec, now)
    /\ rec.due # None /\ rec.due <= now
    /\ LET next == [GrantLease(rec, worker, now)
                      EXCEPT !.run_state = claim_run_state(rec)]
       IN  /\ Put("claimed", next)
           /\ issued' = issued \cup {next.token}
    /\ UNCHANGED <<finishers, acked, signalVars>>

\* Mutant: the due index keeps the old deadline.
ExtendLeaseOnly(t, now) ==
    /\ running_lease(t)
    /\ fencing_token(t)
    /\ Put("lease_extended", [rec EXCEPT !.version = @ + 1, !.deadline = now + LeaseMs])
    /\ UNCHANGED <<workerVars, signalVars>>

ExtendLease(t, now) ==
    /\ running_lease(t)
    /\ fencing_token(t)
    /\ Put("lease_extended", [rec EXCEPT !.version = @ + 1, !.deadline = now + LeaseMs,
                                         !.due = now + LeaseMs])
    /\ UNCHANGED <<workerVars, signalVars>>

Close(state, now) ==
    Stamp([ClearLease(rec) EXCEPT !.state = state, !.version = @ + 1, !.due = None], now)

\* Mutant: any completed Flow acknowledges a completion.
duplicate_terminal_any(t, state) == rec.state = state

duplicate_terminal_noop(t, state) == rec.state = state /\ fencing_token(t)

\* FLOW.COMPLETE: a record past max_active_ms is failed instead (ActiveTimeout).
Complete(t, now) ==
    /\ rec # None
    /\ ~TimedOut(rec, now)
    /\ IF duplicate_terminal_noop(t, "completed")
       THEN UNCHANGED <<rec, history, finishers>>
       ELSE /\ running_lease(t)
            /\ fencing_token(t)
            /\ Put("completed", Close("completed", now))
            /\ Finish(t, Close("completed", now))
    /\ acked' = acked \cup {t}
    /\ UNCHANGED <<issued, signalVars>>

retry_next(now, runAt) ==
    LET attempts == rec.attempts + 1
        base == [ClearLease(rec) EXCEPT !.version = @ + 1, !.attempts = attempts,
                                        !.run_state = None]
    IN  IF attempts <= MaxRetries
        THEN [base EXCEPT !.state = retry_run_state(rec),
                          !.due = IF runAt = None THEN now + BackoffMs ELSE runAt]
        ELSE [base EXCEPT !.state = ExhaustedTo,
                          !.due = IF terminal_state(ExhaustedTo) THEN None ELSE now]

\* flow_duplicate_retry_noop?: a retry whose reply was lost is answered :ok.
duplicate_retry_noop(t, runAt) ==
    /\ rec.token = None
    /\ fencing_token(t)
    /\ \/ /\ ~terminal_state(rec.state)
          /\ IF runAt # None THEN rec.due = runAt
             ELSE rec.due # None /\ rec.state = retry_run_state(rec) /\ rec.attempts > 0
       \/ LET last == history[Len(history)]
          IN  last.event = "retry" /\ last.fencing = t.fencing /\ last.version = rec.version

\* Mutant: the lease is not required, only the fencing number of an open Flow.
RetryUnleased(t, now, runAt) ==
    /\ rec # None /\ ~terminal_state(rec.state)
    /\ fencing_token(t)
    /\ LET next == Stamp(retry_next(now, runAt), now)
       IN  Put("retry", next) /\ Finish(t, next)
    /\ UNCHANGED <<issued, acked, signalVars>>

Retry(t, now, runAt) ==
    /\ rec # None
    /\ ~duplicate_retry_noop(t, runAt)
    /\ running_lease(t)
    /\ fencing_token(t)
    /\ LET next == Stamp(retry_next(now, runAt), now)
       IN  Put("retry", next) /\ Finish(t, next)
    /\ UNCHANGED <<issued, acked, signalVars>>

Fail(t, now) ==
    /\ rec # None
    /\ ~duplicate_terminal_noop(t, "failed")
    /\ running_lease(t)
    /\ fencing_token(t)
    /\ Put("failed", Close("failed", now))
    /\ UNCHANGED <<workerVars, signalVars>>

\* FLOW.CANCEL by the lease holder, or by anyone (t = None) while unleased.
Cancel(t, now) ==
    /\ rec # None
    /\ t # None => fencing_token(t)
    /\ ~terminal_state(rec.state)
    /\ transition_lease(t)
    /\ Put("cancelled", Close("cancelled", now))
    /\ UNCHANGED <<workerVars, signalVars>>

MoveTo(state, now, runAt) ==
    Stamp([ClearLease(rec) EXCEPT !.state = state, !.version = @ + 1, !.due = runAt], now)

duplicate_transition_noop(t, to) ==
    rec.state = to /\ rec.token = None /\ (t # None => fencing_token(t))

\* Mutant: a terminal record is not refused.
TransitionTerminal(t, from, to, now, runAt) ==
    /\ rec # None
    /\ ~duplicate_transition_noop(t, to)
    /\ from = None \/ rec.state = from
    /\ t # None => fencing_token(t)
    /\ transition_lease(t)
    /\ Put("transitioned", MoveTo(to, now, runAt))
    /\ UNCHANGED <<workerVars, signalVars>>

\* FLOW.TRANSITION; the run state of the last claim is kept.
Transition(t, from, to, now, runAt) ==
    /\ rec # None
    /\ ~duplicate_transition_noop(t, to)
    /\ from = None \/ rec.state = from
    /\ ~terminal_state(rec.state)
    /\ t # None => fencing_token(t)
    /\ transition_lease(t)
    /\ Put("transitioned", MoveTo(to, now, runAt))
    /\ UNCHANGED <<workerVars, signalVars>>

\* Mutant: the next step is run under a credential that skips a number.
StepContinueSkip(t, from, to, now) ==
    /\ running_lease(t)
    /\ fencing_token(t)
    /\ retry_run_state(rec) = from
    /\ LET next == [GrantLease([rec EXCEPT !.fencing = @ + 1], rec.token.worker, now)
                      EXCEPT !.run_state = to]
       IN  /\ Put("step_continued", next)
           /\ issued' = issued \cup {next.token}
    /\ UNCHANGED <<finishers, acked, signalVars>>

\* FLOW.STEP_CONTINUE: the worker keeps the Flow and moves to its next step
\* under a new credential.
StepContinue(t, from, to, now) ==
    /\ running_lease(t)
    /\ fencing_token(t)
    /\ retry_run_state(rec) = from
    /\ LET next == [GrantLease(rec, rec.token.worker, now) EXCEPT !.run_state = to]
       IN  /\ Put("step_continued", next)
           /\ issued' = issued \cup {next.token}
    /\ UNCHANGED <<finishers, acked, signalVars>>

\* The schedule runner's internal reschedule of the Flow it claimed.
Reschedule(t, logical, runAt) ==
    /\ running_lease(t)
    /\ fencing_token(t)
    /\ retry_run_state(rec) = logical
    /\ ~terminal_state(logical)
    /\ Put("rescheduled", [ClearLease(rec) EXCEPT !.state = logical, !.run_state = None,
                             !.version = @ + 1, !.due = runAt, !.retain = None])
    /\ UNCHANGED <<workerVars, signalVars>>

signal_allowed(s) ==
    s.to # None => ~terminal_state(rec.state) /\ rec.state = s.if_state

signal_next(s, now) ==
    IF s.to = None THEN Stamp([rec EXCEPT !.version = @ + 1], now)
    ELSE MoveTo(s.to, now, now)

\* Mutant: a row without an expiry time is taken for an expired one.
signal_row_expired(k, now) ==
    IF seen[k] # None /\ seen[k].expire > now THEN seen[k] ELSE None

\* The digest row of key k a command of this time still finds.
signal_row(k, now) ==
    IF seen[k] # None /\ (seen[k].expire = 0 \/ seen[k].expire > now) THEN seen[k] ELSE None

\* FLOW.SIGNAL without an idempotency key.
PlainSignal(s, now) ==
    /\ rec # None
    /\ signal_allowed(s)
    /\ Put("signaled", signal_next(s, now))
    /\ UNCHANGED <<workerVars, signalVars>>

\* FLOW.SIGNAL under key k; the row lives as long as the record's values.
Signal(k, s, now) ==
    /\ rec # None
    /\ IF signal_row(k, now) # None
       THEN signal_row(k, now).digest = s /\ UNCHANGED <<flowVars, seen, delivered>>
       ELSE /\ signal_allowed(s)
            /\ LET next == signal_next(s, now)
               IN  /\ Put("signaled", next)
                   /\ seen' = [seen EXCEPT ![k] =
                         [digest |-> s, expire |-> IF next.retain = None THEN 0 ELSE next.retain]]
            /\ delivered' = [delivered EXCEPT ![k] = Append(@, rec.state)]
    /\ UNCHANGED workerVars

\* FLOW.VALUE.PUT of a named value owned by the Flow.
ValuePut ==
    /\ rec # None
    /\ Put("value_put", [rec EXCEPT !.version = @ + 1])
    /\ UNCHANGED <<workerVars, signalVars>>

\* FLOW.REWIND to a retained event of an unleased Flow.
Rewind(v, now, runAt) ==
    /\ rec # None
    /\ rec.token = None
    /\ v \in 1 .. rec.version
    /\ rec.version - v < HistoryMax
    /\ history[v].state # "running"
    /\ Put("rewound",
           Stamp([ClearLease(rec) EXCEPT
                    !.state = history[v].state, !.version = @ + 1,
                    !.attempts = history[v].attempts, !.fencing = @ + 1,
                    !.due = IF runAt = None THEN history[v].due ELSE runAt], now))
    /\ UNCHANGED <<workerVars, signalVars>>

\* max_active_ms elapsed: noticed by the retention sweep, a claim or a complete.
ActiveTimeout(now) ==
    /\ rec # None
    /\ TimedOut(rec, now)
    /\ Put("failed", Close("failed", now))
    /\ UNCHANGED <<workerVars, signalVars>>

\* Retention removes an expired terminal record, its history and its values;
\* the signal digests are not among what it tracks.
RetentionCleanup(now) ==
    /\ rec # None
    /\ terminal_state(rec.state)
    /\ rec.retain # None /\ rec.retain <= now
    /\ rec' = None
    /\ history' = <<>>
    /\ issued' = {} /\ finishers' = {} /\ acked' = {}
    /\ delivered' = [k \in SignalKeys |-> <<>>]
    /\ UNCHANGED seen

WorkerCommand(t, now) ==
    \/ ExtendLease(t, now)
    \/ Complete(t, now)
    \/ \E runAt \in Times \cup {None} : Retry(t, now, runAt)
    \/ Fail(t, now)
    \/ \E from, to \in Steps : StepContinue(t, from, to, now)
    \/ \E logical \in Steps : Reschedule(t, logical, now)

Next ==
    \E now \in Times :
        \/ \E s \in InitialStates, runAt \in Times : Create(s, now, runAt)
        \/ \E w \in Workers, s \in Steps : StartAndClaim(w, s, now)
        \/ \E w \in Workers : Claim(w, now)
        \/ \E t \in issued : WorkerCommand(t, now)
        \/ \E t \in issued \cup {None} :
              \/ Cancel(t, now)
              \/ \E from \in States \cup {None}, to \in Steps, runAt \in Times :
                    Transition(t, from, to, now, runAt)
        \/ \E s \in Signals : PlainSignal(s, now) \/ \E k \in SignalKeys : Signal(k, s, now)
        \/ ValuePut
        \/ \E v \in 1 .. MaxVersion, runAt \in Times \cup {None} : Rewind(v, now, runAt)
        \/ ActiveTimeout(now)
        \/ RetentionCleanup(now)

Spec == Init /\ [][Next]_vars

-------------------------------------------------------------------------------
(* Properties. *)

\* The variables hold what the code stores in them.
TypeOK ==
    /\ rec \in Records \cup {None}
    /\ history \in Seq(History)
    /\ seen \in [SignalKeys -> SignalRows \cup {None}]
    /\ issued \in SUBSET Tokens /\ finishers \in SUBSET Tokens /\ acked \in SUBSET Tokens
    /\ delivered \in [SignalKeys -> Seq(States)]

\* A record is running exactly while it holds a credential; the credential is
\* one that was granted, it carries the record's fencing number, and the record
\* sits in the due index at the lease deadline, where reclaim looks for it.
LeaseInv ==
    rec # None =>
        /\ rec.state = "running" <=> rec.token # None
        /\ rec.token # None =>
              /\ rec.token \in issued
              /\ rec.token.fencing = rec.fencing
              /\ rec.due = rec.deadline
              /\ rec.retain = None
        /\ rec.token = None => rec.deadline = 0

\* flow_history_event_retained? relies on it ("A Flow's events carry consecutive
\* versions") and so does the duplicate-retry check: event v of the history is
\* version v of the record, and the last one shows the record as it is.
HistoryInv ==
    /\ rec = None => history = <<>>
    /\ rec # None =>
          /\ Len(history) = rec.version
          /\ \A v \in 1 .. Len(history) : history[v].version = v
          /\ history[Len(history)] = EventOf(history[Len(history)].event, rec)

\* Fencing numbers are never handed out twice: no two granted credentials share
\* one, and none is ahead of the record.
FencingInv ==
    /\ rec = None => issued = {}
    /\ \A t \in issued : t.fencing <= rec.fencing
    /\ \A t, u \in issued : t.fencing = u.fencing => t = u

\* What a reader of the Flow relies on, whatever commands arrive late or twice:
\* lease, history and fencing numbers tell the same story.
RecordsConsistent == LeaseInv /\ HistoryInv /\ FencingInv

\* A FLOW.COMPLETE answered :ok, be it a retry whose first reply was lost, is
\* one whose own credential brought the Flow to "completed": the duplicate check
\* compares the fencing number only, yet it never takes another's completion
\* for its own.
AckedCompletionWasApplied == acked \subseteq finishers

\* A retry delivered several times is counted once: attempts never exceeds the
\* number of leases granted, plus the one START_AND_CLAIM counts in advance (a
\* Flow it created has fencing number 1 from its first event on, others have 0).
AttemptsCountLeases ==
    rec # None => rec.attempts <= Cardinality(issued) + history[1].fencing

LastEvent == history[Len(history)].event

\* docs/flow-production-readiness.md: "A stale worker cannot overwrite a newer
\* claim."  A claim takes a leased Flow only at or after the lease deadline, as
\* last extended.
NoEarlyTakeover ==
    [][ /\ rec # None /\ rec.token # None
        /\ rec' # None /\ rec'.version > rec.version /\ LastEvent' = "claimed"
        => rec'.token.at >= rec.deadline ]_vars

\* "ERR flow is terminal; use FLOW.REWIND": a closed Flow that is not scheduled
\* stays closed until a rewind, whatever late commands arrive.
ClosedUntilRewound ==
    [][ /\ rec # None /\ terminal_state(rec.state) /\ rec.due = None
        /\ rec' # None
        => \/ LastEvent' = "rewound" /\ rec'.fencing = rec.fencing + 1
           \/ rec'.state = rec.state /\ rec'.due = None ]_vars

\* guides/deployment.md: "A Flow signal retried with its idempotency key and the
\* same content is applied once."
SignalAppliedOnce == \A k \in SignalKeys : Len(delivered[k]) <= 1

\* A signal applied to an open Flow is final: whatever closes, rewinds or
\* signals the Flow later, a retry under its key is not applied to it again.
\* Only an application that found the Flow closed, whose digest row expires with
\* the Flow's retention, can be followed by another.
OpenSignalIsFinal ==
    \A k \in SignalKeys : \A i \in 1 .. Len(delivered[k]) - 1 : terminal_state(delivered[k][i])

HeldToken == IF rec = None THEN None ELSE rec.token
LastFence == IF rec = None THEN 0 ELSE rec.fencing

Lease == INSTANCE FlowLease WITH NoToken <- None, holder <- HeldToken,
                                 fence <- LastFence, used <- issued

\* The record implements the lease service of FlowLease: a credential that was
\* released, taken over or outdated by a rewind never becomes current again.
LeaseImplemented == Lease!LeaseSpec
================================================================================
