------------------------- MODULE FlowLifecycle_proofs -------------------------
(* Proofs about FlowLifecycle, for every value of its constants. *)
EXTENDS FlowLifecycle, FiniteSetTheorems, TLAPS

-------------------------------------------------------------------------------
(* What a write of the record may look like, as far as leases are concerned. *)

\* n is a record under credential t, which carries its fencing number f.
GrantOf(n, t, f) ==
    /\ n \in Records
    /\ n.state = "running"
    /\ n.fencing = f
    /\ n.token = t /\ t \in Tokens /\ t.fencing = f
    /\ n.due = n.deadline
    /\ n.retain = None

\* n is a record without a lease and with fencing number f.
FreeOf(n, f) ==
    /\ n \in Records
    /\ n.state # "running"
    /\ n.fencing = f
    /\ n.token = None
    /\ n.deadline = 0

\* flow_stamp_terminal_retention touches nothing but the retention deadline.
LEMMA StampFields ==
    ASSUME NEW r \in Records, NEW now \in Nat
    PROVE  /\ Stamp(r, now) \in Records
           /\ Stamp(r, now).state = r.state
           /\ Stamp(r, now).version = r.version
           /\ Stamp(r, now).attempts = r.attempts
           /\ Stamp(r, now).fencing = r.fencing
           /\ Stamp(r, now).token = r.token
           /\ Stamp(r, now).deadline = r.deadline
           /\ Stamp(r, now).due = r.due
           /\ ~terminal_state(r.state) => Stamp(r, now).retain = None
BY BoundsAssumption DEF Stamp, Records, terminal_state

\* A stamped record without a lease is one.
LEMMA StampFree ==
    ASSUME NEW r, NEW f, NEW now \in Nat, FreeOf(r, f)
    PROVE  /\ FreeOf(Stamp(r, now), f)
           /\ Stamp(r, now).state = r.state
           /\ Stamp(r, now).version = r.version
BY StampFields DEF FreeOf

\* Ending a lease touches nothing but the credential and its deadline.
LEMMA ClearLeaseFields ==
    ASSUME NEW r \in Records
    PROVE  /\ ClearLease(r) \in Records
           /\ ClearLease(r).state = r.state
           /\ ClearLease(r).version = r.version
           /\ ClearLease(r).attempts = r.attempts
           /\ ClearLease(r).fencing = r.fencing
           /\ ClearLease(r).token = None
           /\ ClearLease(r).deadline = 0
           /\ ClearLease(r).run_state = r.run_state
BY Zenon DEF ClearLease, Records

\* A grant is a running record under a new token with the next fencing number.
LEMMA GrantLeaseFields ==
    ASSUME NEW r \in Records, NEW w \in Workers, NEW now \in Nat
    PROVE  LET n == GrantLease(r, w, now)
           IN  GrantOf(n, n.token, r.fencing + 1) /\ n.version = r.version + 1
<1> DEFINE tok == [worker |-> w, at |-> now, fencing |-> r.fencing + 1]
           d == now + LeaseMs
           f == r.fencing + 1
           v == r.version + 1
           n == GrantLease(r, w, now)
<1>1. f \in Nat /\ v \in Nat /\ d \in Nat /\ "running" \in States
  BY BoundsAssumption DEF Records, States
<1>2. tok \in Tokens /\ tok.fencing = f
  BY Zenon, <1>1 DEF Tokens
<1>3. n = [r EXCEPT !.state = "running", !.version = v, !.fencing = f, !.token = tok,
                    !.deadline = d, !.due = d, !.retain = None]
  BY Zenon DEF GrantLease
<1> HIDE DEF tok, d, f, v, n
<1>4. /\ n \in Records /\ n.state = "running" /\ n.version = v /\ n.fencing = f
      /\ n.token = tok /\ n.due = n.deadline /\ n.retain = None
  BY Zenon, <1>1, <1>2, <1>3 DEF Records
<1>5. GrantOf(n, n.token, f) /\ n.version = v
  BY Zenon, <1>2, <1>4 DEF GrantOf
<1> QED
  BY Zenon, <1>5 DEF n, f, v

\* The record complete, fail, cancel and the active timeout write.
LEMMA CloseFields ==
    ASSUME rec \in Records, NEW s \in Terminal, NEW now \in Nat
    PROVE  /\ FreeOf(Close(s, now), rec.fencing)
           /\ Close(s, now).state = s
           /\ Close(s, now).version = rec.version + 1
<1> DEFINE c == ClearLease(rec)
           v == c.version + 1
           m == [c EXCEPT !.state = s, !.version = v, !.due = None]
<1>1. v \in Nat /\ s \in States /\ s # "running"
  BY ClearLeaseFields DEF Records, States, Terminal
<1>2. c \in Records /\ c.token = None /\ c.deadline = 0 /\ c.fencing = rec.fencing
  BY Zenon, ClearLeaseFields
<1>3. v = rec.version + 1
  BY Zenon, ClearLeaseFields
<1>4. Close(s, now) = Stamp(m, now)
  BY Zenon DEF Close
<1> HIDE DEF c, v
<1>5. m \in Records /\ m.state = s /\ m.version = v /\ m.fencing = rec.fencing
      /\ m.token = None /\ m.deadline = 0
  BY ZenonT(40), <1>1, <1>2 DEF Records
<1>6. FreeOf(m, rec.fencing)
  BY Zenon, <1>1, <1>5 DEF FreeOf
<1> HIDE DEF m
<1> QED
  BY Zenon, <1>3, <1>4, <1>5, <1>6, StampFree

\* The record a transition and a moving signal write.
LEMMA MoveToFields ==
    ASSUME rec \in Records, NEW s \in Steps, NEW now \in Nat, NEW runAt \in Nat
    PROVE  /\ FreeOf(MoveTo(s, now, runAt), rec.fencing)
           /\ MoveTo(s, now, runAt).state = s
           /\ MoveTo(s, now, runAt).version = rec.version + 1
<1> DEFINE c == ClearLease(rec)
           v == c.version + 1
           m == [c EXCEPT !.state = s, !.version = v, !.due = runAt]
<1>1. v \in Nat /\ s \in States /\ s # "running"
  BY ClearLeaseFields, StepsAssumption DEF Records, States
<1>2. c \in Records /\ c.token = None /\ c.deadline = 0 /\ c.fencing = rec.fencing
  BY Zenon, ClearLeaseFields
<1>3. v = rec.version + 1
  BY Zenon, ClearLeaseFields
<1>4. MoveTo(s, now, runAt) = Stamp(m, now)
  BY Zenon DEF MoveTo
<1> HIDE DEF c, v
<1>5. m \in Records /\ m.state = s /\ m.version = v /\ m.fencing = rec.fencing
      /\ m.token = None /\ m.deadline = 0
  BY Zenon, <1>1, <1>2 DEF Records
<1>6. FreeOf(m, rec.fencing)
  BY Zenon, <1>1, <1>5 DEF FreeOf
<1> HIDE DEF m
<1> QED
  BY <1>3, <1>4, <1>5, <1>6, StampFree

\* The record a retry writes, scheduled again or exhausted.
LEMMA RetryFields ==
    ASSUME rec \in Records, NEW now \in Nat, NEW runAt \in Nat \cup {None}
    PROVE  /\ FreeOf(Stamp(retry_next(now, runAt), now), rec.fencing)
           /\ Stamp(retry_next(now, runAt), now).version = rec.version + 1
<1> DEFINE c == ClearLease(rec)
           v == c.version + 1
           a == rec.attempts + 1
           b == [c EXCEPT !.version = v, !.attempts = a, !.run_state = None]
           s1 == retry_run_state(rec)
           d1 == IF runAt = None THEN now + BackoffMs ELSE runAt
           d2 == IF terminal_state(ExhaustedTo) THEN None ELSE now
           m == retry_next(now, runAt)
<1>1. v \in Nat /\ a \in Nat /\ d1 \in Nat /\ d2 \in Nat \cup {None}
  BY ClearLeaseFields, BoundsAssumption DEF Records
<1>2. /\ s1 \in States /\ s1 # "running" /\ ExhaustedTo \in States
      /\ ExhaustedTo # "running"
  BY Zenon, StepsAssumption, BoundsAssumption DEF Records, States, retry_run_state, Terminal
<1>3. /\ c \in Records /\ c.token = None /\ c.deadline = 0
      /\ c.fencing = rec.fencing /\ v = rec.version + 1
  BY Zenon, ClearLeaseFields
<1>4. m = IF a <= MaxRetries THEN [b EXCEPT !.state = s1, !.due = d1]
          ELSE [b EXCEPT !.state = ExhaustedTo, !.due = d2]
  BY Zenon DEF retry_next
<1> HIDE DEF c, v, a, s1, d1, d2, m
<1>5. b \in Records /\ b.version = v /\ b.fencing = rec.fencing
      /\ b.token = None /\ b.deadline = 0
  BY ZenonT(40), <1>1, <1>3 DEF Records
<1> HIDE DEF b
<1>6. m \in Records /\ m.state # "running" /\ m.version = v /\ m.fencing = rec.fencing
      /\ m.token = None /\ m.deadline = 0
  <2>1. CASE a <= MaxRetries
    BY ZenonT(40), <1>1, <1>2, <1>4, <1>5, <2>1 DEF Records
  <2>2. CASE ~(a <= MaxRetries)
    BY ZenonT(90), <1>1, <1>2, <1>4, <1>5, <2>2 DEF Records
  <2> QED
    BY Zenon, <2>1, <2>2
<1>7. FreeOf(m, rec.fencing) /\ m.version = rec.version + 1
  BY Zenon, <1>3, <1>6 DEF FreeOf
<1> QED
  BY Zenon, <1>7, StampFree DEF m

\* The record FLOW.CREATE writes.
LEMMA CreateFields ==
    ASSUME NEW s \in Steps \cup Terminal, NEW now \in Nat, NEW runAt \in Nat
    PROVE  /\ FreeOf(create_record(s, now, runAt), 0)
           /\ create_record(s, now, runAt).version = 1
<1> DEFINE m == [state |-> s, run_state |-> None, version |-> 1, attempts |-> 0,
                 fencing |-> 0, token |-> None, deadline |-> 0, due |-> runAt,
                 created |-> now, retain |-> None]
<1>1. s \in States /\ s # "running"
  BY Zenon, StepsAssumption DEF States, Terminal
<1>2. FreeOf(m, 0) /\ m.version = 1
  BY Zenon, <1>1 DEF FreeOf, Records
<1>3. create_record(s, now, runAt) = Stamp(m, now)
  BY Zenon DEF create_record
<1> HIDE DEF m
<1> QED
  BY Zenon, <1>2, <1>3, StampFree

\* The record FLOW.START_AND_CLAIM writes.
LEMMA StartFields ==
    ASSUME NEW w \in Workers, NEW s \in Steps, NEW now \in Nat
    PROVE  LET n == [GrantLease(create_record(s, now, now), w, now)
                       EXCEPT !.version = 1, !.run_state = s, !.attempts = 1]
           IN  GrantOf(n, n.token, 1) /\ n.version = 1
<1> DEFINE c == create_record(s, now, now)
           g == GrantLease(c, w, now)
           n == [g EXCEPT !.version = 1, !.run_state = s, !.attempts = 1]
<1>1. c \in Records /\ c.fencing = 0
  BY Zenon, CreateFields DEF FreeOf
<1> HIDE DEF c
<1>2. GrantOf(g, g.token, 1)
  BY <1>1, GrantLeaseFields
<1> HIDE DEF g
<1>3. /\ n \in Records /\ n.state = "running" /\ n.fencing = 1 /\ n.token = g.token
      /\ n.due = n.deadline /\ n.retain = None /\ n.version = 1
  BY Zenon, <1>2 DEF GrantOf, Records
<1>4. GrantOf(n, n.token, 1) /\ n.version = 1
  BY Zenon, <1>2, <1>3 DEF GrantOf
<1> QED
  BY Zenon, <1>4 DEF c, g

\* The record a claim or a step-continue writes: a grant for run state s.
LEMMA GrantForStep ==
    ASSUME rec \in Records, NEW w \in Workers, NEW now \in Nat,
           NEW s \in Steps \cup Terminal
    PROVE  LET n == [GrantLease(rec, w, now) EXCEPT !.run_state = s]
           IN  GrantOf(n, n.token, rec.fencing + 1) /\ n.version = rec.version + 1
<1> DEFINE g == GrantLease(rec, w, now)
           n == [g EXCEPT !.run_state = s]
<1>1. GrantOf(g, g.token, rec.fencing + 1) /\ g.version = rec.version + 1
  BY Zenon, GrantLeaseFields
<1> HIDE DEF g
<1>2. /\ n \in Records /\ n.state = "running" /\ n.fencing = g.fencing /\ n.token = g.token
      /\ n.due = n.deadline /\ n.retain = None /\ n.version = g.version
  BY <1>1 DEF GrantOf, Records
<1>3. GrantOf(n, n.token, rec.fencing + 1) /\ n.version = rec.version + 1
  BY Zenon, <1>1, <1>2 DEF GrantOf
<1> QED
  BY Zenon, <1>3 DEF g

\* The record the schedule runner's reschedule writes.
LEMMA RescheduleFields ==
    ASSUME rec \in Records, NEW s \in Steps, NEW runAt \in Nat
    PROVE  LET n == [ClearLease(rec) EXCEPT !.state = s, !.run_state = None,
                       !.version = @ + 1, !.due = runAt, !.retain = None]
           IN  FreeOf(n, rec.fencing) /\ n.version = rec.version + 1 /\ n.state = s
<1> DEFINE c == ClearLease(rec)
           v == c.version + 1
           n == [c EXCEPT !.state = s, !.run_state = None, !.version = v,
                          !.due = runAt, !.retain = None]
<1>1. v \in Nat /\ s \in States /\ s # "running"
  BY ClearLeaseFields, StepsAssumption DEF Records, States
<1>2. c \in Records /\ c.token = None /\ c.deadline = 0
  BY Zenon, ClearLeaseFields
<1>a. c.fencing = rec.fencing /\ v = rec.version + 1
  BY Zenon, ClearLeaseFields
<1> HIDE DEF c, v
<1>3. n \in Records /\ n.state = s /\ n.version = v /\ n.fencing = c.fencing
      /\ n.token = None /\ n.deadline = 0
  BY ZenonT(90), <1>1, <1>2 DEF Records
<1>4. FreeOf(n, rec.fencing) /\ n.version = rec.version + 1 /\ n.state = s
  BY Zenon, <1>1, <1>a, <1>3 DEF FreeOf
<1> QED
  BY Zenon, <1>4 DEF c, v

\* The record FLOW.REWIND writes: unleased, with the next fencing number.
LEMMA RewindFields ==
    ASSUME rec \in Records, NEW h \in History, h.state # "running",
           NEW now \in Nat, NEW runAt \in Nat \cup {None}
    PROVE  LET n == Stamp([ClearLease(rec) EXCEPT
                    !.state = h.state, !.version = @ + 1,
                    !.attempts = h.attempts, !.fencing = @ + 1,
                    !.due = IF runAt = None THEN h.due ELSE runAt], now)
           IN  FreeOf(n, rec.fencing + 1) /\ n.version = rec.version + 1
<1> DEFINE c == ClearLease(rec)
           v == c.version + 1
           f == c.fencing + 1
           d == IF runAt = None THEN h.due ELSE runAt
           m == [c EXCEPT !.state = h.state, !.version = v, !.attempts = h.attempts,
                          !.fencing = f, !.due = d]
<1>1. v \in Nat /\ f \in Nat
  BY ClearLeaseFields DEF Records
<1>a. v = rec.version + 1 /\ f = rec.fencing + 1
  BY Zenon, ClearLeaseFields
<1>2. d \in Nat \cup {None} /\ h.state \in States /\ h.attempts \in Nat
  BY Zenon DEF History
<1>3. c \in Records /\ c.token = None /\ c.deadline = 0
  BY Zenon, ClearLeaseFields
<1> HIDE DEF c, v, f, d
<1>4. m \in Records /\ m.state = h.state /\ m.version = v /\ m.fencing = f
      /\ m.token = None /\ m.deadline = 0
  BY Zenon, <1>1, <1>2, <1>3 DEF Records
<1>5. FreeOf(m, f) /\ m.version = v
  BY Zenon, <1>4 DEF FreeOf
<1> HIDE DEF m
<1>6. FreeOf(Stamp(m, now), f) /\ Stamp(m, now).version = v
  BY Zenon, <1>5, StampFree
<1> QED
  BY Zenon, <1>a, <1>6 DEF m, c, v, f, d

-------------------------------------------------------------------------------
(* The inductive invariant. *)

\* The credentials whose number a completed record still carries brought it
\* there; with it the acknowledgement of a duplicate is sound.
CompletedInv ==
    rec # None /\ rec.state = "completed" =>
        \A t \in issued : t.fencing = rec.fencing => t \in finishers

\* The inductive invariant.  The history is in it because a rewind copies the
\* event it finds at a version.
IInv ==
    /\ TypeOK /\ LeaseInv /\ HistoryInv /\ FencingInv
    /\ CompletedInv /\ AckedCompletionWasApplied

LastVersion == IF rec = None THEN 0 ELSE rec.version

\* A record of the next version written with its history event keeps the
\* history in step.
LEMMA PutHistory ==
    ASSUME IInv, NEW n \in Records, n.version = LastVersion + 1, NEW e \in Events,
           Put(e, n)
    PROVE  rec' = n /\ history' \in Seq(History) /\ HistoryInv'
<1> DEFINE h == EventOf(e, n)
<1>1. h \in History /\ h.version = n.version /\ h.event = e
  BY Zenon DEF EventOf, History, Records
<1>2. history \in Seq(History) /\ Len(history) = LastVersion /\ LastVersion \in Nat
  BY Zenon DEF IInv, TypeOK, HistoryInv, LastVersion, Records
<1>3. rec' = n /\ history' = Append(history, h) /\ n # None
  BY Zenon, NoneAssumption DEF Put
<1> HIDE DEF h
<1>4. /\ history' \in Seq(History) /\ Len(history') = n.version
      /\ history'[Len(history')] = h
  BY <1>1, <1>2, <1>3
<1>5. \A v \in 1 .. Len(history') : history'[v].version = v
  <2>1. \A v \in 1 .. Len(history) : history[v].version = v
    BY <1>2 DEF IInv, HistoryInv, LastVersion
  <2> QED
    BY <1>1, <1>2, <1>3, <1>4, <2>1
<1>6. h = EventOf(h.event, n)
  BY Zenon, <1>1 DEF h
<1> QED
  BY Zenon, <1>3, <1>4, <1>5, <1>6 DEF HistoryInv

\* Every way of granting a lease keeps the invariant.
LEMMA GrantKeeps ==
    ASSUME IInv, NEW t, GrantOf(rec', t, LastFence + 1),
           issued' = issued \cup {t}, UNCHANGED <<finishers, acked>>
    PROVE  /\ issued' \in SUBSET Tokens
           /\ LeaseInv' /\ FencingInv' /\ CompletedInv' /\ AckedCompletionWasApplied'
<1>1. rec' # None /\ t # None /\ LastFence \in Nat
  BY NoneAssumption DEF GrantOf, IInv, TypeOK, LastFence, Records
<1>2. \A u \in issued : u.fencing \in Nat /\ u.fencing <= LastFence
  BY Zenon DEF IInv, TypeOK, FencingInv, LastFence, Tokens
<1>3. LeaseInv'
  BY Zenon, <1>1 DEF LeaseInv, GrantOf
<1>4. FencingInv'
  <2>1. \A u \in issued' : u.fencing <= rec'.fencing
    BY <1>1, <1>2 DEF GrantOf
  <2>2. \A u, v \in issued' : u.fencing = v.fencing => u = v
    BY <1>1, <1>2 DEF GrantOf, FencingInv, IInv
  <2> QED
    BY Zenon, <1>1, <2>1, <2>2 DEF FencingInv
<1>5. CompletedInv'
  BY Zenon DEF CompletedInv, GrantOf
<1> QED
  BY Zenon, <1>3, <1>4, <1>5 DEF IInv, TypeOK, GrantOf, AckedCompletionWasApplied

\* Every write of an unleased record keeps it, if the fencing number does not
\* fall and a new completion is entered among the finishers.
LEMMA FreeKeeps ==
    ASSUME IInv, rec # None, NEW f \in Nat, FreeOf(rec', f), rec.fencing <= f,
           issued' = issued, finishers \subseteq finishers', acked' \subseteq finishers',
           rec'.state = "completed" =>
               \A t \in issued : t.fencing = f => t \in finishers'
    PROVE  LeaseInv' /\ FencingInv' /\ CompletedInv' /\ AckedCompletionWasApplied'
<1>1. rec' # None /\ rec \in Records
  BY Zenon, NoneAssumption DEF FreeOf, IInv, TypeOK
<1>2. LeaseInv'
  BY Zenon, <1>1 DEF LeaseInv, FreeOf
<1>3. FencingInv'
  BY <1>1 DEF FencingInv, FreeOf, IInv, TypeOK, Tokens, Records
<1>4. CompletedInv'
  BY Zenon, <1>1 DEF CompletedInv, FreeOf
<1> QED
  BY Zenon, <1>2, <1>3, <1>4 DEF AckedCompletionWasApplied

\* A write that leaves state, lease and number alone keeps it.
LEMMA SameKeeps ==
    ASSUME IInv, rec # None, rec' \in Records, rec'.state = rec.state,
           rec'.fencing = rec.fencing, rec'.token = rec.token,
           rec.token # None => rec'.due = rec'.deadline /\ rec'.retain = None,
           rec.token = None => rec'.deadline = 0,
           UNCHANGED workerVars
    PROVE  LeaseInv' /\ FencingInv' /\ CompletedInv' /\ AckedCompletionWasApplied'
<1>1. rec' # None /\ UNCHANGED <<issued, finishers, acked>>
  BY Zenon, NoneAssumption DEF workerVars
<1>2. LeaseInv'
  BY Zenon, <1>1 DEF LeaseInv, IInv
<1>3. FencingInv'
  BY Zenon, <1>1 DEF FencingInv, IInv
<1>4. CompletedInv'
  BY Zenon, <1>1 DEF CompletedInv, IInv
<1> QED
  BY Zenon, <1>1, <1>2, <1>3, <1>4 DEF AckedCompletionWasApplied, IInv

-------------------------------------------------------------------------------
(* One lemma per action. *)

\* What every step does: it keeps the invariant and it is a step, or a
\* stutter, of the lease service.
Kept == IInv' /\ [Lease!LeaseNext]_(Lease!leaseVars)

SignalTypes ==
    /\ seen \in [SignalKeys -> SignalRows \cup {None}]
    /\ delivered \in [SignalKeys -> Seq(States)]

\* Only FLOW.SIGNAL and retention touch the signal bookkeeping.
LEMMA SignalsSame ==
    ASSUME IInv, UNCHANGED signalVars
    PROVE  SignalTypes'
BY Zenon DEF IInv, TypeOK, SignalTypes, signalVars

\* The type invariant from its parts.
LEMMA TypeFrom ==
    ASSUME rec' \in Records \cup {None}, history' \in Seq(History),
           issued' \in SUBSET Tokens, finishers' \in SUBSET Tokens,
           acked' \in SUBSET Tokens, SignalTypes'
    PROVE  TypeOK'
BY Zenon DEF TypeOK, SignalTypes

\* FLOW.CREATE of an unknown id.
LEMMA CreateStep ==
    ASSUME IInv, NEW s \in Steps \cup Terminal, NEW now \in Nat, NEW runAt \in Nat,
           Create(s, now, runAt)
    PROVE  Kept
<1> DEFINE n == create_record(s, now, runAt)
<1>1. FreeOf(n, 0) /\ rec = None /\ Put("created", n) /\ UNCHANGED <<workerVars, signalVars>>
  BY Zenon, CreateFields DEF Create
<1>a. n.version = LastVersion + 1
  BY <1>1, CreateFields DEF LastVersion
<1> HIDE DEF n
<1>2. n \in Records /\ rec' = n /\ history' \in Seq(History) /\ HistoryInv'
  BY Zenon, <1>1, <1>a, PutHistory DEF FreeOf, Events
<1>3. UNCHANGED <<issued, finishers, acked>> /\ issued = {} /\ rec' # None
  BY Zenon, <1>1, <1>2, NoneAssumption DEF workerVars, IInv, FencingInv
<1>4. TypeOK'
  BY Zenon, <1>1, <1>2, <1>3, SignalsSame, TypeFrom DEF IInv, TypeOK
<1>5. LeaseInv' /\ FencingInv' /\ CompletedInv'
  BY Zenon, <1>1, <1>2, <1>3 DEF LeaseInv, FencingInv, CompletedInv, FreeOf
<1>6. UNCHANGED Lease!leaseVars
  BY Zenon, <1>1, <1>2, <1>3 DEF FreeOf, HeldToken, LastFence, Lease!leaseVars
<1> QED
  BY Zenon, <1>2, <1>3, <1>4, <1>5, <1>6 DEF IInv, AckedCompletionWasApplied, Kept

\* A grant written with Put keeps the invariant.
LEMMA GrantStep ==
    ASSUME IInv, NEW n, NEW e \in Events, GrantOf(n, n.token, LastFence + 1), Put(e, n),
           n.version = LastVersion + 1,
           issued' = issued \cup {n.token}, UNCHANGED <<finishers, acked, signalVars>>
    PROVE  Kept
<1>1. n \in Records /\ rec' = n /\ history' \in Seq(History) /\ HistoryInv'
  BY Zenon, PutHistory DEF GrantOf
<1>2. /\ issued' \in SUBSET Tokens
      /\ LeaseInv' /\ FencingInv' /\ CompletedInv' /\ AckedCompletionWasApplied'
  BY Zenon, <1>1, GrantKeeps
<1>3. TypeOK'
  BY Zenon, <1>1, <1>2, SignalsSame, TypeFrom DEF IInv, TypeOK
<1>4. Lease!LeaseNext
  <2>1. rec' # None /\ HeldToken' = n.token /\ LastFence' = LastFence + 1
    BY Zenon, <1>1, NoneAssumption DEF HeldToken, LastFence, GrantOf
  <2>2. LastFence \in Nat /\ \A u \in issued : u.fencing \in Nat /\ u.fencing <= LastFence
    BY Zenon DEF IInv, TypeOK, FencingInv, LastFence, Tokens, Records
  <2>3. n.token \in Tokens /\ n.token.fencing = LastFence + 1 /\ n.token \notin issued
    BY <2>2 DEF GrantOf
  <2> QED
    BY Zenon, <2>1, <2>3 DEF Lease!LeaseNext, Lease!Grant
<1> QED
  BY Zenon, <1>1, <1>2, <1>3, <1>4 DEF IInv, Kept

\* FLOW.START_AND_CLAIM grants the first lease, number 1.
LEMMA StartAndClaimStep ==
    ASSUME IInv, NEW w \in Workers, NEW s \in Steps, NEW now \in Nat,
           StartAndClaim(w, s, now)
    PROVE  Kept
<1> DEFINE n == [GrantLease(create_record(s, now, now), w, now)
                   EXCEPT !.version = 1, !.run_state = s, !.attempts = 1]
<1>1. /\ rec = None /\ Put("created", n) /\ issued' = issued \cup {n.token}
      /\ UNCHANGED <<finishers, acked, signalVars>>
  BY Zenon DEF StartAndClaim
<1>2. GrantOf(n, n.token, 1) /\ n.version = 1
  BY Zenon, StartFields
<1> HIDE DEF n
<1>3. LastFence + 1 = 1 /\ LastVersion + 1 = 1 /\ "created" \in Events
  BY <1>1 DEF LastFence, LastVersion, Events
<1> QED
  BY Zenon, <1>1, <1>2, <1>3, GrantStep

\* FLOW.CLAIM_DUE and FLOW.RECLAIM grant the next number.
LEMMA ClaimStep ==
    ASSUME IInv, NEW w \in Workers, NEW now \in Nat, Claim(w, now)
    PROVE  Kept
<1> DEFINE s == claim_run_state(rec)
           n == [GrantLease(rec, w, now) EXCEPT !.run_state = s]
<1>1. /\ rec # None /\ Put("claimed", n) /\ issued' = issued \cup {n.token}
      /\ UNCHANGED <<finishers, acked, signalVars>>
  BY Zenon DEF Claim
<1>2. rec \in Records
  BY Zenon, <1>1 DEF IInv, TypeOK
<1>3. s \in Steps \cup Terminal
  BY Zenon, <1>2, StepsAssumption DEF claim_run_state, retry_run_state, Records, States
<1> HIDE DEF s
<1>4. GrantOf(n, n.token, rec.fencing + 1) /\ n.version = rec.version + 1
  BY Zenon, <1>2, <1>3, GrantForStep
<1> HIDE DEF n
<1>5. LastFence = rec.fencing /\ LastVersion = rec.version /\ "claimed" \in Events
  BY Zenon, <1>1 DEF LastFence, LastVersion, Events
<1> QED
  BY Zenon, <1>1, <1>4, <1>5, GrantStep

\* FLOW.STEP_CONTINUE replaces the worker's credential by one of the next number.
LEMMA StepContinueStep ==
    ASSUME IInv, NEW t \in issued, NEW from \in Steps, NEW to \in Steps, NEW now \in Nat,
           StepContinue(t, from, to, now)
    PROVE  Kept
<1> DEFINE n == [GrantLease(rec, rec.token.worker, now) EXCEPT !.run_state = to]
<1>1. /\ rec # None /\ rec.token = t /\ Put("step_continued", n)
      /\ issued' = issued \cup {n.token} /\ UNCHANGED <<finishers, acked, signalVars>>
  BY Zenon DEF StepContinue, running_lease
<1>2. rec \in Records /\ rec.token.worker \in Workers
  BY Zenon, <1>1 DEF IInv, TypeOK, Tokens
<1>3. GrantOf(n, n.token, rec.fencing + 1) /\ n.version = rec.version + 1
  BY Zenon, <1>2, GrantForStep
<1> HIDE DEF n
<1>4. LastFence = rec.fencing /\ LastVersion = rec.version /\ "step_continued" \in Events
  BY Zenon, <1>1 DEF LastFence, LastVersion, Events
<1> QED
  BY Zenon, <1>1, <1>3, <1>4, GrantStep

\* An unleased record written with Put keeps the invariant.
LEMMA FreeStep ==
    ASSUME IInv, rec # None, NEW n, NEW e \in Events, NEW f \in Nat, FreeOf(n, f),
           f = rec.fencing \/ (f = rec.fencing + 1 /\ rec.token = None), n.version = rec.version + 1, Put(e, n),
           issued' = issued, SignalTypes', finishers \subseteq finishers', finishers' \in SUBSET Tokens,
           acked' \subseteq finishers',
           n.state = "completed" => \A t \in issued : t.fencing = f => t \in finishers'
    PROVE  Kept
<1>1. n \in Records /\ rec' = n /\ history' \in Seq(History) /\ HistoryInv'
  BY Zenon, PutHistory DEF FreeOf, LastVersion
<1>2. LeaseInv' /\ FencingInv' /\ CompletedInv' /\ AckedCompletionWasApplied'
  <2>1. rec.fencing <= f
    BY DEF IInv, TypeOK, Records
  <2> QED
    BY Zenon, <1>1, <2>1, FreeKeeps
<1>3. TypeOK'
  BY Zenon, <1>1, TypeFrom DEF IInv, TypeOK
<1>4. [Lease!LeaseNext]_(Lease!leaseVars)
  <2>1. /\ rec' # None /\ HeldToken' = None /\ LastFence' = f
        /\ HeldToken = rec.token /\ LastFence = rec.fencing
    BY Zenon, <1>1, NoneAssumption DEF HeldToken, LastFence, FreeOf
  <2> QED
    BY Zenon, <2>1 DEF Lease!LeaseNext, Lease!Release, Lease!Outdate, Lease!leaseVars
<1> QED
  BY Zenon, <1>1, <1>2, <1>3, <1>4 DEF IInv, Kept

\* The common case: the fencing number stays and nothing is completed.
LEMMA ReleaseStep ==
    ASSUME IInv, rec # None, NEW n, NEW e \in Events, FreeOf(n, rec.fencing),
           n.version = rec.version + 1, n.state # "completed", Put(e, n), UNCHANGED workerVars, SignalTypes'
    PROVE  Kept
<1>1. rec.fencing \in Nat
  BY Zenon DEF IInv, TypeOK, Records
<1>2. UNCHANGED <<issued, finishers, acked>>
  BY Zenon DEF workerVars
<1>3. finishers \in SUBSET Tokens /\ acked \subseteq finishers
  BY Zenon DEF IInv, TypeOK, AckedCompletionWasApplied
<1> QED
  BY Zenon, <1>1, <1>2, <1>3, FreeStep

\* Fail, cancel and the active timeout all close the record unsuccessfully.
LEMMA CloseStep ==
    ASSUME IInv, rec # None, NEW s \in {"failed", "cancelled"}, NEW e \in Events,
           NEW now \in Nat, Put(e, Close(s, now)), UNCHANGED <<workerVars, signalVars>>
    PROVE  Kept
<1>1. rec \in Records /\ s \in Terminal
  BY Zenon DEF IInv, TypeOK, Terminal
<1>2. /\ FreeOf(Close(s, now), rec.fencing) /\ Close(s, now).state # "completed"
      /\ Close(s, now).version = rec.version + 1
  BY Zenon, <1>1, CloseFields
<1> QED
  BY Zenon, <1>2, SignalsSame, ReleaseStep

\* A worker's command of credential t writes an unleased record.
LEMMA FinishStep ==
    ASSUME IInv, rec # None, NEW t \in issued, NEW n, NEW e \in Events,
           FreeOf(n, rec.fencing), n.version = rec.version + 1, t.fencing = rec.fencing,
           Put(e, n), Finish(t, n),
           UNCHANGED <<issued, signalVars>>,
           acked' = acked \/ (acked' = acked \cup {t} /\ n.state = "completed")
    PROVE  Kept
<1>1. rec.fencing \in Nat /\ t \in Tokens /\ t # None
  BY Zenon, NoneAssumption DEF IInv, TypeOK, Records
<1>2. finishers' = IF n.state = "completed" THEN finishers \cup {t} ELSE finishers
  BY Zenon, <1>1 DEF Finish
<1>3. finishers \in SUBSET Tokens /\ acked \subseteq finishers
  BY Zenon DEF IInv, TypeOK, AckedCompletionWasApplied
<1>4. \A u \in issued : u.fencing = rec.fencing => u = t
  BY Zenon DEF IInv, FencingInv
<1>5. /\ finishers \subseteq finishers' /\ finishers' \in SUBSET Tokens
      /\ acked' \subseteq finishers'
      /\ n.state = "completed" => \A u \in issued : u.fencing = rec.fencing => u \in finishers'
  BY Zenon, <1>1, <1>2, <1>3, <1>4
<1> QED
  BY Zenon, <1>1, <1>5, SignalsSame, FreeStep

\* FLOW.COMPLETE, applied or acknowledged as a duplicate.
LEMMA CompleteStep ==
    ASSUME IInv, NEW t \in issued, NEW now \in Nat, Complete(t, now)
    PROVE  Kept
<1>1. rec # None /\ acked' = acked \cup {t} /\ UNCHANGED <<issued, signalVars>>
  BY Zenon DEF Complete
<1>2. CASE duplicate_terminal_noop(t, "completed")
  <2>1. UNCHANGED <<rec, history, finishers>> /\ rec.state = "completed"
        /\ rec.fencing = t.fencing
    BY Zenon, <1>2 DEF Complete, duplicate_terminal_noop, fencing_token
  <2>2. t \in finishers
    BY Zenon, <1>1, <2>1 DEF IInv, CompletedInv
  <2>3. acked' \subseteq finishers' /\ acked' \in SUBSET Tokens
    BY Zenon, <1>1, <2>1, <2>2 DEF IInv, AckedCompletionWasApplied, TypeOK
  <2>4. TypeOK'
    BY Zenon, <1>1, <2>1, <2>3 DEF IInv, TypeOK, signalVars
  <2>5. UNCHANGED Lease!leaseVars
    BY Zenon, <1>1, <2>1 DEF HeldToken, LastFence, Lease!leaseVars
  <2> QED
    BY Zenon, <1>1, <2>1, <2>3, <2>4, <2>5
    DEF Kept, IInv, LeaseInv, HistoryInv, FencingInv, CompletedInv, AckedCompletionWasApplied
<1>3. CASE ~duplicate_terminal_noop(t, "completed")
  <2> DEFINE n == Close("completed", now)
  <2>1. /\ rec.fencing = t.fencing /\ Put("completed", n) /\ Finish(t, n)
    BY Zenon, <1>3 DEF Complete, fencing_token
  <2>2. rec \in Records /\ "completed" \in Terminal /\ "completed" \in Events
    BY Zenon, <1>1 DEF IInv, TypeOK, Terminal, Events
  <2>3. FreeOf(n, rec.fencing) /\ n.state = "completed" /\ n.version = rec.version + 1
    BY Zenon, <2>2, CloseFields
  <2> HIDE DEF n
  <2> QED
    BY Zenon, <1>1, <2>1, <2>2, <2>3, FinishStep
<1> QED
  BY Zenon, <1>2, <1>3

\* FLOW.RETRY, scheduled again or exhausted.
LEMMA RetryStep ==
    ASSUME IInv, NEW t \in issued, NEW now \in Nat, NEW runAt \in Nat \cup {None},
           Retry(t, now, runAt)
    PROVE  Kept
<1> DEFINE n == Stamp(retry_next(now, runAt), now)
<1>1. /\ rec # None /\ rec.fencing = t.fencing /\ Put("retry", n) /\ Finish(t, n)
      /\ UNCHANGED <<issued, acked, signalVars>>
  BY Zenon DEF Retry, fencing_token
<1>2. rec \in Records /\ "retry" \in Events
  BY Zenon, <1>1 DEF IInv, TypeOK, Events
<1>3. FreeOf(n, rec.fencing) /\ n.version = rec.version + 1
  BY Zenon, <1>2, RetryFields
<1> HIDE DEF n
<1> QED
  BY Zenon, <1>1, <1>2, <1>3, FinishStep

\* FLOW.TRANSITION releases the lease it names.
LEMMA TransitionStep ==
    ASSUME IInv, NEW t, NEW from, NEW to \in Steps, NEW now \in Nat, NEW runAt \in Nat,
           Transition(t, from, to, now, runAt)
    PROVE  Kept
<1>1. /\ rec # None /\ Put("transitioned", MoveTo(to, now, runAt))
      /\ UNCHANGED <<workerVars, signalVars>>
  BY Zenon DEF Transition
<1>2. rec \in Records /\ "transitioned" \in Events /\ to # "completed"
  BY Zenon, <1>1, StepsAssumption DEF IInv, TypeOK, Events, Terminal
<1>3. /\ FreeOf(MoveTo(to, now, runAt), rec.fencing)
      /\ MoveTo(to, now, runAt).state # "completed"
      /\ MoveTo(to, now, runAt).version = rec.version + 1
  BY <1>2, MoveToFields
<1> QED
  BY Zenon, <1>1, <1>2, <1>3, SignalsSame, ReleaseStep

\* The schedule runner's reschedule releases the lease it names.
LEMMA RescheduleStep ==
    ASSUME IInv, NEW t, NEW s \in Steps, NEW runAt \in Nat, Reschedule(t, s, runAt)
    PROVE  Kept
<1> DEFINE n == [ClearLease(rec) EXCEPT !.state = s, !.run_state = None,
                   !.version = @ + 1, !.due = runAt, !.retain = None]
<1>1. rec # None /\ Put("rescheduled", n) /\ UNCHANGED <<workerVars, signalVars>>
  BY Zenon DEF Reschedule, running_lease
<1>2. rec \in Records /\ "rescheduled" \in Events /\ s # "completed"
  BY Zenon, <1>1, StepsAssumption DEF IInv, TypeOK, Events, Terminal
<1>3. FreeOf(n, rec.fencing) /\ n.version = rec.version + 1 /\ n.state = s
  BY Zenon, <1>2, RescheduleFields
<1> HIDE DEF n
<1> QED
  BY Zenon, <1>1, <1>2, <1>3, SignalsSame, ReleaseStep

\* A record written with Put that leaves state, lease and number alone.
LEMMA SameStep ==
    ASSUME IInv, rec # None, NEW n \in Records, NEW e \in Events, Put(e, n),
           n.version = rec.version + 1, n.state = rec.state, n.fencing = rec.fencing, n.token = rec.token,
           rec.token # None => n.due = n.deadline /\ n.retain = None,
           rec.token = None => n.deadline = 0,
           UNCHANGED workerVars, SignalTypes'
    PROVE  Kept
<1>1. rec' = n /\ history' \in Seq(History) /\ HistoryInv'
  BY Zenon, PutHistory DEF LastVersion
<1>2. LeaseInv' /\ FencingInv' /\ CompletedInv' /\ AckedCompletionWasApplied'
  BY Zenon, <1>1, SameKeeps
<1>3. TypeOK'
  BY Zenon, <1>1, TypeFrom DEF IInv, TypeOK, workerVars
<1>4. UNCHANGED Lease!leaseVars
  BY Zenon, <1>1, NoneAssumption DEF HeldToken, LastFence, Lease!leaseVars, workerVars
<1> QED
  BY Zenon, <1>1, <1>2, <1>3, <1>4 DEF IInv, Kept

\* FLOW.EXTEND_LEASE moves deadline and due time together.
LEMMA ExtendLeaseStep ==
    ASSUME IInv, NEW t \in issued, NEW now \in Nat, ExtendLease(t, now)
    PROVE  Kept
<1> DEFINE v == rec.version + 1
           d == now + LeaseMs
           n == [rec EXCEPT !.version = v, !.deadline = d, !.due = d]
<1>1. /\ rec # None /\ rec.token = t /\ Put("lease_extended", n)
      /\ UNCHANGED <<workerVars, signalVars>>
  BY Zenon DEF ExtendLease, running_lease
<1>2. rec \in Records
  BY Zenon, <1>1 DEF IInv, TypeOK
<1>3. v \in Nat /\ d \in Nat /\ "lease_extended" \in Events
  BY <1>2, BoundsAssumption DEF Records, Events
<1>4. t # None /\ rec.retain = None
  BY Zenon, <1>1, NoneAssumption DEF IInv, TypeOK, LeaseInv
<1> HIDE DEF v, d
<1>5. /\ n \in Records /\ n.state = rec.state /\ n.fencing = rec.fencing
      /\ n.token = rec.token /\ n.due = n.deadline /\ n.retain = rec.retain
      /\ n.version = v
  BY Zenon, <1>2, <1>3 DEF Records
<1> HIDE DEF n
<1> QED
  BY Zenon, <1>1, <1>3, <1>4, <1>5, SignalsSame, SameStep DEF v

\* FLOW.VALUE.PUT changes the version only.
LEMMA ValuePutStep ==
    ASSUME IInv, ValuePut
    PROVE  Kept
<1> DEFINE n == [rec EXCEPT !.version = @ + 1]
<1>1. rec # None /\ Put("value_put", n) /\ UNCHANGED <<workerVars, signalVars>>
  BY Zenon DEF ValuePut
<1>2. rec \in Records /\ "value_put" \in Events
  BY Zenon, <1>1 DEF IInv, TypeOK, Events
<1>3. /\ n \in Records /\ n.state = rec.state /\ n.fencing = rec.fencing
      /\ n.token = rec.token /\ n.due = rec.due /\ n.deadline = rec.deadline
      /\ n.retain = rec.retain /\ n.version = rec.version + 1
  BY <1>2 DEF Records
<1> HIDE DEF n
<1>4. /\ rec.token # None => rec.due = rec.deadline /\ rec.retain = None
      /\ rec.token = None => rec.deadline = 0
  BY Zenon, <1>1 DEF IInv, LeaseInv
<1> QED
  BY Zenon, <1>1, <1>2, <1>3, <1>4, SignalsSame, SameStep

\* FLOW.REWIND takes a number that was granted to nobody.
LEMMA RewindStep ==
    ASSUME IInv, NEW v, NEW now \in Nat, NEW runAt \in Nat \cup {None},
           Rewind(v, now, runAt)
    PROVE  Kept
<1> DEFINE h == history[v]
           n == Stamp([ClearLease(rec) EXCEPT
                    !.state = h.state, !.version = @ + 1,
                    !.attempts = h.attempts, !.fencing = @ + 1,
                    !.due = IF runAt = None THEN h.due ELSE runAt], now)
<1>1. /\ rec # None /\ Put("rewound", n) /\ UNCHANGED <<workerVars, signalVars>>
      /\ rec.token = None /\ v \in 1 .. rec.version /\ h.state # "running"
  BY Zenon DEF Rewind
<1>2. rec \in Records /\ "rewound" \in Events
  BY Zenon, <1>1 DEF IInv, TypeOK, Events
<1>3. h \in History
  BY <1>1 DEF HistoryInv, IInv, TypeOK
<1> HIDE DEF h
<1>4. FreeOf(n, rec.fencing + 1) /\ n.version = rec.version + 1
  BY ZenonT(40), <1>1, <1>2, <1>3, RewindFields
<1> HIDE DEF n
<1>5. rec.fencing \in Nat /\ rec.fencing + 1 \in Nat 
  BY <1>2 DEF Records
<1>6. \A t \in issued : t.fencing # rec.fencing + 1
  BY <1>1, <1>5 DEF IInv, FencingInv, TypeOK, Tokens
<1>7. UNCHANGED <<issued, finishers, acked>>
  BY Zenon, <1>1 DEF workerVars
<1>8. finishers \in SUBSET Tokens /\ acked \subseteq finishers
  BY Zenon DEF IInv, TypeOK, AckedCompletionWasApplied
<1> QED
  BY Zenon, <1>1, <1>2, <1>4, <1>5, <1>6, <1>7, <1>8, SignalsSame, FreeStep

\* The record a signal writes is the one it found, or an unleased one.
LEMMA SignalWrite ==
    ASSUME IInv, rec # None, NEW s \in Signals, NEW now \in Nat, NEW e \in Events,
           Put(e, signal_next(s, now)), UNCHANGED workerVars, SignalTypes'
    PROVE  Kept
<1> DEFINE n == signal_next(s, now)
<1>1. rec \in Records
  BY Zenon DEF IInv, TypeOK
<1>2. CASE s.to = None
  <2> DEFINE v == rec.version + 1
             m == [rec EXCEPT !.version = v]
  <2>1. v \in Nat
    BY <1>1 DEF Records
  <2>2. n = Stamp(m, now)
    BY Zenon, <1>2 DEF signal_next
  <2> HIDE DEF v
  <2>3. /\ m \in Records /\ m.version = v /\ m.state = rec.state
        /\ m.fencing = rec.fencing /\ m.token = rec.token
        /\ m.due = rec.due /\ m.deadline = rec.deadline
    BY Zenon, <1>1, <2>1 DEF Records
  <2> HIDE DEF m, n
  <2>4. /\ n \in Records /\ n.version = v /\ n.state = rec.state
        /\ n.fencing = rec.fencing /\ n.token = rec.token
        /\ n.due = rec.due /\ n.deadline = rec.deadline
        /\ ~terminal_state(rec.state) => n.retain = None
    BY Zenon, <2>2, <2>3, StampFields
  <2>5. /\ rec.token # None => n.due = n.deadline /\ n.retain = None
        /\ rec.token = None => n.deadline = 0
    BY Zenon, <2>4 DEF IInv, LeaseInv, terminal_state, Terminal
  <2>6. n.version = rec.version + 1
    BY Zenon, <2>4 DEF v
  <2>7. Put(e, n)
    BY Zenon DEF n
  <2> QED
    BY Zenon, <2>4, <2>5, <2>6, <2>7, SameStep
<1>3. CASE s.to # None
  <2>1. s.to \in Steps /\ s.to # "completed"
    BY Zenon, <1>3, SignalsAssumption, StepsAssumption DEF Terminal
  <2>2. n = MoveTo(s.to, now, now)
    BY Zenon, <1>3 DEF signal_next
  <2>3. FreeOf(n, rec.fencing) /\ n.state = s.to /\ n.version = rec.version + 1
    BY <1>1, <2>1, <2>2, MoveToFields
  <2> QED
    BY Zenon, <2>1, <2>3, ReleaseStep
<1> QED
  BY Zenon, <1>2, <1>3

\* FLOW.SIGNAL without a key.
LEMMA PlainSignalStep ==
    ASSUME IInv, NEW s \in Signals, NEW now \in Nat, PlainSignal(s, now)
    PROVE  Kept
BY Zenon, SignalsSame, SignalWrite DEF PlainSignal, Events

\* FLOW.SIGNAL under a key: applied and its digest stored, or answered from the
\* digest.
LEMMA SignalStep ==
    ASSUME IInv, NEW k \in SignalKeys, NEW s \in Signals, NEW now \in Nat,
           Signal(k, s, now)
    PROVE  Kept
<1>1. rec # None /\ UNCHANGED workerVars
  BY Zenon DEF Signal
<1>2. CASE signal_row(k, now) # None
  <2>1. UNCHANGED <<rec, history, seen, delivered, issued, finishers, acked>>
    BY Zenon, <1>1, <1>2 DEF Signal, flowVars, workerVars
  <2>2. TypeOK'
    BY Zenon, <1>1, <2>1 DEF IInv, TypeOK
  <2>3. UNCHANGED Lease!leaseVars
    BY Zenon, <2>1 DEF HeldToken, LastFence, Lease!leaseVars
  <2> QED
    BY Zenon, <2>1, <2>2, <2>3
    DEF Kept, IInv, LeaseInv, HistoryInv, FencingInv, CompletedInv, AckedCompletionWasApplied
<1>3. CASE signal_row(k, now) = None
  <2> DEFINE n == signal_next(s, now)
             row == [digest |-> s, expire |-> IF n.retain = None THEN 0 ELSE n.retain]
  <2>1. /\ Put("signaled", n) /\ seen' = [seen EXCEPT ![k] = row]
        /\ delivered' = [delivered EXCEPT ![k] = Append(delivered[k], rec.state)]
    BY Zenon, <1>3 DEF Signal
  <2>2. n.retain \in Nat \cup {None}
    <3>1. rec \in Records
      BY Zenon, <1>1 DEF IInv, TypeOK
    <3>2. CASE s.to = None
      <4> DEFINE m == [rec EXCEPT !.version = @ + 1]
      <4>1. m \in Records
        BY <3>1 DEF Records
      <4>2. n = Stamp(m, now)
        BY Zenon, <3>2 DEF signal_next
      <4> QED
        BY <4>1, <4>2, StampFields DEF Records
    <3>3. CASE s.to # None
      <4>1. s.to \in Steps
        BY Zenon, <3>3, SignalsAssumption
      <4>2. FreeOf(n, rec.fencing)
        BY Zenon, <3>1, <3>3, <4>1, MoveToFields DEF signal_next
      <4> QED
        BY Zenon, <4>2 DEF FreeOf, Records
    <3> QED
      BY Zenon, <3>2, <3>3
  <2> HIDE DEF n
  <2>3. row \in SignalRows
    BY Zenon, <2>2 DEF SignalRows
  <2> HIDE DEF row
  <2>4. SignalTypes'
    <3> DEFINE d == Append(delivered[k], rec.state)
    <3>1. delivered \in [SignalKeys -> Seq(States)] /\ rec.state \in States
      BY Zenon, <1>1 DEF IInv, TypeOK, Records
    <3>2. delivered[k] \in Seq(States)
      BY Zenon, <3>1
    <3>3. d \in Seq(States)
      BY <3>1, <3>2
    <3> HIDE DEF d
    <3>4. delivered' = [delivered EXCEPT ![k] = d]
      BY Zenon, <2>1 DEF d
    <3> QED
      BY Zenon, <2>1, <2>3, <3>1, <3>3, <3>4 DEF IInv, TypeOK, SignalTypes
  <2> QED
    BY Zenon, <1>1, <2>1, <2>4, SignalWrite DEF n, Events
<1> QED
  BY Zenon, <1>2, <1>3

\* Retention removes the record and everything counted for it.
LEMMA RetentionCleanupStep ==
    ASSUME IInv, NEW now, RetentionCleanup(now)
    PROVE  Kept
<1>1. /\ rec' = None /\ history' = <<>> /\ issued' = {} /\ finishers' = {} /\ acked' = {}
      /\ delivered' = [k \in SignalKeys |-> <<>>] /\ seen' = seen
  BY Zenon DEF RetentionCleanup
<1>2. TypeOK'
  BY <1>1 DEF IInv, TypeOK
<1>3. Lease!Forget
  <2>1. rec # None /\ rec.state # "running"
    BY Zenon DEF RetentionCleanup, terminal_state, Terminal
  <2>2. HeldToken = None
    BY Zenon, <2>1 DEF HeldToken, IInv, LeaseInv
  <2> QED
    BY Zenon, <1>1, <2>2 DEF HeldToken, LastFence, Lease!Forget
<1> QED
  BY Zenon, <1>1, <1>2, <1>3
  DEF Kept, Lease!LeaseNext, IInv, LeaseInv, HistoryInv, FencingInv, CompletedInv, AckedCompletionWasApplied

-------------------------------------------------------------------------------
(* The theorems. *)

\* A Flow that does not exist yet satisfies the invariant.
LEMMA InitKept == Init => IInv
BY DEF Init, IInv, TypeOK, LeaseInv, HistoryInv, FencingInv, CompletedInv,
       AckedCompletionWasApplied

\* Every command of a worker's credential, current or stale, keeps the invariant.
LEMMA WorkerCommandStep ==
    ASSUME IInv, NEW t \in issued, NEW now \in Times, WorkerCommand(t, now)
    PROVE  Kept
<1>1. now \in Nat /\ Times \subseteq Nat
  BY BoundsAssumption DEF Times
<1>2. CASE ExtendLease(t, now)
  BY Zenon, <1>1, <1>2, ExtendLeaseStep
<1>3. CASE Complete(t, now)
  BY Zenon, <1>1, <1>3, CompleteStep
<1>4. ASSUME NEW runAt \in Times \cup {None}, Retry(t, now, runAt)
      PROVE  Kept
  <2>1. runAt \in Nat \cup {None}
    BY Zenon, <1>1
  <2> QED
    BY Zenon, <1>1, <1>4, <2>1, RetryStep
<1>5. CASE Fail(t, now)
  <2>1. /\ rec # None /\ Put("failed", Close("failed", now))
        /\ UNCHANGED <<workerVars, signalVars>>
    BY Zenon, <1>5 DEF Fail
  <2> QED
    BY Zenon, <1>1, <2>1, CloseStep DEF Events
<1>6. ASSUME NEW from \in Steps, NEW to \in Steps, StepContinue(t, from, to, now)
      PROVE  Kept
  BY Zenon, <1>1, <1>6, StepContinueStep
<1>7. ASSUME NEW logical \in Steps, Reschedule(t, logical, now)
      PROVE  Kept
  BY Zenon, <1>1, <1>7, RescheduleStep
<1> QED
  BY Zenon, <1>2, <1>3, <1>4, <1>5, <1>6, <1>7 DEF WorkerCommand

\* Every command keeps the invariant and is a step of the lease service.
LEMMA NextStep ==
    ASSUME IInv, Next
    PROVE  Kept
<1> PICK now \in Times :
        \/ \E s \in InitialStates, runAt \in Times : Create(s, now, runAt)
        \/ \E w \in Workers, s \in Steps : StartAndClaim(w, s, now)
        \/ \E w \in Workers : Claim(w, now)
        \/ \E t \in issued : WorkerCommand(t, now)
        \/ \E t \in issued \cup {None} :
              \/ Cancel(t, now)
              \/ \E from \in States \cup {None}, to \in Steps, runAt \in Times :
                    Transition(t, from, to, now, runAt)
        \/ \E s \in Signals : PlainSignal(s, now) \/ \E k \in SignalKeys : Signal(k, s, now)
        \/ ValuePut
        \/ \E v \in 1 .. MaxVersion, runAt \in Times \cup {None} : Rewind(v, now, runAt)
        \/ ActiveTimeout(now)
        \/ RetentionCleanup(now)
  BY Zenon DEF Next
<1>1. now \in Nat /\ Times \subseteq Nat
  BY BoundsAssumption DEF Times
<1>2. ASSUME NEW s \in InitialStates, NEW runAt \in Times, Create(s, now, runAt)
      PROVE  Kept
  <2>1. s \in Steps \cup Terminal /\ runAt \in Nat
    BY Zenon, <1>1, BoundsAssumption
  <2> QED
    BY Zenon, <1>1, <1>2, <2>1, CreateStep
<1>3. ASSUME NEW w \in Workers, NEW s \in Steps, StartAndClaim(w, s, now)
      PROVE  Kept
  BY Zenon, <1>1, <1>3, StartAndClaimStep
<1>4. ASSUME NEW w \in Workers, Claim(w, now)
      PROVE  Kept
  BY Zenon, <1>1, <1>4, ClaimStep
<1>5. ASSUME NEW t \in issued, WorkerCommand(t, now)
      PROVE  Kept
  BY Zenon, <1>5, WorkerCommandStep
<1>6. ASSUME NEW t, Cancel(t, now)
      PROVE  Kept
  <2>1. /\ rec # None /\ Put("cancelled", Close("cancelled", now))
        /\ UNCHANGED <<workerVars, signalVars>>
    BY Zenon, <1>6 DEF Cancel
  <2> QED
    BY Zenon, <1>1, <2>1, CloseStep DEF Events
<1>7. ASSUME NEW t, NEW from, NEW to \in Steps, NEW runAt \in Times,
             Transition(t, from, to, now, runAt)
      PROVE  Kept
  <2>1. runAt \in Nat
    BY Zenon, <1>1
  <2> QED
    BY Zenon, <1>1, <1>7, <2>1, TransitionStep
<1>8. ASSUME NEW s \in Signals, PlainSignal(s, now) \/ \E k \in SignalKeys : Signal(k, s, now)
      PROVE  Kept
  BY Zenon, <1>1, <1>8, PlainSignalStep, SignalStep
<1>9. CASE ValuePut
  BY Zenon, <1>9, ValuePutStep
<1>10. ASSUME NEW v, NEW runAt \in Times \cup {None}, Rewind(v, now, runAt)
       PROVE  Kept
  <2>1. runAt \in Nat \cup {None}
    BY Zenon, <1>1
  <2> QED
    BY Zenon, <1>1, <1>10, <2>1, RewindStep
<1>11. CASE ActiveTimeout(now)
  <2>1. /\ rec # None /\ Put("failed", Close("failed", now))
        /\ UNCHANGED <<workerVars, signalVars>>
    BY Zenon, <1>11 DEF ActiveTimeout
  <2> QED
    BY Zenon, <1>1, <2>1, CloseStep DEF Events
<1>12. CASE RetentionCleanup(now)
  BY Zenon, <1>12, RetentionCleanupStep
<1> QED
  BY SMTT(30), <1>2, <1>3, <1>4, <1>5, <1>6, <1>7, <1>8, <1>9, <1>10, <1>11, <1>12

\* A step that changes nothing keeps the invariant.
LEMMA StutterKept ==
    ASSUME IInv, UNCHANGED vars
    PROVE  Kept
<1>1. UNCHANGED <<rec, history, issued, finishers, acked, seen, delivered>>
  BY Zenon DEF vars, flowVars, workerVars, signalVars
<1>2. IInv'
  BY Zenon, <1>1 DEF IInv, TypeOK, LeaseInv, HistoryInv, FencingInv, CompletedInv,
              AckedCompletionWasApplied
<1>3. UNCHANGED Lease!leaseVars
  BY Zenon, <1>1 DEF HeldToken, LastFence, Lease!leaseVars
<1> QED
  BY Zenon, <1>2, <1>3 DEF Kept

\* The inductive invariant holds in every reachable state of one Flow record,
\* for any workers, states, times, leases, retry limits and history lengths.
THEOREM InductiveInvariant == Spec => []IInv
<1>1. IInv /\ [Next]_vars => IInv'
  BY Zenon, NextStep, StutterKept DEF Kept
<1> QED
  BY InitKept, <1>1, PTL DEF Spec

\* The stored record, its history and the bookkeeping keep their types.
THEOREM TypeCorrect == Spec => []TypeOK
<1>1. IInv => TypeOK
  BY Zenon DEF IInv
<1> QED
  BY <1>1, InductiveInvariant, PTL

\* A record is running exactly while it holds a granted credential that carries
\* its fencing number and is indexed at its lease deadline.
THEOREM LeaseSafety == Spec => []LeaseInv
<1>1. IInv => LeaseInv
  BY Zenon DEF IInv
<1> QED
  BY <1>1, InductiveInvariant, PTL

\* Event v of the history is version v of the record, which is what the history
\* window and the duplicate-retry check of the code rely on.
THEOREM HistoryConsecutive == Spec => []HistoryInv
<1>1. IInv => HistoryInv
  BY Zenon DEF IInv
<1> QED
  BY <1>1, InductiveInvariant, PTL

\* No fencing number is granted twice and none is ahead of the record.
THEOREM FencingSafety == Spec => []FencingInv
<1>1. IInv => FencingInv
  BY Zenon DEF IInv
<1> QED
  BY <1>1, InductiveInvariant, PTL

\* Lease, history and fencing numbers of a Flow record tell the same story in
\* every reachable state.
THEOREM RecordsStayConsistent == Spec => []RecordsConsistent
BY LeaseSafety, HistoryConsecutive, FencingSafety, PTL DEF RecordsConsistent

\* A completion answered :ok was applied by the credential that asked.
THEOREM AckedCompletion == Spec => []AckedCompletionWasApplied
<1>1. IInv => AckedCompletionWasApplied
  BY Zenon DEF IInv
<1> QED
  BY <1>1, InductiveInvariant, PTL

\* The record implements the lease service: every command is a grant of a fresh
\* credential with the next number, a release, an outdating rewind, a deletion
\* or no step at all of it.
THEOREM LeaseRefinement == Spec => LeaseImplemented
<1>1. Init => Lease!LeaseInit
  BY Zenon DEF Init, HeldToken, LastFence, Lease!LeaseInit
<1>2. IInv /\ [Next]_vars => [Lease!LeaseNext]_(Lease!leaseVars)
  BY Zenon, NextStep, StutterKept DEF Kept
<1> QED
  BY <1>1, <1>2, InductiveInvariant, PTL DEF Spec, LeaseImplemented, Lease!LeaseSpec

-------------------------------------------------------------------------------
(* The action properties. *)

\* The last history event after a write names the command that wrote.
LEMMA PutEvent ==
    ASSUME IInv, NEW n, NEW e, Put(e, n)
    PROVE  rec' = n /\ LastEvent' = e
<1> DEFINE h == EventOf(e, n)
<1>1. history \in Seq(History) /\ history' = Append(history, h) /\ rec' = n
  BY Zenon DEF IInv, TypeOK, Put
<1>2. h.event = e
  BY Zenon DEF EventOf
<1> HIDE DEF h
<1>3. Len(history') = Len(history) + 1 /\ history'[Len(history) + 1] = h
  BY <1>1
<1> QED
  BY Zenon, <1>1, <1>2, <1>3 DEF LastEvent

\* A write that is neither a claim nor a rewind.
PlainWrite ==
    /\ LastEvent' # "claimed"
    /\ \/ ~terminal_state(rec.state)
       \/ rec'.state = rec.state /\ rec'.due = rec.due

\* A worker's command finds the record running, so it is a plain write.
LEMMA WorkerWrites ==
    ASSUME IInv, NEW t, NEW now, WorkerCommand(t, now), rec' # rec
    PROVE  PlainWrite
<1>1. running_lease(t) => rec # None /\ ~terminal_state(rec.state)
  BY Zenon DEF running_lease, terminal_state, Terminal
<1>2. CASE ExtendLease(t, now)
  BY Zenon, <1>1, <1>2, PutEvent DEF ExtendLease, PlainWrite
<1>3. CASE Complete(t, now)
  BY <1>1, <1>3, PutEvent DEF Complete, PlainWrite
<1>4. ASSUME NEW runAt, Retry(t, now, runAt)
      PROVE  PlainWrite
  BY <1>1, <1>4, PutEvent DEF Retry, PlainWrite
<1>5. CASE Fail(t, now)
  BY <1>1, <1>5, PutEvent DEF Fail, PlainWrite
<1>6. ASSUME NEW from, NEW to, StepContinue(t, from, to, now)
      PROVE  PlainWrite
  BY Zenon, <1>1, <1>6, PutEvent DEF StepContinue, PlainWrite
<1>7. ASSUME NEW logical, Reschedule(t, logical, now)
      PROVE  PlainWrite
  BY <1>1, <1>7, PutEvent DEF Reschedule, PlainWrite
<1> QED
  BY Zenon, <1>2, <1>3, <1>4, <1>5, <1>6, <1>7 DEF WorkerCommand

\* A signal moves only a record that is not closed.
LEMMA SignalWrites ==
    ASSUME IInv, rec # None, NEW s, NEW now \in Nat, signal_allowed(s),
           Put("signaled", signal_next(s, now))
    PROVE  PlainWrite
<1>1. rec' = signal_next(s, now) /\ LastEvent' = "signaled" /\ rec \in Records
  BY Zenon, PutEvent DEF IInv, TypeOK
<1>2. CASE s.to # None
  BY Zenon, <1>1, <1>2 DEF signal_allowed, PlainWrite
<1>3. CASE s.to = None
  <2> DEFINE m == [rec EXCEPT !.version = @ + 1]
  <2>1. m \in Records /\ m.state = rec.state /\ m.due = rec.due
    BY <1>1 DEF Records
  <2>2. rec' = Stamp(m, now)
    BY Zenon, <1>1, <1>3 DEF signal_next
  <2> HIDE DEF m
  <2> QED
    BY <1>1, <2>1, <2>2, StampFields DEF PlainWrite
<1> QED
  BY Zenon, <1>2, <1>3

\* Every change of an existing record is a claim, a rewind or a plain write.
LEMMA Writers ==
    ASSUME IInv, Next, rec # None, rec' # None, rec' # rec
    PROVE  \/ \E w \in Workers, now \in Times : Claim(w, now)
           \/ \E v \in 1 .. MaxVersion, now \in Times, runAt \in Times \cup {None} :
                 Rewind(v, now, runAt)
           \/ PlainWrite
<1>1. PICK now \in Times :
        \/ \E w \in Workers : Claim(w, now)
        \/ \E t \in issued : WorkerCommand(t, now)
        \/ \E t \in issued \cup {None} :
              \/ Cancel(t, now)
              \/ \E from \in States \cup {None}, to \in Steps, runAt \in Times :
                    Transition(t, from, to, now, runAt)
        \/ \E s \in Signals : PlainSignal(s, now) \/ \E k \in SignalKeys : Signal(k, s, now)
        \/ ValuePut
        \/ \E v \in 1 .. MaxVersion, runAt \in Times \cup {None} : Rewind(v, now, runAt)
        \/ ActiveTimeout(now)
  BY Zenon DEF Next, Create, StartAndClaim, RetentionCleanup
<1>2. now \in Nat /\ rec \in Records
  BY BoundsAssumption DEF Times, IInv, TypeOK
<1>3. ASSUME NEW t, Cancel(t, now)
      PROVE  PlainWrite
  BY <1>3, PutEvent DEF Cancel, PlainWrite
<1>4. ASSUME NEW t, NEW from, NEW to, NEW runAt, Transition(t, from, to, now, runAt)
      PROVE  PlainWrite
  BY <1>4, PutEvent DEF Transition, PlainWrite
<1>5. ASSUME NEW s, PlainSignal(s, now)
      PROVE  PlainWrite
  BY Zenon, <1>2, <1>5, SignalWrites DEF PlainSignal
<1>6. ASSUME NEW s, NEW k, Signal(k, s, now)
      PROVE  PlainWrite
  BY Zenon, <1>2, <1>6, SignalWrites DEF Signal, flowVars
<1>7. CASE ValuePut
  <2> DEFINE m == [rec EXCEPT !.version = @ + 1]
  <2>1. Put("value_put", m)
    BY Zenon, <1>7 DEF ValuePut
  <2>2. m.state = rec.state /\ m.due = rec.due
    BY Zenon, <1>2 DEF Records
  <2> HIDE DEF m
  <2> QED
    BY <2>1, <2>2, PutEvent DEF PlainWrite
<1>8. CASE ActiveTimeout(now)
  BY <1>8, PutEvent DEF ActiveTimeout, TimedOut, PlainWrite
<1> QED
  BY ZenonT(40), <1>1, <1>3, <1>4, <1>5, <1>6, <1>7, <1>8, WorkerWrites

\* A claim takes over a leased Flow only at or after the lease deadline: the
\* due index holds the deadline, as last extended, whenever a lease is out.
THEOREM TakeoverAfterDeadline == Spec => NoEarlyTakeover
<1> DEFINE A == /\ rec # None /\ rec.token # None
                /\ rec' # None /\ rec'.version > rec.version /\ LastEvent' = "claimed"
                => rec'.token.at >= rec.deadline
<1>1. ASSUME IInv, Next PROVE A
  <2> SUFFICES ASSUME rec # None, rec.token # None, rec' # None,
                      rec'.version > rec.version, LastEvent' = "claimed"
               PROVE  rec'.token.at >= rec.deadline
    BY Zenon
  <2>1. rec \in Records /\ rec.due = rec.deadline /\ ~(rec.version > rec.version)
    BY <1>1 DEF IInv, TypeOK, LeaseInv, Records
  <2>2. \/ \E w \in Workers, now \in Times : Claim(w, now)
        \/ \E v \in 1 .. MaxVersion, now \in Times, runAt \in Times \cup {None} :
              Rewind(v, now, runAt)
    BY Zenon, <1>1, <2>1, Writers DEF PlainWrite
  <2>3. ASSUME NEW v, NEW now, NEW runAt, Rewind(v, now, runAt)
        PROVE  FALSE
    BY Zenon, <1>1, <2>3, PutEvent DEF Rewind
  <2>4. ASSUME NEW w \in Workers, NEW now \in Times, Claim(w, now)
        PROVE  rec'.token.at >= rec.deadline
    <3> DEFINE s == claim_run_state(rec)
               g == GrantLease(rec, w, now)
               n == [g EXCEPT !.run_state = s]
    <3>1. rec.due <= now /\ Put("claimed", n)
      BY Zenon, <2>4 DEF Claim
    <3>2. now \in Nat /\ rec.deadline \in Nat
      BY <2>1, BoundsAssumption DEF Times, Records
    <3>3. g.token = [worker |-> w, at |-> now, fencing |-> rec.fencing + 1]
      BY Zenon, <2>1 DEF GrantLease, Records
    <3>4. g \in Records
      BY Zenon, <2>1, <3>2, GrantLeaseFields DEF GrantOf
    <3> HIDE DEF g, s
    <3>5. n.token = g.token
      BY Zenon, <3>4 DEF Records
    <3> HIDE DEF n
    <3>6. rec'.token.at = now
      BY <1>1, <3>1, <3>3, <3>5, PutEvent
    <3> QED
      BY Zenon, <2>1, <3>1, <3>2, <3>6
  <2> QED
    BY Zenon, <2>2, <2>3, <2>4
<1>2. IInv /\ [Next]_vars => [A]_vars
  BY Zenon, <1>1
<1> QED
  BY <1>2, InductiveInvariant, PTL DEF Spec, NoEarlyTakeover

\* A closed Flow that is not scheduled stays closed until FLOW.REWIND, which
\* also outdates every credential, whatever late commands arrive.
THEOREM ClosedStaysClosed == Spec => ClosedUntilRewound
<1> DEFINE A == /\ rec # None /\ terminal_state(rec.state) /\ rec.due = None
                /\ rec' # None
                => \/ LastEvent' = "rewound" /\ rec'.fencing = rec.fencing + 1
                   \/ rec'.state = rec.state /\ rec'.due = None
<1>1. ASSUME IInv, Next PROVE A
  <2> SUFFICES ASSUME rec # None, terminal_state(rec.state), rec.due = None,
                      rec' # None, rec' # rec
               PROVE  \/ LastEvent' = "rewound" /\ rec'.fencing = rec.fencing + 1
                      \/ rec'.state = rec.state /\ rec'.due = None
    BY Zenon
  <2>1. CASE PlainWrite
    BY Zenon, <2>1 DEF PlainWrite
  <2>2. ASSUME NEW w, NEW now, Claim(w, now)
        PROVE  FALSE
    BY Zenon, <2>2 DEF Claim
  <2>3. ASSUME NEW v, NEW now \in Times, NEW runAt \in Times \cup {None},
               Rewind(v, now, runAt)
        PROVE  LastEvent' = "rewound" /\ rec'.fencing = rec.fencing + 1
    <3> DEFINE h == history[v]
               n == Stamp([ClearLease(rec) EXCEPT
                        !.state = h.state, !.version = @ + 1,
                        !.attempts = h.attempts, !.fencing = @ + 1,
                        !.due = IF runAt = None THEN h.due ELSE runAt], now)
    <3>1. Put("rewound", n) /\ v \in 1 .. rec.version /\ h.state # "running"
      BY Zenon, <2>3 DEF Rewind
    <3>2. h \in History /\ rec \in Records
      BY <1>1, <3>1 DEF HistoryInv, IInv, TypeOK
    <3>3. now \in Nat /\ runAt \in Nat \cup {None}
      BY BoundsAssumption DEF Times
    <3> HIDE DEF h
    <3>4. FreeOf(n, rec.fencing + 1)
      BY Zenon, <3>1, <3>2, <3>3, RewindFields
    <3> HIDE DEF n
    <3> QED
      BY Zenon, <1>1, <3>1, <3>4, PutEvent DEF FreeOf
  <2> QED
    BY Zenon, <1>1, <2>1, <2>2, <2>3, Writers
<1>2. IInv /\ [Next]_vars => [A]_vars
  BY Zenon, <1>1
<1> QED
  BY <1>2, InductiveInvariant, PTL DEF Spec, ClosedUntilRewound
-------------------------------------------------------------------------------
(* Attempts are counted once. *)

\* The leases a Flow may have spent attempts on.
Granted == Cardinality(issued) + history[1].fencing

\* No version of the record counts more attempts than leases, and while a lease
\* is out its own attempt is still to be counted.  The whole history is in it
\* because a rewind restores the attempts of the event it returns to.
CountedInv ==
    /\ IsFiniteSet(issued)
    /\ rec # None =>
          /\ Len(history) > 0
          /\ \A v \in 1 .. Len(history) : history[v].attempts <= Granted
          /\ rec.token # None => rec.attempts < Granted

\* Every event of the history counts attempts and carries a fencing number.
LEMMA EventFields ==
    ASSUME IInv, NEW v \in 1 .. Len(history)
    PROVE  history[v].attempts \in Nat /\ history[v].fencing \in Nat
<1>1. history[v] \in History
  BY DEF IInv, TypeOK
<1> QED
  BY Zenon, <1>1 DEF History

\* A record written onto an existing history keeps the count, if no lease is
\* forgotten and the new version respects it.
LEMMA PutCounts ==
    ASSUME IInv, CountedInv, rec # None, NEW n \in Records, NEW e, Put(e, n),
           IsFiniteSet(issued'), Cardinality(issued) <= Cardinality(issued'),
           n.attempts <= Cardinality(issued') + history[1].fencing,
           n.token # None => n.attempts < Cardinality(issued') + history[1].fencing
    PROVE  CountedInv'
<1> DEFINE h == EventOf(e, n)
           c == Cardinality(issued)
           d == Cardinality(issued')
<1>1. history \in Seq(History) /\ Len(history) \in Nat /\ Len(history) > 0
  BY DEF IInv, TypeOK, CountedInv
<1>2. rec' = n /\ history' = Append(history, h) /\ h.attempts = n.attempts
  BY Zenon DEF Put, EventOf
<1>3. c \in Nat /\ d \in Nat /\ c <= d
  BY Zenon, FS_CardinalityType DEF CountedInv
<1> HIDE DEF h, c, d
<1>4. /\ Len(history') = Len(history) + 1 /\ history'[Len(history) + 1] = h
      /\ \A v \in 1 .. Len(history) : history'[v] = history[v]
  BY <1>1, <1>2
<1>5. history'[1] = history[1] /\ history[1].fencing \in Nat
  BY <1>1, <1>4, EventFields
<1>6. Granted = c + history[1].fencing /\ Granted' = d + history[1].fencing
  BY Zenon, <1>5 DEF Granted, c, d
<1>7. Granted \in Nat /\ Granted' \in Nat /\ Granted <= Granted'
  BY <1>3, <1>5, <1>6
<1>8. ASSUME NEW v \in 1 .. Len(history') PROVE history'[v].attempts <= Granted'
  <2>1. CASE v \in 1 .. Len(history)
    <3>1. history'[v] = history[v] /\ history[v].attempts \in Nat
      BY Zenon, <1>1, <1>4, <2>1, EventFields
    <3>2. history[v].attempts <= Granted
      BY Zenon, <2>1 DEF CountedInv
    <3> QED
      BY <1>7, <3>1, <3>2
  <2>2. CASE v = Len(history) + 1
    BY Zenon, <1>2, <1>4, <1>6, <2>2 DEF d
  <2> QED
    BY <1>1, <1>4, <2>1, <2>2
<1>9. rec'.token # None => rec'.attempts < Granted'
  BY Zenon, <1>2, <1>6 DEF d
<1> QED
  BY <1>1, <1>4, <1>8, <1>9 DEF CountedInv

\* What the invariant says of the record as it stands.
LEMMA CountedRecord ==
    ASSUME IInv, CountedInv, rec # None
    PROVE  rec.attempts \in Nat /\ Granted \in Nat /\ rec.attempts <= Granted
<1>1. history \in Seq(History) /\ Len(history) \in Nat /\ Len(history) > 0 /\ rec \in Records
  BY DEF IInv, TypeOK, CountedInv
<1>2. history[1].fencing \in Nat /\ Cardinality(issued) \in Nat
  BY <1>1, EventFields, FS_CardinalityType DEF CountedInv
<1>3. history[Len(history)].attempts = rec.attempts
  <2>1. history[Len(history)] = EventOf(history[Len(history)].event, rec)
    BY Zenon DEF IInv, HistoryInv
  <2> QED
    BY <2>1 DEF EventOf
<1>4. history[Len(history)].attempts <= Granted
  BY <1>1 DEF CountedInv
<1> QED
  BY SMTT(30), <1>1, <1>2, <1>3, <1>4 DEF Granted, Records

\* A write that keeps the attempts and grants nothing keeps the count.
LEMMA PlainCounts ==
    ASSUME IInv, CountedInv, rec # None, NEW n \in Records, NEW e, Put(e, n),
           issued' = issued, n.attempts = rec.attempts, n.token = rec.token \/ n.token = None
    PROVE  CountedInv'
<1>1. IsFiniteSet(issued') /\ Cardinality(issued) <= Cardinality(issued')
  BY FS_CardinalityType DEF CountedInv
<1>2. rec.attempts <= Granted /\ (rec.token # None => rec.attempts < Granted)
  BY Zenon, CountedRecord DEF CountedInv
<1> QED
  BY Zenon, <1>1, <1>2, PutCounts DEF Granted

\* A grant adds a lease, for the attempt that is still to be counted.
LEMMA GrantCounts ==
    ASSUME IInv, CountedInv, rec # None, NEW n, NEW e, Put(e, n),
           GrantOf(n, n.token, rec.fencing + 1), n.attempts = rec.attempts,
           issued' = issued \cup {n.token}
    PROVE  CountedInv'
<1>1. n.token \notin issued
  <2>1. rec.fencing \in Nat /\ \A t \in issued : t.fencing \in Nat /\ t.fencing <= rec.fencing
    BY Zenon DEF IInv, TypeOK, FencingInv, Tokens, Records
  <2> QED
    BY <2>1 DEF GrantOf
<1>2. IsFiniteSet(issued') /\ Cardinality(issued') = Cardinality(issued) + 1
  BY Zenon, <1>1, FS_AddElement DEF CountedInv
<1>3. Cardinality(issued) \in Nat /\ rec.attempts \in Nat /\ rec.attempts <= Granted
  BY Zenon, CountedRecord, FS_CardinalityType DEF CountedInv
<1>4. history[1].fencing \in Nat
  BY EventFields DEF IInv, TypeOK, CountedInv
<1>5. rec.attempts < Cardinality(issued') + history[1].fencing
  BY <1>2, <1>3, <1>4 DEF Granted
<1> QED
  BY SMTT(30), <1>2, <1>3, <1>4, <1>5, PutCounts DEF GrantOf

\* Stamping keeps the attempts.
LEMMA StampRest ==
    ASSUME NEW r \in Records, NEW now \in Nat
    PROVE  Stamp(r, now).attempts = r.attempts
BY BoundsAssumption DEF Stamp, Records

\* A created record has no attempts.
LEMMA CreateRest ==
    ASSUME NEW s, NEW now \in Nat, NEW runAt
    PROVE  LET n == create_record(s, now, runAt)
           IN  n.attempts = 0
BY BoundsAssumption DEF create_record, Stamp

\* Closing keeps the attempts.
LEMMA CloseRest ==
    ASSUME rec \in Records, NEW s, NEW now \in Nat
    PROVE  LET n == Close(s, now)
           IN  n.attempts = rec.attempts
BY BoundsAssumption DEF Close, Stamp, ClearLease, Records

\* Moving keeps the attempts; an open record has no retention deadline.
LEMMA MoveToRest ==
    ASSUME rec \in Records, NEW s, NEW now \in Nat, NEW runAt
    PROVE  LET n == MoveTo(s, now, runAt)
           IN  n.attempts = rec.attempts /\ (~terminal_state(s) => n.retain = None)
BY BoundsAssumption DEF MoveTo, Stamp, ClearLease, Records

\* A retry counts one attempt.
LEMMA RetryRest ==
    ASSUME rec \in Records, NEW now \in Nat, NEW runAt
    PROVE  LET n == Stamp(retry_next(now, runAt), now)
           IN  n.attempts = rec.attempts + 1
BY BoundsAssumption DEF retry_next, Stamp, ClearLease, Records

\* A grant keeps the attempts.
LEMMA GrantRest ==
    ASSUME rec \in Records, NEW w, NEW now, NEW s
    PROVE  [GrantLease(rec, w, now) EXCEPT !.run_state = s].attempts = rec.attempts
BY Zenon DEF GrantLease, Records

\* A reschedule keeps the attempts.
LEMMA RescheduleRest ==
    ASSUME rec \in Records, NEW s, NEW runAt
    PROVE  LET n == [ClearLease(rec) EXCEPT !.state = s, !.run_state = None,
                       !.version = @ + 1, !.due = runAt, !.retain = None]
           IN  n.attempts = rec.attempts
BY Zenon DEF ClearLease, Records

\* A rewind takes the attempts of the event it returns to.
LEMMA RewindRest ==
    ASSUME rec \in Records, NEW h, NEW now \in Nat, NEW runAt
    PROVE  LET n == Stamp([ClearLease(rec) EXCEPT
                    !.state = h.state, !.version = @ + 1,
                    !.attempts = h.attempts, !.fencing = @ + 1,
                    !.due = IF runAt = None THEN h.due ELSE runAt], now)
           IN  n.attempts = h.attempts
BY Zenon, BoundsAssumption DEF ClearLease, Records, Stamp

\* FLOW.CREATE has spent nothing.
LEMMA CreateCounts ==
    ASSUME IInv, CountedInv, NEW s \in Steps \cup Terminal, NEW now \in Nat,
           NEW runAt \in Nat, Create(s, now, runAt)
    PROVE  CountedInv'
<1> DEFINE n == create_record(s, now, runAt)
           h == EventOf("created", n)
<1>1. n \in Records /\ n.token = None /\ n.fencing = 0 /\ n.attempts = 0
  BY ZenonT(40), CreateFields, CreateRest DEF FreeOf
<1>2. rec = None /\ rec' = n /\ history' = Append(history, h) /\ issued' = issued
  BY Zenon DEF Create, Put, workerVars
<1> HIDE DEF n
<1>3. h.attempts = 0 /\ h.fencing = 0
  BY Zenon, <1>1 DEF EventOf
<1> HIDE DEF h
<1>4. history = <<>> /\ issued = {}
  BY Zenon, <1>2 DEF IInv, HistoryInv, FencingInv
<1>5. Len(history') = 1 /\ history'[1] = h
  BY <1>2, <1>4
<1>6. IsFiniteSet(issued') /\ Cardinality(issued') = 0
  BY Zenon, <1>2, <1>4, FS_EmptySet
<1>7. Granted' = 0
  BY <1>3, <1>5, <1>6 DEF Granted
<1>8. \A v \in 1 .. Len(history') : v = 1
  BY <1>5
<1> QED
  BY SMTT(30), <1>1, <1>2, <1>3, <1>5, <1>6, <1>7, <1>8 DEF CountedInv

\* FLOW.START_AND_CLAIM counts its first attempt in advance.
LEMMA StartCounts ==
    ASSUME IInv, CountedInv, NEW w \in Workers, NEW s \in Steps, NEW now \in Nat,
           StartAndClaim(w, s, now)
    PROVE  CountedInv'
<1> DEFINE g == GrantLease(create_record(s, now, now), w, now)
           n == [g EXCEPT !.version = 1, !.run_state = s, !.attempts = 1]
           h == EventOf("created", n)
<1>1. n \in Records /\ n.fencing = 1
  BY Zenon, StartFields DEF GrantOf
<1>2. /\ rec = None /\ rec' = n /\ history' = Append(history, h)
      /\ issued' = issued \cup {n.token}
  BY Zenon DEF StartAndClaim, Put
<1>3. n.attempts = 1
  <2>1. g \in Records
    BY Zenon, CreateFields, GrantLeaseFields DEF FreeOf, GrantOf
  <2> HIDE DEF g
  <2> QED
    BY Zenon, <2>1 DEF Records
<1> HIDE DEF n
<1>4. h.attempts = 1 /\ h.fencing = 1
  BY Zenon, <1>1, <1>3 DEF EventOf
<1> HIDE DEF h
<1>5. history = <<>> /\ issued' = {n.token}
  BY Zenon, <1>2 DEF IInv, HistoryInv, FencingInv
<1>6. Len(history') = 1 /\ history'[1] = h
  BY <1>2, <1>5
<1>7. IsFiniteSet(issued') /\ Cardinality(issued') = 1
  BY Zenon, <1>5, FS_Singleton
<1>8. Granted' = 2
  BY <1>4, <1>6, <1>7 DEF Granted
<1>9. \A v \in 1 .. Len(history') : v = 1
  BY <1>6
<1> QED
  BY SMTT(30), <1>2, <1>3, <1>4, <1>6, <1>7, <1>8, <1>9 DEF CountedInv

\* FLOW.RETRY counts the attempt of the lease it ends.
LEMMA RetryCounts ==
    ASSUME IInv, CountedInv, NEW t \in issued, NEW now \in Nat,
           NEW runAt \in Nat \cup {None}, Retry(t, now, runAt)
    PROVE  CountedInv'
<1> DEFINE n == Stamp(retry_next(now, runAt), now)
<1>1. rec # None /\ rec.token = t /\ Put("retry", n) /\ issued' = issued
  BY Zenon DEF Retry, running_lease
<1>2. rec \in Records /\ t # None
  BY Zenon, <1>1, NoneAssumption DEF IInv, TypeOK
<1>3. n \in Records /\ n.token = None /\ n.attempts = rec.attempts + 1
  BY Zenon, <1>2, RetryFields, RetryRest DEF FreeOf
<1> HIDE DEF n
<1>4. rec.attempts < Granted /\ rec.attempts \in Nat /\ Granted \in Nat
  BY Zenon, <1>1, <1>2, CountedRecord DEF CountedInv
<1>5. n.attempts <= Cardinality(issued') + history[1].fencing
  BY <1>1, <1>3, <1>4 DEF Granted
<1>6. IsFiniteSet(issued') /\ Cardinality(issued) <= Cardinality(issued')
  BY <1>1, FS_CardinalityType DEF CountedInv
<1> QED
  BY Zenon, <1>1, <1>3, <1>5, <1>6, PutCounts

\* FLOW.REWIND returns to a count the history holds.
LEMMA RewindCounts ==
    ASSUME IInv, CountedInv, NEW v, NEW now \in Nat, NEW runAt \in Nat \cup {None},
           Rewind(v, now, runAt)
    PROVE  CountedInv'
<1> DEFINE h == history[v]
           n == Stamp([ClearLease(rec) EXCEPT
                    !.state = h.state, !.version = @ + 1,
                    !.attempts = h.attempts, !.fencing = @ + 1,
                    !.due = IF runAt = None THEN h.due ELSE runAt], now)
<1>1. /\ rec # None /\ Put("rewound", n) /\ issued' = issued
      /\ v \in 1 .. rec.version /\ h.state # "running"
  BY Zenon DEF Rewind, workerVars
<1>2. rec \in Records /\ h \in History /\ v \in 1 .. Len(history)
  BY <1>1 DEF IInv, TypeOK, HistoryInv
<1>3. h.attempts <= Granted
  BY Zenon, <1>1, <1>2 DEF CountedInv
<1> HIDE DEF h
<1>4. n \in Records /\ n.token = None /\ n.attempts = h.attempts
  <2>1. FreeOf(n, rec.fencing + 1)
    BY Zenon, <1>1, <1>2, RewindFields
  <2>2. n.attempts = h.attempts
    BY Zenon, <1>2, RewindRest
  <2> QED
    BY Zenon, <2>1, <2>2 DEF FreeOf
<1> HIDE DEF n
<1>5. n.attempts <= Cardinality(issued') + history[1].fencing
  BY Zenon, <1>1, <1>3, <1>4 DEF Granted
<1>6. IsFiniteSet(issued') /\ Cardinality(issued) <= Cardinality(issued')
  BY <1>1, FS_CardinalityType DEF CountedInv
<1> QED
  BY Zenon, <1>1, <1>4, <1>5, <1>6, PutCounts

\* A signal keeps the attempts, wherever it moves the record, and an open record
\* stays without a retention deadline.
LEMMA SignalRest ==
    ASSUME rec \in Records, NEW s \in Signals, NEW now \in Nat
    PROVE  LET n == signal_next(s, now)
           IN  /\ n \in Records /\ n.attempts = rec.attempts
               /\ n.token = rec.token \/ n.token = None
               /\ ~terminal_state(rec.state) => n.retain = None
<1> DEFINE n == signal_next(s, now)
<1>1. CASE s.to = None
  <2> DEFINE m == [rec EXCEPT !.version = @ + 1]
  <2>1. /\ m \in Records /\ m.attempts = rec.attempts /\ m.token = rec.token
        /\ m.state = rec.state
    BY DEF Records
  <2>2. n = Stamp(m, now)
    BY Zenon, <1>1 DEF signal_next
  <2> HIDE DEF m, n
  <2>3. /\ n \in Records /\ n.attempts = rec.attempts /\ n.token = rec.token
        /\ ~terminal_state(rec.state) => n.retain = None
    BY Zenon, <2>1, <2>2, StampFields, StampRest
  <2> QED
    BY Zenon, <2>3 DEF n
<1>2. CASE s.to # None
  <2>1. s.to \in Steps /\ n = MoveTo(s.to, now, now)
    BY ZenonT(40), <1>2, SignalsAssumption DEF signal_next
  <2>2. /\ n \in Records /\ n.attempts = rec.attempts /\ n.token = None
        /\ ~terminal_state(rec.state) => n.retain = None
    <3>1. ~terminal_state(s.to)
      BY Zenon, <2>1, StepsAssumption DEF terminal_state
    <3> HIDE DEF n
    <3>2. FreeOf(n, rec.fencing) /\ n.attempts = rec.attempts /\ n.retain = None
      BY <2>1, <3>1, MoveToFields, MoveToRest
    <3> QED
      BY Zenon, <3>2 DEF FreeOf
  <2> QED
    BY Zenon, <2>2
<1> QED
  BY Zenon, <1>1, <1>2

\* Every command keeps the count.
LEMMA NextCounts ==
    ASSUME IInv, CountedInv, Next
    PROVE  CountedInv'
<1> PICK now \in Times :
        \/ \E s \in InitialStates, runAt \in Times : Create(s, now, runAt)
        \/ \E w \in Workers, s \in Steps : StartAndClaim(w, s, now)
        \/ \E w \in Workers : Claim(w, now)
        \/ \E t \in issued : WorkerCommand(t, now)
        \/ \E t \in issued \cup {None} :
              \/ Cancel(t, now)
              \/ \E from \in States \cup {None}, to \in Steps, runAt \in Times :
                    Transition(t, from, to, now, runAt)
        \/ \E s \in Signals : PlainSignal(s, now) \/ \E k \in SignalKeys : Signal(k, s, now)
        \/ ValuePut
        \/ \E v \in 1 .. MaxVersion, runAt \in Times \cup {None} : Rewind(v, now, runAt)
        \/ ActiveTimeout(now)
        \/ RetentionCleanup(now)
  BY Zenon DEF Next
<1>1. now \in Nat /\ Times \subseteq Nat /\ (rec # None => rec \in Records)
  BY BoundsAssumption DEF Times, IInv, TypeOK
<1>a. ASSUME UNCHANGED <<rec, history, issued>>
      PROVE  CountedInv'
  BY Zenon, <1>a DEF CountedInv, Granted
<1>b. ASSUME NEW s \in Terminal, NEW e, rec # None, Put(e, Close(s, now)), issued' = issued
      PROVE  CountedInv'
  BY ZenonT(40), <1>1, <1>b, CloseFields, CloseRest, PlainCounts DEF FreeOf
<1>2. ASSUME NEW s \in InitialStates, NEW runAt \in Times, Create(s, now, runAt)
      PROVE  CountedInv'
  BY Zenon, <1>1, <1>2, BoundsAssumption, CreateCounts
<1>3. ASSUME NEW w \in Workers, NEW s \in Steps, StartAndClaim(w, s, now)
      PROVE  CountedInv'
  BY Zenon, <1>1, <1>3, StartCounts
<1>4. ASSUME NEW w \in Workers, Claim(w, now)
      PROVE  CountedInv'
  <2> DEFINE s == claim_run_state(rec)
             n == [GrantLease(rec, w, now) EXCEPT !.run_state = s]
  <2>1. rec # None /\ Put("claimed", n) /\ issued' = issued \cup {n.token}
    BY Zenon, <1>4 DEF Claim
  <2>2. s \in Steps \cup Terminal
    BY ZenonT(40), <1>1, <2>1, StepsAssumption DEF claim_run_state, retry_run_state, Records, States
  <2> HIDE DEF s
  <2>3. GrantOf(n, n.token, rec.fencing + 1)
    BY Zenon, <1>1, <2>1, <2>2, GrantForStep
  <2>4. n.attempts = rec.attempts
    BY Zenon, <1>1, <2>1, GrantRest
  <2> HIDE DEF n
  <2> QED
    BY Zenon, <2>1, <2>3, <2>4, GrantCounts
<1>5. ASSUME NEW t \in issued, WorkerCommand(t, now)
      PROVE  CountedInv'
  <2>1. CASE ExtendLease(t, now)
    <3> DEFINE v == rec.version + 1
               d == now + LeaseMs
               n == [rec EXCEPT !.version = v, !.deadline = d, !.due = d]
    <3>1. rec # None /\ Put("lease_extended", n) /\ issued' = issued
      BY Zenon, <2>1 DEF ExtendLease, running_lease, workerVars
    <3>2. rec \in Records /\ v \in Nat /\ d \in Nat
      BY <1>1, <3>1, BoundsAssumption DEF Records
    <3> HIDE DEF v, d
    <3>3. n \in Records /\ n.attempts = rec.attempts /\ n.token = rec.token
      BY Zenon, <3>2 DEF Records
    <3> HIDE DEF n
    <3> QED
      BY Zenon, <3>1, <3>3, PlainCounts
  <2>2. CASE Complete(t, now)
    BY Zenon, <1>a, <1>b, <2>2 DEF Complete, Terminal
  <2>3. ASSUME NEW runAt \in Times \cup {None}, Retry(t, now, runAt)
        PROVE  CountedInv'
    BY Zenon, <1>1, <2>3, RetryCounts
  <2>4. CASE Fail(t, now)
    BY Zenon, <1>b, <2>4 DEF Fail, Terminal, workerVars
  <2>5. ASSUME NEW from \in Steps, NEW to \in Steps, StepContinue(t, from, to, now)
        PROVE  CountedInv'
    <3> DEFINE n == [GrantLease(rec, rec.token.worker, now) EXCEPT !.run_state = to]
    <3>1. /\ rec # None /\ rec.token = t /\ Put("step_continued", n)
          /\ issued' = issued \cup {n.token}
      BY Zenon, <2>5 DEF StepContinue, running_lease
    <3>2. rec.token.worker \in Workers
      BY Zenon, <3>1 DEF IInv, TypeOK, Tokens
    <3>3. GrantOf(n, n.token, rec.fencing + 1)
      BY Zenon, <1>1, <3>1, <3>2, GrantForStep
    <3>4. n.attempts = rec.attempts
      BY Zenon, <1>1, <3>1, GrantRest
    <3> HIDE DEF n
    <3> QED
      BY Zenon, <3>1, <3>3, <3>4, GrantCounts
  <2>6. ASSUME NEW s \in Steps, Reschedule(t, s, now)
        PROVE  CountedInv'
    <3> DEFINE n == [ClearLease(rec) EXCEPT !.state = s, !.run_state = None,
                       !.version = @ + 1, !.due = now, !.retain = None]
    <3>1. rec # None /\ Put("rescheduled", n) /\ issued' = issued
      BY Zenon, <2>6 DEF Reschedule, running_lease, workerVars
    <3>2. FreeOf(n, rec.fencing)
      BY Zenon, <1>1, <3>1, RescheduleFields
    <3>3. n.attempts = rec.attempts
      BY Zenon, <1>1, <3>1, RescheduleRest
    <3> HIDE DEF n
    <3> QED
      BY Zenon, <3>1, <3>2, <3>3, PlainCounts DEF FreeOf
  <2> QED
    BY ZenonT(40), <1>5, <2>1, <2>2, <2>3, <2>4, <2>5, <2>6 DEF WorkerCommand
<1>6. ASSUME NEW t, Cancel(t, now)
      PROVE  CountedInv'
  BY Zenon, <1>b, <1>6 DEF Cancel, Terminal, workerVars
<1>7. ASSUME NEW t, NEW from, NEW to \in Steps, NEW runAt \in Times,
             Transition(t, from, to, now, runAt)
      PROVE  CountedInv'
  <2>1. rec # None /\ Put("transitioned", MoveTo(to, now, runAt)) /\ issued' = issued
    BY Zenon, <1>7 DEF Transition, workerVars
  <2> DEFINE n == MoveTo(to, now, runAt)
  <2>2. runAt \in Nat
    BY BoundsAssumption DEF Times
  <2>3. FreeOf(n, rec.fencing)
    BY Zenon, <1>1, <2>1, <2>2, MoveToFields
  <2>4. n.attempts = rec.attempts
    BY Zenon, <1>1, <2>1, MoveToRest
  <2> HIDE DEF n
  <2> QED
    BY Zenon, <2>1, <2>3, <2>4, PlainCounts DEF FreeOf, n
<1>8. ASSUME NEW s \in Signals, PlainSignal(s, now) \/ \E k \in SignalKeys : Signal(k, s, now)
      PROVE  CountedInv'
  <2>1. CASE rec # None /\ Put("signaled", signal_next(s, now)) /\ issued' = issued
    BY Zenon, <1>1, <2>1, SignalRest, PlainCounts
  <2>2. CASE UNCHANGED <<rec, history, issued>>
    BY Zenon, <1>a, <2>2
  <2> QED
    BY Zenon, <1>8, <2>1, <2>2 DEF PlainSignal, Signal, flowVars, workerVars
<1>9. CASE ValuePut
  <2> DEFINE n == [rec EXCEPT !.version = @ + 1]
  <2>1. rec # None /\ Put("value_put", n) /\ issued' = issued
    BY Zenon, <1>9 DEF ValuePut, workerVars
  <2>2. n \in Records /\ n.attempts = rec.attempts /\ n.token = rec.token
    BY <1>1, <2>1 DEF Records
  <2> HIDE DEF n
  <2> QED
    BY Zenon, <2>1, <2>2, PlainCounts
<1>10. ASSUME NEW v, NEW runAt \in Times \cup {None}, Rewind(v, now, runAt)
       PROVE  CountedInv'
  BY Zenon, <1>1, <1>10, RewindCounts
<1>11. CASE ActiveTimeout(now)
  BY Zenon, <1>b, <1>11 DEF ActiveTimeout, Terminal, workerVars
<1>12. CASE RetentionCleanup(now)
  BY Zenon, <1>12, FS_EmptySet DEF RetentionCleanup, CountedInv
<1> QED
  BY ZenonT(40), <1>2, <1>3, <1>4, <1>5, <1>6, <1>7, <1>8, <1>9, <1>10, <1>11, <1>12

\* A retry delivered several times is counted once: attempts never exceed the
\* leases granted, for any workers, retry limits, rewinds and late commands.
THEOREM AttemptsCounted == Spec => []AttemptsCountLeases
<1>1. Init => CountedInv
  BY Zenon, FS_EmptySet DEF Init, CountedInv
<1>2. IInv /\ CountedInv /\ [Next]_vars => CountedInv'
  <2>1. ASSUME CountedInv, UNCHANGED vars PROVE CountedInv'
    BY Zenon, <2>1 DEF CountedInv, Granted, vars, flowVars, workerVars
  <2> QED
    BY Zenon, <2>1, NextCounts
<1>3. IInv /\ CountedInv => AttemptsCountLeases
  BY Zenon, CountedRecord DEF AttemptsCountLeases, Granted
<1> QED
  BY <1>1, <1>2, <1>3, InductiveInvariant, PTL DEF Spec

-------------------------------------------------------------------------------
(* Keyed signals. *)

\* A key whose last signal found the Flow open has a digest row that never
\* expires.
SignalInv ==
    \A k \in SignalKeys :
        \/ delivered[k] = <<>>
        \/ terminal_state(delivered[k][Len(delivered[k])])
        \/ seen[k] # None /\ seen[k].expire = 0

\* FLOW.SIGNAL under a key.
LEMMA SignalKeeps ==
    ASSUME IInv, SignalInv, OpenSignalIsFinal, NEW k \in SignalKeys, NEW s \in Signals,
           NEW now \in Nat, Signal(k, s, now)
    PROVE  SignalInv' /\ OpenSignalIsFinal'
<1>1. rec # None /\ rec \in Records
  BY Zenon DEF Signal, IInv, TypeOK
<1>2. /\ seen \in [SignalKeys -> SignalRows \cup {None}]
      /\ delivered \in [SignalKeys -> Seq(States)]
  BY Zenon DEF IInv, TypeOK
<1>3. CASE signal_row(k, now) # None
  BY Zenon, <1>3 DEF Signal, SignalInv, OpenSignalIsFinal
<1>4. CASE signal_row(k, now) = None
  <2> DEFINE n == signal_next(s, now)
             row == [digest |-> s, expire |-> IF n.retain = None THEN 0 ELSE n.retain]
             d == delivered[k]
  <2>1. /\ seen' = [seen EXCEPT ![k] = row]
        /\ delivered' = [delivered EXCEPT ![k] = Append(d, rec.state)]
    BY Zenon, <1>4 DEF Signal
  <2>2. n \in Records /\ (~terminal_state(rec.state) => n.retain = None)
    BY Zenon, <1>1, SignalRest
  <2> HIDE DEF n
  <2>3. row \in SignalRows /\ (~terminal_state(rec.state) => row.expire = 0)
    BY Zenon, <2>2 DEF SignalRows, Records
  <2> HIDE DEF row
  <2>4. row # None
    BY Zenon, <2>3, NoneAssumption
  <2>5. d = <<>> \/ terminal_state(d[Len(d)])
    BY Zenon, <1>4 DEF SignalInv, signal_row
  <2>6. d \in Seq(States) /\ rec.state \in States
    BY Zenon, <1>1, <1>2 DEF Records
  <2>7. \A i \in 1 .. Len(d) - 1 : terminal_state(d[i])
    BY Zenon DEF OpenSignalIsFinal
  <2> HIDE DEF d
  <2>8. \A i \in 1 .. Len(d) : terminal_state(d[i])
    BY <2>5, <2>6, <2>7
  <2> DEFINE e == Append(d, rec.state)
  <2>9. /\ Len(e) = Len(d) + 1 /\ e[Len(e)] = rec.state
        /\ \A i \in 1 .. Len(e) - 1 : terminal_state(e[i])
    BY <2>6, <2>8
  <2> HIDE DEF e
  <2>10. /\ seen'[k] = row /\ delivered'[k] = e
         /\ \A j \in SignalKeys : j # k => seen'[j] = seen[j] /\ delivered'[j] = delivered[j]
    BY Zenon, <1>2, <2>1 DEF e
  <2>11. SignalInv'
    BY Zenon, <2>3, <2>4, <2>9, <2>10 DEF SignalInv
  <2>12. OpenSignalIsFinal'
    BY Zenon, <2>9, <2>10 DEF OpenSignalIsFinal
  <2> QED
    BY Zenon, <2>11, <2>12
<1> QED
  BY Zenon, <1>3, <1>4

\* Every command but a keyed signal leaves the signals alone, or forgets them
\* with the Flow.
LEMMA NextSignals ==
    ASSUME IInv, SignalInv, OpenSignalIsFinal, [Next]_vars
    PROVE  SignalInv' /\ OpenSignalIsFinal'
<1>1. ASSUME UNCHANGED signalVars PROVE SignalInv' /\ OpenSignalIsFinal'
  BY Zenon, <1>1 DEF SignalInv, OpenSignalIsFinal, signalVars
<1>2. ASSUME NEW k \in SignalKeys, NEW s \in Signals, NEW now \in Times, Signal(k, s, now)
      PROVE  SignalInv' /\ OpenSignalIsFinal'
  <2>1. now \in Nat
    BY BoundsAssumption DEF Times
  <2> QED
    BY Zenon, <1>2, <2>1, SignalKeeps
<1>3. ASSUME NEW now, RetentionCleanup(now) PROVE SignalInv' /\ OpenSignalIsFinal'
  <2>1. \A k \in SignalKeys : delivered'[k] = <<>>
    BY Zenon, <1>3 DEF RetentionCleanup
  <2>2. \A i \in 1 .. Len(<<>>) - 1 : FALSE
    OBVIOUS
  <2> QED
    BY Zenon, <2>1, <2>2 DEF SignalInv, OpenSignalIsFinal
<1>4. CASE Next /\ ~UNCHANGED signalVars
  <2>1. PICK now \in Times :
           (\E s \in Signals, k \in SignalKeys : Signal(k, s, now)) \/ RetentionCleanup(now)
    BY ZenonT(60), <1>4
    DEF Next, WorkerCommand, Create, StartAndClaim, Claim, ExtendLease, Complete, Retry, Fail,
        StepContinue, Reschedule, Cancel, Transition, PlainSignal, ValuePut, Rewind, ActiveTimeout
  <2> QED
    BY Zenon, <2>1, <1>2, <1>3
<1> QED
  BY Zenon, <1>1, <1>4 DEF vars

\* A signal applied under an idempotency key while the Flow was open is never
\* applied again, for every retention time, however its retries interleave with
\* the commands that close, rewind, sweep and create the Flow anew.
THEOREM OpenSignalsAreFinal == Spec => []OpenSignalIsFinal
<1>1. Init => SignalInv /\ OpenSignalIsFinal
  <2>1. ASSUME Init PROVE \A k \in SignalKeys : delivered[k] = <<>>
    BY Zenon, <2>1 DEF Init
  <2>2. \A i \in 1 .. Len(<<>>) - 1 : FALSE
    OBVIOUS
  <2> QED
    BY Zenon, <2>1, <2>2 DEF SignalInv, OpenSignalIsFinal
<1>2. IInv /\ SignalInv /\ OpenSignalIsFinal /\ [Next]_vars => SignalInv' /\ OpenSignalIsFinal'
  BY Zenon, NextSignals
<1> QED
  BY <1>1, <1>2, InductiveInvariant, PTL DEF Spec
================================================================================
