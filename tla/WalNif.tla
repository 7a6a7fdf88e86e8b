-------------------------------- MODULE WalNif --------------------------------
(***************************************************************************)
(* The append-log NIF: callers put bytes into a shared buffer and ask for  *)
(* an fdatasync; one background thread moves the buffer to the file, syncs *)
(* and answers.  Closing, dropping and a panic of the thread race both.    *)
(*                                                                         *)
(* A write is one element of a sequence: it keeps its place and its        *)
(* identity, not its bytes.  Every lock of the code is a variable or one   *)
(* step: `writer` holds the buffer mutex, `gate` the close gate, and       *)
(* `admission` the sync admission lock.                                    *)
(***************************************************************************)
EXTENDS Integers, Sequences, FiniteSets, Functions

CONSTANTS Clients,         \* BEAM processes holding the handle
          MaxWrites,       \* bound on the writes that are accepted
          MaxSyncs,        \* bound on the sync requests that are admitted
          MaxFaults,       \* bound on failing writes, failing syncs and panics
          max_buffer_bytes,
          QueueMax,        \* capacity of the channel to the thread
          None

ASSUME SizesAssumption ==
    /\ MaxWrites \in Nat /\ MaxSyncs \in Nat /\ MaxFaults \in Nat
    /\ max_buffer_bytes \in Nat /\ QueueMax \in Nat \ {0}
    /\ None \notin Clients \cup {"thread", "ok", "error"} \cup [ok : BOOLEAN, position : Nat]
    /\ "thread" \notin Clients

VARIABLES alive,      \* the flag callers check
          buffer,     \* the shared buffer, oldest first
          writer,     \* the client inside the buffer mutex, or None
          chan,       \* messages to the thread: sync ids, and CloseMsg
          gate,       \* the client holding close_gate, or None
          admission,  \* the client holding sync_admission, or None
          at,         \* where each client is in its call
          joined,     \* thread_handle was taken by a close
          close_error,
          dropped     \* the handle is gone
callerVars == <<writer, gate, admission, at, joined, close_error, dropped>>

VARIABLES pc,         \* where the thread is
          phase,      \* what the drain under way is for
          taken,      \* bytes taken from the buffer, not yet in the file
          callers,    \* sync ids to answer after this cycle
          file,       \* what was written to the file
          durable,    \* length of the part of it that was synced
          close_result
threadVars == <<pc, phase, taken, callers, file, durable, close_result>>

VARIABLES accepted,   \* every write answered :ok, in order
          needs,      \* for each admitted sync, how many writes preceded it
          answers,    \* for each admitted sync, the message it got, if any
          closes,     \* results of the closes that returned, with what they cover
          faults
ghostVars == <<accepted, needs, answers, closes, faults>>
vars == <<alive, buffer, chan, callerVars, threadVars, ghostVars>>

Init ==
    /\ alive = TRUE /\ buffer = <<>> /\ writer = None /\ chan = <<>>
    /\ gate = None /\ admission = None /\ at = [c \in Clients |-> "idle"]
    /\ joined = FALSE /\ close_error = FALSE /\ dropped = FALSE
    /\ pc = "idle" /\ phase = "first" /\ taken = <<>> /\ callers = <<>>
    /\ file = <<>> /\ durable = 0 /\ close_result = None
    /\ accepted = <<>> /\ needs = <<>> /\ answers = <<>> /\ closes = {} /\ faults = 0

\* A message to the thread is the number of a sync, or this one.
CloseMsg == 0

disconnected == pc = "exited"

-------------------------------------------------------------------------------
(* The callers. *)

\* check_alive before the lock.
WriteCheck(c) ==
    /\ at[c] = "idle" /\ ~dropped /\ Len(accepted) + Cardinality({d \in Clients :
           at[d] \in {"checked", "writing"}}) < MaxWrites
    /\ alive
    /\ at' = [at EXCEPT ![c] = "checked"]
    /\ UNCHANGED <<alive, buffer, chan, writer, gate, admission, joined, close_error, dropped,
                   threadVars, ghostVars>>

\* The lock, and the checks under it.
buffer_write(c) ==
    /\ at[c] = "checked" /\ writer = None
    /\ IF alive /\ Len(buffer) < max_buffer_bytes
       THEN writer' = c /\ at' = [at EXCEPT ![c] = "writing"]
       ELSE writer' = None /\ at' = [at EXCEPT ![c] = "idle"]
    /\ UNCHANGED <<alive, buffer, chan, gate, admission, joined, close_error, dropped,
                   threadVars, ghostVars>>

\* extend, and the lock is released.
WriteEnd(c) ==
    /\ at[c] = "writing"
    /\ buffer' = Append(buffer, Len(accepted) + 1)
    /\ accepted' = Append(accepted, Len(accepted) + 1)
    /\ writer' = None /\ at' = [at EXCEPT ![c] = "idle"]
    /\ UNCHANGED <<alive, chan, gate, admission, joined, close_error, dropped, threadVars,
                   needs, answers, closes, faults>>

\* Mutant: sync admission is not serialized with the cleanup after a panic.
request_sync_unguarded(c) ==
    /\ at[c] = "idle" /\ ~dropped
    /\ gate = None
    /\ alive
    /\ gate' = c /\ at' = [at EXCEPT ![c] = "syncing"]
    /\ UNCHANGED <<alive, buffer, chan, writer, admission, joined, close_error, dropped,
                   threadVars, ghostVars>>

\* The try_locks and the check under them; a lock that is held is backpressure.
request_sync(c) ==
    /\ at[c] = "idle" /\ ~dropped
    /\ gate = None /\ admission = None
    /\ alive
    /\ gate' = c /\ admission' = c /\ at' = [at EXCEPT ![c] = "syncing"]
    /\ UNCHANGED <<alive, buffer, chan, writer, joined, close_error, dropped,
                   threadVars, ghostVars>>

\* try_send: admitted, or backpressure because the channel is full, or dead.
SyncSend(c) ==
    /\ at[c] = "syncing"
    /\ IF disconnected \/ Len(chan) >= QueueMax \/ Len(needs) >= MaxSyncs
       THEN UNCHANGED <<chan, needs, answers>>
       ELSE /\ chan' = Append(chan, Len(needs) + 1)
            /\ needs' = Append(needs, Len(accepted))
            /\ answers' = Append(answers, None)
    /\ gate' = None /\ admission' = None /\ at' = [at EXCEPT ![c] = "idle"]
    /\ UNCHANGED <<alive, buffer, writer, joined, close_error, dropped, threadVars,
                   accepted, closes, faults>>

\* close_gate.lock, then the thread handle: the first close takes it.
Close(c) ==
    /\ at[c] = "idle" /\ ~dropped
    /\ gate = None
    /\ IF joined
       THEN /\ closes' = closes \cup {[ok |-> ~close_error, covers |-> Len(accepted)]}
            /\ UNCHANGED <<gate, joined, at>>
       ELSE /\ gate' = c /\ joined' = TRUE /\ at' = [at EXCEPT ![c] = "closing"]
            /\ UNCHANGED closes
    /\ UNCHANGED <<alive, buffer, chan, writer, admission, close_error, dropped, threadVars,
                   accepted, needs, answers, faults>>

\* Mutant: the handle still looks alive during the final drain.
CloseMarkLate(c) ==
    /\ at[c] = "closing"
    /\ at' = [at EXCEPT ![c] = "sending"]
    /\ UNCHANGED <<alive, buffer, chan, writer, gate, admission, joined, close_error, dropped,
                   threadVars, ghostVars>>

\* alive.store(false), before the final drain.
CloseMark(c) ==
    /\ at[c] = "closing"
    /\ alive' = FALSE
    /\ at' = [at EXCEPT ![c] = "sending"]
    /\ UNCHANGED <<buffer, chan, writer, gate, admission, joined, close_error, dropped,
                   threadVars, ghostVars>>

\* close_thread sends, waiting for room in the channel.
CloseSend(c) ==
    /\ at[c] = "sending"
    /\ \/ disconnected /\ UNCHANGED chan
       \/ ~disconnected /\ Len(chan) < QueueMax /\ chan' = Append(chan, CloseMsg)
    /\ at' = [at EXCEPT ![c] = "joining"]
    /\ UNCHANGED <<alive, buffer, writer, gate, admission, joined, close_error, dropped,
                   threadVars, ghostVars>>

\* The result came, or never will, and the thread is joined.
CloseReturn(c) ==
    /\ at[c] = "joining" /\ disconnected
    /\ LET ok == close_result = "ok"
       IN  /\ close_error' = ~ok
           /\ closes' = closes \cup {[ok |-> ok, covers |-> Len(accepted)]}
    /\ gate' = None /\ at' = [at EXCEPT ![c] = "idle"]
    /\ UNCHANGED <<alive, buffer, chan, writer, admission, joined, dropped, threadVars,
                   accepted, needs, answers, faults>>

\* The last reference goes; Close(None) is not waited for.
Drop ==
    /\ ~dropped /\ \A c \in Clients : at[c] = "idle"
    /\ dropped' = TRUE /\ alive' = FALSE
    /\ chan' = IF disconnected \/ Len(chan) >= QueueMax THEN chan ELSE Append(chan, CloseMsg)
    /\ UNCHANGED <<buffer, writer, gate, admission, at, joined, close_error, threadVars, ghostVars>>
-------------------------------------------------------------------------------
(* The background thread. *)

Told(ids, answer) ==
    [s \in DOMAIN answers |-> IF s \in Range(ids) THEN answer ELSE answers[s]]

notify_callers_success == answers' = Told(callers, [ok |-> TRUE, position |-> Len(file)])
notify_callers_error == answers' = Told(callers, [ok |-> FALSE, position |-> 0])

\* A message, or the disconnect once the handle is gone and the channel empty.
\* What it leads to is a drain, for another cycle or for the end.
Receive(first) ==
    /\ \/ /\ chan # <<>>
          /\ chan' = Tail(chan)
          /\ IF Head(chan) = CloseMsg
             THEN phase' = "close" /\ UNCHANGED callers
             ELSE phase' = first /\ callers' = Append(callers, Head(chan))
       \/ /\ chan = <<>> /\ dropped
          /\ phase' = "close"
          /\ UNCHANGED <<chan, callers>>
    /\ pc' = "drain"
    /\ UNCHANGED <<alive, buffer, callerVars, taken, file, durable, close_result, ghostVars>>

\* Phase 1 of thread_loop_inner.
Idle == pc = "idle" /\ Receive("first")

\* Phase 3 of run_sync_cycle: more requests until the commit delay is over.
CommitDelay == pc = "delay" /\ Receive("more")

CommitDelayOver ==
    /\ pc = "delay"
    /\ pc' = "drain" /\ phase' = "last"
    /\ UNCHANGED <<alive, buffer, chan, callerVars, taken, callers, file, durable,
                   close_result, ghostVars>>

AfterDrain(p) == CASE p \in {"first", "more"} -> "delay" [] OTHER -> "sync"

\* drain_to_kernel_writer, under the buffer mutex: the buffer is taken.
Take ==
    /\ pc = "drain" /\ writer = None
    /\ taken' = buffer /\ buffer' = <<>>
    /\ pc' = IF buffer = <<>> THEN AfterDrain(phase) ELSE "write"
    /\ UNCHANGED <<alive, chan, callerVars, phase, callers, file, durable, close_result, ghostVars>>

\* write_all_retry, to the end or until it fails after n of the bytes.
write_all_retry ==
    /\ pc = "write"
    /\ \/ /\ file' = file \o taken /\ taken' = <<>>
          /\ pc' = AfterDrain(phase)
          /\ UNCHANGED faults
       \/ /\ faults < MaxFaults /\ faults' = faults + 1
          /\ \E n \in 0 .. Len(taken) - 1 :
                /\ file' = file \o SubSeq(taken, 1, n)
                /\ taken' = SubSeq(taken, n + 1, Len(taken))
          /\ pc' = "restore"
    /\ UNCHANGED <<alive, buffer, chan, callerVars, phase, callers, durable, close_result,
                   accepted, needs, answers, closes>>

\* Mutant: after a close the thread waits for the next message.
ConcludeGoesOn(ok) ==
    /\ IF ok THEN notify_callers_success ELSE notify_callers_error
    /\ callers' = <<>> /\ pc' = "idle"
    /\ close_result' = IF phase = "close" /\ ok THEN "ok" ELSE close_result
    /\ UNCHANGED alive

\* The end of a cycle: everyone waiting is told, and the thread goes on or ends.
Conclude(ok) ==
    /\ IF ok THEN notify_callers_success ELSE notify_callers_error
    /\ callers' = <<>>
    /\ IF phase = "close"
       THEN /\ pc' = "exited" /\ alive' = FALSE
            /\ close_result' = IF ok THEN "ok" ELSE "error"
       ELSE pc' = "idle" /\ UNCHANGED <<alive, close_result>>

\* prepend, and the cycle failed.
Restore ==
    /\ pc = "restore" /\ writer = None
    /\ buffer' = taken \o buffer /\ taken' = <<>>
    /\ Conclude(FALSE)
    /\ UNCHANGED <<chan, callerVars, phase, file, durable, accepted, needs, closes, faults>>

\* Phase 4 of run_sync_cycle, and the sync of close_drain_and_sync.
sync_data ==
    /\ pc = "sync"
    /\ \/ durable' = Len(file) /\ Conclude(TRUE) /\ UNCHANGED faults
       \/ faults < MaxFaults /\ faults' = faults + 1 /\ Conclude(FALSE) /\ UNCHANGED durable
    /\ UNCHANGED <<buffer, chan, callerVars, phase, taken, file, accepted, needs, closes>>

dead == {"panicked", "cleanup", "leaving", "exited"}

\* The thread panics somewhere in a cycle; what it had taken is lost.
Panic ==
    /\ pc \notin dead
    /\ faults < MaxFaults /\ faults' = faults + 1
    /\ pc' = "panicked" /\ taken' = <<>>
    /\ UNCHANGED <<alive, buffer, chan, callerVars, phase, callers, file, durable, close_result,
                   accepted, needs, answers, closes>>

\* notify_thread_panic, under the admission lock: the callers of the cycle.
notify_thread_panic ==
    /\ pc = "panicked" /\ admission = None
    /\ admission' = "thread" /\ alive' = FALSE
    /\ notify_callers_error
    /\ callers' = <<>> /\ pc' = "cleanup"
    /\ UNCHANGED <<buffer, chan, writer, gate, at, joined, close_error, dropped, phase, taken,
                   file, durable, close_result, accepted, needs, closes, faults>>

\* The callers that are queued; the lock is released.
notify_queued_thread_failure ==
    /\ pc = "cleanup"
    /\ answers' = Told(chan, [ok |-> FALSE, position |-> 0])
    /\ close_result' = IF CloseMsg \in Range(chan) THEN "error" ELSE close_result
    /\ chan' = <<>>
    /\ admission' = None /\ pc' = "leaving"
    /\ UNCHANGED <<alive, buffer, writer, gate, at, joined, close_error, dropped, phase, taken,
                   callers, file, durable, accepted, needs, closes, faults>>

\* The receiver goes, and every message that is still in the channel with it.
Leave ==
    /\ pc = "leaving"
    /\ chan' = <<>> /\ pc' = "exited"
    /\ UNCHANGED <<alive, buffer, callerVars, phase, taken, callers, file, durable, close_result,
                   ghostVars>>

Thread ==
    \/ Idle \/ CommitDelay \/ CommitDelayOver \/ Take \/ write_all_retry \/ Restore
    \/ sync_data \/ notify_thread_panic \/ notify_queued_thread_failure \/ Leave

\* The rest of a call that was begun.
Proceed(c) ==
    buffer_write(c) \/ WriteEnd(c) \/ SyncSend(c) \/ CloseMark(c) \/ CloseSend(c) \/ CloseReturn(c)

Next ==
    \/ \E c \in Clients : WriteCheck(c) \/ request_sync(c) \/ Close(c) \/ Proceed(c)
    \/ Drop
    \/ Thread
    \/ Panic

\* The thread runs, and a call that was begun is carried on.  A thread blocked
\* on the admission lock gets it between two of the calls that only try it.
Fairness ==
    /\ WF_vars(Thread) /\ SF_vars(notify_thread_panic)
    /\ \A c \in Clients : WF_vars(Proceed(c))

Spec == Init /\ [][Next]_vars /\ Fairness
-------------------------------------------------------------------------------
(* Properties. *)

\* Clients hold the locks they are in, and the counters agree with the ghosts.
TypeOK ==
    /\ alive \in BOOLEAN /\ joined \in BOOLEAN /\ close_error \in BOOLEAN /\ dropped \in BOOLEAN
    /\ writer \in Clients \cup {None} /\ gate \in Clients \cup {None}
    /\ admission \in Clients \cup {None, "thread"}
    /\ \A c \in Clients : at[c] \in {"idle", "checked", "writing", "syncing", "closing",
                                      "sending", "joining"}
    /\ pc \in {"idle", "drain", "write", "restore", "delay", "sync"} \cup dead
    /\ phase \in {"first", "more", "last", "close"}
    /\ Len(chan) <= QueueMax /\ durable <= Len(file) /\ Len(answers) = Len(needs)

\* "the failed bytes must be restored before them to preserve WAL order on
\* retry": whatever fails and is retried, the file is a prefix of what was
\* accepted, and what is missing is still buffered (unless the thread died).
WalOrder ==
    IF pc \in dead
    THEN Len(file) <= Len(accepted) /\ file = SubSeq(accepted, 1, Len(file))
    ELSE file \o taken \o buffer = accepted

\* A wal_sync_complete is the truth: all that was accepted before the request
\* is on disk, and so is everything up to the position it names.
SyncedIsDurable ==
    \A s \in DOMAIN answers :
        answers[s] # None /\ answers[s].ok =>
            needs[s] <= answers[s].position /\ answers[s].position <= durable

\* "test_close_is_durable": once a close returned :ok, every write that was
\* answered :ok is on disk, those that raced the close included.
CloseIsDurable == \A r \in closes : r.ok => Len(accepted) <= durable

\* "backpressure": writers cannot fill the buffer past its limit, but a drain
\* that fails puts its bytes back on top of what they wrote meanwhile: the
\* limit is exceeded by itself at most for each failure.
BacklogBounded == Len(buffer) <= (faults + 1) * max_buffer_bytes

\* No byte is lost, repeated or moved, :ok means durable, and what waits to be
\* written stays bounded.
BytesSafe == WalOrder /\ SyncedIsDurable /\ CloseIsDurable /\ BacklogBounded

\* "admitted callers are notified": after the thread ended, no request that was
\* admitted is left without an answer.
NoSyncForgotten ==
    pc = "exited" => \A s \in DOMAIN answers : answers[s] # None

\* Every admitted sync is answered, through failures, a close, a drop or a panic.
SyncAnswered ==
    \A s \in 1 .. MaxSyncs : s \in DOMAIN answers ~> s \in DOMAIN answers /\ answers[s] # None

\* A close does not hang.
CloseReturns == \A c \in Clients : at[c] = "joining" ~> at[c] = "idle"

\* Nobody waits for the thread for ever.
CallsReturn == SyncAnswered /\ CloseReturns
================================================================================
