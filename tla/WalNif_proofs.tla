---------------------------- MODULE WalNif_proofs ----------------------------
(***************************************************************************)
(* Proofs about WalNif, for any number of clients and any bounds: no byte  *)
(* is lost, repeated or moved, an answered sync and a successful close are *)
(* durable, the backlog is bounded, and a thread that ends leaves no       *)
(* admitted sync without an answer.                                        *)
(***************************************************************************)
EXTENDS WalNif, SequenceTheorems, TLAPS

ClientStates == {"idle", "checked", "writing", "syncing", "closing", "sending", "joining"}
Working == {"idle", "drain", "write", "restore", "delay", "sync"}
Answers == {None} \cup [ok : BOOLEAN, position : Nat]

\* What the variables hold.
Flags ==
    /\ alive \in BOOLEAN /\ joined \in BOOLEAN /\ close_error \in BOOLEAN /\ dropped \in BOOLEAN
    /\ at \in [Clients -> ClientStates]
    /\ pc \in Working \cup dead /\ phase \in {"first", "more", "last", "close"}
    /\ close_result \in {None, "ok", "error"}
    /\ closes \in SUBSET [ok : BOOLEAN, covers : Nat]
Queues ==
    /\ chan \in Seq(Nat) /\ callers \in Seq(Nat) /\ needs \in Seq(Nat) /\ answers \in Seq(Answers)
Bytes ==
    /\ file \in Seq(Nat) /\ taken \in Seq(Nat) /\ buffer \in Seq(Nat) /\ accepted \in Seq(Nat)
    /\ durable \in Nat /\ faults \in Nat
Types == Flags /\ Queues /\ Bytes

\* A client is alone in the lock its place in the code needs, and the thread
\* holds the admission lock while it answers the callers that are queued.
Locks ==
    /\ \A c \in Clients : at[c] = "writing" => writer = c
    /\ \A c \in Clients : at[c] = "syncing" => gate = c /\ admission = c
    /\ \A c \in Clients : at[c] \in {"closing", "sending", "joining"} => gate = c
    /\ pc = "cleanup" => admission = "thread"

\* Whatever leads to the end of the thread first clears the flag, and a
\* cleared flag means that nobody is asking for a sync.
Ending ==
    /\ pc \in {"cleanup", "leaving", "exited"} => ~alive
    /\ phase = "close" => ~alive
    /\ dropped => ~alive
    /\ (\E i \in DOMAIN chan : chan[i] = CloseMsg) => ~alive
    /\ \A c \in Clients : at[c] \in {"sending", "joining"} => ~alive
    /\ \A c \in Clients : at[c] = "syncing" => alive

\* No sync is queued behind a close.
CloseLast ==
    /\ \A i, j \in DOMAIN chan : i < j /\ chan[i] = CloseMsg => chan[j] = CloseMsg
    /\ phase = "close" => \A i \in DOMAIN chan : chan[i] = CloseMsg

\* A sync without an answer is queued, or one of those the cycle will answer.
Remembered ==
    /\ DOMAIN answers = DOMAIN needs
    /\ \A s \in DOMAIN answers :
          answers[s] = None =>
              /\ pc \notin {"leaving", "exited"}
              /\ \/ \E i \in DOMAIN callers : callers[i] = s
                 \/ \E i \in DOMAIN chan : chan[i] = s
    /\ pc \in {"idle", "cleanup"} => callers = <<>>

\* Between two drains the thread holds nothing, and the order is kept.
Ordered ==
    /\ WalOrder
    /\ pc \notin {"write", "restore"} => taken = <<>>

\* What preceded a request the cycle will answer is drained before the sync.
Drained ==
    /\ \A s \in DOMAIN needs : needs[s] <= Len(accepted)
    /\ \A i \in DOMAIN callers : callers[i] \in DOMAIN needs
    /\ \A i \in DOMAIN chan : chan[i] \in DOMAIN needs \cup {CloseMsg}
    /\ pc \in {"delay", "sync"} => \A i \in DOMAIN callers : needs[callers[i]] <= Len(file)
    /\ pc = "write" => \A i \in DOMAIN callers : needs[callers[i]] <= Len(file) + Len(taken)

\* Answers are about what was synced.
Synced == SyncedIsDurable /\ durable <= Len(file)

\* The last drain finds no writer inside the mutex and lets no other in, so a
\* close that succeeds has everything; every close that says so is that one.
ClosedWell ==
    /\ phase = "close" /\ pc \in {"write", "sync"} =>
          buffer = <<>> /\ \A c \in Clients : at[c] # "writing"
    /\ close_result = "ok" =>
          /\ pc = "exited" /\ Len(accepted) <= durable
          /\ \A c \in Clients : at[c] # "writing"
    /\ \A r \in closes : r.ok => close_result = "ok"
    /\ joined => \/ \E c \in Clients : at[c] \in {"closing", "sending", "joining"}
                 \/ close_error \/ close_result = "ok"

\* A failed drain returns at most what it took, to a buffer that was refilled
\* to its limit at most.
Backlog ==
    /\ BacklogBounded
    /\ \A c \in Clients : at[c] = "writing" => Len(buffer) < max_buffer_bytes
    /\ pc \in {"write", "restore"} => Len(buffer) <= max_buffer_bytes
    /\ pc = "write" => Len(taken) <= (faults + 1) * max_buffer_bytes
    /\ pc = "restore" => Len(taken) <= faults * max_buffer_bytes

IInv ==
    /\ Types /\ Locks /\ Ending /\ CloseLast /\ Remembered
    /\ Ordered /\ Drained /\ Synced /\ ClosedWell /\ Backlog
-----------------------------------------------------------------------------
(* Sequences *)

\* Queueing: what is at the back, and what was there stays where it was.
LEMMA AtTheBack ==
    ASSUME NEW S, NEW s \in Seq(S), NEW e \in S
    PROVE  /\ Append(s, e) \in Seq(S) /\ DOMAIN s = 1 .. Len(s) /\ Len(s) \in Nat
           /\ DOMAIN Append(s, e) = 1 .. Len(s) + 1
           /\ Append(s, e)[Len(s) + 1] = e
           /\ \A i \in 1 .. Len(s) : Append(s, e)[i] = s[i]
BY AppendProperties, LenProperties

\* Receiving: the rest moves up by one.
LEMMA FromTheFront ==
    ASSUME NEW S, NEW s \in Seq(S), s # <<>>
    PROVE  /\ Head(s) = s[1] /\ s[1] \in S /\ 1 \in DOMAIN s
           /\ Tail(s) \in Seq(S) /\ DOMAIN s = 1 .. Len(s) /\ Len(s) \in Nat
           /\ DOMAIN Tail(s) = 1 .. Len(s) - 1
           /\ \A i \in 1 .. Len(s) - 1 : Tail(s)[i] = s[i + 1]
<1>1. Len(s) \in Nat \ {0} /\ DOMAIN s = 1 .. Len(s)
  BY Zenon, EmptySeq, LenProperties
<1>2. Tail(s) \in Seq(S) /\ Len(Tail(s)) = Len(s) - 1
  BY Zenon, HeadTailProperties
<1>3. DOMAIN Tail(s) = 1 .. Len(s) - 1
  BY Zenon, <1>2, LenProperties
<1>4. \A i \in 1 .. Len(s) - 1 : Tail(s)[i] = s[i + 1]
  BY Zenon, <1>2, HeadTailProperties
<1>5. Head(s) = s[1] /\ s[1] \in S
  BY <1>1, ElementOfSeq
<1>. QED BY <1>1, <1>2, <1>3, <1>4, <1>5

\* The answers after some of the callers were told.
LEMMA ToldAnswers ==
    ASSUME Types, NEW ids \in Seq(Nat), NEW a \in [ok : BOOLEAN, position : Nat]
    PROVE  /\ Told(ids, a) \in Seq(Answers) /\ DOMAIN Told(ids, a) = DOMAIN answers
           /\ \A s \in DOMAIN answers :
                 Told(ids, a)[s] = IF \E i \in DOMAIN ids : ids[i] = s THEN a ELSE answers[s]
<1>1. Len(answers) \in Nat /\ DOMAIN answers = 1 .. Len(answers) /\ answers \in [1 .. Len(answers) -> Answers]
  BY Zenon, LenProperties DEF Types, Queues
<1>2. a \in Answers
  BY Zenon DEF Answers
<1>3. Told(ids, a) \in [1 .. Len(answers) -> Answers]
  BY Zenon, <1>1, <1>2 DEF Told
<1>4. Told(ids, a) \in Seq(Answers)
  BY <1>1, <1>3, SeqDef
<1>5. \A s : s \in Range(ids) <=> \E i \in DOMAIN ids : ids[i] = s
  BY Zenon DEF Range
<1>6. \A s \in DOMAIN answers : Told(ids, a)[s] = IF s \in Range(ids) THEN a ELSE answers[s]
  BY Zenon DEF Told
<1>. QED BY Zenon, <1>1, <1>3, <1>4, <1>5, <1>6 DEF Told

\* A sequence and the same with an element at the back, or without its first.
Grown(s, t, e) ==
    /\ Len(s) \in Nat /\ DOMAIN s = 1 .. Len(s) /\ DOMAIN t = 1 .. Len(s) + 1
    /\ t[Len(s) + 1] = e /\ \A i \in 1 .. Len(s) : t[i] = s[i]
Shrunk(s, t) ==
    /\ Len(s) \in Nat \ {0} /\ DOMAIN s = 1 .. Len(s) /\ DOMAIN t = 1 .. Len(s) - 1
    /\ \A i \in 1 .. Len(s) - 1 : t[i] = s[i + 1]

\* Appending makes a sequence grow at the back.
LEMMA AppendGrows ==
    ASSUME NEW S, NEW s \in Seq(S), NEW e \in S
    PROVE  Append(s, e) \in Seq(S) /\ Grown(s, Append(s, e), e)
BY AtTheBack DEF Grown

\* Receiving takes the first element away.
LEMMA TailShrinks ==
    ASSUME NEW S, NEW s \in Seq(S), s # <<>>
    PROVE  Tail(s) \in Seq(S) /\ Shrunk(s, Tail(s)) /\ Head(s) = s[1] /\ s[1] \in S
<1>1. Len(s) \in Nat \ {0}
  BY Zenon, EmptySeq
<1>. QED BY Zenon, <1>1, FromTheFront DEF Shrunk

\* What the actions on the queues do, element by element.
SyncSendStep(c) ==
    /\ at[c] = "syncing"
    /\ \/ UNCHANGED <<chan, needs, answers>>
       \/ /\ pc # "exited"
          /\ Grown(chan, chan', Len(needs) + 1)
          /\ Grown(needs, needs', Len(accepted)) /\ Grown(answers, answers', None)
    /\ gate' = None /\ admission' = None /\ at' = [at EXCEPT ![c] = "idle"]
    /\ UNCHANGED <<alive, buffer, writer, joined, close_error, dropped, threadVars,
                   accepted, closes, faults>>
CloseQueued == chan' = chan \/ (pc # "exited" /\ Grown(chan, chan', CloseMsg))
ReceiveStep(first) ==
    /\ \/ /\ Shrunk(chan, chan') /\ chan[1] \in Nat
          /\ \/ chan[1] = CloseMsg /\ phase' = "close" /\ callers' = callers
             \/ chan[1] # CloseMsg /\ phase' = first /\ Grown(callers, callers', chan[1])
       \/ chan = <<>> /\ dropped /\ phase' = "close" /\ chan' = chan /\ callers' = callers
    /\ pc' = "drain"
    /\ UNCHANGED <<alive, buffer, callerVars, taken, file, durable, close_result, ghostVars>>
Answered(ids, a) ==
    /\ DOMAIN answers' = DOMAIN answers
    /\ \A s \in DOMAIN answers :
          \/ (\E i \in DOMAIN ids : ids[i] = s) /\ answers'[s] = a
          \/ (\A i \in DOMAIN ids : ids[i] # s) /\ answers'[s] = answers[s]
ConcludeStep(ok) ==
    /\ Answered(callers, [ok |-> ok, position |-> IF ok THEN Len(file) ELSE 0])
    /\ callers' = <<>>
    /\ \/ phase = "close" /\ pc' = "exited" /\ alive' = FALSE
          /\ close_result' = IF ok THEN "ok" ELSE "error"
       \/ phase # "close" /\ pc' = "idle" /\ alive' = alive /\ close_result' = close_result

\* A sync that is admitted is one more at the back of three sequences.
LEMMA SyncSendIs ==
    ASSUME Types, NEW c \in Clients, SyncSend(c)
    PROVE  SyncSendStep(c) /\ Queues'
<1>1. Len(needs) + 1 \in Nat /\ Len(accepted) \in Nat /\ None \in Answers
  BY LenProperties DEF Types, Queues, Bytes, Answers
<1>2. CASE UNCHANGED <<chan, needs, answers>>
  BY Zenon, <1>2 DEF SyncSend, SyncSendStep, Types, Queues, threadVars
<1>3. CASE /\ chan' = Append(chan, Len(needs) + 1) /\ needs' = Append(needs, Len(accepted))
           /\ answers' = Append(answers, None) /\ ~disconnected
  <2>1. chan' \in Seq(Nat) /\ Grown(chan, chan', Len(needs) + 1)
    BY Zenon, <1>1, <1>3, AppendGrows DEF Types, Queues
  <2>2. needs' \in Seq(Nat) /\ Grown(needs, needs', Len(accepted))
    BY Zenon, <1>1, <1>3, AppendGrows DEF Types, Queues
  <2>3. answers' \in Seq(Answers) /\ Grown(answers, answers', None)
    BY Zenon, <1>1, <1>3, AppendGrows DEF Types, Queues
  <2>. QED BY <1>3, <2>1, <2>2, <2>3, Zenon DEF SyncSend, SyncSendStep, Types, Queues, threadVars,
      disconnected
<1>. QED BY <1>2, <1>3, Zenon DEF SyncSend

\* A close is queued at the back, or the thread is gone or gets a disconnect.
LEMMA CloseIsQueued ==
    ASSUME Types, \/ chan' = chan
                  \/ ~disconnected /\ chan' = Append(chan, CloseMsg)
    PROVE  CloseQueued /\ chan' \in Seq(Nat)
<1>1. CloseMsg \in Nat
  BY Zenon DEF CloseMsg
<1>2. Append(chan, CloseMsg) \in Seq(Nat) /\ Grown(chan, Append(chan, CloseMsg), CloseMsg)
  BY Zenon, <1>1, AppendGrows DEF Types, Queues
<1>. QED BY <1>2, Zenon DEF CloseQueued, Types, Queues, disconnected

\* Receiving moves the first message, or finds the disconnect.
LEMMA ReceiveIs ==
    ASSUME Types, NEW first, Receive(first)
    PROVE  ReceiveStep(first) /\ Queues'
<1>1. CASE chan # <<>> /\ chan' = Tail(chan)
  <2>1. chan' \in Seq(Nat) /\ Shrunk(chan, chan') /\ Head(chan) = chan[1] /\ chan[1] \in Nat
    BY Zenon, <1>1, TailShrinks DEF Types, Queues
  <2>2. CASE chan[1] = CloseMsg
    BY <1>1, <2>1, <2>2, Zenon DEF Receive, ReceiveStep, Types, Queues, ghostVars
  <2>3. CASE chan[1] # CloseMsg
    <3>1. callers' = Append(callers, chan[1])
      BY <1>1, <2>1, <2>3, Zenon DEF Receive
    <3>2. callers' \in Seq(Nat) /\ Grown(callers, callers', chan[1])
      BY Zenon, <2>1, <3>1, AppendGrows DEF Types, Queues
    <3>. QED BY <1>1, <2>1, <2>3, <3>2, Zenon DEF Receive, ReceiveStep, Types, Queues, ghostVars
  <2>. QED BY Zenon, <2>2, <2>3
<1>2. CASE chan = <<>>
  BY <1>2, Zenon DEF Receive, ReceiveStep, Types, Queues, ghostVars
<1>. QED BY <1>1, <1>2, Zenon DEF Receive

\* Telling callers answers those and nobody else.
LEMMA ToldIs ==
    ASSUME Types, NEW ids \in Seq(Nat), NEW a \in [ok : BOOLEAN, position : Nat],
           answers' = Told(ids, a)
    PROVE  Answered(ids, a) /\ answers' \in Seq(Answers)
<1>1. /\ answers' \in Seq(Answers) /\ DOMAIN answers' = DOMAIN answers
      /\ \A s \in DOMAIN answers :
            answers'[s] = IF \E i \in DOMAIN ids : ids[i] = s THEN a ELSE answers[s]
  BY ToldAnswers
<1>. QED BY Zenon, <1>1 DEF Answered

\* The end of a cycle answers its callers.
LEMMA ConcludeIs ==
    ASSUME Types, NEW ok \in BOOLEAN, Conclude(ok)
    PROVE  ConcludeStep(ok) /\ answers' \in Seq(Answers) /\ callers' \in Seq(Nat)
<1>. DEFINE a == [ok |-> ok, position |-> IF ok THEN Len(file) ELSE 0]
<1>1. Len(file) \in Nat /\ callers \in Seq(Nat) /\ <<>> \in Seq(Nat)
  BY Zenon, LenProperties, EmptySeq DEF Types, Queues, Bytes
<1>2. a \in [ok : BOOLEAN, position : Nat]
  BY Zenon, <1>1
<1>3. answers' = Told(callers, a)
  BY Zenon DEF Conclude, notify_callers_success, notify_callers_error
<1>. HIDE DEF a
<1>4. Answered(callers, a) /\ answers' \in Seq(Answers)
  BY Zenon, <1>1, <1>2, <1>3, ToldIs
<1>. QED BY Zenon, <1>1, <1>4 DEF Conclude, ConcludeStep, a

\* Concatenation can be regrouped.
LEMMA Regrouped ==
    ASSUME NEW f \in Seq(Nat), NEW t \in Seq(Nat), NEW b \in Seq(Nat)
    PROVE  (f \o t) \o b = f \o (t \o b)
BY SMTT(30)

\* Bytes that move from one part to the next leave the whole as it was.
LEMMA Moved ==
    ASSUME NEW f \in Seq(Nat), NEW t \in Seq(Nat), NEW b \in Seq(Nat)
    PROVE  /\ (f \o t) \o b \in Seq(Nat) /\ t \o b \in Seq(Nat) /\ f \o t \in Seq(Nat)
           /\ Len(t \o b) = Len(t) + Len(b) /\ Len(f \o t) = Len(f) + Len(t)
           /\ Len((f \o t) \o b) = Len(f) + Len(t) + Len(b)
           /\ (f \o <<>>) \o (t \o b) = (f \o t) \o b
           /\ ((f \o t) \o <<>>) \o b = (f \o t) \o b
           /\ (f \o <<>>) \o <<>> = f
<1>1. f \o t \in Seq(Nat) /\ t \o b \in Seq(Nat) /\ Len(f \o t) = Len(f) + Len(t)
      /\ Len(t \o b) = Len(t) + Len(b)
  BY Zenon, ConcatProperties
<1>2. (f \o t) \o b \in Seq(Nat) /\ Len((f \o t) \o b) = Len(f \o t) + Len(b)
  BY <1>1, ConcatProperties
<1>3. f \o <<>> = f /\ (f \o t) \o <<>> = f \o t
  BY Zenon, <1>1, ConcatEmptySeq
<1>4. (f \o t) \o b = f \o (t \o b)
  BY Zenon, Regrouped
<1>. QED BY Zenon, <1>1, <1>2, <1>3, <1>4

\* A write that fails after n bytes leaves the rest to be put back.
LEMMA HalfMoved ==
    ASSUME NEW f \in Seq(Nat), NEW t \in Seq(Nat), NEW b \in Seq(Nat), NEW n \in 0 .. Len(t) - 1
    PROVE  /\ SubSeq(t, 1, n) \in Seq(Nat) /\ SubSeq(t, n + 1, Len(t)) \in Seq(Nat)
           /\ f \o SubSeq(t, 1, n) \in Seq(Nat)
           /\ Len(f \o SubSeq(t, 1, n)) = Len(f) + n
           /\ Len(SubSeq(t, n + 1, Len(t))) = Len(t) - n
           /\ ((f \o SubSeq(t, 1, n)) \o SubSeq(t, n + 1, Len(t))) \o b = (f \o t) \o b
<1>1. Len(t) \in Nat /\ n \in Int /\ \A i \in 1 .. Len(t) : t[i] \in Nat
  BY LenProperties, ElementOfSeq
<1>2. SubSeq(t, 1, n) \in Seq(Nat) /\ Len(SubSeq(t, 1, n)) = n
  <2>1. \A i \in 1 .. n : t[i] \in Nat
    BY <1>1
  <2>. QED BY <1>1, <2>1, SubSeqProperties
<1>3. SubSeq(t, n + 1, Len(t)) \in Seq(Nat) /\ Len(SubSeq(t, n + 1, Len(t))) = Len(t) - n
  <2>1. \A i \in n + 1 .. Len(t) : t[i] \in Nat
    BY <1>1
  <2>. QED BY <1>1, <2>1, SubSeqProperties
<1>4. SubSeq(t, 1, n) \o SubSeq(t, n + 1, Len(t)) = t
  <2>1. 1 \in 1 .. Len(t) + 1 /\ n \in 1 - 1 .. Len(t) /\ Len(t) \in n .. Len(t)
    BY <1>1
  <2>2. SubSeq(t, 1, n) \o SubSeq(t, n + 1, Len(t)) = SubSeq(t, 1, Len(t))
    BY Zenon, <2>1, ConcatAdjacentSubSeq
  <2>. QED BY Zenon, <2>2, SubSeqFull
<1>5. (f \o SubSeq(t, 1, n)) \o SubSeq(t, n + 1, Len(t)) = f \o t
  <2>1. (f \o SubSeq(t, 1, n)) \o SubSeq(t, n + 1, Len(t))
           = f \o (SubSeq(t, 1, n) \o SubSeq(t, n + 1, Len(t)))
    <3>1. ASSUME NEW p \in Seq(Nat), NEW q \in Seq(Nat) PROVE (f \o p) \o q = f \o (p \o q)
      BY Regrouped, ZenonT(40)
    <3>2. SubSeq(t, 1, n) \in Seq(Nat) /\ SubSeq(t, n + 1, Len(t)) \in Seq(Nat)
      BY <1>2, <1>3, Zenon
    <3>. QED BY <3>1, <3>2, Zenon
  <2>. QED BY <1>4, <2>1, Zenon
<1>6. f \o SubSeq(t, 1, n) \in Seq(Nat) /\ Len(f \o SubSeq(t, 1, n)) = Len(f) + n
  BY Zenon, <1>2, ConcatProperties
<1>. QED BY Zenon, <1>2, <1>3, <1>5, <1>6

\* What the file of a dead thread is to what was accepted.
Prefix(f, a) == Len(f) <= Len(a) /\ f = SubSeq(a, 1, Len(f))

\* A sequence is a prefix of whatever continues it.
LEMMA PrefixOf ==
    ASSUME NEW f \in Seq(Nat), NEW u \in Seq(Nat)
    PROVE  Prefix(f, f \o u)
<1>1. Len(f) \in Nat /\ Len(u) \in Nat /\ Len(f \o u) = Len(f) + Len(u)
  BY Zenon, LenProperties, ConcatProperties
<1>2. CASE Len(f) = 0
  <2>1. f = <<>> /\ SubSeq(f \o u, 1, Len(f)) = <<>>
    BY <1>2, SubSeqEmpty, EmptySeq
  <2>. QED BY <1>1, <2>1 DEF Prefix
<1>3. CASE Len(f) # 0
  <2>1. 1 \in 1 .. Len(f) /\ Len(f) \in 1 .. Len(f)
    BY <1>1, <1>3
  <2>2. SubSeq(f \o u, 1, Len(f)) = SubSeq(f, 1, Len(f))
    BY Zenon, <2>1, SubSeqOfConcat1
  <2>. QED BY <1>1, <2>2, SubSeqFull DEF Prefix
<1>. QED BY Zenon, <1>2, <1>3

\* A prefix stays one when the whole grows.
LEMMA PrefixGrows ==
    ASSUME NEW f \in Seq(Nat), NEW a \in Seq(Nat), NEW e \in Nat, Prefix(f, a)
    PROVE  Prefix(f, Append(a, e))
<1>1. Len(f) \in Nat /\ Len(a) \in Nat /\ Len(f) <= Len(a) /\ Len(Append(a, e)) = Len(a) + 1
      /\ f = SubSeq(a, 1, Len(f))
  BY Zenon, LenProperties, AppendProperties DEF Prefix
<1>2. <<e>> \in Seq(Nat) /\ Append(a, e) = a \o <<e>>
  BY AppendIsConcat
<1>3. CASE Len(f) = 0
  <2>1. SubSeq(Append(a, e), 1, Len(f)) = <<>> /\ SubSeq(a, 1, Len(f)) = <<>>
    BY <1>3, SubSeqEmpty
  <2>. QED BY <1>1, <2>1 DEF Prefix
<1>4. CASE Len(f) # 0
  <2>1. 1 \in 1 .. Len(a) /\ Len(f) \in 1 .. Len(a)
    BY <1>1, <1>4
  <2>2. SubSeq(a \o <<e>>, 1, Len(f)) = SubSeq(a, 1, Len(f))
    BY Zenon, <1>2, <2>1, SubSeqOfConcat1
  <2>. QED BY <1>1, <1>2, <2>2 DEF Prefix
<1>. QED BY Zenon, <1>3, <1>4

\* The buffer and the accepted bytes grow together.
LEMMA BothGrow ==
    ASSUME NEW f \in Seq(Nat), NEW t \in Seq(Nat), NEW b \in Seq(Nat), NEW e \in Nat
    PROVE  /\ Append(b, e) \in Seq(Nat) /\ Len(Append(b, e)) = Len(b) + 1
           /\ (f \o t) \o Append(b, e) = Append((f \o t) \o b, e)
<1>1. <<e>> \in Seq(Nat) /\ f \o t \in Seq(Nat) /\ (f \o t) \o b \in Seq(Nat)
  BY Moved
<1>2. Append(b, e) = b \o <<e>> /\ Append((f \o t) \o b, e) = ((f \o t) \o b) \o <<e>>
  BY Zenon, <1>1, AppendIsConcat
<1>3. ((f \o t) \o b) \o <<e>> = (f \o t) \o (b \o <<e>>)
  BY <1>1, Regrouped, ZenonT(40)
<1>4. Append(b, e) \in Seq(Nat) /\ Len(Append(b, e)) = Len(b) + 1
  BY Zenon, AppendProperties
<1>. QED BY Zenon, <1>2, <1>3, <1>4

\* An answer is not the mark of a missing one.
LEMMA AnswerIsSome ==
    /\ \A a \in [ok : BOOLEAN, position : Nat] : a # None
    /\ [ok |-> FALSE, position |-> 0] \in [ok : BOOLEAN, position : Nat]
    /\ \A n \in Nat : [ok |-> TRUE, position |-> n] \in [ok : BOOLEAN, position : Nat]
<1>1. \A a \in [ok : BOOLEAN, position : Nat] : a # None
  BY SizesAssumption, Zenon
<1>2. [ok |-> FALSE, position |-> 0] \in [ok : BOOLEAN, position : Nat]
  BY Zenon
<1>3. \A n \in Nat : [ok |-> TRUE, position |-> n] \in [ok : BOOLEAN, position : Nat]
  BY Zenon
<1>. QED BY <1>1, <1>2, <1>3, Zenon

\* Sequences with the same domain have the same length.
LEMMA SameLength ==
    ASSUME NEW m \in Nat, NEW n \in Nat, 1 .. m = 1 .. n
    PROVE  m = n
<1>1. m > 0 => m \in 1 .. n
  BY m \in 1 .. m \/ m = 0
<1>2. n > 0 => n \in 1 .. m
  BY n \in 1 .. n \/ n = 0
<1>. QED BY <1>1, <1>2

\* What one more failure adds to the bound of the backlog.
LEMMA OneMore ==
    ASSUME NEW f \in Nat, NEW m \in Nat
    PROVE  /\ f * m \in Nat /\ (f + 1) * m \in Nat /\ ((f + 1) + 1) * m \in Nat
           /\ (f + 1) * m = f * m + m /\ ((f + 1) + 1) * m = (f + 1) * m + m
           /\ f + 1 \in Nat
OBVIOUS

\* The file is a prefix of everything.
LEMMA FileFirst ==
    ASSUME NEW f \in Seq(Nat), NEW t \in Seq(Nat), NEW b \in Seq(Nat)
    PROVE  Prefix(f, (f \o t) \o b)
<1>1. t \o b \in Seq(Nat)
  BY Zenon, ConcatProperties
<1>2. Prefix(f, f \o (t \o b))
  BY Zenon, <1>1, PrefixOf
<1>. QED BY <1>2, Regrouped, Zenon

\* Putting back what was taken restores the order.
LEMMA PutBack ==
    ASSUME NEW f \in Seq(Nat), NEW t \in Seq(Nat), NEW b \in Seq(Nat)
    PROVE  (f \o <<>>) \o (t \o b) = (f \o t) \o b
BY SMTT(30), Moved

\* Writing all that was taken leaves nothing behind.
LEMMA AllMoved ==
    ASSUME NEW f \in Seq(Nat), NEW t \in Seq(Nat), NEW b \in Seq(Nat)
    PROVE  ((f \o t) \o <<>>) \o b = (f \o t) \o b
BY Moved

\* Writing some of it leaves the rest.
LEMMA SomeMoved ==
    ASSUME NEW f \in Seq(Nat), NEW t \in Seq(Nat), NEW b \in Seq(Nat)
    PROVE  \A n \in 0 .. Len(t) - 1 :
              ((f \o SubSeq(t, 1, n)) \o SubSeq(t, n + 1, Len(t))) \o b = (f \o t) \o b
<1>. SUFFICES ASSUME NEW n \in 0 .. Len(t) - 1
              PROVE  ((f \o SubSeq(t, 1, n)) \o SubSeq(t, n + 1, Len(t))) \o b = (f \o t) \o b
  BY Zenon
<1>. QED BY HalfMoved, ZenonT(40)

\* A buffer with room for one more byte is within every bound.
LEMMA WithinBound ==
    ASSUME NEW f \in Nat, NEW m \in Nat, NEW n \in Nat, n < m
    PROVE  n + 1 <= m /\ n + 1 <= (f + 1) * m
<1>1. f * m \in Nat /\ (f + 1) * m = f * m + m
  BY Zenon, OneMore
<1>. QED BY <1>1

\* A bound that a failure raises still holds.
LEMMA OneMoreBound ==
    ASSUME NEW f \in Nat, NEW m \in Nat, NEW n \in Nat, n <= (f + 1) * m
    PROVE  n <= ((f + 1) + 1) * m
<1>1. (f + 1) * m \in Nat /\ ((f + 1) + 1) * m = (f + 1) * m + m
  BY Zenon, OneMore
<1>. QED BY <1>1
-----------------------------------------------------------------------------
(* One lemma per part of the invariant, one step per action. *)

\* The flags and the places of the clients and of the thread keep their types.
LEMMA FlagsKept == ASSUME Types, Next PROVE Flags'
<1>1. ASSUME NEW c \in Clients, WriteCheck(c) PROVE Flags'
  BY Zenon, <1>1 DEF WriteCheck, callerVars, threadVars, ghostVars, Types, Flags, ClientStates
<1>2. ASSUME NEW c \in Clients, buffer_write(c) PROVE Flags'
  BY <1>2 DEF buffer_write, callerVars, threadVars, ghostVars, Types, Flags, ClientStates
<1>3. ASSUME NEW c \in Clients, WriteEnd(c) PROVE Flags'
  BY <1>3 DEF WriteEnd, callerVars, threadVars, ghostVars, Types, Flags, ClientStates
<1>4. ASSUME NEW c \in Clients, request_sync(c) PROVE Flags'
  BY Zenon, <1>4 DEF request_sync, callerVars, threadVars, ghostVars, Types, Flags, ClientStates
<1>5. ASSUME NEW c \in Clients, SyncSend(c) PROVE Flags'
  BY <1>5 DEF SyncSend, callerVars, threadVars, ghostVars, Types, Flags, ClientStates
<1>6. ASSUME NEW c \in Clients, Close(c) PROVE Flags'
  <2>1. Len(accepted) \in Nat
    BY Zenon, LenProperties DEF Types, Bytes
  <2>2. \A b \in BOOLEAN : [ok |-> ~b, covers |-> Len(accepted)] \in [ok : BOOLEAN, covers : Nat]
    BY Zenon, <2>1
  <2>3. closes' \in SUBSET [ok : BOOLEAN, covers : Nat]
    BY <1>6, <2>2, Zenon DEF Close, Types, Flags
  <2>4. at' \in [Clients -> ClientStates] /\ joined' \in BOOLEAN
    BY Zenon, <1>6 DEF Close, Types, Flags, ClientStates
  <2>. QED BY <1>6, <2>3, <2>4, Zenon DEF Close, threadVars, Types, Flags
<1>7. ASSUME NEW c \in Clients, CloseMark(c) PROVE Flags'
  BY Zenon, <1>7 DEF CloseMark, callerVars, threadVars, ghostVars, Types, Flags, ClientStates
<1>8. ASSUME NEW c \in Clients, CloseSend(c) PROVE Flags'
  BY <1>8 DEF CloseSend, callerVars, threadVars, ghostVars, Types, Flags, ClientStates
<1>9. ASSUME NEW c \in Clients, CloseReturn(c) PROVE Flags'
  <2>1. Len(accepted) \in Nat
    BY Zenon, LenProperties DEF Types, Bytes
  <2>2. [ok |-> close_result = "ok", covers |-> Len(accepted)] \in [ok : BOOLEAN, covers : Nat]
    BY Zenon, <2>1
  <2>3. closes' \in SUBSET [ok : BOOLEAN, covers : Nat] /\ close_error' \in BOOLEAN
    BY <1>9, <2>2, Zenon DEF CloseReturn, Types, Flags
  <2>4. at' \in [Clients -> ClientStates]
    BY Zenon, <1>9 DEF CloseReturn, Types, Flags, ClientStates
  <2>. QED BY <1>9, <2>3, <2>4, Zenon DEF CloseReturn, threadVars, Types, Flags
<1>10. CASE Drop
  BY Zenon, <1>10 DEF Drop, callerVars, threadVars, ghostVars, Types, Flags
<1>11. CASE Idle
  BY Zenon, <1>11 DEF Idle, Receive, callerVars, threadVars, ghostVars, Types, Flags, Working
<1>12. CASE CommitDelay
  BY Zenon, <1>12 DEF CommitDelay, Receive, callerVars, threadVars, ghostVars, Types, Flags, Working
<1>13. CASE CommitDelayOver
  BY Zenon, <1>13 DEF CommitDelayOver, callerVars, threadVars, ghostVars, Types, Flags, Working
<1>14. CASE Take
  BY Zenon, <1>14 DEF Take, callerVars, threadVars, ghostVars, Types, Flags, Working, AfterDrain
<1>15. CASE write_all_retry
  BY Zenon, <1>15 DEF write_all_retry, callerVars, threadVars, ghostVars, Types, Flags, Working,
      AfterDrain
<1>16. CASE Restore
  BY Zenon, <1>16 DEF Restore, Conclude, callerVars, threadVars, ghostVars, Types, Flags, Working,
      dead
<1>17. CASE sync_data
  BY Zenon, <1>17 DEF sync_data, Conclude, callerVars, threadVars, ghostVars, Types, Flags,
      Working, dead
<1>18. CASE Panic
  BY Zenon, <1>18 DEF Panic, callerVars, threadVars, ghostVars, Types, Flags, dead
<1>19. CASE notify_thread_panic
  BY Zenon, <1>19 DEF notify_thread_panic, callerVars, threadVars, ghostVars, Types, Flags, dead
<1>20. CASE notify_queued_thread_failure
  BY Zenon, <1>20 DEF notify_queued_thread_failure, callerVars, threadVars, ghostVars, Types,
      Flags, dead
<1>21. CASE Leave
  BY Zenon, <1>21 DEF Leave, callerVars, threadVars, ghostVars, Types, Flags, dead
<1>. QED BY Zenon, <1>1, <1>2, <1>3, <1>4, <1>5, <1>6, <1>7, <1>8, <1>9, <1>10, <1>11, <1>12, <1>13, <1>14, <1>15, <1>16, <1>17, <1>18, <1>19, <1>20, <1>21 DEF
    Next, Thread, Proceed

\* The queues and the answers keep their types.
LEMMA QueuesKept == ASSUME Types, Next PROVE Queues'
<1>1. ASSUME NEW c \in Clients, WriteCheck(c) PROVE Queues'
  BY Zenon, <1>1 DEF WriteCheck, callerVars, threadVars, ghostVars, Types, Queues, Answers
<1>2. ASSUME NEW c \in Clients, buffer_write(c) PROVE Queues'
  BY Zenon, <1>2 DEF buffer_write, callerVars, threadVars, ghostVars, Types, Queues, Answers
<1>3. ASSUME NEW c \in Clients, WriteEnd(c) PROVE Queues'
  BY Zenon, <1>3 DEF WriteEnd, callerVars, threadVars, ghostVars, Types, Queues, Answers
<1>4. ASSUME NEW c \in Clients, request_sync(c) PROVE Queues'
  BY Zenon, <1>4 DEF request_sync, callerVars, threadVars, ghostVars, Types, Queues, Answers
<1>5. ASSUME NEW c \in Clients, SyncSend(c) PROVE Queues'
  BY Zenon, <1>5, SyncSendIs
<1>6. ASSUME NEW c \in Clients, Close(c) PROVE Queues'
  BY Zenon, <1>6 DEF Close, callerVars, threadVars, ghostVars, Types, Queues, Answers
<1>7. ASSUME NEW c \in Clients, CloseMark(c) PROVE Queues'
  BY Zenon, <1>7 DEF CloseMark, callerVars, threadVars, ghostVars, Types, Queues, Answers
<1>8. ASSUME NEW c \in Clients, CloseSend(c) PROVE Queues'
  <2>1. chan' \in Seq(Nat)
    BY <1>8, CloseIsQueued, Zenon DEF CloseSend
  <2>. QED BY Zenon, <1>8, <2>1 DEF CloseSend, threadVars, ghostVars, Types, Queues
<1>9. ASSUME NEW c \in Clients, CloseReturn(c) PROVE Queues'
  BY Zenon, <1>9 DEF CloseReturn, callerVars, threadVars, ghostVars, Types, Queues, Answers
<1>10. CASE Drop
  <2>1. chan' \in Seq(Nat)
    BY Zenon, <1>10, CloseIsQueued DEF Drop
  <2>. QED BY Zenon, <1>10, <2>1 DEF Drop, threadVars, ghostVars, Types, Queues
<1>11. CASE Idle
  BY Zenon, <1>11, ReceiveIs DEF Idle
<1>12. CASE CommitDelay
  BY Zenon, <1>12, ReceiveIs DEF CommitDelay
<1>13. CASE CommitDelayOver
  BY Zenon, <1>13 DEF CommitDelayOver, callerVars, threadVars, ghostVars, Types, Queues, Answers
<1>14. CASE Take
  BY Zenon, <1>14 DEF Take, callerVars, threadVars, ghostVars, Types, Queues, Answers
<1>15. CASE write_all_retry
  BY Zenon, <1>15 DEF write_all_retry, callerVars, threadVars, ghostVars, Types, Queues, Answers
<1>16. CASE Restore
  <2>1. answers' \in Seq(Answers) /\ callers' \in Seq(Nat)
    BY Zenon, <1>16, ConcludeIs DEF Restore
  <2>. QED BY Zenon, <1>16, <2>1 DEF Restore, Types, Queues
<1>17. CASE sync_data
  <2>1. answers' \in Seq(Answers) /\ callers' \in Seq(Nat)
    BY Zenon, <1>17, ConcludeIs DEF sync_data
  <2>. QED BY Zenon, <1>17, <2>1 DEF sync_data, Types, Queues
<1>18. CASE Panic
  BY Zenon, <1>18 DEF Panic, callerVars, threadVars, ghostVars, Types, Queues, Answers
<1>19. CASE notify_thread_panic
  <2>1. [ok |-> FALSE, position |-> 0] \in [ok : BOOLEAN, position : Nat] /\ <<>> \in Seq(Nat)
    BY Zenon, EmptySeq
  <2>2. answers' \in Seq(Answers)
    BY Zenon, <1>19, <2>1, ToldIs DEF notify_thread_panic, notify_callers_error, Types, Queues
  <2>. QED BY Zenon, <1>19, <2>1, <2>2 DEF notify_thread_panic, Types, Queues
<1>20. CASE notify_queued_thread_failure
  <2>1. [ok |-> FALSE, position |-> 0] \in [ok : BOOLEAN, position : Nat] /\ <<>> \in Seq(Nat)
    BY Zenon, EmptySeq
  <2>2. answers' \in Seq(Answers)
    BY Zenon, <1>20, <2>1, ToldIs DEF notify_queued_thread_failure, Types, Queues
  <2>. QED BY Zenon, <1>20, <2>1, <2>2 DEF notify_queued_thread_failure, Types, Queues
<1>21. CASE Leave
  BY SMTT(30), <1>21 DEF Leave, callerVars, threadVars, ghostVars, Types, Queues, Answers
<1>. QED BY Zenon, <1>1, <1>2, <1>3, <1>4, <1>5, <1>6, <1>7, <1>8, <1>9, <1>10, <1>11, <1>12, <1>13, <1>14, <1>15, <1>16, <1>17, <1>18, <1>19, <1>20, <1>21 DEF
    Next, Thread, Proceed

\* The bytes keep their types.
LEMMA BytesKept == ASSUME Types, Next PROVE Bytes'
<1>1. ASSUME NEW c \in Clients, WriteCheck(c) PROVE Bytes'
  BY Zenon, <1>1 DEF WriteCheck, callerVars, threadVars, ghostVars, Types, Bytes
<1>2. ASSUME NEW c \in Clients, buffer_write(c) PROVE Bytes'
  BY Zenon, <1>2 DEF buffer_write, callerVars, threadVars, ghostVars, Types, Bytes
<1>3. ASSUME NEW c \in Clients, WriteEnd(c) PROVE Bytes'
  BY <1>3 DEF WriteEnd, callerVars, threadVars, ghostVars, Types, Bytes
<1>4. ASSUME NEW c \in Clients, request_sync(c) PROVE Bytes'
  BY Zenon, <1>4 DEF request_sync, callerVars, threadVars, ghostVars, Types, Bytes
<1>5. ASSUME NEW c \in Clients, SyncSend(c) PROVE Bytes'
  BY Zenon, <1>5 DEF SyncSend, callerVars, threadVars, ghostVars, Types, Bytes
<1>6. ASSUME NEW c \in Clients, Close(c) PROVE Bytes'
  BY Zenon, <1>6 DEF Close, callerVars, threadVars, ghostVars, Types, Bytes
<1>7. ASSUME NEW c \in Clients, CloseMark(c) PROVE Bytes'
  BY Zenon, <1>7 DEF CloseMark, callerVars, threadVars, ghostVars, Types, Bytes
<1>8. ASSUME NEW c \in Clients, CloseSend(c) PROVE Bytes'
  BY Zenon, <1>8 DEF CloseSend, callerVars, threadVars, ghostVars, Types, Bytes
<1>9. ASSUME NEW c \in Clients, CloseReturn(c) PROVE Bytes'
  BY Zenon, <1>9 DEF CloseReturn, callerVars, threadVars, ghostVars, Types, Bytes
<1>10. CASE Drop
  BY Zenon, <1>10 DEF Drop, callerVars, threadVars, ghostVars, Types, Bytes
<1>11. CASE Idle
  BY Zenon, <1>11 DEF Idle, Receive, callerVars, threadVars, ghostVars, Types, Bytes
<1>12. CASE CommitDelay
  BY Zenon, <1>12 DEF CommitDelay, Receive, callerVars, threadVars, ghostVars, Types, Bytes
<1>13. CASE CommitDelayOver
  BY Zenon, <1>13 DEF CommitDelayOver, callerVars, threadVars, ghostVars, Types, Bytes
<1>14. CASE Take
  BY <1>14 DEF Take, callerVars, threadVars, ghostVars, Types, Bytes
<1>15. CASE write_all_retry
  <2>1. /\ <<>> \in Seq(Nat) /\ file \o taken \in Seq(Nat)
        /\ \A n \in 0 .. Len(taken) - 1 : /\ file \o SubSeq(taken, 1, n) \in Seq(Nat)
                                          /\ SubSeq(taken, n + 1, Len(taken)) \in Seq(Nat)
    BY Zenon, EmptySeq, Moved, HalfMoved DEF Types, Bytes
  <2>2. file' \in Seq(Nat) /\ taken' \in Seq(Nat)
    BY <1>15, <2>1, Zenon DEF write_all_retry
  <2>3. faults' \in Nat
    BY <1>15 DEF write_all_retry, Types, Bytes
  <2>. QED BY Zenon, <1>15, <2>2, <2>3 DEF write_all_retry, Types, Bytes
<1>16. CASE Restore
  BY <1>16 DEF Restore, Conclude, callerVars, threadVars, ghostVars, Types, Bytes
<1>17. CASE sync_data
  BY <1>17 DEF sync_data, Conclude, callerVars, threadVars, ghostVars, Types, Bytes
<1>18. CASE Panic
  BY <1>18 DEF Panic, callerVars, threadVars, ghostVars, Types, Bytes
<1>19. CASE notify_thread_panic
  BY Zenon, <1>19 DEF notify_thread_panic, callerVars, threadVars, ghostVars, Types, Bytes
<1>20. CASE notify_queued_thread_failure
  BY Zenon, <1>20 DEF notify_queued_thread_failure, callerVars, threadVars, ghostVars, Types, Bytes
<1>21. CASE Leave
  BY Zenon, <1>21 DEF Leave, callerVars, threadVars, ghostVars, Types, Bytes
<1>. QED BY Zenon, <1>1, <1>2, <1>3, <1>4, <1>5, <1>6, <1>7, <1>8, <1>9, <1>10, <1>11, <1>12, <1>13, <1>14, <1>15, <1>16, <1>17, <1>18, <1>19, <1>20, <1>21 DEF
    Next, Thread, Proceed

\* Every step leaves the locks with those that the code says hold them.
LEMMA LocksKept == ASSUME Types, Locks, Next PROVE Locks'
<1>1. ASSUME NEW c \in Clients, WriteCheck(c) PROVE Locks'
  BY Zenon, <1>1, SizesAssumption DEF WriteCheck, callerVars, threadVars, ghostVars, Types, Flags,
      Locks
<1>2. ASSUME NEW c \in Clients, buffer_write(c) PROVE Locks'
  BY Zenon, <1>2, SizesAssumption DEF buffer_write, callerVars, threadVars, ghostVars, Types,
      Flags, Locks
<1>3. ASSUME NEW c \in Clients, WriteEnd(c) PROVE Locks'
  BY Zenon, <1>3, SizesAssumption DEF WriteEnd, callerVars, threadVars, ghostVars, Types, Flags,
      Locks
<1>4. ASSUME NEW c \in Clients, request_sync(c) PROVE Locks'
  BY Zenon, <1>4, SizesAssumption DEF request_sync, callerVars, threadVars, ghostVars, Types,
      Flags, Locks
<1>5. ASSUME NEW c \in Clients, SyncSend(c) PROVE Locks'
  BY <1>5, SyncSendIs, SizesAssumption DEF SyncSendStep, threadVars, Types, Flags, Locks
<1>6. ASSUME NEW c \in Clients, Close(c) PROVE Locks'
  BY Zenon, <1>6, SizesAssumption DEF Close, callerVars, threadVars, ghostVars, Types, Flags, Locks
<1>7. ASSUME NEW c \in Clients, CloseMark(c) PROVE Locks'
  BY Zenon, <1>7, SizesAssumption DEF CloseMark, callerVars, threadVars, ghostVars, Types, Flags,
      Locks
<1>8. ASSUME NEW c \in Clients, CloseSend(c) PROVE Locks'
  BY Zenon, <1>8, SizesAssumption DEF CloseSend, callerVars, threadVars, ghostVars, Types, Flags,
      Locks
<1>9. ASSUME NEW c \in Clients, CloseReturn(c) PROVE Locks'
  BY Zenon, <1>9, SizesAssumption DEF CloseReturn, callerVars, threadVars, ghostVars, Types,
      Flags, Locks
<1>10. CASE Drop
  BY Zenon, <1>10, SizesAssumption DEF Drop, callerVars, threadVars, ghostVars, Types, Flags, Locks
<1>11. CASE Idle
  BY Zenon, <1>11, SizesAssumption DEF Idle, Receive, callerVars, threadVars, ghostVars, Types,
      Flags, Locks
<1>12. CASE CommitDelay
  BY Zenon, <1>12, SizesAssumption DEF CommitDelay, Receive, callerVars, threadVars, ghostVars,
      Types, Flags, Locks
<1>13. CASE CommitDelayOver
  BY Zenon, <1>13, SizesAssumption DEF CommitDelayOver, callerVars, threadVars, ghostVars, Types,
      Flags, Locks
<1>14. CASE Take
  BY Zenon, <1>14, SizesAssumption DEF Take, callerVars, threadVars, ghostVars, Types, Flags,
      Locks, AfterDrain
<1>15. CASE write_all_retry
  BY Zenon, <1>15, SizesAssumption DEF write_all_retry, callerVars, threadVars, ghostVars, Types,
      Flags, Locks, AfterDrain
<1>16. CASE Restore
  BY Zenon, <1>16, SizesAssumption DEF Restore, Conclude, callerVars, threadVars, ghostVars,
      Types, Flags, Locks
<1>17. CASE sync_data
  BY Zenon, <1>17, SizesAssumption DEF sync_data, Conclude, callerVars, threadVars, ghostVars,
      Types, Flags, Locks
<1>18. CASE Panic
  BY Zenon, <1>18, SizesAssumption DEF Panic, callerVars, threadVars, ghostVars, Types, Flags, Locks
<1>19. CASE notify_thread_panic
  BY Zenon, <1>19, SizesAssumption DEF notify_thread_panic, Types, Flags, Locks
<1>20. CASE notify_queued_thread_failure
  BY Zenon, <1>20, SizesAssumption DEF notify_queued_thread_failure, Types, Flags, Locks
<1>21. CASE Leave
  BY Zenon, <1>21, SizesAssumption DEF Leave, callerVars, threadVars, ghostVars, Types, Flags, Locks
<1>. QED BY Zenon, <1>1, <1>2, <1>3, <1>4, <1>5, <1>6, <1>7, <1>8, <1>9, <1>10, <1>11, <1>12, <1>13, <1>14, <1>15, <1>16, <1>17, <1>18, <1>19, <1>20, <1>21 DEF
    Next, Thread, Proceed

\* The flag stays cleared on the way to the end, and no sync is asked for then.
LEMMA EndingKept == ASSUME Types, Locks, Ending, Next PROVE Ending'
<1>1. ASSUME NEW c \in Clients, WriteCheck(c) PROVE Ending'
  BY Zenon, <1>1 DEF WriteCheck, callerVars, threadVars, ghostVars, Types, Flags, Locks, Ending
<1>2. ASSUME NEW c \in Clients, buffer_write(c) PROVE Ending'
  BY Zenon, <1>2 DEF buffer_write, callerVars, threadVars, ghostVars, Types, Flags, Locks, Ending
<1>3. ASSUME NEW c \in Clients, WriteEnd(c) PROVE Ending'
  BY Zenon, <1>3 DEF WriteEnd, callerVars, threadVars, ghostVars, Types, Flags, Locks, Ending
<1>4. ASSUME NEW c \in Clients, request_sync(c) PROVE Ending'
  BY Zenon, <1>4 DEF request_sync, callerVars, threadVars, ghostVars, Types, Flags, Locks, Ending
<1>5. ASSUME NEW c \in Clients, SyncSend(c) PROVE Ending'
  <2>1. SyncSendStep(c) /\ Len(needs) \in Nat /\ alive
    BY Zenon, <1>5, SyncSendIs, LenProperties DEF Types, Queues, Ending, SyncSend
  <2>2. \A i \in DOMAIN chan' : chan'[i] # CloseMsg
    <3>1. \A i \in DOMAIN chan : chan[i] # CloseMsg
      BY <2>1, Zenon DEF Ending
    <3>2. Len(needs) + 1 # CloseMsg
      BY <2>1 DEF CloseMsg
    <3>3. chan' = chan \/ Grown(chan, chan', Len(needs) + 1)
      BY <2>1, Zenon DEF SyncSendStep
    <3>. QED BY <3>1, <3>2, <3>3 DEF Grown
  <2>. QED BY Zenon, <2>1, <2>2 DEF SyncSendStep, threadVars, Ending, Types, Flags
<1>6. ASSUME NEW c \in Clients, Close(c) PROVE Ending'
  BY Zenon, <1>6 DEF Close, callerVars, threadVars, ghostVars, Types, Flags, Locks, Ending
<1>7. ASSUME NEW c \in Clients, CloseMark(c) PROVE Ending'
  BY Zenon, <1>7 DEF CloseMark, callerVars, threadVars, ghostVars, Types, Flags, Locks, Ending
<1>8. ASSUME NEW c \in Clients, CloseSend(c) PROVE Ending'
  BY Zenon, <1>8 DEF CloseSend, callerVars, threadVars, ghostVars, Types, Flags, Locks, Ending
<1>9. ASSUME NEW c \in Clients, CloseReturn(c) PROVE Ending'
  BY Zenon, <1>9 DEF CloseReturn, callerVars, threadVars, ghostVars, Types, Flags, Locks, Ending
<1>10. CASE Drop
  BY Zenon, <1>10 DEF Drop, callerVars, threadVars, ghostVars, Types, Flags, Locks, Ending
<1>11. CASE Idle
  <2>1. \E first \in {"first", "more"} : ReceiveStep(first)
    BY Zenon, <1>11, ReceiveIs DEF Idle
  <2>2. (\E i \in DOMAIN chan' : chan'[i] = CloseMsg) => ~alive
    BY <2>1 DEF ReceiveStep, Shrunk, Ending
  <2>3. phase' = "close" => ~alive
    BY <2>1 DEF ReceiveStep, Shrunk, Ending
  <2>. QED BY <2>1, <2>2, <2>3 DEF ReceiveStep, callerVars, Ending
<1>12. CASE CommitDelay
  <2>1. \E first \in {"first", "more"} : ReceiveStep(first)
    BY Zenon, <1>12, ReceiveIs DEF CommitDelay
  <2>2. (\E i \in DOMAIN chan' : chan'[i] = CloseMsg) => ~alive
    BY <2>1 DEF ReceiveStep, Shrunk, Ending
  <2>3. phase' = "close" => ~alive
    BY <2>1 DEF ReceiveStep, Shrunk, Ending
  <2>. QED BY <2>1, <2>2, <2>3 DEF ReceiveStep, callerVars, Ending
<1>13. CASE CommitDelayOver
  BY Zenon, <1>13 DEF CommitDelayOver, callerVars, threadVars, ghostVars, Types, Flags, Locks,
      Ending
<1>14. CASE Take
  BY Zenon, <1>14 DEF Take, callerVars, threadVars, ghostVars, Types, Flags, Locks, Ending,
      AfterDrain
<1>15. CASE write_all_retry
  BY Zenon, <1>15 DEF write_all_retry, callerVars, threadVars, ghostVars, Types, Flags, Locks,
      Ending, AfterDrain
<1>16. CASE Restore
  BY Zenon, <1>16 DEF Restore, Conclude, callerVars, threadVars, ghostVars, Types, Flags, Locks,
      Ending
<1>17. CASE sync_data
  BY Zenon, <1>17 DEF sync_data, Conclude, callerVars, threadVars, ghostVars, Types, Flags, Locks,
      Ending
<1>18. CASE Panic
  BY Zenon, <1>18 DEF Panic, callerVars, threadVars, ghostVars, Types, Flags, Locks, Ending
<1>19. CASE notify_thread_panic
  <2>1. \A c \in Clients : at[c] # "syncing"
    BY Zenon, <1>19, SizesAssumption DEF notify_thread_panic, Locks
  <2>. QED BY Zenon, <1>19, <2>1 DEF notify_thread_panic, Ending
<1>20. CASE notify_queued_thread_failure
  BY Zenon, <1>20 DEF notify_queued_thread_failure, callerVars, threadVars, ghostVars, Types,
      Flags, Locks, Ending
<1>21. CASE Leave
  BY Zenon, <1>21 DEF Leave, callerVars, threadVars, ghostVars, Types, Flags, Locks, Ending
<1>. QED BY Zenon, <1>1, <1>2, <1>3, <1>4, <1>5, <1>6, <1>7, <1>8, <1>9, <1>10, <1>11, <1>12, <1>13, <1>14, <1>15, <1>16, <1>17, <1>18, <1>19, <1>20, <1>21 DEF
    Next, Thread, Proceed

\* Nothing is admitted behind a close.
LEMMA CloseLastKept == ASSUME Types, Locks, Ending, CloseLast, Next PROVE CloseLast'
<1>1. ASSUME NEW c \in Clients, WriteCheck(c) PROVE CloseLast'
  BY Zenon, <1>1 DEF WriteCheck, callerVars, threadVars, ghostVars, Types, Flags, Ending, CloseLast
<1>2. ASSUME NEW c \in Clients, buffer_write(c) PROVE CloseLast'
  BY Zenon, <1>2 DEF buffer_write, callerVars, threadVars, ghostVars, Types, Flags, Ending,
      CloseLast
<1>3. ASSUME NEW c \in Clients, WriteEnd(c) PROVE CloseLast'
  BY Zenon, <1>3 DEF WriteEnd, callerVars, threadVars, ghostVars, Types, Flags, Ending, CloseLast
<1>4. ASSUME NEW c \in Clients, request_sync(c) PROVE CloseLast'
  BY Zenon, <1>4 DEF request_sync, callerVars, threadVars, ghostVars, Types, Flags, Ending,
      CloseLast
<1>5. ASSUME NEW c \in Clients, SyncSend(c) PROVE CloseLast'
  <2>1. SyncSendStep(c) /\ Len(needs) \in Nat /\ alive
    BY Zenon, <1>5, SyncSendIs, LenProperties DEF Types, Queues, Ending, SyncSend
  <2>2. \A i \in DOMAIN chan' : chan'[i] # CloseMsg
    <3>1. \A i \in DOMAIN chan : chan[i] # CloseMsg
      BY <2>1, Zenon DEF Ending
    <3>2. Len(needs) + 1 # CloseMsg
      BY <2>1 DEF CloseMsg
    <3>3. chan' = chan \/ Grown(chan, chan', Len(needs) + 1)
      BY <2>1, Zenon DEF SyncSendStep
    <3>. QED BY <3>1, <3>2, <3>3 DEF Grown
  <2>. QED BY Zenon, <2>1, <2>2 DEF SyncSendStep, threadVars, Ending, CloseLast
<1>6. ASSUME NEW c \in Clients, Close(c) PROVE CloseLast'
  BY Zenon, <1>6 DEF Close, callerVars, threadVars, ghostVars, Types, Flags, Ending, CloseLast
<1>7. ASSUME NEW c \in Clients, CloseMark(c) PROVE CloseLast'
  BY Zenon, <1>7 DEF CloseMark, callerVars, threadVars, ghostVars, Types, Flags, Ending, CloseLast
<1>8. ASSUME NEW c \in Clients, CloseSend(c) PROVE CloseLast'
  <2>1. CloseQueued /\ phase' = phase
    BY Zenon, <1>8, CloseIsQueued DEF CloseSend, threadVars
  <2>. QED BY <2>1 DEF CloseQueued, Grown, CloseLast
<1>9. ASSUME NEW c \in Clients, CloseReturn(c) PROVE CloseLast'
  BY Zenon, <1>9 DEF CloseReturn, callerVars, threadVars, ghostVars, Types, Flags, Ending, CloseLast
<1>10. CASE Drop
  <2>1. CloseQueued /\ phase' = phase
    BY Zenon, <1>10, CloseIsQueued DEF Drop, threadVars
  <2>. QED BY <2>1 DEF CloseQueued, Grown, CloseLast
<1>11. CASE Idle
  <2>1. \E first \in {"first", "more"} : ReceiveStep(first)
    BY Zenon, <1>11, ReceiveIs DEF Idle
  <2>2. \A i, j \in DOMAIN chan' : i < j /\ chan'[i] = CloseMsg => chan'[j] = CloseMsg
    BY SMTT(30), <2>1 DEF ReceiveStep, Shrunk, CloseLast
  <2>3. phase' = "close" => \A i \in DOMAIN chan' : chan'[i] = CloseMsg
    BY <2>1 DEF ReceiveStep, Shrunk, CloseLast
  <2>. QED BY Zenon, <2>2, <2>3 DEF CloseLast
<1>12. CASE CommitDelay
  <2>1. \E first \in {"first", "more"} : ReceiveStep(first)
    BY Zenon, <1>12, ReceiveIs DEF CommitDelay
  <2>2. \A i, j \in DOMAIN chan' : i < j /\ chan'[i] = CloseMsg => chan'[j] = CloseMsg
    BY SMTT(30), <2>1 DEF ReceiveStep, Shrunk, CloseLast
  <2>3. phase' = "close" => \A i \in DOMAIN chan' : chan'[i] = CloseMsg
    BY <2>1 DEF ReceiveStep, Shrunk, CloseLast
  <2>. QED BY Zenon, <2>2, <2>3 DEF CloseLast
<1>13. CASE CommitDelayOver
  BY Zenon, <1>13 DEF CommitDelayOver, callerVars, threadVars, ghostVars, Types, Flags, Ending,
      CloseLast
<1>14. CASE Take
  BY Zenon, <1>14 DEF Take, callerVars, threadVars, ghostVars, Types, Flags, Ending, CloseLast
<1>15. CASE write_all_retry
  BY Zenon, <1>15 DEF write_all_retry, callerVars, threadVars, ghostVars, Types, Flags, Ending,
      CloseLast
<1>16. CASE Restore
  BY Zenon, <1>16 DEF Restore, Conclude, callerVars, threadVars, ghostVars, Types, Flags, Ending,
      CloseLast
<1>17. CASE sync_data
  BY Zenon, <1>17 DEF sync_data, Conclude, callerVars, threadVars, ghostVars, Types, Flags,
      Ending, CloseLast
<1>18. CASE Panic
  BY Zenon, <1>18 DEF Panic, callerVars, threadVars, ghostVars, Types, Flags, Ending, CloseLast
<1>19. CASE notify_thread_panic
  BY Zenon, <1>19 DEF notify_thread_panic, callerVars, threadVars, ghostVars, Types, Flags,
      Ending, CloseLast
<1>20. CASE notify_queued_thread_failure
  BY <1>20 DEF notify_queued_thread_failure, callerVars, threadVars, ghostVars, Types, Flags,
      Ending, CloseLast
<1>21. CASE Leave
  BY <1>21 DEF Leave, callerVars, threadVars, ghostVars, Types, Flags, Ending, CloseLast
<1>. QED BY Zenon, <1>1, <1>2, <1>3, <1>4, <1>5, <1>6, <1>7, <1>8, <1>9, <1>10, <1>11, <1>12, <1>13, <1>14, <1>15, <1>16, <1>17, <1>18, <1>19, <1>20, <1>21 DEF
    Next, Thread, Proceed

\* No step forgets a caller: it is queued, with the cycle, or answered.
LEMMA RememberedKept == ASSUME Types, Locks, Ending, CloseLast, Remembered, Next PROVE Remembered'
<1>1. ASSUME NEW c \in Clients, WriteCheck(c) PROVE Remembered'
  BY Zenon, <1>1 DEF WriteCheck, callerVars, threadVars, ghostVars, Types, Flags, Locks, Ending,
      CloseLast, Remembered
<1>2. ASSUME NEW c \in Clients, buffer_write(c) PROVE Remembered'
  BY Zenon, <1>2 DEF buffer_write, callerVars, threadVars, ghostVars, Types, Flags, Locks, Ending,
      CloseLast, Remembered
<1>3. ASSUME NEW c \in Clients, WriteEnd(c) PROVE Remembered'
  BY Zenon, <1>3 DEF WriteEnd, callerVars, threadVars, ghostVars, Types, Flags, Locks, Ending,
      CloseLast, Remembered
<1>4. ASSUME NEW c \in Clients, request_sync(c) PROVE Remembered'
  BY Zenon, <1>4 DEF request_sync, callerVars, threadVars, ghostVars, Types, Flags, Locks, Ending,
      CloseLast, Remembered
<1>5. ASSUME NEW c \in Clients, SyncSend(c) PROVE Remembered'
  <2>1. SyncSendStep(c) /\ Len(needs) = Len(answers) /\ alive
    <3>1. SyncSendStep(c) /\ alive
      BY Zenon, <1>5, SyncSendIs DEF Ending, SyncSend
    <3>2. /\ Len(needs) \in Nat /\ DOMAIN needs = 1 .. Len(needs)
          /\ Len(answers) \in Nat /\ DOMAIN answers = 1 .. Len(answers)
      BY Zenon, LenProperties DEF Types, Queues
    <3>3. 1 .. Len(needs) = 1 .. Len(answers)
      BY <3>2, Zenon DEF Remembered
    <3>. QED BY <3>1, <3>2, <3>3, SameLength, Zenon
  <2>2. CASE UNCHANGED <<chan, needs, answers>>
    BY Zenon, <2>1, <2>2 DEF SyncSendStep, threadVars, Remembered
  <2>3. CASE /\ Grown(chan, chan', Len(needs) + 1) /\ pc # "exited"
             /\ Grown(needs, needs', Len(accepted)) /\ Grown(answers, answers', None)
    <3>1. pc \notin {"leaving", "exited"}
      BY Zenon, <2>1 DEF Ending
    <3>2. DOMAIN answers' = DOMAIN needs'
      BY Zenon, <2>1, <2>3 DEF Grown
    <3>3. \A s \in DOMAIN answers' : answers'[s] = None =>
             (\E i \in DOMAIN callers : callers[i] = s) \/ (\E i \in DOMAIN chan' : chan'[i] = s)
      BY SMTT(30), <2>1, <2>3 DEF Grown, Remembered
    <3>. QED BY Zenon, <2>1, <3>1, <3>2, <3>3 DEF SyncSendStep, threadVars, Remembered
  <2>. QED BY Zenon, <2>1, <2>2, <2>3 DEF SyncSendStep
<1>6. ASSUME NEW c \in Clients, Close(c) PROVE Remembered'
  BY Zenon, <1>6 DEF Close, callerVars, threadVars, ghostVars, Types, Flags, Locks, Ending,
      CloseLast, Remembered
<1>7. ASSUME NEW c \in Clients, CloseMark(c) PROVE Remembered'
  BY Zenon, <1>7 DEF CloseMark, callerVars, threadVars, ghostVars, Types, Flags, Locks, Ending,
      CloseLast, Remembered
<1>8. ASSUME NEW c \in Clients, CloseSend(c) PROVE Remembered'
  <2>1. CloseQueued /\ UNCHANGED <<threadVars, ghostVars>>
    BY Zenon, <1>8, CloseIsQueued DEF CloseSend
  <2>2. \A i \in DOMAIN chan : i \in DOMAIN chan' /\ chan'[i] = chan[i]
    BY <2>1 DEF CloseQueued, Grown
  <2>. QED BY <2>1, <2>2 DEF threadVars, ghostVars, Remembered
<1>9. ASSUME NEW c \in Clients, CloseReturn(c) PROVE Remembered'
  BY Zenon, <1>9 DEF CloseReturn, callerVars, threadVars, ghostVars, Types, Flags, Locks, Ending,
      CloseLast, Remembered
<1>10. CASE Drop
  <2>1. CloseQueued /\ UNCHANGED <<threadVars, ghostVars>>
    BY Zenon, <1>10, CloseIsQueued DEF Drop
  <2>2. \A i \in DOMAIN chan : i \in DOMAIN chan' /\ chan'[i] = chan[i]
    BY <2>1 DEF CloseQueued, Grown
  <2>. QED BY <2>1, <2>2 DEF threadVars, ghostVars, Remembered
<1>11. CASE Idle
  <2>1. \E first \in {"first", "more"} : ReceiveStep(first)
    BY Zenon, <1>11, ReceiveIs DEF Idle
  <2>2. pc \notin {"leaving", "exited"} /\ DOMAIN answers = 1 .. Len(answers)
    BY Zenon, <1>11, LenProperties DEF Idle, Types, Queues
  <2>3. \A s \in DOMAIN answers : answers[s] = None =>
           (\E i \in DOMAIN callers' : callers'[i] = s) \/ (\E i \in DOMAIN chan' : chan'[i] = s)
    <3>1. SUFFICES ASSUME NEW s \in DOMAIN answers, answers[s] = None
                   PROVE  (\E i \in DOMAIN callers' : callers'[i] = s) \/ (\E i \in DOMAIN chan' : chan'[i] = s)
      BY Zenon
    <3>2. s # CloseMsg
      BY <2>2, <3>1 DEF CloseMsg
    <3>3. CASE \E i \in DOMAIN callers : callers[i] = s
      BY <2>1, <3>3 DEF ReceiveStep, Grown
    <3>4. CASE \E i \in DOMAIN chan : chan[i] = s
      <4>1. PICK i \in DOMAIN chan : chan[i] = s
        BY Zenon, <3>4
      <4>2. CASE chan = <<>>
        BY Zenon, <2>1, <4>1, <4>2 DEF ReceiveStep, Shrunk
      <4>3. CASE Shrunk(chan, chan') /\ i = 1
        BY <2>1, <3>2, <4>1, <4>3 DEF ReceiveStep, Grown
      <4>4. CASE Shrunk(chan, chan') /\ i # 1
        <5>1. i - 1 \in DOMAIN chan' /\ chan'[i - 1] = chan[i]
          BY <4>1, <4>4 DEF Shrunk
        <5>. QED BY Zenon, <4>1, <5>1
      <4>. QED BY Zenon, <2>1, <4>2, <4>3, <4>4 DEF ReceiveStep
    <3>. QED BY Zenon, <3>1, <3>3, <3>4 DEF Remembered
  <2>. QED BY Zenon, <2>1, <2>2, <2>3 DEF ReceiveStep, ghostVars, Remembered
<1>12. CASE CommitDelay
  <2>1. \E first \in {"first", "more"} : ReceiveStep(first)
    BY Zenon, <1>12, ReceiveIs DEF CommitDelay
  <2>2. pc \notin {"leaving", "exited"} /\ DOMAIN answers = 1 .. Len(answers)
    BY SMTT(30), <1>12, LenProperties DEF CommitDelay, Types, Queues
  <2>3. \A s \in DOMAIN answers : answers[s] = None =>
           (\E i \in DOMAIN callers' : callers'[i] = s) \/ (\E i \in DOMAIN chan' : chan'[i] = s)
    <3>1. SUFFICES ASSUME NEW s \in DOMAIN answers, answers[s] = None
                   PROVE  (\E i \in DOMAIN callers' : callers'[i] = s) \/ (\E i \in DOMAIN chan' : chan'[i] = s)
      BY Zenon
    <3>2. s # CloseMsg
      BY <2>2, <3>1 DEF CloseMsg
    <3>3. CASE \E i \in DOMAIN callers : callers[i] = s
      BY <2>1, <3>3 DEF ReceiveStep, Grown
    <3>4. CASE \E i \in DOMAIN chan : chan[i] = s
      <4>1. PICK i \in DOMAIN chan : chan[i] = s
        BY Zenon, <3>4
      <4>2. CASE chan = <<>>
        BY Zenon, <2>1, <4>1, <4>2 DEF ReceiveStep, Shrunk
      <4>3. CASE Shrunk(chan, chan') /\ i = 1
        BY <2>1, <3>2, <4>1, <4>3 DEF ReceiveStep, Grown
      <4>4. CASE Shrunk(chan, chan') /\ i # 1
        <5>1. i - 1 \in DOMAIN chan' /\ chan'[i - 1] = chan[i]
          BY <4>1, <4>4 DEF Shrunk
        <5>. QED BY Zenon, <4>1, <5>1
      <4>. QED BY Zenon, <2>1, <4>2, <4>3, <4>4 DEF ReceiveStep
    <3>. QED BY Zenon, <3>1, <3>3, <3>4 DEF Remembered
  <2>. QED BY Zenon, <2>1, <2>2, <2>3 DEF ReceiveStep, ghostVars, Remembered
<1>13. CASE CommitDelayOver
  BY Zenon, <1>13 DEF CommitDelayOver, callerVars, threadVars, ghostVars, Types, Flags, Locks,
      Ending, CloseLast, Remembered
<1>14. CASE Take
  BY Zenon, <1>14 DEF Take, callerVars, threadVars, ghostVars, Types, Flags, Locks, Ending,
      CloseLast, Remembered, AfterDrain
<1>15. CASE write_all_retry
  BY Zenon, <1>15 DEF write_all_retry, callerVars, threadVars, ghostVars, Types, Flags, Locks,
      Ending, CloseLast, Remembered, AfterDrain
<1>16. CASE Restore
  <2>1. \E ok \in BOOLEAN : ConcludeStep(ok)
    BY Zenon, <1>16, ConcludeIs DEF Restore
  <2>2. phase = "close" => \A s \in DOMAIN answers, i \in DOMAIN chan : chan[i] # s
    <3>1. DOMAIN answers = 1 .. Len(answers)
      BY Zenon, LenProperties DEF Types, Queues
    <3>. QED BY <3>1 DEF CloseLast, CloseMsg
  <2>3. [ok |-> TRUE, position |-> Len(file)] # None /\ [ok |-> FALSE, position |-> 0] # None
    <3>1. Len(file) \in Nat
      BY Zenon, LenProperties DEF Types, Bytes
    <3>. QED BY <3>1, AnswerIsSome, Zenon
  <2>4. \A s \in DOMAIN answers' : answers'[s] = None => answers[s] = None /\ \A i \in DOMAIN callers : callers[i] # s
    BY Zenon, <2>1, <2>3 DEF ConcludeStep, Answered
  <2>5. DOMAIN answers' = DOMAIN answers /\ callers' = <<>> /\ pc' \in {"idle", "exited"} /\ (pc' = "exited" => phase = "close")
    BY Zenon, <2>1 DEF ConcludeStep, Answered
  <2>6. \A s \in DOMAIN answers' : answers'[s] = None => phase # "close" /\ \E i \in DOMAIN chan : chan[i] = s
    BY <2>2, <2>4, <2>5 DEF Remembered
  <2>. QED BY Zenon, <1>16, <2>5, <2>6 DEF Restore, Remembered
<1>17. CASE sync_data
  <2>1. \E ok \in BOOLEAN : ConcludeStep(ok)
    BY Zenon, <1>17, ConcludeIs DEF sync_data
  <2>2. phase = "close" => \A s \in DOMAIN answers, i \in DOMAIN chan : chan[i] # s
    <3>1. DOMAIN answers = 1 .. Len(answers)
      BY Zenon, LenProperties DEF Types, Queues
    <3>. QED BY <3>1 DEF CloseLast, CloseMsg
  <2>3. [ok |-> TRUE, position |-> Len(file)] # None /\ [ok |-> FALSE, position |-> 0] # None
    <3>1. Len(file) \in Nat
      BY Zenon, LenProperties DEF Types, Bytes
    <3>. QED BY <3>1, AnswerIsSome, Zenon
  <2>4. \A s \in DOMAIN answers' : answers'[s] = None => answers[s] = None /\ \A i \in DOMAIN callers : callers[i] # s
    BY Zenon, <2>1, <2>3 DEF ConcludeStep, Answered
  <2>5. DOMAIN answers' = DOMAIN answers /\ callers' = <<>> /\ pc' \in {"idle", "exited"} /\ (pc' = "exited" => phase = "close")
    BY Zenon, <2>1 DEF ConcludeStep, Answered
  <2>6. \A s \in DOMAIN answers' : answers'[s] = None => phase # "close" /\ \E i \in DOMAIN chan : chan[i] = s
    BY <2>2, <2>4, <2>5 DEF Remembered
  <2>. QED BY Zenon, <1>17, <2>5, <2>6 DEF sync_data, Remembered
<1>18. CASE Panic
  BY Zenon, <1>18 DEF Panic, callerVars, threadVars, ghostVars, Types, Flags, Locks, Ending,
      CloseLast, Remembered
<1>19. CASE notify_thread_panic
  <2>1. [ok |-> FALSE, position |-> 0] # None /\ [ok |-> FALSE, position |-> 0] \in [ok : BOOLEAN, position : Nat]
    BY AnswerIsSome, Zenon
  <2>2. Answered(callers, [ok |-> FALSE, position |-> 0])
    BY Zenon, <1>19, <2>1, ToldIs DEF notify_thread_panic, notify_callers_error, Types, Queues
  <2>. QED BY Zenon, <1>19, <2>1, <2>2 DEF notify_thread_panic, Remembered, Answered
<1>20. CASE notify_queued_thread_failure
  <2>1. [ok |-> FALSE, position |-> 0] # None /\ [ok |-> FALSE, position |-> 0] \in [ok : BOOLEAN, position : Nat]
    BY AnswerIsSome, Zenon
  <2>2. Answered(chan, [ok |-> FALSE, position |-> 0])
    BY Zenon, <1>20, <2>1, ToldIs DEF notify_queued_thread_failure, Types, Queues
  <2>3. callers = <<>> /\ DOMAIN callers = {}
    BY <1>20 DEF notify_queued_thread_failure, Remembered
  <2>4. \A s \in DOMAIN answers' : answers'[s] # None
    BY <2>1, <2>2, <2>3 DEF Answered, Remembered
  <2>. QED BY Zenon, <1>20, <2>2, <2>4 DEF notify_queued_thread_failure, Remembered, Answered
<1>21. CASE Leave
  BY Zenon, <1>21 DEF Leave, callerVars, threadVars, ghostVars, Types, Flags, Locks, Ending,
      CloseLast, Remembered
<1>. QED BY SMTT(30), <1>1, <1>2, <1>3, <1>4, <1>5, <1>6, <1>7, <1>8, <1>9, <1>10, <1>11, <1>12, <1>13, <1>14, <1>15, <1>16, <1>17, <1>18, <1>19, <1>20, <1>21 DEF
    Next, Thread, Proceed

\* Every step moves bytes in order, whatever fails.
LEMMA OrderedKept == ASSUME Types, Ordered, Next PROVE Ordered'
<1>1. ASSUME NEW c \in Clients, WriteCheck(c) PROVE Ordered'
  BY Zenon, <1>1 DEF WriteCheck, callerVars, threadVars, ghostVars, Types, Ordered, WalOrder
<1>2. ASSUME NEW c \in Clients, buffer_write(c) PROVE Ordered'
  BY Zenon, <1>2 DEF buffer_write, callerVars, threadVars, ghostVars, Types, Ordered, WalOrder
<1>3. ASSUME NEW c \in Clients, WriteEnd(c) PROVE Ordered'
  <2>1. /\ file \in Seq(Nat) /\ taken \in Seq(Nat) /\ buffer \in Seq(Nat) /\ accepted \in Seq(Nat)
        /\ Len(accepted) + 1 \in Nat
    BY LenProperties DEF Types, Bytes
  <2>2. /\ (file \o taken) \o Append(buffer, Len(accepted) + 1)
             = Append((file \o taken) \o buffer, Len(accepted) + 1)
        /\ Prefix(file, accepted) => Prefix(file, Append(accepted, Len(accepted) + 1))
    <3>1. (file \o taken) \o Append(buffer, Len(accepted) + 1)
             = Append((file \o taken) \o buffer, Len(accepted) + 1)
      BY <2>1, BothGrow, SMTT(30)
    <3>2. Prefix(file, accepted) => Prefix(file, Append(accepted, Len(accepted) + 1))
      BY <2>1, PrefixGrows, ZenonT(40)
    <3>. QED BY <3>1, <3>2, Zenon
  <2>. QED BY <1>3, <2>2, Zenon DEF WriteEnd, threadVars, Ordered, WalOrder, Prefix
<1>4. ASSUME NEW c \in Clients, request_sync(c) PROVE Ordered'
  BY Zenon, <1>4 DEF request_sync, callerVars, threadVars, ghostVars, Types, Ordered, WalOrder
<1>5. ASSUME NEW c \in Clients, SyncSend(c) PROVE Ordered'
  BY Zenon, <1>5 DEF SyncSend, callerVars, threadVars, ghostVars, Types, Ordered, WalOrder
<1>6. ASSUME NEW c \in Clients, Close(c) PROVE Ordered'
  BY Zenon, <1>6 DEF Close, callerVars, threadVars, ghostVars, Types, Ordered, WalOrder
<1>7. ASSUME NEW c \in Clients, CloseMark(c) PROVE Ordered'
  BY Zenon, <1>7 DEF CloseMark, callerVars, threadVars, ghostVars, Types, Ordered, WalOrder
<1>8. ASSUME NEW c \in Clients, CloseSend(c) PROVE Ordered'
  BY Zenon, <1>8 DEF CloseSend, callerVars, threadVars, ghostVars, Types, Ordered, WalOrder
<1>9. ASSUME NEW c \in Clients, CloseReturn(c) PROVE Ordered'
  BY Zenon, <1>9 DEF CloseReturn, callerVars, threadVars, ghostVars, Types, Ordered, WalOrder
<1>10. CASE Drop
  BY Zenon, <1>10 DEF Drop, callerVars, threadVars, ghostVars, Types, Ordered, WalOrder
<1>11. CASE Idle
  BY Zenon, <1>11 DEF Idle, Receive, callerVars, threadVars, ghostVars, Types, Ordered, WalOrder,
      dead
<1>12. CASE CommitDelay
  BY Zenon, <1>12 DEF CommitDelay, Receive, callerVars, threadVars, ghostVars, Types, Ordered,
      WalOrder, dead
<1>13. CASE CommitDelayOver
  BY Zenon, <1>13 DEF CommitDelayOver, callerVars, threadVars, ghostVars, Types, Ordered,
      WalOrder, dead
<1>14. CASE Take
  BY <1>14 DEF Take, callerVars, threadVars, ghostVars, Types, Ordered, WalOrder, AfterDrain, dead
<1>15. CASE write_all_retry
  <2>1. file \in Seq(Nat) /\ taken \in Seq(Nat) /\ buffer \in Seq(Nat)
    BY Zenon DEF Types, Bytes
  <2>2. (file \o taken) \o buffer = accepted /\ pc' \in {"delay", "sync", "restore"}
    BY Zenon, <1>15 DEF write_all_retry, Ordered, WalOrder, AfterDrain, dead
  <2>3. pc' \notin dead
    BY Zenon, <2>2 DEF dead
  <2>4. /\ ((file \o taken) \o <<>>) \o buffer = (file \o taken) \o buffer
        /\ \A n \in 0 .. Len(taken) - 1 :
              ((file \o SubSeq(taken, 1, n)) \o SubSeq(taken, n + 1, Len(taken))) \o buffer
                 = (file \o taken) \o buffer
    <3>1. ((file \o taken) \o <<>>) \o buffer = (file \o taken) \o buffer
      BY <2>1, AllMoved, Zenon
    <3>. QED BY <2>1, <3>1, SomeMoved, Zenon
  <2>5. (file' \o taken') \o buffer' = accepted'
    BY <1>15, <2>2, <2>4, Zenon DEF write_all_retry
  <2>6. pc' \notin {"write", "restore"} => taken' = <<>>
    BY <1>15, Zenon DEF write_all_retry
  <2>. QED BY <2>3, <2>5, <2>6, Zenon DEF Ordered, WalOrder, Prefix
<1>16. CASE Restore
  <2>1. file \in Seq(Nat) /\ taken \in Seq(Nat) /\ buffer \in Seq(Nat)
    BY Zenon DEF Types, Bytes
  <2>2. (file \o taken) \o buffer = accepted
    BY Zenon, <1>16 DEF Restore, Ordered, WalOrder, dead
  <2>3. (file \o <<>>) \o (taken \o buffer) = (file \o taken) \o buffer
    BY <2>1, PutBack, Zenon
  <2>4. Prefix(file, accepted)
    <3>1. Prefix(file, (file \o taken) \o buffer)
      BY <2>1, FileFirst, Zenon
    <3>. QED BY <2>2, <3>1, Zenon
  <2>. QED BY <1>16, <2>2, <2>3, <2>4, Zenon DEF Restore, Ordered, WalOrder, Prefix
<1>17. CASE sync_data
  <2>1. file \in Seq(Nat) /\ taken \in Seq(Nat) /\ buffer \in Seq(Nat)
    BY Zenon DEF Types, Bytes
  <2>2. (file \o taken) \o buffer = accepted
    BY Zenon, <1>17 DEF sync_data, Ordered, WalOrder, dead
  <2>3. Prefix(file, accepted)
    <3>1. Prefix(file, (file \o taken) \o buffer)
      BY <2>1, FileFirst, Zenon
    <3>. QED BY <2>2, <3>1, Zenon
  <2>. QED BY Zenon, <1>17, <2>2, <2>3 DEF sync_data, Ordered, WalOrder, Prefix, dead
<1>18. CASE Panic
  <2>1. file \in Seq(Nat) /\ taken \in Seq(Nat) /\ buffer \in Seq(Nat)
    BY Zenon DEF Types, Bytes
  <2>2. (file \o taken) \o buffer = accepted
    BY Zenon, <1>18 DEF Panic, Ordered, WalOrder, dead
  <2>3. Prefix(file, accepted)
    <3>1. Prefix(file, (file \o taken) \o buffer)
      BY <2>1, FileFirst, Zenon
    <3>. QED BY <2>2, <3>1, Zenon
  <2>. QED BY Zenon, <1>18, <2>2, <2>3 DEF Panic, Ordered, WalOrder, Prefix, dead
<1>19. CASE notify_thread_panic
  BY Zenon, <1>19 DEF notify_thread_panic, callerVars, threadVars, ghostVars, Types, Ordered,
      WalOrder, dead
<1>20. CASE notify_queued_thread_failure
  BY Zenon, <1>20 DEF notify_queued_thread_failure, callerVars, threadVars, ghostVars, Types,
      Ordered, WalOrder, dead
<1>21. CASE Leave
  BY SMTT(30), <1>21 DEF Leave, callerVars, threadVars, ghostVars, Types, Ordered, WalOrder, dead
<1>. QED BY Zenon, <1>1, <1>2, <1>3, <1>4, <1>5, <1>6, <1>7, <1>8, <1>9, <1>10, <1>11, <1>12, <1>13, <1>14, <1>15, <1>16, <1>17, <1>18, <1>19, <1>20, <1>21 DEF
    Next, Thread, Proceed

\* A cycle drains what its callers asked for before it syncs.
LEMMA DrainedKept == ASSUME Types, Remembered, Ordered, Drained, Next PROVE Drained'
<1>1. ASSUME NEW c \in Clients, WriteCheck(c) PROVE Drained'
  BY Zenon, <1>1 DEF WriteCheck, callerVars, threadVars, ghostVars, Types, Queues, Remembered,
      Ordered, WalOrder, Drained
<1>2. ASSUME NEW c \in Clients, buffer_write(c) PROVE Drained'
  BY Zenon, <1>2 DEF buffer_write, callerVars, threadVars, ghostVars, Types, Queues, Remembered,
      Ordered, WalOrder, Drained
<1>3. ASSUME NEW c \in Clients, WriteEnd(c) PROVE Drained'
  BY <1>3 DEF WriteEnd, callerVars, threadVars, ghostVars, Types, Queues, Remembered, Ordered,
      WalOrder, Drained
<1>4. ASSUME NEW c \in Clients, request_sync(c) PROVE Drained'
  BY Zenon, <1>4 DEF request_sync, callerVars, threadVars, ghostVars, Types, Queues, Remembered,
      Ordered, WalOrder, Drained
<1>5. ASSUME NEW c \in Clients, SyncSend(c) PROVE Drained'
  <2>1. SyncSendStep(c) /\ Len(needs) \in Nat /\ Len(accepted) \in Nat
    BY Zenon, <1>5, SyncSendIs, LenProperties DEF Types, Queues, Bytes
  <2>2. UNCHANGED <<pc, callers, file, taken, accepted>>
    BY Zenon, <2>1 DEF SyncSendStep, threadVars
  <2>3. CASE UNCHANGED <<chan, needs>>
    BY Zenon, <2>2, <2>3 DEF Drained
  <2>4. CASE Grown(chan, chan', Len(needs) + 1) /\ Grown(needs, needs', Len(accepted))
    <3>1. \A s \in DOMAIN needs' : needs'[s] <= Len(accepted)
      BY <2>1, <2>4 DEF Grown, Drained
    <3>2. \A s \in DOMAIN needs : s \in DOMAIN needs' /\ needs'[s] = needs[s]
      BY <2>4 DEF Grown
    <3>3. \A i \in DOMAIN chan' : chan'[i] \in DOMAIN needs' \cup {CloseMsg}
      BY <2>1, <2>4, <3>2 DEF Grown, Drained
    <3>. QED BY <2>2, <3>1, <3>2, <3>3, Zenon DEF Drained
  <2>. QED BY Zenon, <2>1, <2>3, <2>4 DEF SyncSendStep
<1>6. ASSUME NEW c \in Clients, Close(c) PROVE Drained'
  BY Zenon, <1>6 DEF Close, callerVars, threadVars, ghostVars, Types, Queues, Remembered, Ordered,
      WalOrder, Drained
<1>7. ASSUME NEW c \in Clients, CloseMark(c) PROVE Drained'
  BY Zenon, <1>7 DEF CloseMark, callerVars, threadVars, ghostVars, Types, Queues, Remembered,
      Ordered, WalOrder, Drained
<1>8. ASSUME NEW c \in Clients, CloseSend(c) PROVE Drained'
  <2>1. CloseQueued /\ UNCHANGED <<threadVars, ghostVars>>
    BY Zenon, <1>8, CloseIsQueued DEF CloseSend
  <2>2. \A i \in DOMAIN chan' : chan'[i] \in DOMAIN needs \cup {CloseMsg}
    BY <2>1 DEF CloseQueued, Grown, Drained
  <2>. QED BY Zenon, <2>1, <2>2 DEF threadVars, ghostVars, Drained
<1>9. ASSUME NEW c \in Clients, CloseReturn(c) PROVE Drained'
  BY Zenon, <1>9 DEF CloseReturn, callerVars, threadVars, ghostVars, Types, Queues, Remembered,
      Ordered, WalOrder, Drained
<1>10. CASE Drop
  <2>1. CloseQueued /\ UNCHANGED <<threadVars, ghostVars>>
    BY Zenon, <1>10, CloseIsQueued DEF Drop
  <2>2. \A i \in DOMAIN chan' : chan'[i] \in DOMAIN needs \cup {CloseMsg}
    BY <2>1 DEF CloseQueued, Grown, Drained
  <2>. QED BY Zenon, <2>1, <2>2 DEF threadVars, ghostVars, Drained
<1>11. CASE Idle
  <2>1. \E first \in {"first", "more"} : ReceiveStep(first)
    BY Zenon, <1>11, ReceiveIs DEF Idle
  <2>2. \A i \in DOMAIN chan' : chan'[i] \in DOMAIN needs \cup {CloseMsg}
    BY <2>1 DEF ReceiveStep, Shrunk, Drained
  <2>3. \A i \in DOMAIN callers' : callers'[i] \in DOMAIN needs
    BY SMTT(30), <2>1 DEF ReceiveStep, Shrunk, Grown, Drained
  <2>. QED BY Zenon, <2>1, <2>2, <2>3 DEF ReceiveStep, ghostVars, Drained
<1>12. CASE CommitDelay
  <2>1. \E first \in {"first", "more"} : ReceiveStep(first)
    BY Zenon, <1>12, ReceiveIs DEF CommitDelay
  <2>2. \A i \in DOMAIN chan' : chan'[i] \in DOMAIN needs \cup {CloseMsg}
    BY <2>1 DEF ReceiveStep, Shrunk, Drained
  <2>3. \A i \in DOMAIN callers' : callers'[i] \in DOMAIN needs
    BY SMTT(30), <2>1 DEF ReceiveStep, Shrunk, Grown, Drained
  <2>. QED BY Zenon, <2>1, <2>2, <2>3 DEF ReceiveStep, ghostVars, Drained
<1>13. CASE CommitDelayOver
  BY Zenon, <1>13 DEF CommitDelayOver, callerVars, threadVars, ghostVars, Types, Queues,
      Remembered, Ordered, WalOrder, Drained
<1>14. CASE Take
  <2>1. /\ file \in Seq(Nat) /\ taken = <<>> /\ buffer \in Seq(Nat)
        /\ (file \o taken) \o buffer = accepted
    BY Zenon, <1>14 DEF Types, Bytes, Take, Ordered, WalOrder, dead
  <2>2. Len(accepted) = Len(file) + Len(buffer)
    <3>1. <<>> \in Seq(Nat) /\ Len(<<>>) = 0 /\ Len(file) \in Nat /\ Len(buffer) \in Nat
      BY Zenon, <2>1, EmptySeq, LenProperties
    <3>2. Len((file \o <<>>) \o buffer) = Len(file) + Len(<<>>) + Len(buffer)
      BY <2>1, <3>1, Moved
    <3>. QED BY <2>1, <3>1, <3>2
  <2>3. \A i \in DOMAIN callers : needs[callers[i]] <= Len(file) + Len(buffer)
    BY Zenon, <2>2 DEF Drained
  <2>4. buffer = <<>> => Len(file) + Len(buffer) = Len(file)
    BY <2>1, EmptySeq, LenProperties
  <2>5. pc' = "write" \/ buffer = <<>>
    BY Zenon, <1>14 DEF Take
  <2>6. UNCHANGED <<chan, callers, needs, file, accepted>> /\ taken' = buffer
    BY Zenon, <1>14 DEF Take, callerVars, ghostVars
  <2>7. pc' \in {"delay", "sync"} => buffer = <<>>
    BY Zenon, <1>14 DEF Take
  <2>. QED BY Zenon, <2>3, <2>4, <2>6, <2>7 DEF Drained
<1>15. CASE write_all_retry
  <2>1. file \in Seq(Nat) /\ taken \in Seq(Nat) /\ Len(file \o taken) = Len(file) + Len(taken)
    BY Moved DEF Types, Bytes
  <2>2. /\ pc' \in {"delay", "sync"} => file' = file \o taken
        /\ pc' # "write" /\ pc = "write"
    BY Zenon, <1>15 DEF write_all_retry, AfterDrain
  <2>3. UNCHANGED <<chan, callers, needs, accepted>>
    BY Zenon, <1>15 DEF write_all_retry
  <2>4. pc' \in {"delay", "sync"} => \A i \in DOMAIN callers : needs[callers[i]] <= Len(file')
    BY Zenon, <2>1, <2>2 DEF Drained
  <2>. QED BY Zenon, <2>2, <2>3, <2>4 DEF Drained
<1>16. CASE Restore
  BY <1>16 DEF Restore, Conclude, callerVars, threadVars, ghostVars, Types, Queues, Remembered,
      Ordered, WalOrder, Drained
<1>17. CASE sync_data
  BY <1>17 DEF sync_data, Conclude, callerVars, threadVars, ghostVars, Types, Queues, Remembered,
      Ordered, WalOrder, Drained
<1>18. CASE Panic
  BY Zenon, <1>18 DEF Panic, callerVars, threadVars, ghostVars, Types, Queues, Remembered,
      Ordered, WalOrder, Drained
<1>19. CASE notify_thread_panic
  BY <1>19 DEF notify_thread_panic, callerVars, threadVars, ghostVars, Types, Queues, Remembered,
      Ordered, WalOrder, Drained
<1>20. CASE notify_queued_thread_failure
  BY Zenon, <1>20 DEF notify_queued_thread_failure, callerVars, threadVars, ghostVars, Types,
      Queues, Remembered, Ordered, WalOrder, Drained
<1>21. CASE Leave
  BY SMTT(30), <1>21 DEF Leave, callerVars, threadVars, ghostVars, Types, Queues, Remembered,
      Ordered, WalOrder, Drained
<1>. QED BY Zenon, <1>1, <1>2, <1>3, <1>4, <1>5, <1>6, <1>7, <1>8, <1>9, <1>10, <1>11, <1>12, <1>13, <1>14, <1>15, <1>16, <1>17, <1>18, <1>19, <1>20, <1>21 DEF
    Next, Thread, Proceed

\* An answer is given after the sync it is about.
LEMMA SyncedKept == ASSUME Types, Remembered, Drained, Synced, Next PROVE Synced'
<1>1. ASSUME NEW c \in Clients, WriteCheck(c) PROVE Synced'
  BY Zenon, <1>1 DEF WriteCheck, callerVars, threadVars, ghostVars, Types, Queues, Remembered,
      Drained, Synced, SyncedIsDurable
<1>2. ASSUME NEW c \in Clients, buffer_write(c) PROVE Synced'
  BY Zenon, <1>2 DEF buffer_write, callerVars, threadVars, ghostVars, Types, Queues, Remembered,
      Drained, Synced, SyncedIsDurable
<1>3. ASSUME NEW c \in Clients, WriteEnd(c) PROVE Synced'
  BY Zenon, <1>3 DEF WriteEnd, callerVars, threadVars, ghostVars, Types, Queues, Remembered,
      Drained, Synced, SyncedIsDurable
<1>4. ASSUME NEW c \in Clients, request_sync(c) PROVE Synced'
  BY Zenon, <1>4 DEF request_sync, callerVars, threadVars, ghostVars, Types, Queues, Remembered,
      Drained, Synced, SyncedIsDurable
<1>5. ASSUME NEW c \in Clients, SyncSend(c) PROVE Synced'
  <2>1. SyncSendStep(c) /\ Len(needs) = Len(answers)
    <3>1. SyncSendStep(c)
      BY Zenon, <1>5, SyncSendIs
    <3>2. /\ Len(needs) \in Nat /\ DOMAIN needs = 1 .. Len(needs)
          /\ Len(answers) \in Nat /\ DOMAIN answers = 1 .. Len(answers)
      BY Zenon, LenProperties DEF Types, Queues
    <3>3. 1 .. Len(needs) = 1 .. Len(answers)
      BY <3>2, Zenon DEF Remembered
    <3>. QED BY <3>1, <3>2, <3>3, SameLength, Zenon
  <2>2. UNCHANGED <<file, durable>>
    BY Zenon, <2>1 DEF SyncSendStep, threadVars
  <2>3. CASE UNCHANGED <<needs, answers>>
    BY Zenon, <2>2, <2>3 DEF Synced, SyncedIsDurable
  <2>4. CASE Grown(needs, needs', Len(accepted)) /\ Grown(answers, answers', None)
    <3>1. \A s \in DOMAIN answers' : answers'[s] # None =>
             s \in DOMAIN answers /\ answers'[s] = answers[s] /\ needs'[s] = needs[s]
      BY <2>1, <2>4 DEF Grown
    <3>. QED BY <2>2, <3>1, Zenon DEF Synced, SyncedIsDurable
  <2>. QED BY Zenon, <2>1, <2>3, <2>4 DEF SyncSendStep
<1>6. ASSUME NEW c \in Clients, Close(c) PROVE Synced'
  BY Zenon, <1>6 DEF Close, callerVars, threadVars, ghostVars, Types, Queues, Remembered, Drained,
      Synced, SyncedIsDurable
<1>7. ASSUME NEW c \in Clients, CloseMark(c) PROVE Synced'
  BY Zenon, <1>7 DEF CloseMark, callerVars, threadVars, ghostVars, Types, Queues, Remembered,
      Drained, Synced, SyncedIsDurable
<1>8. ASSUME NEW c \in Clients, CloseSend(c) PROVE Synced'
  BY Zenon, <1>8 DEF CloseSend, callerVars, threadVars, ghostVars, Types, Queues, Remembered,
      Drained, Synced, SyncedIsDurable
<1>9. ASSUME NEW c \in Clients, CloseReturn(c) PROVE Synced'
  BY Zenon, <1>9 DEF CloseReturn, callerVars, threadVars, ghostVars, Types, Queues, Remembered,
      Drained, Synced, SyncedIsDurable
<1>10. CASE Drop
  BY Zenon, <1>10 DEF Drop, callerVars, threadVars, ghostVars, Types, Queues, Remembered, Drained,
      Synced, SyncedIsDurable
<1>11. CASE Idle
  BY Zenon, <1>11 DEF Idle, Receive, callerVars, threadVars, ghostVars, Types, Queues, Remembered,
      Drained, Synced, SyncedIsDurable
<1>12. CASE CommitDelay
  BY Zenon, <1>12 DEF CommitDelay, Receive, callerVars, threadVars, ghostVars, Types, Queues,
      Remembered, Drained, Synced, SyncedIsDurable
<1>13. CASE CommitDelayOver
  BY Zenon, <1>13 DEF CommitDelayOver, callerVars, threadVars, ghostVars, Types, Queues,
      Remembered, Drained, Synced, SyncedIsDurable
<1>14. CASE Take
  BY Zenon, <1>14 DEF Take, callerVars, threadVars, ghostVars, Types, Queues, Remembered, Drained,
      Synced, SyncedIsDurable
<1>15. CASE write_all_retry
  <2>1. file \in Seq(Nat) /\ taken \in Seq(Nat) /\ Len(file) \in Nat /\ Len(taken) \in Nat /\ durable \in Nat
    BY Zenon, LenProperties DEF Types, Bytes
  <2>2. /\ Len(file \o taken) = Len(file) + Len(taken)
        /\ \A n \in 0 .. Len(taken) - 1 : Len(file \o SubSeq(taken, 1, n)) = Len(file) + n
    BY <2>1, Moved, HalfMoved
  <2>3. file' = file \o taken \/ \E n \in 0 .. Len(taken) - 1 : file' = file \o SubSeq(taken, 1, n)
    BY <1>15, Zenon DEF write_all_retry
  <2>4. Len(file') >= Len(file) /\ Len(file') \in Nat
    BY <2>1, <2>2, <2>3
  <2>5. UNCHANGED <<durable, needs, answers>>
    BY Zenon, <1>15 DEF write_all_retry
  <2>6. durable <= Len(file')
    BY <2>1, <2>4 DEF Synced
  <2>. QED BY Zenon, <2>5, <2>6 DEF Synced, SyncedIsDurable
<1>16. CASE Restore
  BY <1>16 DEF Restore, Conclude, notify_callers_error, Told, callerVars, threadVars, ghostVars,
      Types, Queues, Remembered, Drained, Synced, SyncedIsDurable
<1>17. CASE sync_data
  <2>1. Len(file) \in Nat /\ durable \in Nat /\ UNCHANGED <<file, needs>>
    BY Zenon, <1>17, LenProperties DEF Types, Bytes, sync_data
  <2>2. \A s \in DOMAIN answers : answers[s] # None => answers[s].position \in Nat
    <3>1. \A s \in DOMAIN answers : answers[s] \in Answers
      BY Zenon, LenProperties, ElementOfSeq DEF Types, Queues
    <3>. QED BY Zenon, <3>1 DEF Answers
  <2>3. CASE durable' = Len(file) /\ Conclude(TRUE)
    <3>1. ConcludeStep(TRUE)
      BY Zenon, <2>3, ConcludeIs
    <3>2. \A i \in DOMAIN callers : needs[callers[i]] <= Len(file)
      BY Zenon, <1>17 DEF sync_data, Drained
    <3>3. ASSUME NEW s \in DOMAIN answers', answers'[s] # None, answers'[s].ok
          PROVE  needs[s] <= answers'[s].position /\ answers'[s].position <= durable'
      <4>1. CASE \E i \in DOMAIN callers : callers[i] = s /\ answers'[s] = [ok |-> TRUE, position |-> Len(file)]
        BY <2>1, <2>3, <3>2, <4>1
      <4>2. CASE answers'[s] = answers[s]
        <5>1. s \in DOMAIN answers /\ needs[s] <= answers[s].position /\ answers[s].position <= durable /\ answers[s].position \in Nat
          BY Zenon, <2>2, <3>1, <3>3, <4>2 DEF ConcludeStep, Answered, Synced, SyncedIsDurable
        <5>. QED BY <2>1, <2>3, <4>2, <5>1 DEF Synced
      <4>. QED BY Zenon, <3>1, <3>3, <4>1, <4>2 DEF ConcludeStep, Answered
    <3>. QED BY <2>1, <2>3, <3>3 DEF Synced, SyncedIsDurable
  <2>4. CASE Conclude(FALSE) /\ UNCHANGED durable
    <3>1. ConcludeStep(FALSE)
      BY Zenon, <2>4, ConcludeIs
    <3>2. \A s \in DOMAIN answers' : answers'[s].ok => s \in DOMAIN answers /\ answers'[s] = answers[s]
      BY <3>1 DEF ConcludeStep, Answered
    <3>. QED BY Zenon, <2>1, <2>4, <3>2 DEF Synced, SyncedIsDurable
  <2>. QED BY Zenon, <1>17, <2>3, <2>4 DEF sync_data
<1>18. CASE Panic
  BY Zenon, <1>18 DEF Panic, callerVars, threadVars, ghostVars, Types, Queues, Remembered,
      Drained, Synced, SyncedIsDurable
<1>19. CASE notify_thread_panic
  BY Zenon, <1>19 DEF notify_thread_panic, notify_callers_error, Told, callerVars, threadVars,
      ghostVars, Types, Queues, Remembered, Drained, Synced, SyncedIsDurable
<1>20. CASE notify_queued_thread_failure
  BY Zenon, <1>20 DEF notify_queued_thread_failure, Told, callerVars, threadVars, ghostVars,
      Types, Queues, Remembered, Drained, Synced, SyncedIsDurable
<1>21. CASE Leave
  BY Zenon, <1>21 DEF Leave, callerVars, threadVars, ghostVars, Types, Queues, Remembered,
      Drained, Synced, SyncedIsDurable
<1>. QED BY Zenon, <1>1, <1>2, <1>3, <1>4, <1>5, <1>6, <1>7, <1>8, <1>9, <1>10, <1>11, <1>12, <1>13, <1>14, <1>15, <1>16, <1>17, <1>18, <1>19, <1>20, <1>21 DEF
    Next, Thread, Proceed

\* The drain of a close is the last, and its success is the only one told.
LEMMA ClosedWellKept == ASSUME Types, Locks, Ending, Ordered, Synced, ClosedWell, Next PROVE ClosedWell'
<1>1. ASSUME NEW c \in Clients, WriteCheck(c) PROVE ClosedWell'
  BY Zenon, <1>1 DEF WriteCheck, callerVars, threadVars, ghostVars, Types, Flags, Locks, Ending,
      Ordered, WalOrder, Synced, ClosedWell
<1>2. ASSUME NEW c \in Clients, buffer_write(c) PROVE ClosedWell'
  BY Zenon, <1>2 DEF buffer_write, callerVars, threadVars, ghostVars, Types, Flags, Locks, Ending,
      Ordered, WalOrder, Synced, ClosedWell
<1>3. ASSUME NEW c \in Clients, WriteEnd(c) PROVE ClosedWell'
  BY Zenon, <1>3 DEF WriteEnd, callerVars, threadVars, ghostVars, Types, Flags, Locks, Ending,
      Ordered, WalOrder, Synced, ClosedWell
<1>4. ASSUME NEW c \in Clients, request_sync(c) PROVE ClosedWell'
  BY Zenon, <1>4 DEF request_sync, callerVars, threadVars, ghostVars, Types, Flags, Locks, Ending,
      Ordered, WalOrder, Synced, ClosedWell
<1>5. ASSUME NEW c \in Clients, SyncSend(c) PROVE ClosedWell'
  BY Zenon, <1>5 DEF SyncSend, callerVars, threadVars, ghostVars, Types, Flags, Locks, Ending,
      Ordered, WalOrder, Synced, ClosedWell
<1>6. ASSUME NEW c \in Clients, Close(c) PROVE ClosedWell'
  <2>1. \A d \in Clients : at[d] \notin {"closing", "sending", "joining"}
    BY Zenon, <1>6, SizesAssumption DEF Close, Locks
  <2>2. CASE joined
    <3>1. close_error \/ close_result = "ok"
      BY <2>1, <2>2, Zenon DEF ClosedWell
    <3>2. \A r \in closes' : r.ok => close_result = "ok"
      <4>1. closes' = closes \cup {[ok |-> ~close_error, covers |-> Len(accepted)]}
        BY <1>6, <2>2, Zenon DEF Close
      <4>2. [ok |-> ~close_error, covers |-> Len(accepted)].ok => close_result = "ok"
        BY Zenon, <3>1
      <4>. QED BY <4>1, <4>2, Zenon DEF ClosedWell
    <3>3. UNCHANGED <<phase, pc, buffer, at, close_result, accepted, durable, joined, close_error>>
      BY <1>6, <2>2, Zenon DEF Close, threadVars
    <3>. QED BY <3>2, <3>3, Zenon DEF ClosedWell
  <2>3. CASE ~joined
    <3>1. at'[c] = "closing" /\ \A d \in Clients : at'[d] = "writing" => at[d] = "writing"
      BY Zenon, <1>6, <2>3 DEF Close, Types, Flags
    <3>. QED BY Zenon, <1>6, <2>3, <3>1 DEF Close, threadVars, ClosedWell
  <2>. QED BY Zenon, <2>2, <2>3
<1>7. ASSUME NEW c \in Clients, CloseMark(c) PROVE ClosedWell'
  BY Zenon, <1>7 DEF CloseMark, callerVars, threadVars, ghostVars, Types, Flags, Locks, Ending,
      Ordered, WalOrder, Synced, ClosedWell
<1>8. ASSUME NEW c \in Clients, CloseSend(c) PROVE ClosedWell'
  BY Zenon, <1>8 DEF CloseSend, callerVars, threadVars, ghostVars, Types, Flags, Locks, Ending,
      Ordered, WalOrder, Synced, ClosedWell
<1>9. ASSUME NEW c \in Clients, CloseReturn(c) PROVE ClosedWell'
  BY <1>9 DEF CloseReturn, callerVars, threadVars, ghostVars, Types, Flags, Locks, Ending,
      Ordered, WalOrder, Synced, ClosedWell
<1>10. CASE Drop
  BY Zenon, <1>10 DEF Drop, callerVars, threadVars, ghostVars, Types, Flags, Locks, Ending,
      Ordered, WalOrder, Synced, ClosedWell
<1>11. CASE Idle
  BY Zenon, <1>11 DEF Idle, Receive, callerVars, threadVars, ghostVars, Types, Flags, Locks,
      Ending, Ordered, WalOrder, Synced, ClosedWell
<1>12. CASE CommitDelay
  BY Zenon, <1>12 DEF CommitDelay, Receive, callerVars, threadVars, ghostVars, Types, Flags,
      Locks, Ending, Ordered, WalOrder, Synced, ClosedWell
<1>13. CASE CommitDelayOver
  BY Zenon, <1>13 DEF CommitDelayOver, callerVars, threadVars, ghostVars, Types, Flags, Locks,
      Ending, Ordered, WalOrder, Synced, ClosedWell
<1>14. CASE Take
  <2>1. \A d \in Clients : at[d] # "writing"
    BY Zenon, <1>14, SizesAssumption DEF Take, Locks
  <2>2. close_result # "ok"
    BY Zenon, <1>14 DEF Take, ClosedWell
  <2>3. UNCHANGED <<callerVars, close_result, closes>> /\ buffer' = <<>>
    BY Zenon, <1>14 DEF Take, ghostVars
  <2>. QED BY Zenon, <2>1, <2>2, <2>3 DEF callerVars, ClosedWell
<1>15. CASE write_all_retry
  BY Zenon, <1>15 DEF write_all_retry, callerVars, threadVars, ghostVars, Types, Flags, Locks,
      Ending, Ordered, WalOrder, Synced, ClosedWell
<1>16. CASE Restore
  BY Zenon, <1>16 DEF Restore, Conclude, callerVars, threadVars, ghostVars, Types, Flags, Locks,
      Ending, Ordered, WalOrder, Synced, ClosedWell
<1>17. CASE sync_data
  BY <1>17 DEF sync_data, Conclude, callerVars, threadVars, ghostVars, Types, Flags, Locks,
      Ending, Ordered, WalOrder, Synced, ClosedWell, dead
<1>18. CASE Panic
  BY Zenon, <1>18 DEF Panic, callerVars, threadVars, ghostVars, Types, Flags, Locks, Ending,
      Ordered, WalOrder, Synced, ClosedWell, dead
<1>19. CASE notify_thread_panic
  BY Zenon, <1>19 DEF notify_thread_panic, callerVars, threadVars, ghostVars, Types, Flags, Locks,
      Ending, Ordered, WalOrder, Synced, ClosedWell
<1>20. CASE notify_queued_thread_failure
  BY Zenon, <1>20 DEF notify_queued_thread_failure, callerVars, threadVars, ghostVars, Types,
      Flags, Locks, Ending, Ordered, WalOrder, Synced, ClosedWell
<1>21. CASE Leave
  BY Zenon, <1>21 DEF Leave, callerVars, threadVars, ghostVars, Types, Flags, Locks, Ending,
      Ordered, WalOrder, Synced, ClosedWell
<1>. QED BY Zenon, <1>1, <1>2, <1>3, <1>4, <1>5, <1>6, <1>7, <1>8, <1>9, <1>10, <1>11, <1>12, <1>13, <1>14, <1>15, <1>16, <1>17, <1>18, <1>19, <1>20, <1>21 DEF
    Next, Thread, Proceed

\* A failure puts back no more than it took.
LEMMA BacklogKept == ASSUME Types, Locks, Backlog, Next PROVE Backlog'
<1>1. ASSUME NEW c \in Clients, WriteCheck(c) PROVE Backlog'
  BY Zenon, <1>1, SizesAssumption DEF WriteCheck, callerVars, threadVars, ghostVars, Types, Flags,
      Locks, Backlog, BacklogBounded
<1>2. ASSUME NEW c \in Clients, buffer_write(c) PROVE Backlog'
  BY Zenon, <1>2, SizesAssumption DEF buffer_write, callerVars, threadVars, ghostVars, Types,
      Flags, Locks, Backlog, BacklogBounded
<1>3. ASSUME NEW c \in Clients, WriteEnd(c) PROVE Backlog'
  <2>1. /\ Len(buffer) \in Nat /\ Len(taken) \in Nat /\ faults \in Nat /\ max_buffer_bytes \in Nat
        /\ buffer \in Seq(Nat) /\ taken \in Seq(Nat)
    BY Zenon, SizesAssumption, LenProperties DEF Types, Bytes
  <2>2. /\ faults * max_buffer_bytes \in Nat /\ (faults + 1) * max_buffer_bytes \in Nat
        /\ ((faults + 1) + 1) * max_buffer_bytes \in Nat
        /\ (faults + 1) * max_buffer_bytes = faults * max_buffer_bytes + max_buffer_bytes
        /\ ((faults + 1) + 1) * max_buffer_bytes = (faults + 1) * max_buffer_bytes + max_buffer_bytes
    BY Zenon, <2>1, OneMore
  <2>3. Len(buffer') = Len(buffer) + 1
    BY <1>3, <2>1, LenProperties, BothGrow DEF WriteEnd, Types, Bytes
  <2>4. Len(buffer) < max_buffer_bytes /\ UNCHANGED <<pc, taken, faults>>
    BY Zenon, <1>3 DEF WriteEnd, Backlog, threadVars
  <2>5. Len(buffer') <= max_buffer_bytes /\ Len(buffer') <= (faults + 1) * max_buffer_bytes
    BY Zenon, <2>1, <2>2, <2>3, <2>4, WithinBound
  <2>6. \A d \in Clients : at'[d] # "writing"
    <3>1. \A d \in Clients : d # c => at[d] # "writing"
      BY Zenon, <1>3 DEF WriteEnd, Locks
    <3>. QED BY Zenon, <1>3, <3>1 DEF WriteEnd, Types, Flags
  <2>. QED BY Zenon, <2>4, <2>5, <2>6 DEF Backlog, BacklogBounded
<1>4. ASSUME NEW c \in Clients, request_sync(c) PROVE Backlog'
  BY Zenon, <1>4, SizesAssumption DEF request_sync, callerVars, threadVars, ghostVars, Types,
      Flags, Locks, Backlog, BacklogBounded
<1>5. ASSUME NEW c \in Clients, SyncSend(c) PROVE Backlog'
  BY Zenon, <1>5, SizesAssumption DEF SyncSend, callerVars, threadVars, ghostVars, Types, Flags,
      Locks, Backlog, BacklogBounded
<1>6. ASSUME NEW c \in Clients, Close(c) PROVE Backlog'
  BY Zenon, <1>6, SizesAssumption DEF Close, callerVars, threadVars, ghostVars, Types, Flags,
      Locks, Backlog, BacklogBounded
<1>7. ASSUME NEW c \in Clients, CloseMark(c) PROVE Backlog'
  BY Zenon, <1>7, SizesAssumption DEF CloseMark, callerVars, threadVars, ghostVars, Types, Flags,
      Locks, Backlog, BacklogBounded
<1>8. ASSUME NEW c \in Clients, CloseSend(c) PROVE Backlog'
  BY Zenon, <1>8, SizesAssumption DEF CloseSend, callerVars, threadVars, ghostVars, Types, Flags,
      Locks, Backlog, BacklogBounded
<1>9. ASSUME NEW c \in Clients, CloseReturn(c) PROVE Backlog'
  BY Zenon, <1>9, SizesAssumption DEF CloseReturn, callerVars, threadVars, ghostVars, Types,
      Flags, Locks, Backlog, BacklogBounded
<1>10. CASE Drop
  BY Zenon, <1>10, SizesAssumption DEF Drop, callerVars, threadVars, ghostVars, Types, Flags,
      Locks, Backlog, BacklogBounded
<1>11. CASE Idle
  BY Zenon, <1>11, SizesAssumption DEF Idle, Receive, callerVars, threadVars, ghostVars, Types,
      Flags, Locks, Backlog, BacklogBounded
<1>12. CASE CommitDelay
  BY Zenon, <1>12, SizesAssumption DEF CommitDelay, Receive, callerVars, threadVars, ghostVars,
      Types, Flags, Locks, Backlog, BacklogBounded
<1>13. CASE CommitDelayOver
  BY Zenon, <1>13, SizesAssumption DEF CommitDelayOver, callerVars, threadVars, ghostVars, Types,
      Flags, Locks, Backlog, BacklogBounded
<1>14. CASE Take
  <2>1. /\ Len(buffer) \in Nat /\ Len(taken) \in Nat /\ faults \in Nat /\ max_buffer_bytes \in Nat
        /\ buffer \in Seq(Nat) /\ taken \in Seq(Nat)
    BY Zenon, SizesAssumption, LenProperties DEF Types, Bytes
  <2>2. /\ faults * max_buffer_bytes \in Nat /\ (faults + 1) * max_buffer_bytes \in Nat
        /\ ((faults + 1) + 1) * max_buffer_bytes \in Nat
        /\ (faults + 1) * max_buffer_bytes = faults * max_buffer_bytes + max_buffer_bytes
        /\ ((faults + 1) + 1) * max_buffer_bytes = (faults + 1) * max_buffer_bytes + max_buffer_bytes
    BY Zenon, <2>1, OneMore
  <2>3. /\ buffer' = <<>> /\ Len(<<>>) = 0 /\ taken' = buffer /\ UNCHANGED <<faults, at>>
        /\ pc' # "restore"
    BY Zenon, <1>14, EmptySeq DEF Take, ghostVars, callerVars, AfterDrain
  <2>4. \A d \in Clients : at[d] # "writing"
    BY Zenon, <1>14, SizesAssumption DEF Take, Locks
  <2>5. 0 <= max_buffer_bytes /\ 0 <= (faults + 1) * max_buffer_bytes
    BY <2>1, <2>2
  <2>. QED BY <2>3, <2>4, <2>5, Zenon DEF Backlog, BacklogBounded
<1>15. CASE write_all_retry
  <2>1. /\ Len(buffer) \in Nat /\ Len(taken) \in Nat /\ faults \in Nat /\ max_buffer_bytes \in Nat
        /\ buffer \in Seq(Nat) /\ taken \in Seq(Nat)
    BY Zenon, SizesAssumption, LenProperties DEF Types, Bytes
  <2>2. /\ faults * max_buffer_bytes \in Nat /\ (faults + 1) * max_buffer_bytes \in Nat
        /\ ((faults + 1) + 1) * max_buffer_bytes \in Nat
        /\ (faults + 1) * max_buffer_bytes = faults * max_buffer_bytes + max_buffer_bytes
        /\ ((faults + 1) + 1) * max_buffer_bytes = (faults + 1) * max_buffer_bytes + max_buffer_bytes
    BY Zenon, <2>1, OneMore
  <2>3. UNCHANGED <<buffer, at>> /\ pc = "write" /\ pc' # "write"
    BY Zenon, <1>15 DEF write_all_retry, callerVars, AfterDrain
  <2>4. CASE UNCHANGED faults /\ pc' # "restore"
    BY <2>3, <2>4, Zenon DEF Backlog, BacklogBounded
  <2>5. CASE /\ faults' = faults + 1
             /\ \E n \in 0 .. Len(taken) - 1 : taken' = SubSeq(taken, n + 1, Len(taken))
    <3>1. PICK n \in 0 .. Len(taken) - 1 : taken' = SubSeq(taken, n + 1, Len(taken))
      BY Zenon, <2>5
    <3>2. Len(taken') = Len(taken) - n
      BY <2>1, <3>1, HalfMoved, Zenon
    <3>3. Len(taken') <= faults' * max_buffer_bytes
      BY <2>1, <2>2, <2>3, <2>5, <3>1, <3>2 DEF Backlog
    <3>4. Len(buffer) <= (faults' + 1) * max_buffer_bytes /\ Len(buffer) <= max_buffer_bytes
      BY <2>1, <2>2, <2>3, <2>5 DEF Backlog, BacklogBounded
    <3>. QED BY <2>3, <3>3, <3>4, Zenon DEF Backlog, BacklogBounded
  <2>. QED BY Zenon, <1>15, <2>4, <2>5 DEF write_all_retry, AfterDrain
<1>16. CASE Restore
  <2>1. /\ Len(buffer) \in Nat /\ Len(taken) \in Nat /\ faults \in Nat /\ max_buffer_bytes \in Nat
        /\ buffer \in Seq(Nat) /\ taken \in Seq(Nat)
    BY Zenon, SizesAssumption, LenProperties DEF Types, Bytes
  <2>2. /\ faults * max_buffer_bytes \in Nat /\ (faults + 1) * max_buffer_bytes \in Nat
        /\ ((faults + 1) + 1) * max_buffer_bytes \in Nat
        /\ (faults + 1) * max_buffer_bytes = faults * max_buffer_bytes + max_buffer_bytes
        /\ ((faults + 1) + 1) * max_buffer_bytes = (faults + 1) * max_buffer_bytes + max_buffer_bytes
    BY Zenon, <2>1, OneMore
  <2>3. Len(taken \o buffer) = Len(taken) + Len(buffer)
    BY Zenon, <2>1, ConcatProperties
  <2>4. buffer' = taken \o buffer /\ UNCHANGED <<faults, at>> /\ pc' \in {"idle", "exited"}
    BY Zenon, <1>16 DEF Restore, Conclude, callerVars
  <2>5. Len(buffer') <= (faults + 1) * max_buffer_bytes
    BY <1>16, <2>1, <2>2, <2>3, <2>4 DEF Restore, Backlog
  <2>6. \A d \in Clients : at[d] # "writing"
    BY Zenon, <1>16, SizesAssumption DEF Restore, Locks
  <2>. QED BY Zenon, <2>4, <2>5, <2>6 DEF Backlog, BacklogBounded
<1>17. CASE sync_data
  <2>1. /\ Len(buffer) \in Nat /\ Len(taken) \in Nat /\ faults \in Nat /\ max_buffer_bytes \in Nat
        /\ buffer \in Seq(Nat) /\ taken \in Seq(Nat)
    BY Zenon, SizesAssumption, LenProperties DEF Types, Bytes
  <2>2. /\ faults * max_buffer_bytes \in Nat /\ (faults + 1) * max_buffer_bytes \in Nat
        /\ ((faults + 1) + 1) * max_buffer_bytes \in Nat
        /\ (faults + 1) * max_buffer_bytes = faults * max_buffer_bytes + max_buffer_bytes
        /\ ((faults + 1) + 1) * max_buffer_bytes = (faults + 1) * max_buffer_bytes + max_buffer_bytes
    BY Zenon, <2>1, OneMore
  <2>3. UNCHANGED <<buffer, at>> /\ pc' \in {"idle", "exited", "panicked"} /\ faults' \in {faults, faults + 1}
    BY Zenon, <1>17 DEF sync_data, Conclude, callerVars
  <2>4. Len(buffer) <= (faults' + 1) * max_buffer_bytes
    <3>1. Len(buffer) <= (faults + 1) * max_buffer_bytes
      BY Zenon DEF Backlog, BacklogBounded
    <3>2. CASE faults' = faults
      BY Zenon, <3>1, <3>2
    <3>3. CASE faults' = faults + 1
      <4>1. Len(buffer) <= ((faults + 1) + 1) * max_buffer_bytes
        BY Zenon, <2>1, <3>1, OneMoreBound
      <4>. QED BY Zenon, <3>3, <4>1
    <3>. QED BY Zenon, <2>3, <3>2, <3>3
  <2>. QED BY Zenon, <2>3, <2>4 DEF Backlog, BacklogBounded
<1>18. CASE Panic
  <2>1. /\ Len(buffer) \in Nat /\ Len(taken) \in Nat /\ faults \in Nat /\ max_buffer_bytes \in Nat
        /\ buffer \in Seq(Nat) /\ taken \in Seq(Nat)
    BY Zenon, SizesAssumption, LenProperties DEF Types, Bytes
  <2>2. /\ faults * max_buffer_bytes \in Nat /\ (faults + 1) * max_buffer_bytes \in Nat
        /\ ((faults + 1) + 1) * max_buffer_bytes \in Nat
        /\ (faults + 1) * max_buffer_bytes = faults * max_buffer_bytes + max_buffer_bytes
        /\ ((faults + 1) + 1) * max_buffer_bytes = (faults + 1) * max_buffer_bytes + max_buffer_bytes
    BY Zenon, <2>1, OneMore
  <2>3. UNCHANGED <<buffer, at>> /\ pc' \in {"idle", "exited", "panicked"} /\ faults' \in {faults, faults + 1}
    BY Zenon, <1>18 DEF Panic, Conclude, callerVars
  <2>4. Len(buffer) <= (faults' + 1) * max_buffer_bytes
    <3>1. Len(buffer) <= (faults + 1) * max_buffer_bytes
      BY Zenon DEF Backlog, BacklogBounded
    <3>2. CASE faults' = faults
      BY Zenon, <3>1, <3>2
    <3>3. CASE faults' = faults + 1
      <4>1. Len(buffer) <= ((faults + 1) + 1) * max_buffer_bytes
        BY Zenon, <2>1, <3>1, OneMoreBound
      <4>. QED BY Zenon, <3>3, <4>1
    <3>. QED BY Zenon, <2>3, <3>2, <3>3
  <2>. QED BY Zenon, <2>3, <2>4 DEF Backlog, BacklogBounded
<1>19. CASE notify_thread_panic
  BY Zenon, <1>19, SizesAssumption DEF notify_thread_panic, callerVars, threadVars, ghostVars,
      Types, Flags, Locks, Backlog, BacklogBounded
<1>20. CASE notify_queued_thread_failure
  BY Zenon, <1>20, SizesAssumption DEF notify_queued_thread_failure, callerVars, threadVars,
      ghostVars, Types, Flags, Locks, Backlog, BacklogBounded
<1>21. CASE Leave
  BY Zenon, <1>21, SizesAssumption DEF Leave, callerVars, threadVars, ghostVars, Types, Flags,
      Locks, Backlog, BacklogBounded
<1>. QED BY Zenon, <1>1, <1>2, <1>3, <1>4, <1>5, <1>6, <1>7, <1>8, <1>9, <1>10, <1>11, <1>12, <1>13, <1>14, <1>15, <1>16, <1>17, <1>18, <1>19, <1>20, <1>21 DEF
    Next, Thread, Proceed

\* The invariant speaks of the state only.
LEMMA StutterKeeps == ASSUME IInv, UNCHANGED vars PROVE IInv'
<1>1. /\ UNCHANGED <<alive, buffer, writer, chan, gate, admission, at, joined, close_error, dropped>>
      /\ UNCHANGED <<pc, phase, taken, callers, file, durable, close_result>>
      /\ UNCHANGED <<accepted, needs, answers, closes, faults>>
  BY Zenon DEF vars, callerVars, threadVars, ghostVars
<1>2. Types' /\ Locks' /\ Ending' /\ CloseLast' /\ Remembered'
  BY <1>1 DEF IInv, Types, Flags, Queues, Bytes, Locks, Ending, CloseLast, Remembered
<1>3. Ordered' /\ Drained' /\ Synced' /\ ClosedWell' /\ Backlog'
  BY Zenon, <1>1 DEF IInv, Ordered, WalOrder, Drained, Synced, SyncedIsDurable, ClosedWell, Backlog,
              BacklogBounded
<1>. QED BY Zenon, <1>2, <1>3 DEF IInv

\* A handle that was just opened.
LEMMA InitInv == Init => IInv
<1>. SUFFICES ASSUME Init PROVE IInv
  BY Zenon
<1>1. <<>> \in Seq(Nat) /\ <<>> \in Seq(Answers) /\ Len(<<>>) = 0 /\ DOMAIN <<>> = {}
  BY EmptySeq
<1>2. Types
  BY Zenon, <1>1 DEF Init, Types, Flags, Queues, Bytes, ClientStates, Working
<1>3. Locks /\ Ending /\ CloseLast /\ Remembered
  BY Zenon, <1>1 DEF Init, Locks, Ending, CloseLast, Remembered
<1>4. Ordered
  <2>1. (<<>> \o <<>>) \o <<>> = <<>>
    BY Zenon, <1>1, Moved
  <2>. QED BY Zenon, <2>1 DEF Init, Ordered, WalOrder, dead
<1>5. Drained /\ Synced
  BY <1>1 DEF Init, Drained, Synced, SyncedIsDurable
<1>6. ClosedWell
  BY Zenon, SizesAssumption DEF Init, ClosedWell
<1>7. Backlog
  <2>1. 0 <= (0 + 1) * max_buffer_bytes
    BY SizesAssumption
  <2>. QED BY Zenon, <1>1, <2>1 DEF Init, Backlog, BacklogBounded
<1>. QED BY Zenon, <1>2, <1>3, <1>4, <1>5, <1>6, <1>7 DEF IInv

\* Every step of a client, of the thread or of the scheduler keeps it.
LEMMA NextInv == IInv /\ [Next]_vars => IInv'
<1>1. ASSUME IInv, Next PROVE IInv'
  <2>. USE <1>1 DEF IInv
  <2>1. Types'
    BY FlagsKept, QueuesKept, BytesKept, Zenon DEF Types
  <2>2. Locks' /\ Ending' /\ CloseLast' /\ Remembered'
    BY LocksKept, EndingKept, CloseLastKept, RememberedKept, Zenon
  <2>3. Ordered' /\ Drained' /\ Synced'
    BY OrderedKept, DrainedKept, SyncedKept, Zenon
  <2>4. ClosedWell' /\ Backlog'
    BY ClosedWellKept, BacklogKept, Zenon
  <2>. QED BY <2>1, <2>2, <2>3, <2>4, Zenon
<1>. QED BY <1>1, StutterKeeps, Zenon
-----------------------------------------------------------------------------
\* The inductive invariant holds in every state of every behaviour, for any
\* number of clients, sizes of the buffer and of the channel, and failures.
THEOREM InductiveInv == Spec => []IInv
BY InitInv, NextInv, PTL DEF Spec

\* What the runs check of the bytes holds whatever the bounds: order, the truth
\* of a wal_sync_complete, a durable close, and the bound of the backlog.
THEOREM BytesAreSafe == Spec => []BytesSafe
<1>1. IInv => BytesSafe
  <2>. SUFFICES ASSUME IInv PROVE BytesSafe
    BY Zenon
  <2>1. WalOrder /\ SyncedIsDurable /\ BacklogBounded
    BY Zenon DEF IInv, Ordered, Synced, Backlog
  <2>2. CloseIsDurable
    BY Zenon DEF IInv, ClosedWell, CloseIsDurable
  <2>. QED BY <2>1, <2>2, Zenon DEF BytesSafe
<1>. QED BY <1>1, InductiveInv, PTL

\* A thread that ended, by a close, a drop or a panic, left no admitted sync
\* without an answer.
THEOREM NoSyncIsForgotten == Spec => []NoSyncForgotten
<1>1. IInv => NoSyncForgotten
  BY Zenon DEF IInv, Remembered, NoSyncForgotten
<1>. QED BY <1>1, InductiveInv, PTL
=============================================================================
