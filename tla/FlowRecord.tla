----------------------------- MODULE FlowRecord -----------------------------
(***************************************************************************)
(* The durable formats of a Flow record (FSF5) and of a history event      *)
(* (FSH2) in flow_index.rs.  A value is a sequence of bytes; the magic and *)
(* the flags word are one symbol each, the flags being the set of optional *)
(* fields that follow.  Integers keep their width: a varint carries its    *)
(* payload in digits of Base, and the last of MaxVarintBytes digits holds  *)
(* one bit, as the tenth byte of a u64 does.                               *)
(***************************************************************************)
EXTENDS Integers, Sequences, FiniteSets, FiniteSetsExt, SequencesExt

CONSTANTS Base,           \* 128 in the code
          MaxVarintBytes, \* 10 in the code
          MaxExact,       \* MAX_EXACT_INTEGER, 2^53 - 1 in the code
          Nil             \* Option::None

Pow(n) == FoldLeft(LAMBDA a, i : a * Base, 1, [i \in 1..n |-> i])

\* u64::MAX
U64Max == 2 * Pow(MaxVarintBytes - 1) - 1

MagicRecord == -5
MagicHistory == -2
-----------------------------------------------------------------------------
(* Integers and binaries.  A decoder returns the value and the rest, or Nil. *)

\* `d?`: what is done with a result, unless it failed.
Then(d, Op(_)) == IF d = Nil THEN Nil ELSE Op(d)
OrElse(d, other) == IF d = Nil THEN other ELSE d

encode_varint(v) ==
  LET n == Min({k \in 1..MaxVarintBytes : v < Pow(k)})
  IN [i \in 1..n |-> ((v \div Pow(i - 1)) % Base) + (IF i < n THEN Base ELSE 0)]

decode_varint(in) ==
  LET ends == {i \in 1..Min({MaxVarintBytes, Len(in)}) : in[i] < Base}
      n == Min(ends)
  IN IF ends = {} THEN Nil
     ELSE IF (n = MaxVarintBytes /\ in[n] > 1) \/ (n > 1 /\ in[n] = 0) THEN Nil
     ELSE [v |-> FoldLeft(LAMBDA a, i : a + (in[i] % Base) * Pow(i - 1), 0, [i \in 1..n |-> i]),
           rest |-> SubSeq(in, n + 1, Len(in))]

\* Nil is 0 and a value is one more; the addition is checked.
encode_int(v) == IF v = Nil THEN <<0>> ELSE IF v = U64Max THEN Nil ELSE encode_varint(v + 1)

decode_int(in) ==
  Then(decode_varint(in), LAMBDA d : [d EXCEPT !.v = IF @ = 0 THEN Nil ELSE @ - 1])

encode_bin(b) == IF b = Nil THEN <<0>> ELSE encode_varint(Len(b) + 1) \o b

decode_bin(in) ==
  Then(decode_varint(in), LAMBDA d :
    IF d.v = 0 THEN [v |-> Nil, rest |-> d.rest]
    ELSE IF Len(d.rest) < d.v - 1 THEN Nil
    ELSE [v |-> SubSeq(d.rest, 1, d.v - 1), rest |-> SubSeq(d.rest, d.v, Len(d.rest))])

decode_required_record_bin(in) ==
  Then(decode_bin(in), LAMBDA d : IF d.v \in {Nil, <<>>} THEN Nil ELSE d)

decode_required_record_int(in) ==
  Then(decode_int(in), LAMBDA d : IF d.v = Nil THEN Nil ELSE IF d.v > MaxExact THEN Nil ELSE d)
-----------------------------------------------------------------------------
(* Records.  The optional fields in wire order; "zero" fields are left out  *)
(* when they are 0 and read back as 0, "int" and "bin" ones when absent.    *)

RecordInts ==
  << <<"attempts", "zero">>, <<"fencing_token", "zero">>, <<"next_run_at_ms", "int">>,
     <<"priority", "zero">>, <<"ttl_ms", "int">>, <<"history_hot_max_events", "int">>,
     <<"history_max_events", "int">>, <<"retention_ttl_ms", "int">>,
     <<"terminal_retention_until_ms", "int">>, <<"max_active_ms", "int">> >>

RecordBins ==
  << <<"partition_key", "bin">>, <<"payload_ref", "bin">>, <<"parent_flow_id", "bin">>,
     <<"parent_partition_key", "bin">>, <<"root_flow_id", "root">>, <<"correlation_id", "bin">>,
     <<"result_ref", "bin">>, <<"error_ref", "bin">>, <<"lease_owner", "bin">>,
     <<"lease_token", "bin">>, <<"lease_deadline_ms", "zero">>, <<"run_state", "bin">>,
     <<"rewound_to_event_id", "bin">>, <<"child_groups", "sidecar">> >>

RecordFields == RecordInts \o RecordBins

RecordFieldNames == {RecordFields[i][1] : i \in DOMAIN RecordFields}

RECORD_KNOWN_FLAGS == RecordFieldNames \cup {"root_flow_id_self"}

\* The sidecar of a record without child groups; what the caller passes is
\* itself an encoded binary.
EmptyGroups == encode_bin(<<0>>)

encoded_child_groups_empty(b) ==
  decode_bin(b) \in {[v |-> empty, rest |-> <<>>] : empty \in {Nil, <<0>>}}

\* One flag for a root that is the Flow itself, another for any other root.
encode_record_flags(r) ==
  {f[1] : f \in {g \in ToSet(RecordFields) :
     CASE g[2] = "zero" -> r[g[1]] \notin {Nil, 0}
       [] g[2] = "root" -> r[g[1]] \notin {Nil, r.id}
       [] g[2] = "sidecar" -> ~encoded_child_groups_empty(r[g[1]])
       [] OTHER -> r[g[1]] # Nil}}
  \cup (IF r.root_flow_id # Nil /\ r.root_flow_id = r.id THEN {"root_flow_id_self"} ELSE {})

\* Concatenation that fails when a part does.
Join(parts) == IF \E i \in DOMAIN parts : parts[i] = Nil THEN Nil ELSE FlattenSeq(parts)

encode_flagged(r, flags, f) ==
  CASE f[1] \notin flags -> <<>>
    [] f[2] \in {"zero", "int"} -> encode_int(r[f[1]])
    [] f[2] = "sidecar" -> r[f[1]]
    [] OTHER -> encode_bin(r[f[1]])

EncodeRecord(r, flags) ==
  Join(<<<<MagicRecord, flags>>, encode_bin(r.id), encode_bin(r.flow_type), encode_bin(r.state),
         encode_int(r.version), encode_int(r.created_at_ms), encode_int(r.updated_at_ms)>>
       \o [i \in DOMAIN RecordFields |-> encode_flagged(r, flags, RecordFields[i])])

encode_flow_record_compact(r) ==
  IF \/ \E f \in {"id", "flow_type", "state"} : r[f] \in {Nil, <<>>}
     \/ \E f \in {"version", "created_at_ms", "updated_at_ms"} : r[f] = Nil \/ r[f] > MaxExact
  THEN Nil
  ELSE EncodeRecord(r, encode_record_flags(r))

\* One field read by a decoder Op, and the accumulated record.
Take(acc, name, d) ==
  IF acc = Nil THEN Nil ELSE IF d = Nil THEN Nil
  ELSE [r |-> [n \in DOMAIN acc.r \cup {name} |-> IF n = name THEN d.v ELSE acc.r[n]], rest |-> d.rest]

\* decode_encoded_bin_field: the bytes of an encoded binary, still encoded.
decode_encoded_bin_field(in) ==
  Then(decode_bin(in), LAMBDA d : [v |-> SubSeq(in, 1, Len(in) - Len(d.rest)), rest |-> d.rest])

decode_flagged(acc, flags, f) ==
  IF acc = Nil THEN Nil
  ELSE IF f[2] = "root" /\ "root_flow_id_self" \in flags
  THEN Take(acc, f[1], [v |-> acc.r.id, rest |-> acc.rest])
  ELSE IF f[1] \notin flags
  THEN Take(acc, f[1], [v |-> CASE f[2] = "zero" -> 0 [] f[2] = "sidecar" -> EmptyGroups [] OTHER -> Nil,
                        rest |-> acc.rest])
  ELSE Take(acc, f[1], CASE f[2] \in {"zero", "int"} -> decode_int(acc.rest)
                         [] f[2] = "sidecar" -> decode_encoded_bin_field(acc.rest)
                         [] OTHER -> decode_bin(acc.rest))

\* The required fields, then the flagged ones in wire order.
RequiredBin(acc, n) == Then(acc, LAMBDA a : Take(a, n, decode_required_record_bin(a.rest)))
RequiredInt(acc, n) == Then(acc, LAMBDA a : Take(a, n, decode_required_record_int(a.rest)))
FlaggedFields(acc, flags, fields) == FoldLeft(LAMBDA a, f : decode_flagged(a, flags, f), acc, fields)

decode_flow_record(value) ==
  IF Len(value) < 2 \/ value[1] # MagicRecord THEN Nil
  ELSE IF ~(value[2] \subseteq RECORD_KNOWN_FLAGS) THEN Nil
  ELSE Then(FoldLeft(RequiredBin, [r |-> <<>>, rest |-> SubSeq(value, 3, Len(value))],
                     <<"id", "flow_type", "state">>), LAMBDA named :
         Then(FoldLeft(RequiredInt, named, <<"version", "created_at_ms", "updated_at_ms">>), LAMBDA timed :
           Then(FlaggedFields(timed, value[2], RecordInts), LAMBDA counted :
             Then(FlaggedFields(counted, value[2], RecordBins), LAMBDA all :
               IF all.rest # <<>> THEN Nil ELSE all.r))))

AllOrNil(s) == IF \E i \in DOMAIN s : s[i] = Nil THEN Nil ELSE s

flow_records_decode(values) == AllOrNil([i \in DOMAIN values |-> decode_flow_record(values[i])])

blank(b) == b \in {Nil, <<>>}

flow_records_terminal_after_noop(values) ==
  [i \in DOMAIN values |->
     \E r \in {decode_flow_record(values[i])} \ {Nil} :
        blank(r.parent_flow_id) /\ encoded_child_groups_empty(r.child_groups)]
-----------------------------------------------------------------------------
(* History events.                                                         *)

HistoryFields ==
  << <<"priority", "zero">>, <<"attempts", "zero">>, <<"fencing_token", "zero">>,
     <<"created_at_ms", "at">>, <<"updated_at_ms", "at">>, <<"next_run_at_ms", "int">>,
     <<"lease_deadline_ms", "deadline">>, <<"lease_owner", "bin">>, <<"payload_ref", "bin">>,
     <<"result_ref", "bin">>, <<"error_ref", "bin">>, <<"rewound_to_event_id", "bin">> >>

HISTORY_KNOWN_FLAGS == {HistoryFields[i][1] : i \in DOMAIN HistoryFields} \cup {"meta"}

\* A time equal to the event's own is left out, and so is an empty binary.
encode_history_flags(h) ==
  {f[1] : f \in {g \in ToSet(HistoryFields) :
     CASE g[2] \in {"zero", "deadline"} -> h[g[1]] \notin {Nil, 0}
       [] g[2] = "at" -> h[g[1]] # Nil /\ h.now_ms # Nil /\ h[g[1]] # h.now_ms
       [] g[2] = "bin" -> h[g[1]] \notin {Nil, <<>>}
       [] OTHER -> h[g[1]] # Nil}}
  \cup (IF h.meta # <<>> THEN {"meta"} ELSE {})

\* The metadata is a count and as many pairs of required binaries.
MetaBytes(meta) == Join(<<encode_int(Len(meta))>> \o
  [i \in 1..(2 * Len(meta)) |-> encode_bin(meta[(i + 1) \div 2][2 - (i % 2)])])

encode_flow_history_compact(h) ==
  LET flags == encode_history_flags(h)
  IN Join(<<<<MagicHistory, flags>>, encode_bin(h.event), encode_int(h.version), encode_int(h.now_ms), encode_bin(h.state)>>
          \o [i \in DOMAIN HistoryFields |->
                CASE HistoryFields[i][1] \notin flags -> <<>>
                  [] HistoryFields[i][2] = "bin" -> encode_bin(h[HistoryFields[i][1]])
                  [] OTHER -> encode_int(h[HistoryFields[i][1]])]
          \o <<IF "meta" \in flags THEN MetaBytes(h.meta) ELSE <<>>>>)

\* The count must leave two bytes for each pair before room is made for it.
checked_history_field_capacity(count, remaining) == count <= remaining \div 2

decode_required_bin(in) == Then(decode_bin(in), LAMBDA d : IF d.v = Nil THEN Nil ELSE d)

decode_meta_pairs(acc, n) ==
  Then(acc, LAMBDA a :
    Then(decode_required_bin(a.rest), LAMBDA k :
      Then(decode_required_bin(k.rest), LAMBDA v : [v |-> Append(a.v, <<k.v, v.v>>), rest |-> v.rest])))

HistoryHead(acc, f) ==
  Then(acc, LAMBDA a :
    Take(a, f, CASE f = "event" -> decode_required_bin(a.rest) [] f = "state" -> decode_bin(a.rest)
                 [] OTHER -> decode_int(a.rest)))

HistoryField(acc, flags, f) ==
  Then(acc, LAMBDA a :
    Take(a, f[1],
         IF f[1] \notin flags
         THEN [v |-> CASE f[2] = "zero" -> 0 [] f[2] = "at" -> a.r.now_ms [] OTHER -> Nil, rest |-> a.rest]
         ELSE IF f[2] = "bin" THEN decode_bin(a.rest) ELSE decode_int(a.rest)))

\* The metadata, when the fields before it leave room for the pairs it counts.
HistoryMeta(all, count) ==
  IF count.v = Nil THEN Nil
  ELSE IF ~checked_history_field_capacity(count.v, Len(count.rest)) THEN Nil
  ELSE Then(FoldLeft(decode_meta_pairs, [v |-> <<>>, rest |-> count.rest], [i \in 1..count.v |-> i]),
            LAMBDA pairs : IF pairs.rest # <<>> THEN Nil
                           ELSE [n \in DOMAIN all.r \cup {"meta"} |-> IF n = "meta" THEN pairs.v ELSE all.r[n]])

flow_history_decode(value) ==
  IF Len(value) < 2 \/ value[1] # MagicHistory THEN Nil
  ELSE IF ~(value[2] \subseteq HISTORY_KNOWN_FLAGS) THEN Nil
  ELSE Then(FoldLeft(HistoryHead, [r |-> <<>>, rest |-> SubSeq(value, 3, Len(value))],
                     <<"event", "version", "now_ms", "state">>), LAMBDA start :
         Then(FoldLeft(LAMBDA acc, f : HistoryField(acc, value[2], f), start, HistoryFields), LAMBDA all :
           Then(IF "meta" \in value[2] THEN decode_int(all.rest) ELSE [v |-> 0, rest |-> all.rest],
                LAMBDA count : HistoryMeta(all, count))))
-----------------------------------------------------------------------------
(* A caller encodes a record, an event or an integer.                      *)

CONSTANTS SampleRecords, SampleEvents, SampleBytes

VARIABLE coded   \* what a caller passed, and the bytes it got

CodecInit ==
  \/ \E r \in SampleRecords : coded = [kind |-> "record", of |-> r, bytes |-> <<>>]
  \/ \E h \in SampleEvents : coded = [kind |-> "event", of |-> h, bytes |-> <<>>]
  \/ \E b \in SampleBytes : coded = [kind |-> "bytes", of |-> <<>>, bytes |-> b]

flow_record_encode ==
  /\ coded.kind = "record" /\ coded.bytes = <<>>
  /\ coded' = [coded EXCEPT !.bytes = encode_flow_record_compact(coded.of)]

flow_history_encode ==
  /\ coded.kind = "event" /\ coded.bytes = <<>>
  /\ coded' = [coded EXCEPT !.bytes = encode_flow_history_compact(coded.of)]

CodecNext == flow_record_encode \/ flow_history_encode
-----------------------------------------------------------------------------
(* Properties.                                                             *)

\* A record read back: absent counters are 0 and an empty sidecar is J{}.
ReadBack(r) ==
  [f \in DOMAIN r |-> CASE f \in {"attempts", "fencing_token", "priority", "lease_deadline_ms"} /\ r[f] = Nil -> 0
                        [] f = "child_groups" /\ encoded_child_groups_empty(r[f]) -> EmptyGroups
                        [] OTHER -> r[f]]

EventReadBack(h) ==
  [f \in DOMAIN h |-> CASE f \in {"attempts", "fencing_token", "priority"} /\ h[f] = Nil -> 0
                        [] f \in {"created_at_ms", "updated_at_ms"} /\ h[f] = Nil -> h.now_ms
                        [] f = "lease_deadline_ms" /\ h[f] = 0 -> Nil
                        [] f \in {"lease_owner", "payload_ref", "result_ref", "error_ref", "rewound_to_event_id"} /\ h[f] = <<>> -> Nil
                        [] OTHER -> h[f]]

HasMax(r) ==
  \E f \in DOMAIN r \cap {"version", "attempts", "fencing_token", "created_at_ms", "updated_at_ms", "next_run_at_ms", "lease_deadline_ms"} :
    r[f] = U64Max

\* Cut short or followed by another byte, a value is not taken for one.
NoOtherLength(Decode(_), value) ==
  /\ Decode(Append(value, 0)) = Nil
  /\ \A n \in 0..(Len(value) - 1) : Decode(SubSeq(value, 1, n)) = Nil

\* What the NIFs encode, the decoders read back, whichever optional fields are
\* present, zero, empty or equal to a default; a field at u64::MAX is refused and
\* never wrapped; a value cut short or with bytes after it is refused; and a varint
\* that decodes is the one encoding of its value, neither padded nor overflowing.
RoundTrip ==
  CASE coded.bytes = <<>> -> TRUE
    [] coded.kind = "record" ->
         LET r == coded.of
         IN IF coded.bytes = Nil
            THEN HasMax(r) \/ r.id \in {Nil, <<>>} \/ r.flow_type \in {Nil, <<>>} \/ r.version = Nil \/ r.version > MaxExact
            ELSE decode_flow_record(coded.bytes) = ReadBack(r) /\ NoOtherLength(decode_flow_record, coded.bytes)
    [] coded.kind = "event" ->
         IF coded.bytes = Nil THEN HasMax(coded.of)
         ELSE flow_history_decode(coded.bytes) = EventReadBack(coded.of) /\ NoOtherLength(flow_history_decode, coded.bytes)
    [] OTHER ->
         LET d == decode_varint(coded.bytes) IN d # Nil => coded.bytes = encode_varint(d.v) \o d.rest
=============================================================================
