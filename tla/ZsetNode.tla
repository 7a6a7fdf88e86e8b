------------------------------ MODULE ZsetNode ------------------------------
(***************************************************************************)
(* The stored form of a sorted-set tree: scores and their sortable         *)
(* prefixes, keys, leaf, branch and overflow pages, and the log of changes *)
(* (format.rs and node.rs of zset_tree).  A file is a sequence of cells; a *)
(* page, a frame header, a frame's log and a trailer each fill one cell, a *)
(* cell that never reached the disk is Junk, and a checksum is the content *)
(* it covers.  Strings of bytes are sequences of numbers, and the eight    *)
(* bytes of a score one number.                                            *)
(***************************************************************************)
EXTENDS Integers, Sequences, SequencesExt, FiniteSets

CONSTANTS
    PAGE_SIZE,         \* cells' capacity, in numbers
    INLINE_KEY_MAX,    \* longest key kept whole in a node
    OVERFLOW_PREFIX,   \* numbers of a longer key kept in the node
    OVERFLOW_PAYLOAD,  \* numbers of a key in one overflow page
    SIGN               \* sign bit of a score; SIGN - 2 is infinity, SIGN - 1 NaN

PAGE_HEADER == 3
HEADER_REGION == 1
KIND_LEAF == 1
KIND_BRANCH == 2
KIND_OVERFLOW == 3
OP_SET_NEW == 1
OP_REMOVE == 2
OP_SET_CHANGED == 3
FRAME_MAGIC == 11
TRAILER_MAGIC == 12
LOG_MAGIC == 13
Junk == <<0>>

Total(s) == FoldLeft(LAMBDA a, b : a + b, 0, s)
Listed(f) == <<>> \o f   \* a function on 1..n, enumerated as a sequence
UpTo(n) == [i \in 1..n |-> i]
From(s, i) == SubSeq(s, i, Len(s))

-----------------------------------------------------------------------------
(* Order of byte strings.                                                  *)
Lt(a, b) ==
    \E i \in 1..Len(b) :
        /\ i - 1 <= Len(a)
        /\ \A j \in 1..(i - 1) : a[j] = b[j]
        /\ i > Len(a) \/ a[i] < b[i]
Le(a, b) == ~ Lt(b, a)

(* The Raft position a frame was written for, <<index, ordinal>>.          *)
TokenLt(s, t) == Lt(s, t)
TokenLe(s, t) == Le(s, t)

-----------------------------------------------------------------------------
(* Scores are floating-point bit patterns of a small width.                *)
is_nan(x) == x % SIGN = SIGN - 1
is_infinite(x) == x % SIGN = SIGN - 2
Value(x) == IF x >= SIGN THEN SIGN - x ELSE x
NaN == SIGN - 1

(* Addition rounds what is too large to infinity; 0 is negative only as a  *)
(* sum of negative zeros.                                                  *)
Plus(x, y) ==
    LET sum == Value(x) + Value(y)
        big == SIGN - 2
    IN  CASE is_nan(x) \/ is_nan(y) -> NaN
          [] is_infinite(x) /\ is_infinite(y) /\ x # y -> NaN
          [] is_infinite(x) -> x
          [] is_infinite(y) -> y
          [] sum >= big -> big
          [] sum <= -big -> SIGN + big
          [] sum < 0 -> SIGN - sum
          [] sum = 0 -> IF x = SIGN /\ y = SIGN THEN SIGN ELSE 0
          [] OTHER -> sum

normalize_score(x) == IF Value(x) = 0 THEN 0 ELSE x

(* Bits whose order is the order of the scores.                            *)
score_prefix(x) ==
    LET bits == normalize_score(x)
    IN  IF bits >= SIGN THEN 2 * SIGN - 1 - bits ELSE bits + SIGN

next_score_prefix(p) == IF p = 2 * SIGN - 1 THEN <<>> ELSE <<p + 1>>

-----------------------------------------------------------------------------
(* Nodes.  Children are page offsets when positive and nodes of the        *)
(* transaction when negative; 0 is the empty tree.                         *)
Key(bytes) == [bytes |-> bytes, overflow |-> 0]
IsLong(key) == Len(key.bytes) > INLINE_KEY_MAX
key_len(key) == IF IsLong(key) THEN 2 + OVERFLOW_PREFIX + 1 ELSE 2 + Len(key.bytes)

Leaf(keys, values) == [leaf |-> TRUE, keys |-> keys, values |-> values]
Branch(keys, children, counts) ==
    [leaf |-> FALSE, keys |-> keys, children |-> children, counts |-> counts]

entry_len(key, value) == key_len(key) + 1 + Len(value)
LeafSizes(node) == [i \in 1..Len(node.keys) |-> entry_len(node.keys[i], node.values[i])]
BranchSizes(node) == [i \in 1..Len(node.keys) |-> key_len(node.keys[i]) + 2]
encoded_len(node) ==
    IF node.leaf THEN PAGE_HEADER + Total(LeafSizes(node))
    ELSE PAGE_HEADER + 2 + Total(BranchSizes(node))
node_count(node) == IF node.leaf THEN Len(node.keys) ELSE Total(node.counts)

encode_key(key) ==
    IF IsLong(key)
    THEN <<1, Len(key.bytes)>> \o SubSeq(key.bytes, 1, OVERFLOW_PREFIX) \o <<key.overflow>>
    ELSE <<0, Len(key.bytes)>> \o key.bytes

(* A node whose children are all on disk; offsets are their pages, in      *)
(* order.                                                                  *)
encode_node(node, offsets) ==
    IF node.leaf
    THEN <<KIND_LEAF, Len(node.keys), encoded_len(node)>>
         \o FlattenSeq([i \in 1..Len(node.keys) |->
              encode_key(node.keys[i]) \o <<Len(node.values[i])>> \o node.values[i]])
    ELSE <<KIND_BRANCH, Len(node.children), encoded_len(node),
           offsets[1], node.counts[1]>>
         \o FlattenSeq([i \in 1..Len(node.keys) |->
              encode_key(node.keys[i]) \o <<offsets[i + 1], node.counts[i + 1]>>])

encode_overflow(bytes, first) ==
    LET n == (Len(bytes) + OVERFLOW_PAYLOAD - 1) \div OVERFLOW_PAYLOAD
        chunk(i) == SubSeq(bytes, (i - 1) * OVERFLOW_PAYLOAD + 1,
                           IF i = n THEN Len(bytes) ELSE i * OVERFLOW_PAYLOAD)
    IN  [i \in 1..n |->
            <<KIND_OVERFLOW, 0, PAGE_HEADER + 1 + Len(chunk(i)), IF i < n THEN first + i ELSE 0>>
            \o chunk(i)]

-----------------------------------------------------------------------------
(* Pages as they are read back.  A page at an offset nothing was written   *)
(* to, or under another page's bytes, fails its checksum.                  *)
read_page(cells, offset) ==
    IF offset >= HEADER_REGION /\ offset <= Len(cells) THEN cells[offset] ELSE Junk
verify_page(page) ==
    /\ Len(page) >= PAGE_HEADER
    /\ page[1] \in {KIND_LEAF, KIND_BRANCH, KIND_OVERFLOW}
    /\ page[3] = Len(page) /\ page[3] <= PAGE_SIZE
is_node_page(page) == verify_page(page) /\ page[1] # KIND_OVERFLOW

OverflowPage(at, page) ==
    IF ~ verify_page(page) \/ page[1] # KIND_OVERFLOW THEN [at EXCEPT !.ok = FALSE]
    ELSE [ok |-> TRUE, next |-> page[4], bytes |-> at.bytes \o From(page, 5)]
WholeChain(read, len) ==
    [ok |-> read.ok /\ read.next = 0 /\ Len(read.bytes) = len, bytes |-> read.bytes]
read_overflow(cells, head, len) ==
    LET pages == (len + OVERFLOW_PAYLOAD - 1) \div OVERFLOW_PAYLOAD
        step(at, i) == IF at.next = 0 \/ ~ at.ok THEN at
                       ELSE OverflowPage(at, read_page(cells, at.next))
    IN  WholeChain(FoldLeft(step, [ok |-> TRUE, next |-> head, bytes |-> <<>>], UpTo(pages)), len)

(* A key where it lies in its page, and where the page goes on after it.   *)
stored_key(page, at) ==
    IF page[at] = 0
    THEN [long |-> FALSE, len |-> page[at + 1], head |-> 0, next |-> at + 2 + page[at + 1],
          prefix |-> SubSeq(page, at + 2, at + 1 + page[at + 1])]
    ELSE [long |-> TRUE, len |-> page[at + 1], head |-> page[at + 2 + OVERFLOW_PREFIX],
          next |-> at + 3 + OVERFLOW_PREFIX,
          prefix |-> SubSeq(page, at + 2, at + 1 + OVERFLOW_PREFIX)]

(* The whole key; a long key must continue the prefix its page stores.     *)
LongBytes(key, read) == [ok |-> read.ok /\ IsPrefix(key.prefix, read.bytes), bytes |-> read.bytes]
stored_bytes(cells, key) ==
    IF ~ key.long THEN [ok |-> TRUE, bytes |-> key.prefix]
    ELSE LongBytes(key, read_overflow(cells, key.head, key.len))

(* Orders a stored key against another, -1, 0 or 1; the overflow pages are *)
(* read only when the first numbers tie.                                   *)
Order(a, b) == IF Lt(a, b) THEN -1 ELSE IF a = b THEN 0 ELSE 1
stored_cmp(cells, key, bytes) ==
    LET start == SubSeq(bytes, 1, IF Len(bytes) < OVERFLOW_PREFIX THEN Len(bytes) ELSE OVERFLOW_PREFIX)
    IN  IF ~ key.long THEN Order(key.prefix, bytes)
        ELSE IF Order(key.prefix, start) # 0 THEN Order(key.prefix, start)
        ELSE Order(stored_bytes(cells, key).bytes, bytes)

(* A page read where it lies: a leaf's keys with where each value starts,  *)
(* a branch's separators with where the child after each starts.           *)
WithEntry(view, key, len) ==
    [entries |-> Append(view.entries, [key |-> key, at |-> key.next]), at |-> key.next + len]
EntryOf(page, view, key) == WithEntry(view, key, IF page[1] = KIND_LEAF THEN 1 + page[key.next] ELSE 2)
PageView(page) ==
    LET leaf == page[1] = KIND_LEAF
        step(view, i) == EntryOf(page, view, stored_key(page, view.at))
        start == IF leaf THEN PAGE_HEADER + 1 ELSE PAGE_HEADER + 3
    IN  [page |-> page, leaf |-> leaf,
         entries |-> FoldLeft(step, [entries |-> <<>>, at |-> start],
                              UpTo(IF leaf THEN page[2] ELSE page[2] - 1)).entries]

view_value(view, i) ==
    LET at == view.entries[i].at IN SubSeq(view.page, at + 1, at + view.page[at])

(* Child i, counted from 0: its page and the number of keys under it.      *)
view_child(view, i) ==
    LET at == IF i = 0 THEN PAGE_HEADER + 1 ELSE view.entries[i].at
    IN  [offset |-> view.page[at], count |-> view.page[at + 1]]

(* Binary search for the first entry not below key: its position from 0,   *)
(* and whether it is the key.                                              *)
Narrowed(at, mid, cmp) ==
    CASE cmp < 0 -> [at EXCEPT !.low = mid + 1]
      [] cmp > 0 -> [at EXCEPT !.high = mid]
      [] cmp = 0 -> [low |-> mid, high |-> mid, found |-> TRUE]
search(cells, view, bytes) ==
    LET step(at, i) ==
            LET mid == at.low + (at.high - at.low) \div 2
            IN  IF at.low >= at.high \/ at.found THEN at
                ELSE Narrowed(at, mid, stored_cmp(cells, view.entries[mid + 1].key, bytes))
        n == Len(view.entries)
    IN  FoldLeft(step, [low |-> 0, high |-> n, found |-> FALSE], UpTo(n))

(* The child that holds key: the number of separators at or below it.      *)
view_child_index(cells, view, bytes) ==
    LET step(at, i) ==
            LET mid == at.low + (at.high - at.low) \div 2
            IN  IF at.low >= at.high THEN at
                ELSE IF stored_cmp(cells, view.entries[mid + 1].key, bytes) > 0
                THEN [at EXCEPT !.high = mid] ELSE [at EXCEPT !.low = mid + 1]
        n == Len(view.entries)
    IN  FoldLeft(step, [low |-> 0, high |-> n], UpTo(n)).low

(* A whole node, copied out of its page; overflow chains are kept by name. *)
ViewKeys(cells, view) ==
    Listed([i \in 1..Len(view.entries) |->
               LET key == view.entries[i].key
               IN  [bytes |-> stored_bytes(cells, key).bytes, overflow |-> key.head]])
ViewNode(view, keys) ==
    LET child(i) == view_child(view, i - 1)
    IN  IF view.leaf
        THEN Leaf(keys, Listed([i \in 1..Len(keys) |-> view_value(view, i)]))
        ELSE Branch(keys, Listed([i \in 1..view.page[2] |-> child(i).offset]),
                    Listed([i \in 1..view.page[2] |-> child(i).count]))
CopyOut(cells, view) == ViewNode(view, ViewKeys(cells, view))
decode_node(cells, page) == CopyOut(cells, PageView(page))
KeysWhole(cells, view) ==
    \A i \in 1..Len(view.entries) : stored_bytes(cells, view.entries[i].key).ok
node_readable(cells, page) == is_node_page(page) /\ KeysWhole(cells, PageView(page))

-----------------------------------------------------------------------------
(* The log of a frame: what it changed, member by member, with what each   *)
(* member had before.                                                      *)
Set(member, score, prev) == [set |-> TRUE, member |-> member, score |-> score, prev |-> prev]
Removed(member, prev) == [set |-> FALSE, member |-> member, score |-> 0, prev |-> prev]

encode_op(op) ==
    LET kind == IF ~ op.set THEN OP_REMOVE
                ELSE IF op.prev = <<>> THEN OP_SET_NEW ELSE OP_SET_CHANGED
    IN  <<kind, Len(op.member)>> \o op.member
        \o (IF op.set THEN <<op.score>> ELSE <<>>) \o op.prev
encode_ops(ops) == FlattenSeq([i \in 1..Len(ops) |-> encode_op(ops[i])])

RECURSIVE decode_ops(_)
decode_ops(bytes) ==
    IF bytes = <<>> THEN <<>>
    ELSE LET member == SubSeq(bytes, 3, 2 + bytes[2])
             rest == From(bytes, 3 + bytes[2])
             op == CASE bytes[1] = OP_SET_NEW -> Set(member, rest[1], <<>>)
                     [] bytes[1] = OP_SET_CHANGED -> Set(member, rest[1], <<rest[2]>>)
                     [] bytes[1] = OP_REMOVE -> Removed(member, <<rest[1]>>)
         IN  <<op>> \o decode_ops(From(rest, IF bytes[1] = OP_SET_CHANGED THEN 3 ELSE 2))

(* A compacted file's log: the changes after floor, one group per frame,   *)
(* oldest first.                                                           *)
encode_undo(undo) ==
    <<undo.floor>> \o FlattenSeq([i \in 1..Len(undo.groups) |->
        LET ops == encode_ops(undo.groups[i].ops)
        IN  undo.groups[i].token \o <<Len(ops)>> \o ops])

RECURSIVE decode_groups(_)
decode_groups(bytes) ==
    IF bytes = <<>> THEN <<>>
    ELSE <<[token |-> <<bytes[1], bytes[2]>>, ops |-> decode_ops(SubSeq(bytes, 4, 3 + bytes[3]))]>>
         \o decode_groups(From(bytes, 4 + bytes[3]))
decode_undo(bytes) ==
    IF bytes = <<>> THEN [floor |-> 0, groups |-> <<>>]
    ELSE [floor |-> bytes[1], groups |-> decode_groups(From(bytes, 2))]

-----------------------------------------------------------------------------
(* Frame headers, trailers and header slots.                               *)
frame_header(pages, token, base) == <<FRAME_MAGIC, pages, IF base THEN 1 ELSE 0>> \o token
is_frame_header(cell) == cell[1] = FRAME_MAGIC
decode_frame_header(cell) ==
    [page_count |-> cell[2], base |-> cell[3] = 1, token |-> <<cell[4], cell[5]>>]
frame_len(header) == 1 + header.page_count + 1 + 1

encode_trailer(t) ==
    <<TRAILER_MAGIC, t.score_root, t.member_root, t.count, t.frame_start, t.generation>>
    \o t.token \o <<t.body>>
is_trailer(cell) == cell[1] = TRAILER_MAGIC
decode_trailer(cell) ==
    [score_root |-> cell[2], member_root |-> cell[3], count |-> cell[4], frame_start |-> cell[5],
     generation |-> cell[6], token |-> <<cell[7], cell[8]>>, body |-> cell[9]]

(* Slot A holds odd generations, slot B even ones; a slot of generation 0  *)
(* is torn or was never written.                                           *)
HeaderSlot(generation, latest, synced) ==
    [generation |-> generation, latest |-> latest, synced |-> synced]
NoSlot == HeaderSlot(0, HEADER_REGION, HEADER_REGION)
EmptySlots == <<HeaderSlot(1, HEADER_REGION, HEADER_REGION), NoSlot>>
slot_offset(slot) == IF slot.generation % 2 = 1 THEN 1 ELSE 2
=============================================================================
