------------------------------ MODULE ZsetTree ------------------------------
(***************************************************************************)
(* A copy-on-write transaction over the two counted B+trees of a           *)
(* sorted-set file (tree.rs of zset_tree): one keyed by score prefix and   *)
(* member, one by member.  Nodes the transaction changes are copied into   *)
(* tx.nodes; child -i names tx.nodes[i], a positive child is a page.       *)
(***************************************************************************)
EXTENDS ZsetNode

EMPTY == 0
Score == 1
Member == 2
NoSplit == <<>>

Begin(cells, base) ==
    [cells |-> cells, base |-> base, nodes |-> <<>>,
     roots |-> <<base.score_root, base.member_root>>, count |-> base.count,
     log |-> <<>>, failed |-> FALSE]

load(tx, offset) == decode_node(tx.cells, read_page(tx.cells, offset))
node(tx, child) == IF child < 0 THEN tx.nodes[-child] ELSE load(tx, child)

push(tx, n) == [tx EXCEPT !.nodes = Append(@, n)]
Pushed(tx) == -Len(tx.nodes)
LastOf(tx) == [tx |-> tx, child |-> Pushed(tx)]

(* The child as a node of the transaction, copied there when it is not yet.*)
make_dirty(tx, child) ==
    IF child < 0 THEN [tx |-> tx, child |-> child]
    ELSE LastOf(push(tx, IF child = EMPTY THEN Leaf(<<>>, <<>>) ELSE load(tx, child)))
Put(tx, child, n) == [tx EXCEPT !.nodes[-child] = n]

(* Positions are counted from 0: the separators at or below key, and the   *)
(* keys below it.                                                          *)
child_index(seps, key) == Cardinality({i \in 1..Len(seps) : Le(seps[i].bytes, key)})
leaf_position(leaf, key) == Cardinality({i \in 1..Len(leaf.keys) : Lt(leaf.keys[i].bytes, key)})
leaf_has(leaf, key) == \E i \in 1..Len(leaf.keys) : leaf.keys[i].bytes = key

-----------------------------------------------------------------------------
(* The value under key, <<>> when it has none.                             *)
FoundValue(view, at) == IF at.found THEN view_value(view, at.low + 1) ELSE <<>>

RECURSIVE get_rec(_, _, _)
GetPage(tx, view, key) ==
    IF view.leaf THEN FoundValue(view, search(tx.cells, view, key))
    ELSE get_rec(tx, view_child(view, view_child_index(tx.cells, view, key)).offset, key)
get_rec(tx, child, key) ==
    IF child < 0
    THEN LET n == tx.nodes[-child]
         IN  IF ~ n.leaf THEN get_rec(tx, n.children[child_index(n.keys, key) + 1], key)
             ELSE IF leaf_has(n, key) THEN n.values[leaf_position(n, key) + 1] ELSE <<>>
    ELSE GetPage(tx, PageView(read_page(tx.cells, child)), key)
get(tx, tree, key) ==
    IF tx.roots[tree] = EMPTY THEN <<>> ELSE get_rec(tx, tx.roots[tree], key)

(* The number of keys below key.                                           *)
RECURSIVE rank_rec(_, _, _)
RankBelow(tx, view, i, key) ==
    Total([j \in 1..i |-> view_child(view, j - 1).count])
    + rank_rec(tx, view_child(view, i).offset, key)
RankPage(tx, view, key) ==
    IF view.leaf THEN search(tx.cells, view, key).low
    ELSE RankBelow(tx, view, view_child_index(tx.cells, view, key), key)
rank_rec(tx, child, key) ==
    IF child < 0
    THEN LET n == tx.nodes[-child]
             i == child_index(n.keys, key)
         IN  IF n.leaf THEN leaf_position(n, key)
             ELSE Total(SubSeq(n.counts, 1, i)) + rank_rec(tx, n.children[i + 1], key)
    ELSE RankPage(tx, PageView(read_page(tx.cells, child)), key)
rank(tx, tree, key) ==
    IF tx.roots[tree] = EMPTY THEN 0 ELSE rank_rec(tx, tx.roots[tree], key)

(* Keys and values at positions [start, end) of a subtree, in order.       *)
Smaller(a, b) == IF a < b THEN a ELSE b
Larger(a, b) == IF a > b THEN a ELSE b

RECURSIVE range_rec(_, _, _, _)
RangeNode(tx, n, start, end) ==
    LET step(acc, i) ==
            IF acc.offset >= end THEN acc
            ELSE [offset |-> acc.offset + n.counts[i],
                  out |-> IF acc.offset + n.counts[i] <= start THEN acc.out
                          ELSE acc.out \o range_rec(tx, n.children[i], Larger(start - acc.offset, 0),
                                                    Smaller(end - acc.offset, n.counts[i]))]
        stop == Smaller(end, Len(n.keys))
    IN  IF n.leaf
        THEN [i \in 1..Larger(stop - start, 0) |->
                 [key |-> n.keys[start + i].bytes, value |-> n.values[start + i]]]
        ELSE FoldLeft(step, [offset |-> 0, out |-> <<>>], UpTo(Len(n.counts))).out
range_rec(tx, child, start, end) == RangeNode(tx, node(tx, child), start, end)
range(tx, tree, start, end) ==
    IF tx.roots[tree] = EMPTY \/ start >= end THEN <<>>
    ELSE range_rec(tx, tx.roots[tree], start, end)

-----------------------------------------------------------------------------
(* Where a node splits: the cells before it first reach half of the sizes, *)
(* at least one on each side (SplitAt), two for a branch.                  *)
SplitAt(sizes, last) ==
    1 + Cardinality({n \in 2..last : Total(SubSeq(sizes, 1, n)) <= Total(sizes) \div 2})

LeafHalves(n, at) ==
    [left |-> Leaf(SubSeq(n.keys, 1, at), SubSeq(n.values, 1, at)),
     sep |-> n.keys[at + 1],
     right |-> Leaf(From(n.keys, at + 1), From(n.values, at + 1))]
split_leaf(n) == LeafHalves(n, SplitAt(LeafSizes(n), Len(n.keys) - 1))

BranchHalves(n, mid) ==
    [left |-> Branch(SubSeq(n.keys, 1, mid), SubSeq(n.children, 1, mid + 1),
                     SubSeq(n.counts, 1, mid + 1)),
     sep |-> n.keys[mid + 1],
     right |-> Branch(From(n.keys, mid + 2), From(n.children, mid + 2), From(n.counts, mid + 2))]
split_branch(n) == BranchHalves(n, SplitAt(BranchSizes(n), Len(n.keys) - 2))

(* The node at child split in two, when it does not fit a page.            *)
SplitInto(tx, child, halves) ==
    LET t == push(Put(tx, child, halves.left), halves.right)
    IN  [tx |-> t,
         split |-> <<[sep |-> halves.sep, right |-> Pushed(t),
                      left_count |-> node_count(halves.left),
                      right_count |-> node_count(halves.right)]>>]
SplitIfFull(tx, child) ==
    LET n == tx.nodes[-child]
    IN  IF encoded_len(n) <= PAGE_SIZE THEN [tx |-> tx, split |-> NoSplit]
        ELSE SplitInto(tx, child, IF n.leaf THEN split_leaf(n) ELSE split_branch(n))

Inserted(done, child, replaced) ==
    [tx |-> done.tx, child |-> child, split |-> done.split, replaced |-> replaced]

InsertLeaf(tx, child, key, value) ==
    LET n == tx.nodes[-child]
        at == leaf_position(n, key.bytes) + 1
    IN  IF leaf_has(n, key.bytes)
        THEN Inserted([tx |-> Put(tx, child, [n EXCEPT !.values[at] = value]), split |-> NoSplit],
                      child, TRUE)
        ELSE Inserted(SplitIfFull(Put(tx, child, Leaf(InsertAt(n.keys, at, key),
                                                      InsertAt(n.values, at, value))), child),
                      child, FALSE)

(* A branch after the insertion under its child i, which may have split.   *)
Widened(b, i, split) ==
    IF split = NoSplit THEN b
    ELSE Branch(InsertAt(b.keys, i, split[1].sep), InsertAt(b.children, i + 1, split[1].right),
                InsertAt([b.counts EXCEPT ![i] = split[1].left_count], i + 1, split[1].right_count))
InsertBranch(child, i, below) ==
    LET b == [below.tx.nodes[-child] EXCEPT
                 !.children[i] = below.child,
                 !.counts[i] = IF below.replaced THEN @ ELSE @ + 1]
    IN  Inserted(SplitIfFull(Put(below.tx, child, Widened(b, i, below.split)), child),
                 child, below.replaced)

RECURSIVE insert_rec(_, _, _, _)
InsertDirty(dirty, key, value) ==
    LET n == dirty.tx.nodes[-dirty.child]
        i == child_index(n.keys, key.bytes) + 1
    IN  IF n.leaf THEN InsertLeaf(dirty.tx, dirty.child, key, value)
        ELSE InsertBranch(dirty.child, i, insert_rec(dirty.tx, n.children[i], key, value))
insert_rec(tx, child, key, value) == InsertDirty(make_dirty(tx, child), key, value)

NewRoot(tx, tree) == [tx EXCEPT !.roots[tree] = Pushed(tx)]
InsertRoot(tree, r) ==
    LET s == r.split[1]
    IN  IF r.split = NoSplit THEN [r.tx EXCEPT !.roots[tree] = r.child]
        ELSE NewRoot(push(r.tx, Branch(<<s.sep>>, <<r.child, s.right>>,
                                       <<s.left_count, s.right_count>>)), tree)
insert(tx, tree, key, value) == InsertRoot(tree, insert_rec(tx, tx.roots[tree], Key(key), value))

-----------------------------------------------------------------------------
(* After a removal under child i: an emptied child is dropped, an underfull*)
(* one merged with a neighbour and the result split again when it does not *)
(* fit a page.                                                             *)
DropChild(n, i) ==
    Branch(RemoveAt(n.keys, Larger(Smaller(i - 1, Len(n.keys)), 1)),
           RemoveAt(n.children, i), RemoveAt(n.counts, i))

Merged(l, sep, r) ==
    IF l.leaf THEN Leaf(l.keys \o r.keys, l.values \o r.values)
    ELSE Branch(l.keys \o <<sep>> \o r.keys, l.children \o r.children, l.counts \o r.counts)

Joined(b, left) ==
    Branch(RemoveAt(b.keys, left), RemoveAt(b.children, left + 1),
           RemoveAt([b.counts EXCEPT ![left] = @ + b.counts[left + 1]], left + 1))
Resplit(b, left, s) ==
    Branch([b.keys EXCEPT ![left] = s.sep], [b.children EXCEPT ![left + 1] = s.right],
           [b.counts EXCEPT ![left] = s.left_count, ![left + 1] = s.right_count])
PutJoined(child, b, left, r) ==
    Put(r.tx, child, IF r.split = NoSplit THEN Joined(b, left) ELSE Resplit(b, left, r.split[1]))

MergeInto(n, child, left, dirty, right) ==
    LET merged == Merged(dirty.tx.nodes[-dirty.child], n.keys[left], right)
    IN  PutJoined(child, [n EXCEPT !.children[left] = dirty.child], left,
                  SplitIfFull(Put(dirty.tx, dirty.child, merged), dirty.child))
MergeNeighbours(tx, child, i) ==
    LET n == tx.nodes[-child]
        left == IF i > 1 THEN i - 1 ELSE i
    IN  MergeInto(n, child, left, make_dirty(tx, n.children[left]), node(tx, n.children[left + 1]))

rebalance(tx, child, i) ==
    LET n == tx.nodes[-child]
    IN  IF n.counts[i] = 0 THEN Put(tx, child, DropChild(n, i))
        ELSE IF Len(n.children) < 2 \/ encoded_len(node(tx, n.children[i])) >= PAGE_SIZE \div 4
        THEN tx
        ELSE MergeNeighbours(tx, child, i)

RemoveBranch(child, i, below) ==
    LET b == [below.tx.nodes[-child] EXCEPT !.children[i] = below.child, !.counts[i] = @ - 1]
    IN  rebalance(Put(below.tx, child, b), child, i)

RECURSIVE remove_rec(_, _, _)
RemoveDirty(dirty, key) ==
    LET n == dirty.tx.nodes[-dirty.child]
        at == leaf_position(n, key) + 1
        i == child_index(n.keys, key) + 1
    IN  [tx |-> IF n.leaf
                THEN Put(dirty.tx, dirty.child, Leaf(RemoveAt(n.keys, at), RemoveAt(n.values, at)))
                ELSE RemoveBranch(dirty.child, i, remove_rec(dirty.tx, n.children[i], key)),
         child |-> dirty.child]
remove_rec(tx, child, key) == RemoveDirty(make_dirty(tx, child), key)

(* A root with one child hands over to it; an empty leaf is the empty tree.*)
RECURSIVE collapse(_, _)
CollapseNode(tx, child, n) ==
    IF ~ n.leaf /\ Len(n.children) = 1 THEN collapse(tx, n.children[1])
    ELSE IF n.leaf /\ n.keys = <<>> THEN EMPTY ELSE child
collapse(tx, child) == CollapseNode(tx, child, node(tx, child))

RemoveRoot(tree, r) == [r.tx EXCEPT !.roots[tree] = collapse(r.tx, r.child)]
remove(tx, tree, key) ==
    IF get(tx, tree, key) = <<>> THEN tx
    ELSE RemoveRoot(tree, remove_rec(tx, tx.roots[tree], key))

-----------------------------------------------------------------------------
(* Writes a dirty subtree children first, long keys' overflow pages before *)
(* the node that names them; a key written twice in a frame shares a chain.*)
WriteLongKeys(w, child) ==
    LET n == w.nodes[-child]
        step(acc, i) ==
            LET key == acc.nodes[-child].keys[i]
                shared == \E o \in acc.overflow : o.bytes = key.bytes
                head == IF shared THEN (CHOOSE o \in acc.overflow : o.bytes = key.bytes).head
                        ELSE acc.base + Len(acc.pages)
            IN  IF ~ IsLong(key) \/ key.overflow # 0 THEN acc
                ELSE [acc EXCEPT
                        !.nodes[-child] = [@ EXCEPT !.keys[i] = [@ EXCEPT !.overflow = head]],
                        !.pages = IF shared THEN @ ELSE @ \o encode_overflow(key.bytes, head),
                        !.overflow = @ \cup {[bytes |-> key.bytes, head |-> head]}]
    IN  FoldLeft(step, w, UpTo(Len(n.keys)))

WriteNode(w, child) ==
    LET n == w.nodes[-child]
        offsets == [i \in 1..Len(n.children) |->
                      IF n.children[i] >= 0 THEN n.children[i] ELSE w.written[-n.children[i]]]
    IN  [w EXCEPT !.pages = Append(@, encode_node(n, offsets)),
                  !.written[-child] = w.base + Len(w.pages)]

RECURSIVE write_child(_, _)
write_child(w, child) ==
    LET n == w.nodes[-child]
    IN  IF child >= 0 \/ w.written[-child] # 0 THEN w
        ELSE WriteNode(WriteLongKeys(IF n.leaf THEN w ELSE FoldLeft(write_child, w, n.children),
                                     child), child)

(* The frame of a transaction, to be written at the end of the file, and   *)
(* the state it makes.  A transaction that changed nothing writes nothing. *)
CommitFrame(tx, token, w) ==
    LET start == tx.base.frame_end
        root(tree) == IF tx.roots[tree] >= 0 THEN tx.roots[tree] ELSE w.written[-tx.roots[tree]]
        body == <<frame_header(Len(w.pages), token, FALSE)>> \o w.pages
                \o <<<<LOG_MAGIC>> \o encode_ops(tx.log)>>
        trailer == [score_root |-> root(Score), member_root |-> root(Member), count |-> tx.count,
                    frame_start |-> start, generation |-> tx.base.generation + 1,
                    token |-> token, body |-> body]
    IN  [frame |-> Append(body, encode_trailer(trailer)),
         state |-> [score_root |-> trailer.score_root, member_root |-> trailer.member_root,
                    count |-> tx.count, token |-> token,
                    frame_end |-> start + Len(body) + 1,
                    generation |-> trailer.generation, synced |-> tx.base.synced]]
commit(tx, token) ==
    LET w0 == [nodes |-> tx.nodes, pages |-> <<>>, base |-> tx.base.frame_end + 1,
               overflow |-> {}, written |-> [i \in 1..Len(tx.nodes) |-> 0]]
    IN  IF tx.log = <<>> THEN [frame |-> <<>>, state |-> tx.base]
        ELSE CommitFrame(tx, token, write_child(write_child(w0, tx.roots[Score]), tx.roots[Member]))

-----------------------------------------------------------------------------
(* Every structural invariant of a tree: order, separator bounds, counts,  *)
(* page fit, equal depth, at least two children.  Bounds are <<>> or <<key>>. *)
RECURSIVE check_rec(_, _, _, _)
CheckNode(tx, n, low, high) ==
    LET inside(key) == (low = <<>> \/ Le(low[1], key)) /\ (high = <<>> \/ Lt(key, high[1]))
        below == [i \in 1..Len(n.children) |->
                    check_rec(tx, n.children[i],
                              IF i = 1 THEN low ELSE <<n.keys[i - 1].bytes>>,
                              IF i > Len(n.keys) THEN high ELSE <<n.keys[i].bytes>>)]
    IN  IF n.leaf
        THEN [ok |-> /\ encoded_len(n) <= PAGE_SIZE /\ n.keys # <<>>
                     /\ \A i \in 1..Len(n.keys) : inside(n.keys[i].bytes)
                     /\ \A i \in 1..(Len(n.keys) - 1) : Lt(n.keys[i].bytes, n.keys[i + 1].bytes),
              depth |-> 0, count |-> Len(n.keys)]
        ELSE [ok |-> /\ encoded_len(n) <= PAGE_SIZE
                     /\ Len(n.children) >= 2 /\ Len(n.keys) + 1 = Len(n.children)
                     /\ \A i \in 1..Len(below) : /\ below[i].ok /\ below[i].count = n.counts[i]
                                                 /\ below[i].depth = below[1].depth,
              depth |-> below[1].depth + 1, count |-> Total(n.counts)]
check_rec(tx, child, low, high) == CheckNode(tx, node(tx, child), low, high)
check(tx, tree) ==
    IF tx.roots[tree] = EMPTY THEN tx.count = 0
    ELSE LET c == check_rec(tx, tx.roots[tree], <<>>, <<>>) IN c.ok /\ c.count = tx.count
=============================================================================
