--------------------------- MODULE FlowIndex_proofs ---------------------------
(***************************************************************************)
(* Proofs about the entries of FlowIndex, for any keys, members, scores    *)
(* and event versions.  The requests of the NIFs are folds of their        *)
(* entries; here each entry is a step, so that a request of any length is  *)
(* a sequence of steps.                                                    *)
(***************************************************************************)
EXTENDS FlowIndex, FiniteSetTheorems, TLAPS

VARIABLE deltas \* what a batch of claims has still to add to the counts

evars == <<index, restored, deltas>>

-----------------------------------------------------------------------------
(* Entries as steps *)

EntryInit == index = EmptyIndex /\ restored = {} /\ deltas = [k \in Keys |-> 0]

PutEntry ==
    \E k \in Keys, new_only \in BOOLEAN : \E m, s :
        s # None /\ index' = put(index, k, m, s, new_only)

DeleteEntry == \E k \in Keys : \E m : index' = delete(index, k, m)

MoveEntry ==
    \E from, to \in Keys : \E m, s : s # None /\ index' = move_member(index, from, to, m, s)

\* What a claim names.
IsClaim(c) ==
    /\ {c.from_due, c.to_due, c.from_state, c.to_state, c.inflight, c.worker} \subseteq Keys
    /\ None \notin {c.from_due_score, c.to_due_score, c.from_state_score, c.to_state_score,
                    c.lease_score}

\* One claim of a batch, or the undoing of one; the counts are settled later,
\* key by key.
ClaimEntry ==
    \E c : /\ IsClaim(c)
           /\ \/ [x |-> index', d |-> deltas'] = ClaimOne([x |-> index, d |-> deltas], c)
              \/ [x |-> index', d |-> deltas'] = RollbackOne([x |-> index, d |-> deltas], c)

SettleCount ==
    \E k \in Keys : /\ index' = increment_count(index, k, deltas[k])
                    /\ deltas' = [deltas EXCEPT ![k] = 0]

RestoreCount ==
    \E k \in Keys, c \in Int : /\ index' = set_shared_count(index, k, c) \/ index' = remove_count(index, k)
                               /\ restored' = restored \cup {k}

EntryNext ==
    \/ (PutEntry \/ DeleteEntry \/ MoveEntry) /\ UNCHANGED <<restored, deltas>>
    \/ (ClaimEntry \/ SettleCount) /\ UNCHANGED restored
    \/ RestoreCount /\ UNCHANGED deltas

EntrySpec == EntryInit /\ [][EntryNext]_evars

\* Between two batches, when no delta is owed, the copies of the index agree:
\* ordered set, map, counts and catalogs.
EntriesCoherent == deltas = [k \in Keys |-> 0] => IndexCoherent

-----------------------------------------------------------------------------
(* The inductive invariant *)

IsIndex(x) ==
    x = [ordered |-> x.ordered, lookup |-> x.lookup, counts |-> x.counts, positive |-> x.positive,
         due |-> x.due]

Pairs(L) == \A p \in DOMAIN L : p[1] \in Keys /\ p = <<p[1], p[2]>> /\ L[p] # None
Entries(L) == {OrderedEntry(p[1], L[p], p[2]) : p \in DOMAIN L}

\* The ordered set and the map hold the same.
Copies(x) == IsIndex(x) /\ Pairs(x.lookup) /\ x.ordered = Entries(x.lookup)

Catalogs(x) ==
    /\ x.counts \in [Keys -> Int]
    /\ x.positive = {k \in Keys : x.counts[k] > 0}
    /\ x.due = x.positive \cap DueKeys

\* The counts are right but for what the deltas will add.
Counts(x, d, R) ==
    /\ d \in [Keys -> Int]
    /\ \A k \in Keys : /\ IsFiniteSet(RowsOf(x, k))
                       /\ k \in R \/ x.counts[k] + d[k] = Cardinality(RowsOf(x, k))

Coherent(x, d, R) == Copies(x) /\ Catalogs(x) /\ Counts(x, d, R)

-----------------------------------------------------------------------------
(* Fields *)

\* y is x with one field replaced.
NewOrdered(x, y, o) == y = [x EXCEPT !.ordered = o]
NewLookup(x, y, L) == y = [x EXCEPT !.lookup = L]
NewCounts(x, y, c) == y = [x EXCEPT !.counts = c]
NewPositive(x, y, p) == y = [x EXCEPT !.positive = p]
NewDue(x, y, e) == y = [x EXCEPT !.due = e]

\* Replacing the ordered set leaves the other fields of the index.
LEMMA SetOrdered ==
    ASSUME NEW x, IsIndex(x), NEW o, NEW y, NewOrdered(x, y, o)
    PROVE  /\ IsIndex(y) /\ y.ordered = o /\ y.lookup = x.lookup
           /\ y.counts = x.counts /\ y.positive = x.positive /\ y.due = x.due
BY DEF IsIndex, NewOrdered

\* So does replacing the map of members to scores.
LEMMA SetLookup ==
    ASSUME NEW x, IsIndex(x), NEW L, NEW y, NewLookup(x, y, L)
    PROVE  /\ IsIndex(y) /\ y.ordered = x.ordered /\ y.lookup = L
           /\ y.counts = x.counts /\ y.positive = x.positive /\ y.due = x.due
BY DEF IsIndex, NewLookup

\* So does replacing the counts.
LEMMA SetCount ==
    ASSUME NEW x, IsIndex(x), NEW c, NEW y, NewCounts(x, y, c)
    PROVE  /\ IsIndex(y) /\ y.ordered = x.ordered /\ y.lookup = x.lookup
           /\ y.counts = c /\ y.positive = x.positive /\ y.due = x.due
BY DEF IsIndex, NewCounts

\* So does replacing the catalog of positive counts.
LEMMA SetPositive ==
    ASSUME NEW x, IsIndex(x), NEW p, NEW y, NewPositive(x, y, p)
    PROVE  /\ IsIndex(y) /\ y.ordered = x.ordered /\ y.lookup = x.lookup
           /\ y.counts = x.counts /\ y.positive = p /\ y.due = x.due
BY DEF IsIndex, NewPositive

\* So does replacing the catalog of due keys.
LEMMA SetDue ==
    ASSUME NEW x, IsIndex(x), NEW e, NEW y, NewDue(x, y, e)
    PROVE  /\ IsIndex(y) /\ y.ordered = x.ordered /\ y.lookup = x.lookup
           /\ y.counts = x.counts /\ y.positive = x.positive /\ y.due = e
BY DEF IsIndex, NewDue

\* Entries of different members never sort alike.
LEMMA SortKeys ==
    ASSUME NEW k, NEW s, NEW m, NEW j, NEW t, NEW n,
           SortKey(OrderedEntry(k, s, m)) = SortKey(OrderedEntry(j, t, n))
    PROVE  k = j /\ m = n
BY DEF SortKey, OrderedEntry

\* A score is stored exactly under the pairs of the map.
LEMMA Looked ==
    ASSUME NEW x, Pairs(x.lookup), NEW k, NEW m
    PROVE  /\ lookup_score(x, k, m) # None <=> <<k, m>> \in DOMAIN x.lookup
           /\ <<k, m>> \in DOMAIN x.lookup => lookup_score(x, k, m) = x.lookup[<<k, m>>]
BY Zenon DEF lookup_score, Pairs

-----------------------------------------------------------------------------
(* The two copies *)

\* y is x without the member m of key k.
Less(x, y, k, m) ==
    /\ <<k, m>> \in DOMAIN x.lookup
    /\ DOMAIN y.lookup = DOMAIN x.lookup \ {<<k, m>>}
    /\ \A p \in DOMAIN y.lookup : y.lookup[p] = x.lookup[p]

SameCounts(x, y) == y.counts = x.counts /\ y.positive = x.positive /\ y.due = x.due

\* Removing a stored score removes its entry and no other.
LEMMA EntryRemoved ==
    ASSUME NEW L, Pairs(L), NEW k, NEW m, <<k, m>> \in DOMAIN L,
           NEW M, M = [p \in DOMAIN L \ {<<k, m>>} |-> L[p]]
    PROVE  /\ Pairs(M) /\ DOMAIN M = DOMAIN L \ {<<k, m>>}
           /\ \A p \in DOMAIN M : M[p] = L[p]
           /\ BTreeRemove(Entries(L), OrderedEntry(k, L[<<k, m>>], m)) = Entries(M)
<1> DEFINE q == <<k, m>>
           gone == OrderedEntry(k, L[q], m)
<1>1. DOMAIN M = DOMAIN L \ {q} /\ \A p \in DOMAIN M : M[p] = L[p]
  BY Zenon
<1>2. Pairs(M)
  BY Zenon, <1>1 DEF Pairs
<1>3. ASSUME NEW p \in DOMAIN L
      PROVE  SortKey(OrderedEntry(p[1], L[p], p[2])) = SortKey(gone) <=> p = q
  <2>1. p = <<p[1], p[2]>>
    BY Zenon DEF Pairs
  <2>2. ASSUME SortKey(OrderedEntry(p[1], L[p], p[2])) = SortKey(gone) PROVE p = q
    <3>1. p[1] = k /\ p[2] = m
      <4> HIDE DEF q
      <4> QED BY <2>2, SortKeys
    <3> QED BY Zenon, <2>1, <3>1
  <2>3. ASSUME p = q PROVE p[1] = k /\ p[2] = m
    BY <2>3
  <2> QED BY Zenon, <2>2, <2>3
<1>4. \A e : e \in BTreeRemove(Entries(L), gone) <=> e \in Entries(M)
  <2> HIDE DEF q, gone
  <2>1. \A e : e \in BTreeRemove(Entries(L), gone)
                 <=> \E p \in DOMAIN L : e = OrderedEntry(p[1], L[p], p[2]) /\ SortKey(e) # SortKey(gone)
    BY Zenon DEF BTreeRemove, Entries
  <2>2. \A e : e \in Entries(M) <=> \E p \in DOMAIN L \ {q} : e = OrderedEntry(p[1], L[p], p[2])
    BY Zenon, <1>1 DEF Entries
  <2> QED BY Zenon, <1>3, <2>1, <2>2
<1> QED BY Zenon, <1>1, <1>2, <1>4

\* Inserting a member that is not there inserts one entry.
LEMMA EntryInserted ==
    ASSUME NEW L, Pairs(L), NEW k \in Keys, NEW m, NEW s, s # None, <<k, m>> \notin DOMAIN L,
           NEW M, M = [p \in DOMAIN L \cup {<<k, m>>} |-> IF p = <<k, m>> THEN s ELSE L[p]]
    PROVE  /\ Pairs(M) /\ DOMAIN M = DOMAIN L \cup {<<k, m>>}
           /\ M[<<k, m>>] = s /\ \A p \in DOMAIN L : L[p] = M[p]
           /\ BTreeInsert(Entries(L), OrderedEntry(k, s, m)) = Entries(M)
<1> DEFINE q == <<k, m>>
           new == OrderedEntry(k, s, m)
<1>1. DOMAIN M = DOMAIN L \cup {q} /\ M[q] = s /\ \A p \in DOMAIN L : L[p] = M[p]
  BY Zenon
<1>q. q[1] = k /\ q[2] = m /\ q = <<q[1], q[2]>>
  OBVIOUS
<1>2. Pairs(M)
  <2> HIDE DEF q
  <2> QED BY Zenon, <1>1, <1>q DEF Pairs
<1>3. ~\E e \in Entries(L) : SortKey(e) = SortKey(new)
  <2> SUFFICES ASSUME NEW p \in DOMAIN L, SortKey(OrderedEntry(p[1], L[p], p[2])) = SortKey(new)
               PROVE  FALSE
    BY Zenon DEF Entries
  <2>1. p[1] = k /\ p[2] = m
    BY SortKeys
  <2>2. p = <<p[1], p[2]>>
    BY Zenon DEF Pairs
  <2> QED BY Zenon, <2>1, <2>2
<1>4. BTreeInsert(Entries(L), new) = Entries(L) \cup {new}
  BY Zenon, <1>3 DEF BTreeInsert
<1>5. \A e : e \in Entries(M) <=> e \in Entries(L) \/ e = new
  <2> HIDE DEF q
  <2>1. \A e : e \in Entries(M)
                 <=> \E p \in DOMAIN L \cup {q} : e = OrderedEntry(p[1], M[p], p[2])
    BY Zenon, <1>1 DEF Entries
  <2>2. OrderedEntry(q[1], M[q], q[2]) = new
    BY Zenon, <1>1, <1>q
  <2> QED BY ZenonT(40), <1>1, <2>1, <2>2 DEF Entries
<1>6. Entries(M) = Entries(L) \cup {new}
  BY Zenon, <1>5
<1> QED BY Zenon, <1>1, <1>2, <1>4, <1>6

\* delete_without_count takes the member out of both copies.
LEMMA DeletedCopies ==
    ASSUME NEW x, Copies(x), NEW k, NEW m, <<k, m>> \in DOMAIN x.lookup,
           NEW y, y = delete_without_count(x, k, m)
    PROVE  Copies(y) /\ Less(x, y, k, m) /\ SameCounts(x, y)
<1> DEFINE M == [p \in DOMAIN x.lookup \ {<<k, m>>} |-> x.lookup[p]]
           gone == OrderedEntry(k, x.lookup[<<k, m>>], m)
           z == [x EXCEPT !.lookup = M]
<1>1. lookup_score(x, k, m) = x.lookup[<<k, m>>] /\ lookup_score(x, k, m) # None
  BY Zenon, Looked DEF Copies
<1>2. y = [z EXCEPT !.ordered = BTreeRemove(z.ordered, gone)]
  BY Zenon, <1>1 DEF delete_without_count, remove_lookup
<1>3. /\ Pairs(M) /\ DOMAIN M = DOMAIN x.lookup \ {<<k, m>>}
      /\ \A p \in DOMAIN M : M[p] = x.lookup[p]
      /\ BTreeRemove(Entries(x.lookup), gone) = Entries(M)
  BY EntryRemoved DEF Copies
<1> HIDE DEF M, gone
<1>4. IsIndex(z) /\ z.ordered = x.ordered /\ z.lookup = M /\ SameCounts(x, z)
  <2>1. NewLookup(x, z, M) /\ IsIndex(x)
    BY Zenon DEF Copies, NewLookup
  <2> HIDE DEF z
  <2> QED BY <2>1, SetLookup DEF SameCounts
<1> HIDE DEF z
<1>5. /\ IsIndex(y) /\ y.ordered = BTreeRemove(z.ordered, gone) /\ y.lookup = z.lookup
      /\ SameCounts(z, y)
  <2>1. NewOrdered(z, y, BTreeRemove(z.ordered, gone))
    BY Zenon, <1>2 DEF NewOrdered
  <2>2. IsIndex(z)
    BY Zenon, <1>4
  <2> QED BY SMTT(30), <2>1, <2>2, SetOrdered DEF SameCounts
<1> QED BY Zenon, <1>3, <1>4, <1>5 DEF Copies, Less, SameCounts

\* Inserting a member that is not there puts it into both copies.
Inserted(x, k, m, s) ==
    insert_lookup([x EXCEPT !.ordered = BTreeInsert(x.ordered, OrderedEntry(k, s, m))], k, m, s)

LEMMA InsertedCopies ==
    ASSUME NEW x, Copies(x), NEW k \in Keys, NEW m, NEW s, s # None, <<k, m>> \notin DOMAIN x.lookup,
           NEW y, y = Inserted(x, k, m, s)
    PROVE  Copies(y) /\ Less(y, x, k, m) /\ SameCounts(x, y)
<1> DEFINE M == [p \in DOMAIN x.lookup \cup {<<k, m>>} |-> IF p = <<k, m>> THEN s ELSE x.lookup[p]]
           new == OrderedEntry(k, s, m)
           z == [x EXCEPT !.ordered = BTreeInsert(x.ordered, new)]
<1>1. /\ Pairs(M) /\ DOMAIN M = DOMAIN x.lookup \cup {<<k, m>>}
      /\ \A p \in DOMAIN x.lookup : x.lookup[p] = M[p]
      /\ BTreeInsert(Entries(x.lookup), new) = Entries(M)
  BY EntryInserted DEF Copies
<1>2. /\ IsIndex(z) /\ z.ordered = BTreeInsert(x.ordered, new) /\ z.lookup = x.lookup
      /\ SameCounts(x, z)
  <2>1. NewOrdered(x, z, BTreeInsert(x.ordered, new)) /\ IsIndex(x)
    BY Zenon DEF Copies, NewOrdered
  <2> HIDE DEF z
  <2> QED BY <2>1, SetOrdered DEF SameCounts
<1>3. y = [z EXCEPT !.lookup = M]
  BY Zenon, <1>2 DEF Inserted, insert_lookup
<1> HIDE DEF M, new, z
<1>4. IsIndex(y) /\ y.ordered = z.ordered /\ y.lookup = M /\ SameCounts(z, y)
  <2>1. NewLookup(z, y, M)
    BY Zenon, <1>3 DEF NewLookup
  <2>2. IsIndex(z)
    BY Zenon, <1>2
  <2> QED BY SMTT(30), <2>1, <2>2, SetLookup DEF SameCounts
<1>5. DOMAIN x.lookup = DOMAIN M \ {<<k, m>>} /\ <<k, m>> \in DOMAIN M
  BY Zenon, <1>1
<1> QED BY Zenon, <1>1, <1>2, <1>4, <1>5 DEF Copies, Less, SameCounts

-----------------------------------------------------------------------------
(* The counts *)

\* The rows of the other keys stay.
LEMMA OtherRows ==
    ASSUME NEW x, NEW y, NEW k, NEW m, Less(x, y, k, m), NEW j, j # k
    PROVE  RowsOf(y, j) = RowsOf(x, j)
<1> DEFINE q == <<k, m>>
<1>1. q[1] = k
  OBVIOUS
<1>2. ASSUME NEW r PROVE r \in RowsOf(y, j) <=> r \in RowsOf(x, j)
  <2>1. /\ r \in RowsOf(x, j)
             <=> \E p \in DOMAIN x.lookup : p[1] = j /\ r = <<p[2], x.lookup[p]>>
        /\ r \in RowsOf(y, j)
             <=> \E p \in DOMAIN x.lookup : p # q /\ p[1] = j /\ r = <<p[2], x.lookup[p]>>
    <3> HIDE DEF q
    <3>1. \A p : p \in DOMAIN y.lookup <=> p \in DOMAIN x.lookup /\ p # q
      BY Zenon DEF Less, q
    <3>2. \A p \in DOMAIN y.lookup : y.lookup[p] = x.lookup[p]
      BY Zenon DEF Less
    <3> QED BY Zenon, <3>1, <3>2 DEF RowsOf
  <2> HIDE DEF q
  <2> QED BY Zenon, <1>1, <1>2, <2>1
<1> QED BY Zenon, <1>2

RowLess(x, y, k) == \E row \in RowsOf(x, k) : RowsOf(y, k) = RowsOf(x, k) \ {row}

\* The rows of the key lose one.
LEMMA FewerRows ==
    ASSUME NEW x, NEW y, Pairs(x.lookup), NEW k, NEW m, Less(x, y, k, m)
    PROVE  RowLess(x, y, k)
<1> DEFINE q == <<k, m>>
           row == <<m, x.lookup[q]>>
<1>1. q[1] = k /\ q[2] = m /\ q \in DOMAIN x.lookup /\ row = <<q[2], x.lookup[q]>>
  BY DEF Less
<1>2. ASSUME NEW r
      PROVE  /\ r \in RowsOf(x, k)
                  <=> \E p \in DOMAIN x.lookup : p[1] = k /\ r = <<p[2], x.lookup[p]>>
             /\ r \in RowsOf(y, k)
                  <=> \E p \in DOMAIN x.lookup : p # q /\ p[1] = k /\ r = <<p[2], x.lookup[p]>>
  <2> HIDE DEF q
  <2>1. \A p : p \in DOMAIN y.lookup <=> p \in DOMAIN x.lookup /\ p # q
    BY Zenon DEF Less, q
  <2>2. \A p \in DOMAIN y.lookup : y.lookup[p] = x.lookup[p]
    BY Zenon DEF Less
  <2> QED BY Zenon, <2>1, <2>2 DEF RowsOf
<1>3. ASSUME NEW p \in DOMAIN x.lookup, p[1] = k, <<p[2], x.lookup[p]>> = row PROVE p = q
  <2>1. p = <<p[1], p[2]>>
    BY Zenon DEF Pairs
  <2>2. p[2] = m
    BY <1>3
  <2> QED BY Zenon, <1>3, <2>1, <2>2
<1> HIDE DEF q, row
<1>4. row \in RowsOf(x, k)
  BY Zenon, <1>1, <1>2
<1>5. ASSUME NEW r, r \in RowsOf(y, k) PROVE r \in RowsOf(x, k) /\ r # row
  <2>1. PICK p \in DOMAIN x.lookup : p # q /\ p[1] = k /\ r = <<p[2], x.lookup[p]>>
    BY Zenon, <1>2, <1>5
  <2>2. r # row
    BY Zenon, <1>3, <2>1
  <2>3. r \in RowsOf(x, k)
    BY Zenon, <1>2, <2>1
  <2> QED BY Zenon, <2>2, <2>3
<1>6. ASSUME NEW r, r \in RowsOf(x, k), r # row PROVE r \in RowsOf(y, k)
  <2>1. PICK p \in DOMAIN x.lookup : p[1] = k /\ r = <<p[2], x.lookup[p]>>
    BY Zenon, <1>2, <1>6
  <2>2. p # q
    BY Zenon, <1>1, <1>6, <2>1
  <2> QED BY Zenon, <1>2, <2>1, <2>2
<1>7. RowsOf(y, k) = RowsOf(x, k) \ {row}
  BY Zenon, <1>5, <1>6
<1> QED BY Zenon, <1>4, <1>7 DEF RowLess

\* One member less is one row less, one more is one row more.
LEMMA RowsCounted ==
    ASSUME NEW x, NEW y, Pairs(x.lookup), NEW k, NEW m, Less(x, y, k, m)
    PROVE  /\ IsFiniteSet(RowsOf(x, k)) <=> IsFiniteSet(RowsOf(y, k))
           /\ IsFiniteSet(RowsOf(x, k)) =>
                 /\ Cardinality(RowsOf(y, k)) = Cardinality(RowsOf(x, k)) - 1
                 /\ Cardinality(RowsOf(x, k)) \in Nat
<1>1. PICK row \in RowsOf(x, k) : RowsOf(y, k) = RowsOf(x, k) \ {row}
  <2>1. RowLess(x, y, k)
    BY Zenon, FewerRows
  <2> QED BY Zenon, <2>1 DEF RowLess
<1>2. RowsOf(x, k) = RowsOf(y, k) \cup {row}
  BY Zenon, <1>1
<1>3. ASSUME IsFiniteSet(RowsOf(y, k)) PROVE IsFiniteSet(RowsOf(x, k))
  BY Zenon, <1>2, <1>3, FS_AddElement
<1>4. ASSUME IsFiniteSet(RowsOf(x, k))
      PROVE  /\ IsFiniteSet(RowsOf(y, k)) /\ Cardinality(RowsOf(x, k)) \in Nat
             /\ Cardinality(RowsOf(y, k)) = Cardinality(RowsOf(x, k)) - 1
  BY Zenon, <1>1, <1>4, FS_RemoveElement, FS_CardinalityType
<1> QED BY Zenon, <1>3, <1>4

\* A delta grows, or is settled in part.
Owed(d, k, n) == [d EXCEPT ![k] = @ + n]
Paid(d, k, n) == [d EXCEPT ![k] = @ - n]

\* One delta differs.
Differ(d, e, k, c) ==
    d \in [Keys -> Int] /\ e \in [Keys -> Int] /\ e[k] = c /\ \A j \in Keys : j # k => e[j] = d[j]

\* Deltas in which none differs are the same.
LEMMA SameDeltas ==
    ASSUME NEW d, NEW e, NEW k \in Keys, Differ(d, e, k, d[k])
    PROVE  e = d
<1>1. \A j \in Keys : e[j] = d[j]
  BY Zenon DEF Differ
<1>2. e \in [Keys -> Int] /\ d \in [Keys -> Int]
  BY Zenon DEF Differ
<1> QED BY SMTT(30), <1>1, <1>2

\* What owing and paying do.
LEMMA OwedPaid ==
    ASSUME NEW d \in [Keys -> Int], NEW k \in Keys, NEW n \in Int
    PROVE  Differ(d, Owed(d, k, n), k, d[k] + n) /\ Differ(d, Paid(d, k, n), k, d[k] - n)
<1>1. d[k] + n \in Int /\ d[k] - n \in Int
  OBVIOUS
<1>2. ASSUME NEW c \in Int PROVE Differ(d, [d EXCEPT ![k] = c], k, c)
  BY Zenon DEF Differ
<1> QED BY Zenon, <1>1, <1>2 DEF Owed, Paid

\* Adding to a delta and taking it away again.
LEMMA Balance ==
    ASSUME NEW d \in [Keys -> Int], NEW k \in Keys, NEW n \in Int
    PROVE  /\ Paid(Owed(d, k, n), k, n) = d
           /\ Owed(Paid(d, k, n), k, n) = d
           /\ Paid(Paid(d, k, n), k, -n) = d
           /\ Paid(d, k, n) = Owed(d, k, -n)
           /\ Paid(d, k, 0) = d /\ Owed(d, k, 0) = d
<1>1. /\ d[k] \in Int /\ -n \in Int /\ 0 \in Int /\ (d[k] + n) - n = d[k] /\ (d[k] - n) + n = d[k]
      /\ (d[k] - n) - (-n) = d[k] /\ d[k] - n = d[k] + (-n) /\ d[k] - 0 = d[k] /\ d[k] + 0 = d[k]
  OBVIOUS
<1> DEFINE a == Owed(d, k, n)
           b == Paid(d, k, n)
<1>2. Differ(d, a, k, d[k] + n) /\ Differ(d, b, k, d[k] - n)
  BY Zenon, OwedPaid
<1> HIDE DEF a, b
<1>3. a \in [Keys -> Int] /\ a[k] = d[k] + n /\ b \in [Keys -> Int] /\ b[k] = d[k] - n
  BY Zenon, <1>2 DEF Differ
<1>4. /\ Differ(a, Paid(a, k, n), k, a[k] - n) /\ Differ(b, Owed(b, k, n), k, b[k] + n)
      /\ Differ(b, Paid(b, k, -n), k, b[k] - (-n))
  BY Zenon, <1>1, <1>3, OwedPaid
<1>5. ASSUME NEW e, NEW f, NEW c, NEW h, Differ(d, e, k, c), Differ(e, f, k, h), h = d[k] PROVE f = d
  <2>1. Differ(d, f, k, d[k])
    BY Zenon, <1>5 DEF Differ
  <2> QED BY Zenon, <2>1, SameDeltas
<1>6. Paid(a, k, n) = d
  BY Zenon, <1>1, <1>2, <1>3, <1>4, <1>5
<1>7. Owed(b, k, n) = d
  BY Zenon, <1>1, <1>2, <1>3, <1>4, <1>5
<1>8. Paid(b, k, -n) = d
  BY Zenon, <1>1, <1>2, <1>3, <1>4, <1>5
<1>9. b = Owed(d, k, -n)
  BY Zenon, <1>1 DEF b, Owed, Paid
<1>10. Differ(d, Paid(d, k, 0), k, d[k]) /\ Differ(d, Owed(d, k, 0), k, d[k])
  <2>1. Differ(d, Paid(d, k, 0), k, d[k] - 0) /\ Differ(d, Owed(d, k, 0), k, d[k] + 0)
    BY Zenon, <1>1, OwedPaid
  <2> QED BY Zenon, <1>1, <2>1
<1>11. Paid(d, k, 0) = d /\ Owed(d, k, 0) = d
  BY Zenon, <1>10, SameDeltas
<1> QED BY Zenon, <1>6, <1>7, <1>8, <1>9, <1>11 DEF a, b

\* A change of one key's rows with the change of its delta.
LEMMA CountsFollow ==
    ASSUME NEW x, NEW y, NEW d, NEW R, Counts(x, d, R), x.counts \in [Keys -> Int],
           y.counts = x.counts, NEW k \in Keys, NEW n \in Int,
           \A j : j # k => RowsOf(y, j) = RowsOf(x, j), IsFiniteSet(RowsOf(y, k)),
           Cardinality(RowsOf(y, k)) = Cardinality(RowsOf(x, k)) + n
    PROVE  Counts(y, Owed(d, k, n), R)
<1> DEFINE e == Owed(d, k, n)
<1>1. d \in [Keys -> Int]
  BY Zenon DEF Counts
<1>2. e \in [Keys -> Int] /\ e[k] = d[k] + n /\ \A j \in Keys : j # k => e[j] = d[j]
  BY ZenonT(40), <1>1, OwedPaid DEF Differ
<1> HIDE DEF e
<1>3. ASSUME NEW j \in Keys, j # k
      PROVE  /\ IsFiniteSet(RowsOf(y, j))
             /\ j \in R \/ y.counts[j] + e[j] = Cardinality(RowsOf(y, j))
  BY Zenon, <1>2, <1>3 DEF Counts
<1>4. k \in R \/ y.counts[k] + e[k] = Cardinality(RowsOf(y, k))
  <2> SUFFICES ASSUME k \notin R PROVE y.counts[k] + e[k] = Cardinality(RowsOf(y, k))
    BY Zenon
  <2>1. x.counts[k] + d[k] = Cardinality(RowsOf(x, k))
    BY Zenon DEF Counts
  <2>2. x.counts[k] \in Int /\ d[k] \in Int
    BY Zenon, <1>1
  <2>3. (x.counts[k] + d[k]) + n = x.counts[k] + (d[k] + n)
    BY <2>2
  <2> QED BY Zenon, <1>2, <2>1, <2>3
<1> QED BY Zenon, <1>2, <1>3, <1>4 DEF Counts, e

\* A member deleted by a claim leaves a delta behind.
LEMMA DeletingKeeps ==
    ASSUME NEW acc, NEW R, Coherent(acc.x, acc.d, R), NEW k \in Keys, NEW m
    PROVE  /\ Coherent(Deleting(acc, k, m).x, Deleting(acc, k, m).d, R)
           /\ lookup_score(Deleting(acc, k, m).x, k, m) = None
<1> DEFINE x == acc.x
           d == acc.d
           y == delete_without_count(x, k, m)
           b == Deleting(acc, k, m)
           paid == Paid(d, k, IF lookup_score(x, k, m) # None THEN 1 ELSE 0)
<1>0. b.x = y /\ b.d = paid
  <2>1. b = [x |-> y, d |-> paid]
    BY Zenon DEF Deleting, Paid
  <2> HIDE DEF b, y, paid
  <2> QED BY <2>1
<1>1. Copies(x) /\ Catalogs(x) /\ Counts(x, d, R) /\ d \in [Keys -> Int] /\ Pairs(x.lookup)
  BY Zenon DEF Coherent, Counts, Copies
<1>2. CASE lookup_score(x, k, m) = None
  <2>1. y = x /\ paid = Paid(d, k, 0)
    BY Zenon, <1>2 DEF delete_without_count
  <2>2. Paid(d, k, 0) = d
    <3> HIDE DEF d
    <3> QED BY <1>1, Balance
  <2>3. b.x = x /\ b.d = d
    <3> HIDE DEF b, y, paid
    <3> QED BY Zenon, <1>0, <2>1, <2>2
  <2> HIDE DEF b
  <2> QED BY Zenon, <1>2, <2>3 DEF b
<1>3. CASE lookup_score(x, k, m) # None
  <2>1. b.x = y /\ b.d = Paid(d, k, 1)
    BY Zenon, <1>0, <1>3
  <2>2. Paid(d, k, 1) = Owed(d, k, -1)
    <3> HIDE DEF d
    <3>1. 1 \in Int
      OBVIOUS
    <3> QED BY Zenon, <1>1, <3>1, Balance
  <2>3. Copies(y) /\ Less(x, y, k, m) /\ SameCounts(x, y)
    <3>1. <<k, m>> \in DOMAIN x.lookup
      BY Zenon, <1>1, <1>3, Looked
    <3>2. y = delete_without_count(x, k, m)
      BY Zenon
    <3> HIDE DEF x, y
    <3> QED BY SMTT(30), <1>1, <3>1, <3>2, DeletedCopies
  <2> HIDE DEF b, y, x, d
  <2>4. \A j : j # k => RowsOf(y, j) = RowsOf(x, j)
    <3> SUFFICES ASSUME NEW j, j # k PROVE RowsOf(y, j) = RowsOf(x, j)
      OBVIOUS
    <3> QED BY SMTT(30), <2>3, OtherRows
  <2>5. IsFiniteSet(RowsOf(x, k))
    BY Zenon, <1>1 DEF Counts
  <2>6. IsFiniteSet(RowsOf(y, k)) /\ Cardinality(RowsOf(y, k)) = Cardinality(RowsOf(x, k)) + (-1)
    <3>1. /\ IsFiniteSet(RowsOf(y, k)) /\ Cardinality(RowsOf(x, k)) \in Nat
          /\ Cardinality(RowsOf(y, k)) = Cardinality(RowsOf(x, k)) - 1
      BY Zenon, <1>1, <2>3, <2>5, RowsCounted
    <3> QED BY <3>1
  <2>7. y.counts = x.counts /\ x.counts \in [Keys -> Int] /\ Catalogs(y)
    BY Zenon, <1>1, <2>3 DEF SameCounts, Catalogs
  <2>8. -1 \in Int
    OBVIOUS
  <2>9. Counts(y, Owed(d, k, -1), R)
    BY Zenon, <1>1, <2>4, <2>6, <2>7, <2>8, CountsFollow
  <2>10. lookup_score(y, k, m) = None
    BY Zenon, <2>3, Looked DEF Copies, Less
  <2> QED BY Zenon, <2>1, <2>2, <2>3, <2>7, <2>9, <2>10 DEF Coherent, b
<1> QED BY Zenon, <1>2, <1>3

\* A member inserted where none was.
LEMMA InsertingKeeps ==
    ASSUME NEW x, NEW d, NEW R, Coherent(x, d, R), NEW k \in Keys, NEW m, NEW s, s # None,
           lookup_score(x, k, m) = None
    PROVE  Coherent(Inserted(x, k, m, s), Owed(d, k, 1), R)
<1> DEFINE y == Inserted(x, k, m, s)
<1>1. Copies(x) /\ Catalogs(x) /\ Counts(x, d, R) /\ d \in [Keys -> Int] /\ Pairs(x.lookup)
  BY Zenon DEF Coherent, Counts, Copies
<1>2. Copies(y) /\ Less(y, x, k, m) /\ SameCounts(x, y) /\ Pairs(y.lookup)
  <2>1. <<k, m>> \notin DOMAIN x.lookup
    BY Zenon, <1>1, Looked
  <2>2. Copies(y) /\ Less(y, x, k, m) /\ SameCounts(x, y)
    <3>1. y = Inserted(x, k, m, s)
      BY Zenon
    <3> HIDE DEF y
    <3> QED BY SMTT(30), <1>1, <2>1, <3>1, InsertedCopies
  <2> HIDE DEF y
  <2> QED BY Zenon, <2>2 DEF Copies
<1> HIDE DEF y
<1>3. \A j : j # k => RowsOf(y, j) = RowsOf(x, j)
  <2> SUFFICES ASSUME NEW j, j # k PROVE RowsOf(y, j) = RowsOf(x, j)
    OBVIOUS
  <2>1. RowsOf(x, j) = RowsOf(y, j)
    BY <1>2, OtherRows
  <2> QED BY Zenon, <2>1
<1>4. IsFiniteSet(RowsOf(y, k)) /\ Cardinality(RowsOf(y, k)) = Cardinality(RowsOf(x, k)) + 1
  <2>1. /\ IsFiniteSet(RowsOf(y, k)) /\ Cardinality(RowsOf(y, k)) \in Nat
        /\ Cardinality(RowsOf(x, k)) = Cardinality(RowsOf(y, k)) - 1
    BY Zenon, <1>1, <1>2, RowsCounted DEF Counts
  <2> QED BY <2>1
<1>5. y.counts = x.counts /\ x.counts \in [Keys -> Int] /\ Catalogs(y)
  BY Zenon, <1>1, <1>2 DEF SameCounts, Catalogs
<1>6. 1 \in Int
  OBVIOUS
<1>7. Counts(y, Owed(d, k, 1), R)
  BY Zenon, <1>1, <1>3, <1>4, <1>5, <1>6, CountsFollow
<1> QED BY Zenon, <1>2, <1>5, <1>7 DEF Coherent, y

\* A member inserted by a claim, if it is not there, is owed to the counts.
LEMMA PuttingKeeps ==
    ASSUME NEW acc, NEW R, Coherent(acc.x, acc.d, R), NEW k \in Keys, NEW m, NEW s, s # None
    PROVE  Coherent(PuttingNew(acc, k, m, s).x, PuttingNew(acc, k, m, s).d, R)
<1> DEFINE x == acc.x
           d == acc.d
           b == PuttingNew(acc, k, m, s)
           y == put_new_without_count(x, k, m, s)
           owed == Owed(d, k, IF lookup_score(x, k, m) = None THEN 1 ELSE 0)
<1>0. b.x = y /\ b.d = owed
  <2>1. b = [x |-> y, d |-> owed]
    BY Zenon DEF PuttingNew, Owed
  <2> HIDE DEF b, y, owed
  <2> QED BY <2>1
<1>1. d \in [Keys -> Int]
  BY Zenon DEF Coherent, Counts
<1>2. CASE lookup_score(x, k, m) # None
  <2>1. y = x /\ owed = Owed(d, k, 0)
    BY Zenon, <1>2 DEF put_new_without_count
  <2>2. Owed(d, k, 0) = d
    <3> HIDE DEF d
    <3> QED BY <1>1, Balance
  <2>3. b.x = x /\ b.d = d
    <3> HIDE DEF b, y, owed
    <3> QED BY Zenon, <1>0, <2>1, <2>2
  <2> HIDE DEF b
  <2> QED BY Zenon, <2>3 DEF b
<1>3. CASE lookup_score(x, k, m) = None
  <2>1. b.x = Inserted(x, k, m, s) /\ b.d = Owed(d, k, 1)
    BY Zenon, <1>0, <1>3 DEF put_new_without_count, Inserted
  <2> HIDE DEF b, x, d
  <2>2. Coherent(x, d, R)
    BY Zenon DEF x, d
  <2>3. Coherent(Inserted(x, k, m, s), Owed(d, k, 1), R)
    BY Zenon, <1>3, <2>2, InsertingKeeps
  <2> QED BY Zenon, <2>1, <2>3 DEF b
<1> QED BY Zenon, <1>2, <1>3

-----------------------------------------------------------------------------
(* The catalogs *)

\* A count is replaced together with its places in the catalogs.
LEMMA Recount ==
    ASSUME NEW x, Copies(x), Catalogs(x), NEW k \in Keys, NEW c \in Int,
           NEW y, y = set_shared_count(x, k, c)
    PROVE  /\ Copies(y) /\ Catalogs(y) /\ y.lookup = x.lookup
           /\ y.counts = [x.counts EXCEPT ![k] = c]
<1> DEFINE n == [x.counts EXCEPT ![k] = c]
           p == IF c > 0 THEN x.positive \cup {k} ELSE x.positive \ {k}
           e == IF c > 0 /\ k \in DueKeys THEN x.due \cup {k} ELSE x.due \ {k}
           u == [x EXCEPT !.counts = n]
           v == [u EXCEPT !.positive = p]
<1>2. n \in [Keys -> Int] /\ n[k] = c /\ \A j \in Keys : j # k => n[j] = x.counts[j]
  BY Zenon DEF Catalogs
<1> HIDE DEF n
<1>3. p = {j \in Keys : n[j] > 0}
  <2>1. ASSUME NEW j PROVE j \in p <=> j \in Keys /\ n[j] > 0
    <3>1. j \in x.positive <=> j \in Keys /\ x.counts[j] > 0
      BY Zenon DEF Catalogs
    <3>2. CASE j = k
      BY Zenon, <1>2, <3>2
    <3>3. CASE j # k
      BY Zenon, <1>2, <3>1, <3>3
    <3> QED BY Zenon, <3>2, <3>3
  <2> HIDE DEF p
  <2> QED BY Zenon, <2>1
<1>4. e = p \cap DueKeys
  BY Zenon DEF Catalogs
<1> HIDE DEF p, e
<1>5. /\ IsIndex(y) /\ y.ordered = x.ordered /\ y.lookup = x.lookup
      /\ y.counts = n /\ y.positive = p /\ y.due = e
  <2>1. NewDue(v, y, e) /\ NewPositive(u, v, p) /\ NewCounts(x, u, n)
    BY Zenon DEF set_shared_count, n, p, e, NewDue, NewPositive, NewCounts
  <2>2. IsIndex(x)
    BY Zenon DEF Copies
  <2> HIDE DEF u, v
  <2>3. /\ IsIndex(u) /\ u.ordered = x.ordered /\ u.lookup = x.lookup
        /\ u.counts = n /\ u.positive = x.positive /\ u.due = x.due
    BY SMTT(30), <2>1, <2>2, SetCount
  <2>4. /\ IsIndex(v) /\ v.ordered = x.ordered /\ v.lookup = x.lookup
        /\ v.counts = n /\ v.positive = p /\ v.due = x.due
    <3>1. IsIndex(u)
      BY Zenon, <2>3
    <3>2. /\ IsIndex(v) /\ v.ordered = u.ordered /\ v.lookup = u.lookup
          /\ v.counts = u.counts /\ v.positive = p /\ v.due = u.due
      BY SMTT(30), <2>1, <3>1, SetPositive
    <3> QED BY Zenon, <2>3, <3>2
  <2>5. IsIndex(v)
    BY Zenon, <2>4
  <2>6. /\ IsIndex(y) /\ y.ordered = v.ordered /\ y.lookup = v.lookup
        /\ y.counts = v.counts /\ y.positive = v.positive /\ y.due = e
    BY SMTT(30), <2>1, <2>5, SetDue
  <2> QED BY Zenon, <2>4, <2>6
<1>6. Copies(y) /\ Catalogs(y)
  BY Zenon, <1>2, <1>3, <1>4, <1>5 DEF Copies, Catalogs
<1> QED BY Zenon, <1>5, <1>6 DEF n

\* What is added to a count is owed no longer.
LEMMA CountAdded ==
    ASSUME NEW x, NEW d, NEW R, Coherent(x, d, R), NEW k \in Keys, NEW n \in Int,
           NEW y, y = increment_count(x, k, n)
    PROVE  Coherent(y, Paid(d, k, n), R) /\ y.lookup = x.lookup
<1> DEFINE e == Paid(d, k, n)
<1>1. Copies(x) /\ Catalogs(x) /\ Counts(x, d, R) /\ d \in [Keys -> Int] /\ x.counts \in [Keys -> Int]
  BY Zenon DEF Coherent, Counts, Catalogs
<1>2. CASE n = 0
  <2>1. y = x
    BY Zenon, <1>2 DEF increment_count
  <2>2. e = d
    BY Zenon, <1>1, <1>2, Balance
  <2> QED BY Zenon, <2>1, <2>2
<1>3. CASE n # 0
  <2>1. y = set_shared_count(x, k, x.counts[k] + n)
    BY Zenon, <1>3 DEF increment_count
  <2>2. x.counts[k] + n \in Int
    BY SMTT(30), <1>1
  <2>3. Copies(y) /\ Catalogs(y) /\ y.lookup = x.lookup /\ y.counts = [x.counts EXCEPT ![k] = x.counts[k] + n]
    BY SMTT(30), <1>1, <2>1, <2>2, Recount
  <2>4. \A j : RowsOf(y, j) = RowsOf(x, j)
    BY Zenon, <2>3 DEF RowsOf
  <2>5. e \in [Keys -> Int] /\ \A j \in Keys : y.counts[j] + e[j] = x.counts[j] + d[j]
    <3>1. Differ(d, e, k, d[k] - n)
      BY Zenon, <1>1, OwedPaid
    <3> HIDE DEF e
    <3>2. /\ e \in [Keys -> Int] /\ e[k] = d[k] - n /\ \A j \in Keys : j # k => e[j] = d[j]
          /\ y.counts[k] = x.counts[k] + n /\ \A j \in Keys : j # k => y.counts[j] = x.counts[j]
      BY Zenon, <1>1, <2>3, <3>1 DEF Differ
    <3>3. x.counts[k] \in Int /\ d[k] \in Int
      BY Zenon, <1>1
    <3>4. (x.counts[k] + n) + (d[k] - n) = x.counts[k] + d[k]
      BY <3>3
    <3>5. ASSUME NEW j \in Keys PROVE y.counts[j] + e[j] = x.counts[j] + d[j]
      BY Zenon, <3>2, <3>4
    <3> QED BY Zenon, <3>2, <3>5
  <2> HIDE DEF e
  <2>6. Counts(y, e, R)
    BY Zenon, <1>1, <2>4, <2>5 DEF Counts
  <2> QED BY Zenon, <2>3, <2>6 DEF Coherent, e
<1> QED BY Zenon, <1>2, <1>3

\* A count that a caller overwrites is no longer held against the index.
LEMMA CountReplaced ==
    ASSUME NEW x, NEW d, NEW R, Coherent(x, d, R), NEW k \in Keys, NEW c \in Int
    PROVE  /\ Coherent(set_shared_count(x, k, c), d, R \cup {k})
           /\ Coherent(remove_count(x, k), d, R \cup {k})
<1>1. Copies(x) /\ Catalogs(x) /\ Counts(x, d, R)
  BY Zenon DEF Coherent
<1>2. ASSUME NEW n \in Int PROVE Coherent(set_shared_count(x, k, n), d, R \cup {k})
  <2> DEFINE y == set_shared_count(x, k, n)
  <2>1. Copies(y) /\ Catalogs(y) /\ y.lookup = x.lookup /\ y.counts = [x.counts EXCEPT ![k] = n]
    <3>1. y = set_shared_count(x, k, n)
      BY Zenon
    <3> HIDE DEF y
    <3> QED BY SMTT(30), <1>1, <3>1, Recount
  <2> HIDE DEF y
  <2>2. \A j : RowsOf(y, j) = RowsOf(x, j)
    BY Zenon, <2>1 DEF RowsOf
  <2>3. \A j \in Keys : j # k => y.counts[j] = x.counts[j]
    BY Zenon, <1>1, <2>1 DEF Catalogs
  <2>4. Counts(y, d, R \cup {k})
    BY Zenon, <1>1, <2>2, <2>3 DEF Counts
  <2> QED BY Zenon, <2>1, <2>4 DEF Coherent, y
<1>3. remove_count(x, k) = set_shared_count(x, k, 0)
  <2>1. ~(0 > 0) /\ 0 \in Int
    OBVIOUS
  <2> QED BY Zenon, <2>1 DEF remove_count, set_shared_count
<1>4. 0 \in Int
  OBVIOUS
<1> QED BY Zenon, <1>2, <1>3, <1>4

-----------------------------------------------------------------------------
(* Entries *)

\* Flow entries are deleted from both copies and the count.
LEMMA DeleteKeeps ==
    ASSUME NEW x, NEW d, NEW R, Coherent(x, d, R), NEW k \in Keys, NEW m
    PROVE  Coherent(delete(x, k, m), d, R) /\ lookup_score(delete(x, k, m), k, m) = None
<1> DEFINE acc == [x |-> x, d |-> d]
           b == Deleting(acc, k, m)
           z == delete_without_count(x, k, m)
<1>1. acc.x = x /\ acc.d = d
  OBVIOUS
<1>2. d \in [Keys -> Int]
  BY Zenon DEF Coherent, Counts
<1>3. CASE lookup_score(x, k, m) = None
  BY Zenon, <1>3 DEF delete
<1>4. CASE lookup_score(x, k, m) # None
  <2>1. Coherent(b.x, b.d, R) /\ lookup_score(b.x, k, m) = None
    <3>1. Coherent(acc.x, acc.d, R)
      BY Zenon, <1>1
    <3> HIDE DEF acc
    <3> QED BY Zenon, <3>1, DeletingKeeps
  <2>2. b.x = z /\ b.d = Paid(d, k, 1)
    <3>1. b.x = delete_without_count(acc.x, k, m)
          /\ b.d = Paid(acc.d, k, IF lookup_score(acc.x, k, m) # None THEN 1 ELSE 0)
      <4> HIDE DEF acc
      <4> QED BY Zenon DEF Deleting, Paid
    <3> HIDE DEF acc, b
    <3> QED BY Zenon, <1>1, <1>4, <3>1
  <2> HIDE DEF b, z
  <2>3. -1 \in Int /\ 1 \in Int
    OBVIOUS
  <2>4. /\ Coherent(increment_count(z, k, -1), Paid(Paid(d, k, 1), k, -1), R)
        /\ increment_count(z, k, -1).lookup = z.lookup
    <3> DEFINE e == Paid(d, k, 1)
               y == increment_count(z, k, -1)
    <3>1. Coherent(z, e, R) /\ y = increment_count(z, k, -1)
      BY Zenon, <2>1, <2>2
    <3> HIDE DEF e, y
    <3>2. Coherent(y, Paid(e, k, -1), R) /\ y.lookup = z.lookup
      BY SMTT(30), <2>3, <3>1, CountAdded
    <3> QED BY Zenon, <3>2 DEF e, y
  <2>5. Coherent(increment_count(z, k, -1), d, R)
    BY Zenon, <1>2, <2>3, <2>4, Balance
  <2>6. lookup_score(increment_count(z, k, -1), k, m) = None
    BY Zenon, <2>1, <2>2, <2>4 DEF lookup_score
  <2>7. delete(x, k, m) = increment_count(z, k, -1)
    BY Zenon, <1>4 DEF delete, z
  <2> QED BY Zenon, <2>5, <2>6, <2>7
<1> QED BY Zenon, <1>3, <1>4

\* Putting a member over itself is deleting and inserting it.
LEMMA Replacing ==
    ASSUME NEW x, Copies(x), NEW k \in Keys, NEW m, NEW s, <<k, m>> \in DOMAIN x.lookup
    PROVE  put(x, k, m, s, FALSE) = Inserted(delete_without_count(x, k, m), k, m, s)
<1> DEFINE old == x.lookup[<<k, m>>]
           q == <<k, m>>
           new == OrderedEntry(k, s, m)
           removed == BTreeRemove(x.ordered, OrderedEntry(k, old, m))
           rest == [p \in DOMAIN x.lookup \ {q} |-> x.lookup[p]]
           M == [p \in DOMAIN x.lookup \cup {q} |-> IF p = q THEN s ELSE x.lookup[p]]
           N == [p \in DOMAIN rest \cup {q} |-> IF p = q THEN s ELSE rest[p]]
           a == [x EXCEPT !.ordered = removed]
           v == [a EXCEPT !.ordered = BTreeInsert(a.ordered, new)]
           z == [[x EXCEPT !.lookup = rest] EXCEPT !.ordered = removed]
           w == [z EXCEPT !.ordered = BTreeInsert(z.ordered, new)]
<1>1. lookup_score(x, k, m) = old /\ old # None
  BY Zenon, Looked DEF Copies
<1>2. M = N
  <2>1. DOMAIN rest = DOMAIN x.lookup \ {q} /\ \A p \in DOMAIN rest : rest[p] = x.lookup[p]
    BY Zenon
  <2> HIDE DEF rest, q
  <2>2. DOMAIN x.lookup \cup {q} = DOMAIN rest \cup {q}
    BY Zenon, <2>1
  <2>3. \A p \in DOMAIN rest \cup {q} : (IF p = q THEN s ELSE x.lookup[p]) = (IF p = q THEN s ELSE rest[p])
    BY Zenon, <2>1
  <2> QED BY Zenon, <2>2, <2>3
<1>3. /\ IsIndex(a) /\ a.ordered = removed /\ a.lookup = x.lookup
      /\ a.counts = x.counts /\ a.positive = x.positive /\ a.due = x.due
  <2>1. NewOrdered(x, a, removed) /\ IsIndex(x)
    BY Zenon DEF Copies, NewOrdered
  <2> HIDE DEF a, removed
  <2> QED BY ZenonT(40), <2>1, SetOrdered
<1>4. put(x, k, m, s, FALSE) = [v EXCEPT !.lookup = [p \in DOMAIN v.lookup \cup {q} |->
                                                       IF p = q THEN s ELSE v.lookup[p]]]
  BY Zenon, <1>1 DEF put, insert_lookup
<1>5. delete_without_count(x, k, m) = z
  <2>1. IsIndex(x)
    BY Zenon DEF Copies
  <2>2. [x EXCEPT !.lookup = rest].ordered = x.ordered
    <3> DEFINE t == [x EXCEPT !.lookup = rest]
    <3>1. NewLookup(x, t, rest)
      BY Zenon DEF NewLookup
    <3> HIDE DEF rest, t
    <3>2. t.ordered = x.ordered
      BY SMTT(30), <2>1, <3>1, SetLookup
    <3> QED BY Zenon, <3>2 DEF t
  <2> QED BY Zenon, <1>1, <2>2 DEF delete_without_count, remove_lookup
<1>6. Inserted(z, k, m, s) = [w EXCEPT !.lookup = [p \in DOMAIN w.lookup \cup {q} |->
                                                     IF p = q THEN s ELSE w.lookup[p]]]
  BY Zenon DEF Inserted, insert_lookup
<1> HIDE DEF removed, rest, new
<1>7. /\ IsIndex(v) /\ v.ordered = BTreeInsert(removed, new) /\ v.lookup = x.lookup
      /\ v.counts = x.counts /\ v.positive = x.positive /\ v.due = x.due
  <2>1. NewOrdered(a, v, BTreeInsert(removed, new))
    BY Zenon, <1>3 DEF NewOrdered
  <2> HIDE DEF a, v
  <2>2. IsIndex(a)
    BY Zenon, <1>3
  <2>3. /\ IsIndex(v) /\ v.ordered = BTreeInsert(removed, new) /\ v.lookup = a.lookup
        /\ v.counts = a.counts /\ v.positive = a.positive /\ v.due = a.due
    BY ZenonT(40), <2>1, <2>2, SetOrdered
  <2> QED BY Zenon, <1>3, <2>3
<1>8. /\ IsIndex(z) /\ z.ordered = removed /\ z.lookup = rest
      /\ z.counts = x.counts /\ z.positive = x.positive /\ z.due = x.due
  <2> DEFINE t == [x EXCEPT !.lookup = rest]
  <2>1. /\ IsIndex(t) /\ t.lookup = rest
        /\ t.counts = x.counts /\ t.positive = x.positive /\ t.due = x.due
    <3>1. NewLookup(x, t, rest) /\ IsIndex(x)
      BY Zenon DEF Copies, NewLookup
    <3> HIDE DEF t
    <3> QED BY SMTT(30), <3>1, SetLookup
  <2> HIDE DEF t
  <2>2. NewOrdered(t, z, removed)
    BY Zenon DEF t, NewOrdered
  <2> HIDE DEF z
  <2>3. IsIndex(t)
    BY Zenon, <2>1
  <2>4. /\ IsIndex(z) /\ z.ordered = removed /\ z.lookup = t.lookup
        /\ z.counts = t.counts /\ z.positive = t.positive /\ z.due = t.due
    BY ZenonT(40), <2>2, <2>3, SetOrdered
  <2> QED BY Zenon, <2>1, <2>4
<1> HIDE DEF z, v
<1>9. /\ IsIndex(w) /\ w.ordered = BTreeInsert(removed, new) /\ w.lookup = rest
      /\ w.counts = x.counts /\ w.positive = x.positive /\ w.due = x.due
  <2>1. NewOrdered(z, w, BTreeInsert(removed, new))
    BY Zenon, <1>8 DEF NewOrdered
  <2> HIDE DEF w
  <2>2. IsIndex(z)
    BY Zenon, <1>8
  <2>3. /\ IsIndex(w) /\ w.ordered = BTreeInsert(removed, new) /\ w.lookup = z.lookup
        /\ w.counts = z.counts /\ w.positive = z.positive /\ w.due = z.due
    BY Zenon, <2>1, <2>2, SetOrdered
  <2> QED BY Zenon, <1>8, <2>3
<1> HIDE DEF w
<1>10. put(x, k, m, s, FALSE) = [v EXCEPT !.lookup = M] /\ Inserted(z, k, m, s) = [w EXCEPT !.lookup = N]
  BY Zenon, <1>4, <1>6, <1>7, <1>9
<1> HIDE DEF M, N
<1> DEFINE f == [v EXCEPT !.lookup = M]
           g == [w EXCEPT !.lookup = M]
<1>11. f = [v EXCEPT !.lookup = M] /\ g = [w EXCEPT !.lookup = M]
  BY Zenon
<1> HIDE DEF f, g
<1>f. NewLookup(v, f, M) /\ NewLookup(w, g, M)
  BY Zenon, <1>11 DEF NewLookup
<1>i. IsIndex(v) /\ IsIndex(w)
  BY Zenon, <1>7, <1>9
<1>12. f = g
  <2>1. /\ IsIndex(f) /\ f.ordered = v.ordered /\ f.lookup = M
        /\ f.counts = v.counts /\ f.positive = v.positive /\ f.due = v.due
    BY Zenon, <1>i, <1>f, SetLookup
  <2>2. /\ IsIndex(g) /\ g.ordered = w.ordered /\ g.lookup = M
        /\ g.counts = w.counts /\ g.positive = w.positive /\ g.due = w.due
    BY ZenonT(40), <1>i, <1>f, SetLookup
  <2>3. /\ f.ordered = g.ordered /\ f.lookup = g.lookup /\ f.counts = g.counts
        /\ f.positive = g.positive /\ f.due = g.due
    BY Zenon, <1>7, <1>9, <2>1, <2>2
  <2> QED BY Zenon, <2>1, <2>2, <2>3 DEF IsIndex
<1> QED BY Zenon, <1>2, <1>5, <1>10, <1>11, <1>12

\* A member is put where it was or where it was not, or left as it is.
LEMMA PutKeeps ==
    ASSUME NEW x, NEW d, NEW R, Coherent(x, d, R), NEW k \in Keys, NEW m, NEW s, s # None,
           NEW new_only \in BOOLEAN
    PROVE  Coherent(put(x, k, m, s, new_only), d, R)
<1>1. d \in [Keys -> Int] /\ Copies(x) /\ Pairs(x.lookup)
  BY Zenon DEF Coherent, Counts, Copies
<1>2. CASE lookup_score(x, k, m) # None /\ new_only
  BY Zenon, <1>2 DEF put
<1>3. CASE lookup_score(x, k, m) # None /\ ~new_only
  <2> DEFINE acc == [x |-> x, d |-> d]
             b == Deleting(acc, k, m)
             z == delete_without_count(x, k, m)
  <2>1. acc.x = x /\ acc.d = d
    OBVIOUS
  <2> HIDE DEF acc
  <2>2. Coherent(b.x, b.d, R) /\ lookup_score(b.x, k, m) = None
    <3>1. Coherent(acc.x, acc.d, R)
      BY Zenon, <2>1
    <3> QED BY Zenon, <3>1, DeletingKeeps
  <2>3. b.x = z /\ b.d = Paid(d, k, 1)
    BY Zenon, <1>3, <2>1 DEF Deleting, Paid
  <2> HIDE DEF b, z
  <2>4. Coherent(Inserted(z, k, m, s), Owed(Paid(d, k, 1), k, 1), R)
    BY Zenon, <2>2, <2>3, InsertingKeeps
  <2>5. 1 \in Int
    OBVIOUS
  <2>6. Coherent(Inserted(z, k, m, s), d, R)
    BY Zenon, <1>1, <2>4, <2>5, Balance
  <2>7. put(x, k, m, s, new_only) = Inserted(z, k, m, s)
    <3>1. new_only = FALSE /\ <<k, m>> \in DOMAIN x.lookup
      BY Zenon, <1>1, <1>3, Looked
    <3> QED BY Zenon, <1>1, <3>1, Replacing DEF z
  <2> QED BY Zenon, <2>6, <2>7
<1>4. CASE lookup_score(x, k, m) = None
  <2> DEFINE y == increment_count(x, k, 1)
  <2>1. 1 \in Int
    OBVIOUS
  <2>2. Coherent(y, Paid(d, k, 1), R) /\ y.lookup = x.lookup
    BY SMTT(30), <2>1, CountAdded
  <2>3. put(x, k, m, s, new_only) = Inserted(y, k, m, s)
    BY Zenon, <1>4 DEF put, Inserted
  <2> HIDE DEF y
  <2>4. lookup_score(y, k, m) = None
    BY Zenon, <1>4, <2>2 DEF lookup_score
  <2>5. Coherent(Inserted(y, k, m, s), Owed(Paid(d, k, 1), k, 1), R)
    BY Zenon, <2>2, <2>4, InsertingKeeps
  <2> QED BY Zenon, <1>1, <2>1, <2>3, <2>5, Balance
<1> QED BY Zenon, <1>2, <1>3, <1>4

\* A member is moved to another key.
LEMMA MoveKeeps ==
    ASSUME NEW x, NEW d, NEW R, Coherent(x, d, R), NEW from \in Keys, NEW to \in Keys, NEW m,
           NEW s, s # None
    PROVE  Coherent(move_member(x, from, to, m, s), d, R)
<1>1. CASE from = to
  <2>1. FALSE \in BOOLEAN
    BY Zenon
  <2> QED BY Zenon, <1>1, <2>1, PutKeeps DEF move_member
<1>2. CASE from # to
  <2> DEFINE z == delete(x, from, m)
             y == delete(z, to, m)
  <2>1. Coherent(z, d, R)
    BY Zenon, DeleteKeeps
  <2> HIDE DEF z
  <2>2. Coherent(y, d, R) /\ lookup_score(y, to, m) = None
    BY Zenon, <2>1, DeleteKeeps
  <2> HIDE DEF y
  <2>3. Coherent(Inserted(y, to, m, s), Owed(d, to, 1), R)
    BY Zenon, <2>2, InsertingKeeps
  <2>4. 1 \in Int /\ d \in [Keys -> Int]
    <3>1. d \in [Keys -> Int]
      BY Zenon DEF Coherent, Counts
    <3> QED BY <3>1
  <2>5. Coherent(increment_count(Inserted(y, to, m, s), to, 1),
                 Paid(Owed(d, to, 1), to, 1), R)
    BY SMTT(30), <2>3, <2>4, CountAdded
  <2>6. move_member(x, from, to, m, s) = increment_count(Inserted(y, to, m, s), to, 1)
    BY Zenon, <1>2 DEF move_member, Inserted, y, z
  <2> QED BY Zenon, <2>4, <2>5, <2>6, Balance
<1> QED BY Zenon, <1>1, <1>2

\* A claim takes a Flow out of the queue it was due in and puts it under its
\* worker, or the other way round.
LEMMA ClaimKeeps ==
    ASSUME NEW acc, NEW R, Coherent(acc.x, acc.d, R), NEW c, IsClaim(c)
    PROVE  /\ Coherent(ClaimOne(acc, c).x, ClaimOne(acc, c).d, R)
           /\ Coherent(RollbackOne(acc, c).x, RollbackOne(acc, c).d, R)
<1>1. /\ c.from_due \in Keys /\ c.to_due \in Keys /\ c.from_state \in Keys /\ c.to_state \in Keys
      /\ c.inflight \in Keys /\ c.worker \in Keys
  BY Zenon DEF IsClaim
<1>2. /\ c.from_due_score # None /\ c.to_due_score # None /\ c.from_state_score # None
      /\ c.to_state_score # None /\ c.lease_score # None
  BY Zenon DEF IsClaim
<1>3. \A a, m : \A k \in Keys : Coherent(a.x, a.d, R) =>
          Coherent(Deleting(a, k, m).x, Deleting(a, k, m).d, R)
  BY Zenon, DeletingKeeps
<1>4. \A a, m, s : \A k \in Keys : Coherent(a.x, a.d, R) /\ s # None =>
          Coherent(PuttingNew(a, k, m, s).x, PuttingNew(a, k, m, s).d, R)
  BY Zenon, PuttingKeeps
<1>5. Coherent(ClaimOne(acc, c).x, ClaimOne(acc, c).d, R)
  <2> DEFINE a == Deleting(acc, c.from_due, c.id)
             b == PuttingNew(a, c.to_due, c.id, c.to_due_score)
             d == Deleting(b, c.from_state, c.id)
             e == PuttingNew(d, c.to_state, c.id, c.to_state_score)
             f == PuttingNew(e, c.inflight, c.id, c.lease_score)
             g == PuttingNew(f, c.worker, c.id, c.lease_score)
  <2>0. ClaimOne(acc, c) = g
    BY Zenon DEF ClaimOne
  <2>1. Coherent(a.x, a.d, R)
    BY Zenon, <1>1, <1>3
  <2> HIDE DEF a
  <2>2. Coherent(b.x, b.d, R)
    BY Zenon, <1>1, <1>2, <1>4, <2>1
  <2> HIDE DEF b
  <2>3. Coherent(d.x, d.d, R)
    BY Zenon, <1>1, <1>3, <2>2
  <2> HIDE DEF d
  <2>4. Coherent(e.x, e.d, R)
    BY Zenon, <1>1, <1>2, <1>4, <2>3
  <2> HIDE DEF e
  <2>5. Coherent(f.x, f.d, R)
    BY Zenon, <1>1, <1>2, <1>4, <2>4
  <2> HIDE DEF f
  <2>6. Coherent(g.x, g.d, R)
    BY Zenon, <1>1, <1>2, <1>4, <2>5
  <2> HIDE DEF g
  <2> QED BY Zenon, <2>0, <2>6
<1>6. Coherent(RollbackOne(acc, c).x, RollbackOne(acc, c).d, R)
  <2> DEFINE a == Deleting(acc, c.to_due, c.id)
             b == PuttingNew(a, c.from_due, c.id, c.from_due_score)
             d == Deleting(b, c.to_state, c.id)
             e == Deleting(d, c.inflight, c.id)
             f == Deleting(e, c.worker, c.id)
             g == PuttingNew(f, c.from_state, c.id, c.from_state_score)
  <2>0. RollbackOne(acc, c) = g
    BY Zenon DEF RollbackOne
  <2>1. Coherent(a.x, a.d, R)
    BY Zenon, <1>1, <1>3
  <2> HIDE DEF a
  <2>2. Coherent(b.x, b.d, R)
    BY Zenon, <1>1, <1>2, <1>4, <2>1
  <2> HIDE DEF b
  <2>3. Coherent(d.x, d.d, R)
    BY Zenon, <1>1, <1>3, <2>2
  <2> HIDE DEF d
  <2>4. Coherent(e.x, e.d, R)
    BY Zenon, <1>1, <1>3, <2>3
  <2> HIDE DEF e
  <2>5. Coherent(f.x, f.d, R)
    BY Zenon, <1>1, <1>3, <2>4
  <2> HIDE DEF f
  <2>6. Coherent(g.x, g.d, R)
    BY Zenon, <1>1, <1>2, <1>4, <2>5
  <2> HIDE DEF g
  <2> QED BY Zenon, <2>0, <2>6
<1> QED BY Zenon, <1>5, <1>6

-----------------------------------------------------------------------------
(* The theorem *)

IInv == Coherent(index, deltas, restored)

\* The empty index.
LEMMA EntryInitInv == EntryInit => IInv
<1> SUFFICES ASSUME EntryInit PROVE Coherent(index, deltas, restored)
  BY Zenon DEF IInv
<1>1. index = EmptyIndex /\ deltas = [k \in Keys |-> 0]
  BY Zenon DEF EntryInit
<1>2. /\ index = [ordered |-> {}, lookup |-> <<>>, counts |-> [k \in Keys |-> 0], positive |-> {},
                  due |-> {}]
  BY Zenon, <1>1 DEF EmptyIndex
<1>3. /\ index.ordered = {} /\ index.lookup = <<>> /\ index.counts = [k \in Keys |-> 0]
      /\ index.positive = {} /\ index.due = {} /\ IsIndex(index)
  BY <1>2 DEF IsIndex
<1>4. DOMAIN index.lookup = {}
  BY <1>3
<1>5. Copies(index)
  BY Zenon, <1>3, <1>4 DEF Copies, Pairs, Entries
<1>6. Catalogs(index)
  BY <1>3 DEF Catalogs
<1>7. \A k : RowsOf(index, k) = {}
  BY Zenon, <1>4 DEF RowsOf
<1>8. IsFiniteSet({}) /\ Cardinality({}) = 0
  BY Zenon, FS_EmptySet
<1>9. deltas \in [Keys -> Int] /\ \A k \in Keys : index.counts[k] + deltas[k] = 0
  BY SMTT(30), <1>1, <1>3
<1>10. Counts(index, deltas, restored)
  BY Zenon, <1>7, <1>8, <1>9 DEF Counts
<1> QED BY Zenon, <1>5, <1>6, <1>10 DEF Coherent

\* Each entry keeps the invariant.
LEMMA EntryNextInv == IInv /\ [EntryNext]_evars => IInv'
<1> SUFFICES ASSUME Coherent(index, deltas, restored), [EntryNext]_evars
             PROVE  Coherent(index', deltas', restored')
  BY Zenon DEF IInv
<1>1. CASE UNCHANGED evars
  BY Zenon, <1>1 DEF evars
<1>2. CASE (PutEntry \/ DeleteEntry \/ MoveEntry) /\ UNCHANGED <<restored, deltas>>
  <2>1. CASE PutEntry
    <3>1. PICK k \in Keys, new_only \in BOOLEAN : \E m, s :
                 s # None /\ index' = put(index, k, m, s, new_only)
      BY Zenon, <2>1 DEF PutEntry
    <3>2. PICK m, s : s # None /\ index' = put(index, k, m, s, new_only)
      BY Zenon, <3>1
    <3>3. Coherent(put(index, k, m, s, new_only), deltas, restored)
      BY Zenon, <3>2, PutKeeps
    <3> QED BY Zenon, <1>2, <3>2, <3>3
  <2>2. CASE DeleteEntry
    <3>1. PICK k \in Keys : \E m : index' = delete(index, k, m)
      BY Zenon, <2>2 DEF DeleteEntry
    <3>2. PICK m : index' = delete(index, k, m)
      BY Zenon, <3>1
    <3>3. Coherent(delete(index, k, m), deltas, restored)
      BY Zenon, DeleteKeeps
    <3> QED BY Zenon, <1>2, <3>2, <3>3
  <2>3. CASE MoveEntry
    <3>1. PICK from \in Keys, to \in Keys : \E m, s :
                 s # None /\ index' = move_member(index, from, to, m, s)
      BY Zenon, <2>3 DEF MoveEntry
    <3>2. PICK m, s : s # None /\ index' = move_member(index, from, to, m, s)
      BY Zenon, <3>1
    <3>3. Coherent(move_member(index, from, to, m, s), deltas, restored)
      BY Zenon, <3>2, MoveKeeps
    <3> QED BY Zenon, <1>2, <3>2, <3>3
  <2> QED BY Zenon, <1>2, <2>1, <2>2, <2>3
<1>3. CASE ClaimEntry /\ UNCHANGED restored
  <2> DEFINE acc == [x |-> index, d |-> deltas]
             a == [x |-> index', d |-> deltas']
  <2>1. PICK c : IsClaim(c) /\ (a = ClaimOne(acc, c) \/ a = RollbackOne(acc, c))
    BY Zenon, <1>3 DEF ClaimEntry
  <2>2. acc.x = index /\ acc.d = deltas /\ a.x = index' /\ a.d = deltas'
    OBVIOUS
  <2> HIDE DEF acc, a
  <2>3. Coherent(a.x, a.d, restored)
    BY Zenon, <2>1, <2>2, ClaimKeeps
  <2> QED BY Zenon, <1>3, <2>2, <2>3
<1>4. CASE SettleCount /\ UNCHANGED restored
  <2>1. PICK k \in Keys : /\ index' = increment_count(index, k, deltas[k])
                          /\ deltas' = [deltas EXCEPT ![k] = 0]
    BY Zenon, <1>4 DEF SettleCount
  <2>2. deltas \in [Keys -> Int] /\ deltas[k] \in Int
    BY Zenon DEF Coherent, Counts
  <2>3. Coherent(index', Paid(deltas, k, deltas[k]), restored)
    BY SMTT(30), <2>1, <2>2, CountAdded
  <2>4. deltas' = Paid(deltas, k, deltas[k])
    <3>1. deltas[k] - deltas[k] = 0
      BY SMTT(30), <2>2
    <3> QED BY Zenon, <2>1, <3>1 DEF Paid
  <2> QED BY Zenon, <1>4, <2>3, <2>4
<1>5. CASE RestoreCount /\ UNCHANGED deltas
  <2>1. PICK k \in Keys, c \in Int :
               /\ index' = set_shared_count(index, k, c) \/ index' = remove_count(index, k)
               /\ restored' = restored \cup {k}
    BY Zenon, <1>5 DEF RestoreCount
  <2>2. /\ Coherent(set_shared_count(index, k, c), deltas, restored \cup {k})
        /\ Coherent(remove_count(index, k), deltas, restored \cup {k})
    BY Zenon, CountReplaced
  <2> QED BY Zenon, <1>5, <2>1, <2>2
<1> QED BY Zenon, <1>1, <1>2, <1>3, <1>4, <1>5 DEF EntryNext

\* Whatever entries the requests of the index NIFs put, move, delete, claim and
\* roll back, in whatever order, and whatever counts their callers restore: once
\* the deltas of a batch are settled, the ordered set, the map, the counts and the
\* two catalogs say the same.
THEOREM EntriesKeepIndex == EntrySpec => []EntriesCoherent
<1>1. IInv => EntriesCoherent
  <2> SUFFICES ASSUME Coherent(index, deltas, restored), deltas = [k \in Keys |-> 0]
               PROVE  IndexCoherent
    BY Zenon DEF IInv, EntriesCoherent
  <2>1. index.ordered = {OrderedEntry(p[1], index.lookup[p], p[2]) : p \in DOMAIN index.lookup}
    BY Zenon DEF Coherent, Copies, Entries
  <2>2. /\ index.positive = {k \in Keys : index.counts[k] > 0}
        /\ index.due = index.positive \cap DueKeys
    BY Zenon DEF Coherent, Catalogs
  <2>3. ASSUME NEW k \in Keys \ restored PROVE index.counts[k] = Cardinality(RowsOf(index, k))
    <3>1. index.counts[k] + deltas[k] = Cardinality(RowsOf(index, k)) /\ index.counts[k] \in Int
      BY Zenon DEF Coherent, Counts, Catalogs
    <3>2. deltas[k] = 0
      BY Zenon
    <3> QED BY SMTT(30), <3>1, <3>2
  <2> QED BY Zenon, <2>1, <2>2, <2>3 DEF IndexCoherent
<1> QED BY <1>1, EntryInitInv, EntryNextInv, PTL DEF EntrySpec
=============================================================================
