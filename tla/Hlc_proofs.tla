------------------------------- MODULE Hlc_proofs -------------------------------
(* Proofs about Hlc, for any number of nodes and processes and any word size. *)
EXTENDS Hlc, TLAPS

\* A physical time that is larger is larger by a whole range of the counter.
LEMMA NextPhysical ==
    ASSUME NEW a \in Nat, NEW b \in Nat, a > b
    PROVE  a * LogicalSize >= b * LogicalSize + LogicalSize
<1>1. PICK d \in Nat : a = b + 1 + d
  <2>1. a - b - 1 \in Nat OBVIOUS
  <2>2. a = b + 1 + (a - b - 1) OBVIOUS
  <2> QED BY <2>1, <2>2
<1>2. a * LogicalSize = b * LogicalSize + LogicalSize + d * LogicalSize
  BY <1>1, HlcAssumption
<1>3. d * LogicalSize \in Nat
  BY <1>1, HlcAssumption
<1>4. b * LogicalSize \in Nat
  BY HlcAssumption
<1> QED BY <1>2, <1>3, <1>4, HlcAssumption

\* unpack splits a word into the parts pack puts together.
LEMMA Unpacked ==
    ASSUME NEW k \in Nat
    PROVE  /\ unpack(k).physical \in Nat
           /\ unpack(k).logical \in 0 .. LogicalSize - 1
           /\ k = pack(unpack(k).physical, unpack(k).logical)
BY HlcAssumption DEF unpack, pack

\* Physical times that differ decide how two words compare.
LEMMA PhysicalFirst ==
    ASSUME NEW j \in Nat, NEW k \in Nat,
           unpack(j).physical > unpack(k).physical
    PROVE  j > k
<1> DEFINE a == unpack(j).physical
           b == unpack(k).physical
<1>1. /\ a \in Nat /\ unpack(j).logical \in Nat
      /\ j = a * LogicalSize + unpack(j).logical
  BY Unpacked, HlcAssumption DEF pack
<1>2. /\ b \in Nat /\ unpack(k).logical \in 0 .. LogicalSize - 1
      /\ k = b * LogicalSize + unpack(k).logical
  BY Unpacked DEF pack
<1>3. a * LogicalSize >= b * LogicalSize + LogicalSize
  BY <1>1, <1>2, NextPhysical
<1>4. a * LogicalSize \in Nat /\ b * LogicalSize \in Nat
  BY <1>1, <1>2, HlcAssumption
<1> HIDE DEF a, b
<1> QED BY <1>1, <1>2, <1>3, <1>4, HlcAssumption

\* A millisecond above a word's physical time is above the word.
LEMMA WallAbove ==
    ASSUME NEW wall \in Nat, NEW k \in Nat, wall > unpack(k).physical
    PROVE  pack(wall, 0) > k
<1> DEFINE b == unpack(k).physical
<1>1. /\ b \in Nat /\ unpack(k).logical \in 0 .. LogicalSize - 1
      /\ k = b * LogicalSize + unpack(k).logical
  BY Unpacked DEF pack
<1>2. wall * LogicalSize >= b * LogicalSize + LogicalSize
  BY <1>1, NextPhysical
<1>3. wall * LogicalSize \in Nat /\ b * LogicalSize \in Nat
  BY <1>1, HlcAssumption
<1> HIDE DEF b
<1> QED BY <1>1, <1>2, <1>3, HlcAssumption DEF pack

\* merge_timestamps: the seven clauses of merge_by_max come down to two.  Either
\* the wall clock is ahead of both and starts a new millisecond, or the result is
\* the successor of the larger word.
LEMMA MergeIsSuccessor ==
    ASSUME NEW wall \in Nat, NEW j \in Nat, NEW k \in Nat
    PROVE  merge_timestamps(wall, unpack(j), unpack(k)) =
               IF wall > unpack(j).physical /\ wall > unpack(k).physical
               THEN pack(wall, 0)
               ELSE Larger(j, k) + 1
<1> DEFINE lp == unpack(j).physical
           ll == unpack(j).logical
           rp == unpack(k).physical
           rl == unpack(k).logical
           merged == merge_timestamps(wall, unpack(j), unpack(k))
<1> SUFFICES merged = IF wall > lp /\ wall > rp THEN pack(wall, 0) ELSE Larger(j, k) + 1
  OBVIOUS
<1>1. lp \in Nat /\ ll \in Nat /\ j = lp * LogicalSize + ll
  BY Unpacked, HlcAssumption DEF pack
<1>2. rp \in Nat /\ rl \in Nat /\ k = rp * LogicalSize + rl
  BY Unpacked, HlcAssumption DEF pack
<1>3. lp > rp => j > k
  BY PhysicalFirst
<1>4. rp > lp => k > j
  BY PhysicalFirst
<1>5. lp * LogicalSize \in Nat /\ rp * LogicalSize \in Nat
  BY <1>1, <1>2, HlcAssumption
<1>6. merged =
        LET max_phys == Larger(wall, Larger(lp, rp))
        IN  CASE max_phys = wall /\ wall > lp /\ wall > rp -> pack(wall, 0)
              [] lp = rp /\ ~(wall > lp /\ wall > rp) -> pack(lp, Larger(ll, rl) + 1)
              [] lp # rp /\ max_phys = lp -> pack(lp, ll + 1)
              [] lp # rp /\ max_phys = rp -> pack(rp, rl + 1)
              [] OTHER -> pack(max_phys, 0)
  BY DEF merge_timestamps
<1> HIDE DEF lp, ll, rp, rl, merged
<1>7. CASE wall > lp /\ wall > rp
  BY <1>1, <1>2, <1>6, <1>7 DEF Larger
<1>8. CASE ~(wall > lp /\ wall > rp) /\ lp = rp
  BY <1>1, <1>2, <1>5, <1>6, <1>8 DEF Larger, pack
<1>9. CASE ~(wall > lp /\ wall > rp) /\ lp > rp
  BY <1>1, <1>2, <1>3, <1>5, <1>6, <1>9 DEF Larger, pack
<1>10. CASE ~(wall > lp /\ wall > rp) /\ rp > lp
  BY <1>1, <1>2, <1>4, <1>5, <1>6, <1>10 DEF Larger, pack
<1> QED BY <1>1, <1>2, <1>7, <1>8, <1>9, <1>10
-------------------------------------------------------------------------------
\* What the slot has over everything derived from it.
Below ==
    /\ \A n \in Nodes : known[n] <= slot[n]
    /\ \A n \in Nodes : \A i \in DOMAIN issued[n] : issued[n][i].stamp <= slot[n]
    /\ \A p \in Procs : floor[p] <= known[NodeOf[p]] /\ remote[p] <= reach + advances

\* A process about to swap read a value the slot had after its call began, and
\* wants to put one that is above it and above what it merges.
Swaps(p) ==
    at[p] = "cas" =>
        /\ current[p] <= slot[NodeOf[p]] /\ floor[p] <= current[p]
        /\ current[p] < target[p] /\ target[p] <= reach + advances + 1
        /\ op[p] = "update" /\ remote[p] < MaxPacked => remote[p] < target[p]
Swapping == \A p \in Procs : Swaps(p)

\* The inductive invariant.
IInv == TypeOK /\ IssuedIncreasing /\ CausalOrder /\ NoRunaway /\ Below /\ Swapping

\* The word has at least one value, and every wall clock reading fits it.
LEMMA WordBounds ==
    /\ MaxPacked \in Nat
    /\ \A wall \in 0 .. MaxPhysical : pack(wall, 0) \in 0 .. MaxPacked
<1>1. MaxPacked \in Nat
  <2>1. (MaxPhysical + 1) * LogicalSize >= 0 * LogicalSize + LogicalSize
    BY NextPhysical, HlcAssumption
  <2>2. (MaxPhysical + 1) * LogicalSize \in Nat
    BY HlcAssumption
  <2> QED BY <2>1, <2>2, HlcAssumption DEF MaxPacked
<1>2. ASSUME NEW wall \in 0 .. MaxPhysical PROVE pack(wall, 0) \in 0 .. MaxPacked
  <2>1. (MaxPhysical + 1) * LogicalSize >= wall * LogicalSize + LogicalSize
    BY NextPhysical, HlcAssumption
  <2>2. wall * LogicalSize \in Nat /\ (MaxPhysical + 1) * LogicalSize \in Nat
    BY HlcAssumption
  <2> QED BY <2>1, <2>2, HlcAssumption DEF MaxPacked, pack
<1> QED BY <1>1, <1>2

\* The values of the word are numbers.
LEMMA StampsAreNat == \A s \in Stamps : s \in Nat /\ s <= MaxPacked
BY WordBounds DEF Stamps

\* The clocks start at zero with nothing given out.
LEMMA InitIInv == Init => IInv
<1> SUFFICES ASSUME Init PROVE IInv
  OBVIOUS
<1>1. TypeOK
  BY WordBounds DEF Init, TypeOK, Stamps
<1>2. IssuedIncreasing /\ CausalOrder
  BY DEF Init, IssuedIncreasing, CausalOrder
<1>3. NoRunaway /\ Below
  BY HlcAssumption DEF Init, NoRunaway, Below
<1>4. Swapping
  BY DEF Init, Swapping, Swaps
<1> QED BY <1>1, <1>2, <1>3, <1>4 DEF IInv

\* What another process does leaves a process that is about to swap where it was:
\* the slot it read only grows.
LEMMA SwapsKept ==
    ASSUME IInv, NEW q \in Procs,
           at'[q] = at[q], current'[q] = current[q], target'[q] = target[q],
           floor'[q] = floor[q], op'[q] = op[q], remote'[q] = remote[q],
           slot'[NodeOf[q]] \in Nat, slot'[NodeOf[q]] >= slot[NodeOf[q]],
           reach' \in Nat, advances' \in Nat, reach' >= reach, advances' >= advances
    PROVE  Swaps(q)'
<1>1. /\ slot[NodeOf[q]] \in Nat /\ current[q] \in Nat /\ target[q] \in Nat
      /\ reach \in Nat /\ advances \in Nat
  BY HlcAssumption, StampsAreNat DEF IInv, TypeOK
<1>2. Swaps(q)
  BY DEF IInv, Swapping
<1>3. MaxPacked' = MaxPacked
  BY DEF MaxPacked
<1> SUFFICES ASSUME at[q] = "cas"
             PROVE  /\ current[q] <= slot'[NodeOf[q]] /\ floor[q] <= current[q]
                    /\ current[q] < target[q] /\ target[q] <= reach' + advances' + 1
                    /\ op[q] = "update" /\ remote[q] < MaxPacked => remote[q] < target[q]
  BY <1>3 DEF Swaps
<1>4. current[q] <= slot[NodeOf[q]] /\ target[q] <= reach + advances + 1
  BY <1>2 DEF Swaps
<1>5. current[q] <= slot'[NodeOf[q]]
  BY <1>1, <1>4
<1>6. target[q] <= reach' + advances' + 1
  BY <1>1, <1>4
<1> QED BY <1>2, <1>5, <1>6 DEF Swaps

\* Beginning a call (now or update) keeps the invariant: it only notes what is
\* known, and what it will merge was given out before or has been counted.
LEMMA BeginIInv ==
    ASSUME IInv, NEW p \in Procs, NEW o \in {"now", "update"}, NEW r \in Stamps,
           reach' \in Nat, reach' >= reach, r <= reach' + advances,
           Begin(p, o, r)
    PROVE  IInv'
<1> USE DEF Begin
<1>0. NodeOf[p] \in Nodes /\ calls \in Nat /\ advances \in Nat /\ reach \in Nat
  BY Zenon, HlcAssumption DEF IInv, TypeOK
<1>1. TypeOK'
  <2>1. known[NodeOf[p]] \in Stamps
    BY <1>0 DEF IInv, TypeOK
  <2>2. floor' \in [Procs -> Stamps] /\ remote' \in [Procs -> Stamps]
    BY <2>1 DEF IInv, TypeOK
  <2>3. at' \in [Procs -> {"idle", "read", "cas"}] /\ op' \in [Procs -> {"now", "update"}]
    BY DEF IInv, TypeOK
  <2>4. calls' \in Nat
    BY <1>0
  <2> QED BY Zenon, <2>2, <2>3, <2>4 DEF IInv, TypeOK, Stamps
<1>2. IssuedIncreasing' /\ CausalOrder'
  BY DEF IInv, IssuedIncreasing, CausalOrder
<1>3. NoRunaway'
  BY <1>0, WordBounds DEF IInv, TypeOK, Stamps, NoRunaway
<1>4. Below'
  <2>1. ASSUME NEW q \in Procs
        PROVE  floor'[q] <= known'[NodeOf[q]] /\ remote'[q] <= reach' + advances'
    <3>1. known[NodeOf[q]] \in Nat /\ floor[q] \in Nat /\ remote[q] \in Nat
      BY Zenon, HlcAssumption, StampsAreNat DEF IInv, TypeOK
    <3>2. floor[q] <= known[NodeOf[q]] /\ remote[q] <= reach + advances
      BY DEF IInv, Below
    <3>3. CASE q = p
      BY <1>0, <3>1, <3>3 DEF IInv, TypeOK
    <3>4. CASE q # p
      BY <1>0, <3>1, <3>2, <3>4 DEF IInv, TypeOK
    <3> QED BY <3>3, <3>4
  <2> QED BY <2>1 DEF IInv, Below
<1>5. Swapping'
  <2> SUFFICES ASSUME NEW q \in Procs, at'[q] = "cas" PROVE Swaps(q)'
    BY DEF Swapping, Swaps
  <2>1. q # p /\ at'[q] = at[q]
    BY DEF IInv, TypeOK
  <2>2. floor'[q] = floor[q] /\ op'[q] = op[q] /\ remote'[q] = remote[q]
    BY <2>1 DEF IInv, TypeOK
  <2>3. slot[NodeOf[q]] \in Nat
    BY Zenon, HlcAssumption, StampsAreNat DEF IInv, TypeOK
  <2>4. slot'[NodeOf[q]] = slot[NodeOf[q]] /\ advances' = advances
    OBVIOUS
  <2>5. current'[q] = current[q] /\ target'[q] = target[q]
    OBVIOUS
  <2> HIDE DEF Begin
  <2> QED BY <1>0, <2>1, <2>2, <2>3, <2>4, <2>5, SwapsKept
<1> QED BY <1>1, <1>2, <1>3, <1>4, <1>5 DEF IInv

\* now() giving out a stamp that is above the slot, or the last one there is,
\* keeps the stamps of the node in order.
LEMMA IssueKeeps ==
    ASSUME IInv, NEW p \in Procs, NEW s \in Stamps, Issue(p, s),
           slot' \in [Nodes -> Stamps], \A n \in Nodes : slot'[n] >= slot[n],
           slot'[NodeOf[p]] >= s, s > slot[NodeOf[p]] \/ s = MaxPacked
    PROVE  /\ issued' \in [Nodes -> Seq([stamp : Stamps, after : Stamps])]
           /\ known' \in [Nodes -> Stamps]
           /\ IssuedIncreasing' /\ CausalOrder'
           /\ \A n \in Nodes : known[n] <= known'[n] /\ known'[n] <= slot'[n]
           /\ \A n \in Nodes : \A i \in DOMAIN issued'[n] : issued'[n][i].stamp <= slot'[n]
<1> DEFINE m == NodeOf[p]
           e == [stamp |-> s, after |-> floor[p]]
           Entries == [stamp : Stamps, after : Stamps]
<1>1. m \in Nodes /\ e \in Entries
  BY HlcAssumption DEF IInv, TypeOK
<1>2. /\ issued \in [Nodes -> Seq(Entries)]
      /\ issued' = [issued EXCEPT ![m] = Append(issued[m], e)]
      /\ known \in [Nodes -> Stamps]
      /\ known' = [known EXCEPT ![m] = Larger(known[m], s)]
  BY Zenon, <1>1 DEF IInv, TypeOK, Issue
<1>3. ASSUME NEW n \in Nodes
      PROVE  /\ issued'[n] \in Seq(Entries)
             /\ \A i \in DOMAIN issued'[n] :
                   \/ i \in DOMAIN issued[n] /\ issued'[n][i] = issued[n][i]
                   \/ n = m /\ i = Len(issued[n]) + 1 /\ issued'[n][i] = e
  <2>1. issued[n] \in Seq(Entries) /\ issued[m] \in Seq(Entries)
    BY Zenon, <1>1, <1>2
  <2>2. CASE n = m
    <3>1. issued'[n] = Append(issued[n], e)
      BY <1>2, <2>1, <2>2
    <3> HIDE DEF e, Entries
    <3> QED BY <1>1, <2>1, <2>2, <3>1
  <2>3. CASE n # m
    <3>1. issued'[n] = issued[n]
      BY <1>2, <2>1, <2>3
    <3> QED BY <2>1, <3>1
  <2> QED BY <2>2, <2>3
<1>4. \A n \in Nodes : \A i \in DOMAIN issued[n] :
        /\ i \in 1 .. Len(issued[n]) /\ Len(issued[n]) \in Nat
        /\ issued[n][i].stamp \in Stamps /\ issued[n][i].stamp <= slot[n]
  <2> TAKE n \in Nodes
  <2> TAKE i \in DOMAIN issued[n]
  <2>1. issued[n] \in Seq(Entries)
    BY Zenon, <1>2
  <2>2. i \in 1 .. Len(issued[n]) /\ Len(issued[n]) \in Nat /\ issued[n][i] \in Entries
    <3> HIDE DEF Entries
    <3> QED BY <2>1
  <2>3. issued[n][i].stamp \in Stamps
    BY <2>2
  <2> QED BY <2>2, <2>3 DEF IInv, Below
<1>5. \A n \in Nodes : slot[n] \in Stamps /\ slot'[n] \in Stamps
  BY DEF IInv, TypeOK
<1>6. floor[p] \in Stamps /\ floor[p] <= known[m] /\ known[m] <= slot[m] /\ known[m] \in Stamps
  BY <1>1 DEF IInv, TypeOK, Below
<1>7. issued' \in [Nodes -> Seq(Entries)]
  <2>1. issued' = [n \in Nodes |-> issued'[n]]
    BY Zenon, <1>2
  <2> HIDE DEF Entries
  <2> QED BY <1>3, <2>1
<1>8. known' \in [Nodes -> Stamps]
  BY <1>1, <1>2, <1>6 DEF Larger
<1>9. e.stamp = s /\ e.after = floor[p]
  OBVIOUS
<1> HIDE DEF e, m
<1>10. \A n \in Nodes : known[n] <= known'[n] /\ known'[n] <= slot'[n]
  <2> TAKE n \in Nodes
  <2>1. known[n] \in Nat /\ known[n] <= slot[n] /\ slot[n] \in Nat /\ slot'[n] \in Nat /\ s \in Nat
        /\ slot'[n] >= slot[n]
    BY <1>2, <1>5, StampsAreNat DEF IInv, Below
  <2>2. known'[n] = IF n = m THEN Larger(known[n], s) ELSE known[n]
    BY <1>1, <1>2
  <2>3. n = m => slot'[n] >= s
    BY DEF m
  <2> QED BY <2>1, <2>2, <2>3 DEF Larger
<1>11. \A n \in Nodes : \A i \in DOMAIN issued'[n] : issued'[n][i].stamp <= slot'[n]
  <2> TAKE n \in Nodes
  <2> TAKE i \in DOMAIN issued'[n]
  <2>1. slot[n] \in Nat /\ slot'[n] \in Nat /\ s \in Nat /\ slot'[n] >= slot[n]
    BY <1>5, StampsAreNat
  <2>2. CASE i \in DOMAIN issued[n] /\ issued'[n][i] = issued[n][i]
    <3>1. issued[n][i].stamp \in Nat /\ issued[n][i].stamp <= slot[n]
      BY <1>4, <2>2, StampsAreNat
    <3> QED BY <2>1, <2>2, <3>1
  <2>3. CASE n = m /\ issued'[n][i] = e
    BY <1>9, <2>3 DEF m
  <2> QED BY <1>3, <2>2, <2>3
<1>12. IssuedIncreasing'
  <2> SUFFICES ASSUME NEW n \in Nodes, NEW i \in DOMAIN issued'[n], NEW j \in DOMAIN issued'[n],
                      i < j
               PROVE  issued'[n][i].stamp < issued'[n][j].stamp \/ issued'[n][i].stamp = MaxPacked
    BY DEF IssuedIncreasing
  <2>1. CASE j \in DOMAIN issued[n] /\ issued'[n][j] = issued[n][j]
    <3>1. i \in DOMAIN issued[n] /\ issued'[n][i] = issued[n][i]
      BY <1>3, <1>4, <2>1
    <3> QED BY <2>1, <3>1 DEF IInv, IssuedIncreasing
  <2>2. CASE n = m /\ j = Len(issued[n]) + 1 /\ issued'[n][j] = e
    <3>1. i \in DOMAIN issued[n] /\ issued'[n][i] = issued[n][i]
      BY <1>3, <2>2
    <3>2. issued[n][i].stamp \in Nat /\ issued[n][i].stamp <= slot[n] /\ slot[n] \in Nat
          /\ issued[n][i].stamp <= MaxPacked /\ s \in Nat /\ MaxPacked \in Nat
      BY <1>4, <1>5, <3>1, StampsAreNat, WordBounds
    <3>3. s > slot[n] \/ s = MaxPacked
      BY <2>2 DEF m
    <3> QED BY <1>9, <2>2, <3>1, <3>2, <3>3
  <2> QED BY <1>3, <2>1, <2>2
<1>13. CausalOrder'
  <2> SUFFICES ASSUME NEW n \in Nodes, NEW i \in DOMAIN issued'[n]
               PROVE  issued'[n][i].stamp > issued'[n][i].after \/ issued'[n][i].stamp = MaxPacked
    BY DEF CausalOrder
  <2>1. CASE i \in DOMAIN issued[n] /\ issued'[n][i] = issued[n][i]
    BY <2>1 DEF IInv, CausalOrder
  <2>2. CASE n = m /\ issued'[n][i] = e
    <3>1. floor[p] \in Nat /\ floor[p] <= known[m] /\ known[m] <= slot[m] /\ known[m] \in Nat
          /\ slot[m] \in Nat /\ s \in Nat
      BY <1>1, <1>5, <1>6, StampsAreNat
    <3>2. s > slot[m] \/ s = MaxPacked
      BY DEF m
    <3> QED BY <1>9, <2>2, <3>1, <3>2
  <2> QED BY <1>3, <2>1, <2>2
<1> QED BY Zenon, <1>7, <1>8, <1>10, <1>11, <1>12, <1>13

\* hlc_now_packed_with_wall reading the slot keeps the invariant: the target is
\* above the slot, unless the word is saturated and its last value is given out.
LEMMA NowReadIInv ==
    ASSUME IInv, NEW p \in Procs, NowRead(p)
    PROVE  IInv'
<1> DEFINE m == NodeOf[p]
           cur == slot[m]
<1>1. /\ m \in Nodes /\ cur \in Stamps /\ cur \in Nat /\ cur <= MaxPacked /\ MaxPacked \in Nat
      /\ advances \in Nat /\ reach \in Nat
  BY HlcAssumption, StampsAreNat, WordBounds DEF IInv, TypeOK
<1>2. /\ slot' = slot /\ op' = op /\ remote' = remote /\ floor' = floor
      /\ calls' = calls /\ advances' = advances
  BY DEF NowRead
<1>3. \A n \in Nodes : slot[n] \in Nat
  BY StampsAreNat DEF IInv, TypeOK
<1>4. \A q \in Procs : NodeOf[q] \in Nodes /\ floor[q] \in Nat /\ known[NodeOf[q]] \in Nat
                       /\ remote[q] \in Nat
  BY HlcAssumption, StampsAreNat DEF IInv, TypeOK
<1>5. CASE cur = MaxPacked
  <2>1. /\ at' = [at EXCEPT ![p] = "idle"] /\ Issue(p, cur)
        /\ current' = current /\ target' = target /\ reach' = reach
    BY <1>5 DEF NowRead
  <2>2. /\ issued' \in [Nodes -> Seq([stamp : Stamps, after : Stamps])]
        /\ known' \in [Nodes -> Stamps]
        /\ IssuedIncreasing' /\ CausalOrder'
        /\ \A n \in Nodes : known[n] <= known'[n] /\ known'[n] <= slot'[n]
        /\ \A n \in Nodes : \A i \in DOMAIN issued'[n] : issued'[n][i].stamp <= slot'[n]
    <3>1. slot' \in [Nodes -> Stamps] /\ \A n \in Nodes : slot'[n] >= slot[n]
      BY <1>2, <1>3 DEF IInv, TypeOK
    <3>2. slot'[NodeOf[p]] >= cur /\ (cur > slot[NodeOf[p]] \/ cur = MaxPacked)
      BY <1>1, <1>2, <1>5
    <3> HIDE DEF cur, m
    <3> QED BY Zenon, <1>1, <2>1, <3>1, <3>2, IssueKeeps
  <2>3. TypeOK'
    BY Zenon, <1>2, <2>1, <2>2 DEF IInv, TypeOK, Stamps
  <2>4. NoRunaway'
    BY <1>2, <2>1 DEF IInv, NoRunaway
  <2>5. Below'
    <3>1. ASSUME NEW q \in Procs
          PROVE  floor'[q] <= known'[NodeOf[q]] /\ remote'[q] <= reach' + advances'
      <4>1. known'[NodeOf[q]] \in Nat /\ known[NodeOf[q]] <= known'[NodeOf[q]]
        BY <1>4, <2>2, StampsAreNat
      <4> QED BY <1>2, <1>4, <2>1, <4>1 DEF IInv, Below
    <3> QED BY <2>2, <3>1 DEF Below
  <2>6. Swapping'
    <3> SUFFICES ASSUME NEW q \in Procs PROVE Swaps(q)'
      BY DEF Swapping
    <3>1. CASE q = p
      BY <2>1, <3>1 DEF IInv, TypeOK, Swaps
    <3>2. CASE q # p
      <4>1. at'[q] = at[q]
        BY <2>1, <3>2 DEF IInv, TypeOK
      <4> QED BY <1>1, <1>2, <1>3, <1>4, <2>1, <4>1, SwapsKept
    <3> QED BY <3>1, <3>2
  <2> QED BY <2>2, <2>3, <2>4, <2>5, <2>6 DEF IInv
<1>6. CASE cur # MaxPacked
  <2>1. PICK wall \in 0 .. MaxPhysical :
          /\ at' = [at EXCEPT ![p] = "cas"]
          /\ current' = [current EXCEPT ![p] = cur]
          /\ target' = [target EXCEPT ![p] = Larger(pack(wall, 0), cur + 1)]
          /\ reach' = Larger(reach, pack(wall, 0))
          /\ issued' = issued /\ known' = known
    BY <1>6 DEF NowRead
  <2> DEFINE t == Larger(pack(wall, 0), cur + 1)
  <2>2. pack(wall, 0) \in Nat /\ pack(wall, 0) <= MaxPacked
    BY <1>1, WordBounds
  <2>3. /\ t \in Stamps /\ cur < t /\ reach' \in Nat /\ reach' >= reach
        /\ t <= reach' + advances + 1
    <3>1. cur <= reach + advances
      BY <1>1 DEF IInv, NoRunaway
    <3> HIDE DEF cur
    <3> QED BY <1>1, <1>6, <2>1, <2>2, <3>1 DEF Larger, Stamps
  <2> HIDE DEF t
  <2>4. TypeOK'
    <3>1. /\ at' \in [Procs -> {"idle", "read", "cas"}]
          /\ current' \in [Procs -> Stamps] /\ target' \in [Procs -> Stamps]
      BY <1>1, <2>1, <2>3 DEF IInv, TypeOK, t
    <3> QED BY Zenon, <1>2, <2>1, <2>3, <3>1 DEF IInv, TypeOK, Stamps
  <2>5. IssuedIncreasing' /\ CausalOrder'
    BY <2>1 DEF IInv, IssuedIncreasing, CausalOrder
  <2>6. NoRunaway'
    BY <1>1, <1>2, <1>3, <2>3 DEF IInv, NoRunaway
  <2>7. Below'
    <3>1. ASSUME NEW q \in Procs
          PROVE  floor'[q] <= known'[NodeOf[q]] /\ remote'[q] <= reach' + advances'
      BY <1>1, <1>2, <1>4, <2>1, <2>3 DEF IInv, Below
    <3> QED BY <1>2, <2>1, <3>1 DEF IInv, Below
  <2>8. Swapping'
    <3> SUFFICES ASSUME NEW q \in Procs PROVE Swaps(q)'
      BY SMTT(30) DEF Swapping
    <3>1. CASE q = p
      <4>1. current'[p] = cur /\ target'[p] = t
        BY <2>1 DEF IInv, TypeOK, t
      <4>2. floor[p] <= known[m] /\ known[m] <= cur
        BY <1>1 DEF IInv, Below
      <4>3. op[p] = "now"
        BY DEF NowRead
      <4> QED BY <1>1, <1>2, <1>4, <2>3, <3>1, <4>1, <4>2, <4>3 DEF Swaps
    <3>2. CASE q # p
      <4>1. at'[q] = at[q] /\ current'[q] = current[q] /\ target'[q] = target[q]
        BY SMTT(30), <2>1, <3>2 DEF IInv, TypeOK
      <4>2. slot'[NodeOf[q]] = slot[NodeOf[q]] /\ slot[NodeOf[q]] \in Nat
        BY <1>2, <1>3, <1>4
      <4> QED BY <1>1, <1>2, <1>3, <1>4, <2>3, <4>1, <4>2, SwapsKept
    <3> QED BY <3>1, <3>2
  <2> QED BY <2>4, <2>5, <2>6, <2>7, <2>8 DEF IInv
<1> QED BY <1>5, <1>6

\* update() returning with a merged timestamp that is not above the slot keeps
\* what is known below the slot.
LEMMA MergedKeeps ==
    ASSUME IInv, NEW p \in Procs, Merged(p),
           slot' \in [Nodes -> Stamps], \A n \in Nodes : slot'[n] >= slot[n],
           remote[p] < MaxPacked => remote[p] <= slot'[NodeOf[p]]
    PROVE  /\ known' \in [Nodes -> Stamps]
           /\ \A n \in Nodes : known[n] <= known'[n] /\ known'[n] <= slot'[n]
<1> DEFINE m == NodeOf[p]
           k == IF remote[p] < MaxPacked THEN Larger(known[m], remote[p]) ELSE known[m]
<1>1. m \in Nodes /\ remote[p] \in Stamps /\ known \in [Nodes -> Stamps]
  BY HlcAssumption DEF IInv, TypeOK
<1>2. known' = [known EXCEPT ![m] = k]
  BY <1>1 DEF Merged
<1>3. k \in Stamps
  BY <1>1 DEF Larger
<1>4. ASSUME NEW n \in Nodes
      PROVE  known[n] <= known'[n] /\ known'[n] <= slot'[n]
  <2>1. /\ known[n] \in Nat /\ known[n] <= slot[n] /\ slot[n] \in Nat /\ slot'[n] \in Nat
        /\ remote[p] \in Nat /\ slot'[n] >= slot[n]
    BY <1>1, StampsAreNat DEF IInv, TypeOK, Below
  <2>2. CASE n = m
    <3>1. known'[n] = k
      BY <1>1, <1>2, <2>2
    <3> QED BY <2>1, <2>2, <3>1 DEF Larger
  <2>3. CASE n # m
    <3>1. known'[n] = known[n]
      BY <1>1, <1>2, <2>3
    <3> QED BY <2>1, <3>1
  <2> QED BY <2>2, <2>3
<1> HIDE DEF k
<1> QED BY <1>1, <1>2, <1>3, <1>4

\* hlc_update_packed reading the slot keeps the invariant: by MergeIsSuccessor its
\* target is above the slot and above the timestamp it merges, and when it gives
\* up because the word is full, the slot is already above that timestamp.
LEMMA UpdateReadIInv ==
    ASSUME IInv, NEW p \in Procs, UpdateRead(p)
    PROVE  IInv'
<1> DEFINE m == NodeOf[p]
           cur == slot[m]
           r == remote[p]
<1>1. /\ m \in Nodes /\ cur \in Stamps /\ cur \in Nat /\ cur <= MaxPacked /\ MaxPacked \in Nat
      /\ advances \in Nat /\ reach \in Nat /\ r \in Nat /\ r <= MaxPacked
  BY HlcAssumption, StampsAreNat, WordBounds DEF IInv, TypeOK
<1>2. /\ slot' = slot /\ op' = op /\ remote' = remote /\ floor' = floor
      /\ calls' = calls /\ advances' = advances /\ issued' = issued
  BY DEF UpdateRead
<1>3. \A n \in Nodes : slot[n] \in Nat
  BY StampsAreNat DEF IInv, TypeOK
<1>4. \A q \in Procs : NodeOf[q] \in Nodes /\ floor[q] \in Nat /\ known[NodeOf[q]] \in Nat
                       /\ remote[q] \in Nat
  BY HlcAssumption, StampsAreNat DEF IInv, TypeOK
<1>5. PICK wall \in 0 .. MaxPhysical :
        LET tgt == merge_timestamps(wall, unpack(cur), unpack(r))
        IN  /\ reach' = Larger(reach, pack(wall, 0))
            /\ IF tgt > MaxPacked \/ tgt <= cur
               THEN /\ at' = [at EXCEPT ![p] = "idle"] /\ Merged(p)
                    /\ UNCHANGED <<current, target>>
               ELSE /\ at' = [at EXCEPT ![p] = "cas"]
                    /\ current' = [current EXCEPT ![p] = cur]
                    /\ target' = [target EXCEPT ![p] = tgt]
                    /\ UNCHANGED known
  BY DEF UpdateRead
<1> DEFINE w == pack(wall, 0)
           t == merge_timestamps(wall, unpack(cur), unpack(r))
<1>6. w \in Nat /\ w <= MaxPacked /\ wall \in Nat
  BY <1>1, WordBounds, HlcAssumption
<1>7. \/ t = w /\ w > cur /\ w > r
      \/ t = Larger(cur, r) + 1
  <2> HIDE DEF cur, r
  <2>1. CASE wall > unpack(cur).physical /\ wall > unpack(r).physical
    BY <1>1, <1>6, <2>1, MergeIsSuccessor, WallAbove
  <2>2. CASE ~(wall > unpack(cur).physical /\ wall > unpack(r).physical)
    BY <1>1, <1>6, <2>2, MergeIsSuccessor
  <2> QED BY <2>1, <2>2
<1>8. cur <= reach + advances /\ r <= reach + advances
  BY <1>1 DEF IInv, NoRunaway, Below
<1> HIDE DEF t, w, cur, r
<1>9. reach' \in Nat /\ reach' >= reach /\ reach' >= w
  BY <1>1, <1>5, <1>6 DEF Larger, w
<1>10. /\ t \in Nat /\ t > cur /\ t > r /\ t <= reach' + advances + 1
  BY <1>1, <1>6, <1>7, <1>8, <1>9 DEF Larger
<1>11. NoRunaway'
  BY SMTT(30), <1>1, <1>2, <1>3, <1>9 DEF IInv, NoRunaway
<1>12. IssuedIncreasing' /\ CausalOrder'
  BY <1>2 DEF IInv, IssuedIncreasing, CausalOrder
<1>13. CASE t > MaxPacked \/ t <= cur
  <2>1. at' = [at EXCEPT ![p] = "idle"] /\ Merged(p) /\ current' = current /\ target' = target
    BY <1>5, <1>13 DEF t
  <2>2. r < MaxPacked => r <= cur
    BY <1>1, <1>6, <1>7, <1>10, <1>13 DEF Larger
  <2>3. /\ known' \in [Nodes -> Stamps]
        /\ \A n \in Nodes : known[n] <= known'[n] /\ known'[n] <= slot'[n]
    <3>1. slot' \in [Nodes -> Stamps] /\ \A n \in Nodes : slot'[n] >= slot[n]
      BY <1>2, <1>3 DEF IInv, TypeOK
    <3>2. remote[p] < MaxPacked => remote[p] <= slot'[NodeOf[p]]
      BY <1>2, <2>2 DEF r, cur
    <3> QED BY <2>1, <3>1, <3>2, MergedKeeps
  <2>4. TypeOK'
    BY Zenon, <1>2, <1>9, <2>1, <2>3 DEF IInv, TypeOK, Stamps
  <2>5. Below'
    <3>1. ASSUME NEW q \in Procs
          PROVE  floor'[q] <= known'[NodeOf[q]] /\ remote'[q] <= reach' + advances'
      <4>1. known'[NodeOf[q]] \in Nat /\ known[NodeOf[q]] <= known'[NodeOf[q]]
        BY <1>4, <2>3, StampsAreNat
      <4> QED BY <1>1, <1>2, <1>4, <1>9, <4>1 DEF IInv, Below
    <3> QED BY <1>2, <2>3, <3>1 DEF IInv, Below
  <2>6. Swapping'
    <3> SUFFICES ASSUME NEW q \in Procs PROVE Swaps(q)'
      BY DEF Swapping
    <3>1. CASE q = p
      BY <2>1, <3>1 DEF IInv, TypeOK, Swaps
    <3>2. CASE q # p
      <4>1. at'[q] = at[q]
        BY <2>1, <3>2 DEF IInv, TypeOK
      <4>2. slot'[NodeOf[q]] = slot[NodeOf[q]] /\ slot[NodeOf[q]] \in Nat
        BY <1>2, <1>3, <1>4
      <4> QED BY <1>1, <1>2, <1>9, <2>1, <4>1, <4>2, SwapsKept
    <3> QED BY <3>1, <3>2
  <2> QED BY <1>11, <1>12, <2>4, <2>5, <2>6 DEF IInv
<1>14. CASE ~(t > MaxPacked \/ t <= cur)
  <2>1. /\ at' = [at EXCEPT ![p] = "cas"] /\ current' = [current EXCEPT ![p] = cur]
        /\ target' = [target EXCEPT ![p] = t] /\ known' = known
    BY <1>5, <1>14 DEF t
  <2>2. TypeOK'
    <3>1. t \in Stamps
      BY <1>1, <1>10, <1>14 DEF Stamps
    <3>2. /\ at' \in [Procs -> {"idle", "read", "cas"}]
          /\ current' \in [Procs -> Stamps] /\ target' \in [Procs -> Stamps]
      BY <1>1, <2>1, <3>1 DEF IInv, TypeOK
    <3> QED BY Zenon, <1>2, <1>9, <2>1, <3>2 DEF IInv, TypeOK, Stamps
  <2>3. Below'
    <3>1. ASSUME NEW q \in Procs
          PROVE  floor'[q] <= known'[NodeOf[q]] /\ remote'[q] <= reach' + advances'
      BY <1>1, <1>2, <1>4, <1>9, <2>1 DEF IInv, Below
    <3> QED BY <1>2, <2>1, <3>1 DEF IInv, Below
  <2>4. Swapping'
    <3> SUFFICES ASSUME NEW q \in Procs PROVE Swaps(q)'
      BY DEF Swapping
    <3>1. CASE q = p
      <4>1. current'[p] = cur /\ target'[p] = t
        BY <2>1 DEF IInv, TypeOK
      <4>2. floor[p] <= known[m] /\ known[m] <= cur
        BY <1>1 DEF IInv, Below, cur
      <4>3. floor[p] <= cur
        BY <1>1, <1>4, <4>2
      <4>4. cur <= slot'[NodeOf[p]]
        BY <1>1, <1>2 DEF cur
      <4> QED BY <1>2, <1>10, <3>1, <4>1, <4>3, <4>4 DEF Swaps, r
    <3>2. CASE q # p
      <4>1. at'[q] = at[q] /\ current'[q] = current[q] /\ target'[q] = target[q]
        BY <2>1, <3>2 DEF IInv, TypeOK
      <4>2. slot'[NodeOf[q]] = slot[NodeOf[q]] /\ slot[NodeOf[q]] \in Nat
        BY <1>2, <1>3, <1>4
      <4> QED BY <1>1, <1>2, <1>9, <4>1, <4>2, SwapsKept
    <3> QED BY <3>1, <3>2
  <2> QED BY <1>11, <1>12, <2>2, <2>3, <2>4 DEF IInv
<1> QED BY <1>13, <1>14

\* compare_exchange keeps the invariant: when it succeeds the slot is still what
\* the process read, so the target is above everything given out and merged.
LEMMA CompareExchangeIInv ==
    ASSUME IInv, NEW p \in Procs, compare_exchange(p)
    PROVE  IInv'
<1> DEFINE m == NodeOf[p]
           t == target[p]
<1>1. /\ m \in Nodes /\ slot[m] \in Nat /\ t \in Stamps /\ t \in Nat /\ current[p] \in Nat
      /\ advances \in Nat /\ reach \in Nat /\ remote[p] \in Nat
  BY HlcAssumption, StampsAreNat DEF IInv, TypeOK
<1>2. /\ at[p] = "cas" /\ op' = op /\ remote' = remote /\ current' = current /\ target' = target
      /\ floor' = floor /\ calls' = calls /\ reach' = reach
  BY DEF compare_exchange
<1>3. \A n \in Nodes : slot[n] \in Nat
  BY StampsAreNat DEF IInv, TypeOK
<1>4. \A q \in Procs : NodeOf[q] \in Nodes /\ floor[q] \in Nat /\ known[NodeOf[q]] \in Nat
                       /\ remote[q] \in Nat
  BY HlcAssumption, StampsAreNat DEF IInv, TypeOK
<1>5. Swaps(p)
  BY DEF IInv, Swapping
<1>6. CASE slot[m] = current[p]
  <2>1. /\ slot' = [slot EXCEPT ![m] = t] /\ at' = [at EXCEPT ![p] = "idle"]
        /\ advances' = advances + 1
        /\ IF op[p] = "now" THEN Issue(p, t) ELSE Merged(p) /\ issued' = issued
    BY SMTT(30), <1>6 DEF compare_exchange
  <2>2. t > slot[m] /\ t <= reach + advances + 1
    BY <1>1, <1>2, <1>5, <1>6 DEF Swaps
  <2>3. slot' \in [Nodes -> Stamps] /\ slot'[m] = t
    BY <1>1, <2>1 DEF IInv, TypeOK
  <2>4. \A n \in Nodes : slot'[n] = IF n = m THEN t ELSE slot[n]
    BY <1>1, <2>1 DEF IInv, TypeOK
  <2> HIDE DEF t, m
  <2>5. \A n \in Nodes : slot'[n] \in Nat /\ slot'[n] >= slot[n]
    BY SMTT(30), <1>1, <1>3, <2>2, <2>4
  <2>6. /\ issued' \in [Nodes -> Seq([stamp : Stamps, after : Stamps])]
        /\ known' \in [Nodes -> Stamps]
        /\ IssuedIncreasing' /\ CausalOrder'
        /\ \A n \in Nodes : known[n] <= known'[n] /\ known'[n] <= slot'[n]
        /\ \A n \in Nodes : \A i \in DOMAIN issued'[n] : issued'[n][i].stamp <= slot'[n]
    <3>1. CASE op[p] = "now"
      <4>1. Issue(p, t)
        BY <2>1, <3>1
      <4>2. slot'[NodeOf[p]] >= t /\ t > slot[NodeOf[p]]
        BY <1>1, <2>2, <2>3 DEF m
      <4> QED BY Zenon, <1>1, <2>3, <2>5, <4>1, <4>2, IssueKeeps
    <3>2. CASE op[p] # "now"
      <4>1. Merged(p) /\ issued' = issued
        BY <2>1, <3>2
      <4>2. op[p] = "update"
        BY <3>2 DEF IInv, TypeOK
      <4>3. remote[p] < MaxPacked => remote[p] <= slot'[NodeOf[p]]
        BY <1>1, <1>2, <1>5, <2>3, <4>2 DEF Swaps, m, t
      <4>4. /\ known' \in [Nodes -> Stamps]
            /\ \A n \in Nodes : known[n] <= known'[n] /\ known'[n] <= slot'[n]
        BY <2>3, <2>5, <4>1, <4>3, MergedKeeps
      <4>5. issued' \in [Nodes -> Seq([stamp : Stamps, after : Stamps])]
        BY Zenon, <4>1 DEF IInv, TypeOK
      <4>6. IssuedIncreasing' /\ CausalOrder'
        BY <4>1 DEF IInv, IssuedIncreasing, CausalOrder
      <4>7. \A n \in Nodes : \A i \in DOMAIN issued[n] : issued[n][i].stamp <= slot'[n]
        <5> TAKE n \in Nodes
        <5> TAKE i \in DOMAIN issued[n]
        <5>1. issued[n] \in Seq([stamp : Stamps, after : Stamps])
          BY Zenon DEF IInv, TypeOK
        <5>2. issued[n][i] \in [stamp : Stamps, after : Stamps]
          <6> DEFINE Entries == [stamp : Stamps, after : Stamps]
          <6>1. issued[n] \in Seq(Entries)
            BY <5>1
          <6> HIDE DEF Entries
          <6>2. issued[n][i] \in Entries
            BY <6>1
          <6> QED BY <6>2 DEF Entries
        <5>3. issued[n][i].stamp \in Nat
          BY <5>2, StampsAreNat
        <5>4. issued[n][i].stamp <= slot[n]
          BY DEF IInv, Below
        <5> QED BY <1>3, <2>5, <5>3, <5>4
      <4> QED BY Zenon, <4>1, <4>4, <4>5, <4>6, <4>7
    <3> QED BY Zenon, <3>1, <3>2
  <2>7. TypeOK'
    <3>1. at' \in [Procs -> {"idle", "read", "cas"}] /\ advances' \in Nat
      BY <1>1, <2>1 DEF IInv, TypeOK
    <3> QED BY Zenon, <1>2, <2>3, <2>6, <3>1 DEF IInv, TypeOK, Stamps
  <2>8. NoRunaway'
    <3> SUFFICES ASSUME NEW n \in Nodes PROVE slot'[n] <= reach + (advances + 1)
      BY <1>2, <2>1 DEF NoRunaway
    <3>1. slot[n] <= reach + advances
      BY DEF IInv, NoRunaway
    <3> QED BY <1>1, <1>3, <2>2, <2>4, <3>1
  <2>9. Below'
    <3>1. ASSUME NEW q \in Procs
          PROVE  floor'[q] <= known'[NodeOf[q]] /\ remote'[q] <= reach' + advances'
      <4>1. known'[NodeOf[q]] \in Nat /\ known[NodeOf[q]] <= known'[NodeOf[q]]
        BY <1>4, <2>6, StampsAreNat
      <4>2. floor[q] <= known[NodeOf[q]] /\ remote[q] <= reach + advances
        BY SMTT(30) DEF IInv, Below
      <4> QED BY <1>1, <1>2, <1>4, <2>1, <4>1, <4>2
    <3> QED BY <2>6, <3>1 DEF Below
  <2>10. Swapping'
    <3> SUFFICES ASSUME NEW q \in Procs PROVE Swaps(q)'
      BY DEF Swapping
    <3>1. CASE q = p
      BY SMTT(30), <2>1, <3>1 DEF IInv, TypeOK, Swaps
    <3>2. CASE q # p
      <4>1. at'[q] = at[q]
        BY <2>1, <3>2 DEF IInv, TypeOK
      <4>2. slot'[NodeOf[q]] \in Nat /\ slot'[NodeOf[q]] >= slot[NodeOf[q]]
        BY <1>4, <2>5
      <4>3. advances' \in Nat /\ advances' >= advances
        BY <1>1, <2>1
      <4> QED BY <1>1, <1>2, <4>1, <4>2, <4>3, SwapsKept
    <3> QED BY <3>1, <3>2
  <2> QED BY <2>6, <2>7, <2>8, <2>9, <2>10 DEF IInv
<1>7. CASE slot[m] # current[p]
  <2>1. /\ at' = [at EXCEPT ![p] = "read"] /\ slot' = slot /\ issued' = issued
        /\ known' = known /\ advances' = advances
    BY <1>7 DEF compare_exchange
  <2>2. TypeOK'
    BY Zenon, <1>2, <2>1 DEF IInv, TypeOK, Stamps
  <2>3. IssuedIncreasing' /\ CausalOrder'
    BY <2>1 DEF IInv, IssuedIncreasing, CausalOrder
  <2>4. NoRunaway' /\ Below'
    BY <1>2, <2>1 DEF IInv, NoRunaway, Below
  <2>5. Swapping'
    <3> SUFFICES ASSUME NEW q \in Procs PROVE Swaps(q)'
      BY DEF Swapping
    <3>1. CASE q = p
      BY <2>1, <3>1 DEF IInv, TypeOK, Swaps
    <3>2. CASE q # p
      <4>1. at'[q] = at[q]
        BY SMTT(30), <2>1, <3>2 DEF IInv, TypeOK
      <4>2. slot'[NodeOf[q]] = slot[NodeOf[q]] /\ slot[NodeOf[q]] \in Nat
        BY <1>3, <1>4, <2>1
      <4> QED BY <1>1, <1>2, <2>1, <4>1, <4>2, SwapsKept
    <3> QED BY <3>1, <3>2
  <2> QED BY <2>2, <2>3, <2>4, <2>5 DEF IInv
<1> QED BY <1>6, <1>7

\* Every step of the clocks keeps the invariant.
LEMMA NextIInv == IInv /\ [Next]_vars => IInv'
<1> SUFFICES ASSUME IInv, [Next]_vars PROVE IInv'
  OBVIOUS
<1>1. reach \in Nat /\ advances \in Nat
  BY DEF IInv, TypeOK
<1>2. ASSUME NEW p \in Procs, NowCall(p) PROVE IInv'
  <2>1. 0 \in Stamps /\ 0 <= reach' + advances /\ reach' = reach
    BY <1>1, <1>2, WordBounds DEF NowCall, Stamps
  <2> QED BY <1>1, <1>2, <2>1, BeginIInv DEF NowCall
<1>3. ASSUME NEW p \in Procs, UpdateCall(p) PROVE IInv'
  <2>0. PICK n \in Nodes : \E i \in DOMAIN issued[n] :
          Begin(p, "update", issued[n][i].stamp) /\ reach' = reach
    BY <1>3 DEF UpdateCall
  <2>1. PICK i \in DOMAIN issued[n] : Begin(p, "update", issued[n][i].stamp) /\ reach' = reach
    BY <2>0
  <2> DEFINE r == issued[n][i].stamp
  <2>2. r \in Stamps
    <3> DEFINE Entries == [stamp : Stamps, after : Stamps]
    <3>1. issued[n] \in Seq(Entries)
      BY Zenon DEF IInv, TypeOK
    <3>2. issued[n][i] \in Entries
      <4> HIDE DEF Entries
      <4> QED BY <3>1
    <3> QED BY <3>2
  <2>3. r <= slot[n] /\ slot[n] <= reach + advances /\ slot[n] \in Nat /\ r \in Nat
    BY SMTT(30), <2>2, StampsAreNat DEF IInv, TypeOK, Below, NoRunaway
  <2>4. Begin(p, "update", r)
    BY <2>1
  <2> HIDE DEF r
  <2>5. r <= reach' + advances
    BY <1>1, <2>1, <2>3
  <2> QED BY <1>1, <2>1, <2>2, <2>4, <2>5, BeginIInv
<1>4. ASSUME NEW p \in Procs, ForeignCall(p) PROVE IInv'
  <2>1. PICK ts \in Foreign :
          /\ acceptable(ts)
          /\ Begin(p, "update", pack(ts.physical, ts.logical))
          /\ reach' = Larger(reach, pack(ts.physical, ts.logical))
    BY <1>4 DEF ForeignCall
  <2> DEFINE r == pack(ts.physical, ts.logical)
  <2>2. r \in Nat
    <3>1. ts.physical \in Nat /\ ts.logical \in Nat
      BY HlcAssumption
    <3>2. ts.physical * LogicalSize \in Nat
      BY <3>1, HlcAssumption
    <3> QED BY <3>1, <3>2 DEF pack
  <2>3. r \in Stamps
    BY <2>1, <2>2, WordBounds DEF acceptable, Stamps
  <2>4. Begin(p, "update", r) /\ reach' = Larger(reach, r)
    BY <2>1
  <2> HIDE DEF r
  <2>5. reach' \in Nat /\ reach' >= reach /\ r <= reach' + advances
    BY <1>1, <2>2, <2>4 DEF Larger
  <2> QED BY <2>3, <2>4, <2>5, BeginIInv
<1>5. ASSUME NEW p \in Procs, Proceed(p) PROVE IInv'
  BY SMTT(30), <1>5, NowReadIInv, UpdateReadIInv, CompareExchangeIInv DEF Proceed
<1>6. CASE UNCHANGED vars
  BY Zenon, <1>6 DEF vars, callVars, ghostVars, IInv, TypeOK, Stamps, IssuedIncreasing, CausalOrder,
              NoRunaway, Below, Swapping, Swaps, MaxPacked
<1> QED BY <1>2, <1>3, <1>4, <1>5, <1>6 DEF Next

\* The inductive invariant of the clocks holds for any number of nodes and
\* processes, any word size, and any readings of the wall clocks.
THEOREM HlcInvariant == Spec => []IInv
BY InitIInv, NextIInv, PTL DEF Spec

\* now() on one node never repeats a stamp or goes back, whatever the wall clock
\* does and however many processes race for the word.
THEOREM StampsIncrease == Spec => []IssuedIncreasing
<1>1. IInv => IssuedIncreasing
  BY DEF IInv
<1> QED BY <1>1, HlcInvariant, PTL

\* A stamp is above everything its node gave out or merged before the call.
THEOREM StampsFollowCauses == Spec => []CausalOrder
<1>1. IInv => CausalOrder
  BY DEF IInv
<1> QED BY <1>1, HlcInvariant, PTL

\* The order of the stamps is the order of the calls, on a node and across nodes.
THEOREM StampsAreOrdered == Spec => []StampsOrdered
BY StampsIncrease, StampsFollowCauses, PTL DEF StampsOrdered

\* Merging never drives the clocks away from the readings they were given.
THEOREM ClocksStayClose == Spec => []NoRunaway
<1>1. IInv => NoRunaway
  BY DEF IInv
<1> QED BY <1>1, HlcInvariant, PTL

\* The packed words never overflow their width.
THEOREM WordsFit == Spec => []TypeOK
<1>1. IInv => TypeOK
  BY DEF IInv
<1> QED BY <1>1, HlcInvariant, PTL

\* No step moves a clock backward.
THEOREM ClocksNeverGoBack == Spec => NeverBackward
<1>1. IInv /\ [Next]_vars => [\A n \in Nodes : slot'[n] >= slot[n]]_vars
  <2> SUFFICES ASSUME IInv, [Next]_vars, NEW n \in Nodes PROVE slot'[n] >= slot[n]
    OBVIOUS
  <2>1. slot[n] \in Nat
    BY StampsAreNat DEF IInv, TypeOK
  <2>2. CASE slot' = slot
    BY <2>1, <2>2
  <2>3. ASSUME NEW p \in Procs, compare_exchange(p) PROVE slot'[n] >= slot[n]
    <3>1. CASE slot[NodeOf[p]] = current[p]
      <4>1. slot' = [slot EXCEPT ![NodeOf[p]] = target[p]] /\ at[p] = "cas"
        BY <2>3, <3>1 DEF compare_exchange
      <4>2. current[p] < target[p] /\ current[p] \in Nat /\ target[p] \in Nat
        BY <4>1, StampsAreNat DEF IInv, TypeOK, Swapping, Swaps
      <4>3. slot'[n] = IF n = NodeOf[p] THEN target[p] ELSE slot[n]
        BY <4>1 DEF IInv, TypeOK
      <4> QED BY <2>1, <3>1, <4>2, <4>3
    <3>2. CASE slot[NodeOf[p]] # current[p]
      BY SMTT(30), <2>2, <2>3, <3>2 DEF compare_exchange
    <3> QED BY <3>1, <3>2
  <2>4. ASSUME NEW p \in Procs,
               NowCall(p) \/ UpdateCall(p) \/ ForeignCall(p) \/ NowRead(p) \/ UpdateRead(p)
        PROVE  slot' = slot
    BY Zenon, <2>4 DEF NowCall, UpdateCall, ForeignCall, NowRead, UpdateRead, Begin
  <2> QED BY <2>2, <2>3, <2>4 DEF Next, Proceed, vars
<1> QED BY <1>1, HlcInvariant, PTL DEF Spec, NeverBackward
================================================================================
