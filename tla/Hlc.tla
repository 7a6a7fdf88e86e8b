---------------------------------- MODULE Hlc ----------------------------------
(***************************************************************************)
(* The hybrid logical clock of each node: one packed atomic word, advanced *)
(* without locks by the BEAM processes that stamp commands (now) and by    *)
(* those that apply commands stamped elsewhere (update).                   *)
(*                                                                         *)
(* The wall clock is an input: every reading is arbitrary, as NTP and VM   *)
(* migration make it.  Stamps travel between nodes in any order and any    *)
(* number of times.                                                        *)
(***************************************************************************)
EXTENDS Integers, Sequences

CONSTANTS Nodes,
          Procs,         \* BEAM processes that use a clock
          NodeOf,        \* the node each of them runs on
          LogicalSize,   \* 2 ^ @logical_bits
          MaxPhysical,   \* @max_physical_ms
          Foreign,       \* timestamps that peers outside the model may send
          MaxCalls       \* bound on the calls that are made

ASSUME HlcAssumption ==
    /\ NodeOf \in [Procs -> Nodes]
    /\ LogicalSize \in Nat \ {0} /\ MaxPhysical \in Nat /\ MaxCalls \in Nat
    /\ Foreign \subseteq [physical : Nat, logical : Nat]

VARIABLES slot,      \* the packed word of each node
          at,        \* where each process is in its call
          op,        \* which call it is
          remote,    \* the timestamp it merges, packed
          current,   \* what it read from the slot
          target     \* what it wants to put there
callVars == <<at, op, remote, current, target>>

VARIABLES issued,    \* the stamps each node gave out, in order, with the floor of the call
          known,     \* the largest stamp given out or merged on each node
          floor,     \* known when each process began its call
          calls,     \* calls begun
          advances,  \* times a slot was advanced
          reach      \* the largest wall clock or foreign stamp seen, packed
ghostVars == <<issued, known, floor, calls, advances, reach>>
vars == <<slot, callVars, ghostVars>>

MaxPacked == (MaxPhysical + 1) * LogicalSize - 1

Larger(a, b) == IF a >= b THEN a ELSE b

pack(physical, logical) == physical * LogicalSize + logical
unpack(packed) == [physical |-> packed \div LogicalSize, logical |-> packed % LogicalSize]

Init ==
    /\ slot = [n \in Nodes |-> 0]
    /\ at = [p \in Procs |-> "idle"] /\ op = [p \in Procs |-> "now"]
    /\ remote = [p \in Procs |-> 0] /\ current = [p \in Procs |-> 0]
    /\ target = [p \in Procs |-> 0]
    /\ issued = [n \in Nodes |-> <<>>] /\ known = [n \in Nodes |-> 0]
    /\ floor = [p \in Procs |-> 0]
    /\ calls = 0 /\ advances = 0 /\ reach = 0
-------------------------------------------------------------------------------
(* The merge of a remote timestamp. *)

\* Mutant: the counters of a tie are added.
merge_add_logical(wall, l, r) ==
    IF wall > l.physical /\ wall > r.physical THEN pack(wall, 0)
    ELSE IF l.physical = r.physical THEN pack(l.physical, l.logical + r.logical + 1)
    ELSE IF l.physical > r.physical THEN pack(l.physical, l.logical + 1)
    ELSE pack(r.physical, r.logical + 1)

\* merge_timestamps: the clauses of merge_by_max in their order, packed.
merge_timestamps(wall, l, r) ==
    LET lp == l.physical
        rp == r.physical
        max_phys == Larger(wall, Larger(lp, rp))
    IN  CASE max_phys = wall /\ wall > lp /\ wall > rp -> pack(wall, 0)
          [] lp = rp /\ ~(wall > lp /\ wall > rp) -> pack(lp, Larger(l.logical, r.logical) + 1)
          [] lp # rp /\ max_phys = lp -> pack(lp, l.logical + 1)
          [] lp # rp /\ max_phys = rp -> pack(rp, r.logical + 1)
          [] OTHER -> pack(max_phys, 0)

\* normalize_remote_timestamp: the packed form fits, or the timestamp is ignored.
acceptable(ts) == ts.physical <= MaxPhysical /\ pack(ts.physical, ts.logical) <= MaxPacked
-------------------------------------------------------------------------------
(* The calls. *)

Begin(p, o, r) ==
    /\ at[p] = "idle" /\ calls < MaxCalls
    /\ calls' = calls + 1
    /\ at' = [at EXCEPT ![p] = "read"] /\ op' = [op EXCEPT ![p] = o]
    /\ remote' = [remote EXCEPT ![p] = r]
    /\ floor' = [floor EXCEPT ![p] = known[NodeOf[p]]]
    /\ UNCHANGED <<slot, current, target, issued, known, advances>>

NowCall(p) == Begin(p, "now", 0) /\ UNCHANGED reach

\* A stamp that some node gave out, carried by a replicated command.
UpdateCall(p) ==
    /\ \E n \in Nodes : \E i \in DOMAIN issued[n] : Begin(p, "update", issued[n][i].stamp)
    /\ UNCHANGED reach

\* A timestamp from a peer that is not modelled.
ForeignCall(p) ==
    \E ts \in Foreign :
        /\ acceptable(ts)
        /\ Begin(p, "update", pack(ts.physical, ts.logical))
        /\ reach' = Larger(reach, pack(ts.physical, ts.logical))

\* now() gives out stamp s.
Issue(p, s) ==
    LET n == NodeOf[p]
    IN  /\ issued' = [issued EXCEPT ![n] = Append(@, [stamp |-> s, after |-> floor[p]])]
        /\ known' = [known EXCEPT ![n] = Larger(@, s)]

\* hlc_now_packed_with_wall up to its CAS; a saturated clock stands still.
NowRead(p) ==
    /\ at[p] = "read" /\ op[p] = "now"
    /\ LET cur == slot[NodeOf[p]]
       IN  IF cur = MaxPacked
           THEN /\ at' = [at EXCEPT ![p] = "idle"]
                /\ Issue(p, cur)
                /\ UNCHANGED <<current, target, reach>>
           ELSE \E wall \in 0 .. MaxPhysical :
                /\ at' = [at EXCEPT ![p] = "cas"]
                /\ current' = [current EXCEPT ![p] = cur]
                /\ target' = [target EXCEPT ![p] = Larger(pack(wall, 0), cur + 1)]
                /\ reach' = Larger(reach, pack(wall, 0))
                /\ UNCHANGED <<issued, known>>
    /\ UNCHANGED <<slot, op, remote, floor, calls, advances>>

\* update() has returned: later calls on this node come after what it merged.
Merged(p) ==
    known' = [known EXCEPT ![NodeOf[p]] =
                 IF remote[p] < MaxPacked THEN Larger(@, remote[p]) ELSE @]

\* hlc_update_packed up to its CAS, with the two outcomes that need none.
UpdateRead(p) ==
    /\ at[p] = "read" /\ op[p] = "update"
    /\ \E wall \in 0 .. MaxPhysical :
          LET cur == slot[NodeOf[p]]
              tgt == merge_timestamps(wall, unpack(cur), unpack(remote[p]))
          IN  /\ reach' = Larger(reach, pack(wall, 0))
              /\ IF tgt > MaxPacked \/ tgt <= cur
                 THEN /\ at' = [at EXCEPT ![p] = "idle"] /\ Merged(p)
                      /\ UNCHANGED <<current, target>>
                 ELSE /\ at' = [at EXCEPT ![p] = "cas"]
                      /\ current' = [current EXCEPT ![p] = cur]
                      /\ target' = [target EXCEPT ![p] = tgt]
                      /\ UNCHANGED known
    /\ UNCHANGED <<slot, op, remote, issued, floor, calls, advances>>

\* Mutant: the word is put without looking at what it holds.
cas_put(p) ==
    /\ at[p] = "cas"
    /\ slot' = [slot EXCEPT ![NodeOf[p]] = target[p]]
    /\ at' = [at EXCEPT ![p] = "idle"]
    /\ advances' = advances + 1
    /\ IF op[p] = "now" THEN Issue(p, target[p]) ELSE Merged(p) /\ UNCHANGED issued
    /\ UNCHANGED <<op, remote, current, target, floor, calls, reach>>

\* Mutant: a retry swaps against the value it first read.
cas_same_value(p) ==
    /\ at[p] = "cas"
    /\ slot[NodeOf[p]] = current[p]
    /\ slot' = [slot EXCEPT ![NodeOf[p]] = target[p]]
    /\ at' = [at EXCEPT ![p] = "idle"]
    /\ advances' = advances + 1
    /\ IF op[p] = "now" THEN Issue(p, target[p]) ELSE Merged(p) /\ UNCHANGED issued
    /\ UNCHANGED <<op, remote, current, target, floor, calls, reach>>

\* compare_exchange: it succeeds, or another process was first and the call retries.
compare_exchange(p) ==
    /\ at[p] = "cas"
    /\ IF slot[NodeOf[p]] = current[p]
       THEN /\ slot' = [slot EXCEPT ![NodeOf[p]] = target[p]]
            /\ at' = [at EXCEPT ![p] = "idle"]
            /\ advances' = advances + 1
            /\ IF op[p] = "now"
               THEN Issue(p, target[p])
               ELSE Merged(p) /\ UNCHANGED issued
       ELSE /\ at' = [at EXCEPT ![p] = "read"]
            /\ UNCHANGED <<slot, issued, known, advances>>
    /\ UNCHANGED <<op, remote, current, target, floor, calls, reach>>

Proceed(p) == NowRead(p) \/ UpdateRead(p) \/ compare_exchange(p)

Next == \E p \in Procs : NowCall(p) \/ UpdateCall(p) \/ ForeignCall(p) \/ Proceed(p)

\* A process that is in a call is scheduled.
Spec == Init /\ [][Next]_vars /\ \A p \in Procs : WF_vars(Proceed(p))
-------------------------------------------------------------------------------
(* Properties. *)

Stamps == 0 .. MaxPacked

\* A slot, and all that is derived from one, fits the packed word.
TypeOK ==
    /\ slot \in [Nodes -> Stamps] /\ known \in [Nodes -> Stamps]
    /\ at \in [Procs -> {"idle", "read", "cas"}] /\ op \in [Procs -> {"now", "update"}]
    /\ remote \in [Procs -> Stamps] /\ current \in [Procs -> Stamps]
    /\ target \in [Procs -> Stamps] /\ floor \in [Procs -> Stamps]
    /\ issued \in [Nodes -> Seq([stamp : Stamps, after : Stamps])]
    /\ calls \in Nat /\ advances \in Nat /\ reach \in Nat

\* "Monotonically increasing -- even when the wall clock is not": the stamps of
\* a node grow strictly, so no two are equal, until the word is saturated.
IssuedIncreasing ==
    \A n \in Nodes : \A i, j \in DOMAIN issued[n] :
        i < j => issued[n][i].stamp < issued[n][j].stamp \/ issued[n][i].stamp = MaxPacked

\* "Causally ordered -- merging a remote timestamp via update/1 ensures
\* happens-before relationships are preserved across nodes": a stamp is above all
\* that was given out or merged on the node before its call began.
CausalOrder ==
    \A n \in Nodes : \A i \in DOMAIN issued[n] :
        issued[n][i].stamp > issued[n][i].after \/ issued[n][i].stamp = MaxPacked

\* The order of the stamps is the order of the calls, on a node and across nodes.
StampsOrdered == IssuedIncreasing /\ CausalOrder

\* "Close to real time": merging back and forth never makes a clock run away; it
\* is ahead of the largest reading seen by one at most for every advance.
NoRunaway == \A n \in Nodes : slot[n] <= reach + advances

\* "so the clock cannot move backward".
NeverBackward == [][\A n \in Nodes : slot'[n] >= slot[n]]_vars

\* Lock-free: a call returns, however often it loses the race for the word.
CallReturns == \A p \in Procs : at[p] # "idle" ~> at[p] = "idle"
================================================================================
