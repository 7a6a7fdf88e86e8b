------------------------------ MODULE FlowFanout ------------------------------
(***************************************************************************)
(* Child groups: FLOW.SPAWN_CHILDREN makes a Flow wait for others, and     *)
(* every command that closes a Flow carries the news down, to children     *)
(* that are to be cancelled, and up, to the group that waits for it.  All  *)
(* Flows of a family live on one shard, so a command with everything it    *)
(* sets off is one step; what interleaves are the commands.                *)
(*                                                                         *)
(* Leases and numbers are the business of FlowLifecycle: here a Flow is    *)
(* leased or not, and a worker's command is one the lease admits.          *)
(***************************************************************************)
EXTENDS Integers, FiniteSets, FiniteSetsExt

CONSTANTS Flows,      \* ids
          GroupIds,   \* group_id of FLOW.SPAWN_CHILDREN
          Spawners,   \* ids FLOW.SPAWN_CHILDREN is called for
          Policies,   \* the options it is called with
          Idempotent, \* whether children are created with idempotent: true
          Expiring,   \* ids whose Flows have a max_active_ms
          None

Terminal == {"completed", "failed", "cancelled"}

\* "waiting" stands for the wait_state, "queued" for every other open state.
States == {"queued", "waiting", "running"} \cup Terminal

ASSUME PoliciesAssumption ==
    Policies \subseteq
        [wait : {"all", "any", "none"}, on_child_failed : {"fail_parent", "ignore"},
         on_parent_closed : {"cancel_children", "abandon_children"},
         success : {"queued"} \cup Terminal, failure : {"queued"} \cup Terminal]

VARIABLE rec   \* the stored record of each id, or None

terminal_state(s) == s \in Terminal

-------------------------------------------------------------------------------
(* A child group inside its parent's record. *)

\* flow_new_child_group
NewGroup(policy, kids) ==
    [policy |-> policy,
     children |-> [c \in kids |-> "running"],
     summary |-> [s \in Terminal |-> 0],
     resolved |-> IF policy.wait = "none" THEN "success" ELSE None]

Running(group) == {c \in DOMAIN group.children : group.children[c] = "running"}

total(group) == Cardinality(DOMAIN group.children)

terminal_count(group) ==
    group.summary["completed"] + group.summary["failed"] + group.summary["cancelled"]

\* Mutant: the child is marked and not counted.
count_marked(group, c, status) == [group EXCEPT !.children[c] = status]

count_terminal(group, c, status) ==
    [group EXCEPT !.children[c] = status, !.summary[status] = @ + 1]

resolve_any_terminal(group) ==
    IF group.summary["completed"] > 0 THEN "success"
    ELSE IF terminal_count(group) >= total(group) THEN "failure"
    ELSE None

resolve_all_terminal(group) ==
    IF terminal_count(group) >= total(group) THEN "success" ELSE None

\* flow_child_group_resolve
resolve(group, status) ==
    [group EXCEPT !.resolved =
        IF status = "completed"
        THEN IF group.policy.wait = "any" THEN "success" ELSE resolve_all_terminal(group)
        ELSE IF group.policy.on_child_failed = "fail_parent" THEN "failure"
        ELSE IF group.policy.wait = "any" THEN resolve_any_terminal(group)
        ELSE resolve_all_terminal(group)]

exhaust_to(group) ==
    IF group.resolved = "success" THEN group.policy.success ELSE group.policy.failure

\* Mutant: only a group that is resolved cancels what is left of it.
cancel_resolved_only(group) ==
    group.policy.on_parent_closed = "cancel_children" /\ Running(group) # {} /\ group.resolved # None

should_cancel_children(group) ==
    group.policy.on_parent_closed = "cancel_children" /\ Running(group) # {}

\* flow_group_mark_children_cancelled
mark_children_cancelled(group) ==
    [group EXCEPT
        !.children = [c \in DOMAIN @ |-> IF @[c] = "running" THEN "cancelled" ELSE @[c]],
        !.summary["cancelled"] = @ + Cardinality(Running(group)),
        !.resolved = IF @ = None THEN "failure" ELSE @]

-------------------------------------------------------------------------------
(* What closing a Flow sets off; r is the stored records. *)

Closed(record, status) == [record EXCEPT !.state = status, !.due = FALSE, !.leased = FALSE]

GroupsOf(record) == {record.groups[g] : g \in {h \in GroupIds : record.groups[h] # None}}

\* flow_maybe_cancel_children_on_parent_closed: every group that cancels does,
\* once the parent is closed or one of them is resolved.
RECURSIVE cancel_children(_, _)
cancel_children(r, p) ==
    LET cancelling == {g \in GroupIds : r[p].groups[g] # None
                                        /\ should_cancel_children(r[p].groups[g])}
        kids == UNION {Running(r[p].groups[g]) : g \in cancelling}
        cancel_child(c, s) ==
            IF s[c] = None \/ terminal_state(s[c].state) THEN s
            ELSE cancel_children([s EXCEPT ![c] = Closed(@, "cancelled")], c)
    IN  IF \/ terminal_state(r[p].state)
           \/ \E g \in cancelling : r[p].groups[g].resolved # None
        THEN [FoldSet(cancel_child, r, kids) EXCEPT
                 ![p].groups = [g \in GroupIds |-> IF g \in cancelling
                                                   THEN mark_children_cancelled(r[p].groups[g])
                                                   ELSE r[p].groups[g]]]
        ELSE r

open_groups(record, c) ==
    {g \in GroupIds : /\ record.groups[g] # None
                      /\ record.groups[g].resolved = None
                      /\ c \in Running(record.groups[g])}

\* Mutant: the group is resolved, the parent stays where it is.
parent_stays(record, g, c, status) ==
    [record EXCEPT !.groups[g] = resolve(count_terminal(@, c, status), status)]

\* flow_child_terminal_parent_next with flow_clear_parent_if_resolved
parent_next(record, g, c, status) ==
    LET group == resolve(count_terminal(record.groups[g], c, status), status)
        next == [record EXCEPT !.groups[g] = group]
    IN  IF group.resolved = None THEN next
        ELSE [next EXCEPT !.state = exhaust_to(group), !.leased = FALSE,
                          !.due = ~terminal_state(exhaust_to(group))]

\* flow_maybe_apply_child_terminal: the first open group that waits for c
\* hears of it; a parent that is closed then tells its own parent.
RECURSIVE child_terminal(_, _, _)
child_terminal(r, c, status) ==
    LET p == r[c].parent
        open == IF p = None \/ r[p] = None THEN {} ELSE open_groups(r[p], c)
    IN  IF open = {} THEN r
        ELSE LET g == CHOOSE h \in open : TRUE
                 next == parent_next(r[p], g, c, status)
                 s == cancel_children([r EXCEPT ![p] = next], p)
             IN  IF terminal_state(next.state) THEN child_terminal(s, p, next.state) ELSE s

\* Mutant: the children are cancelled, the parent is not told.
close_downwards(f, status) == cancel_children([rec EXCEPT ![f] = Closed(@, status)], f)

\* The apply function of every closing command, once it accepted the command.
close(f, status) ==
    child_terminal(cancel_children([rec EXCEPT ![f] = Closed(@, status)], f), f, status)

-------------------------------------------------------------------------------
NoGroups == [g \in GroupIds |-> None]

NewRecord(parent) ==
    [state |-> "queued", due |-> TRUE, leased |-> FALSE, parent |-> parent, groups |-> NoGroups]

Init == rec = [f \in Flows |-> None]

Create(f) ==
    /\ rec[f] = None
    /\ rec' = [rec EXCEPT ![f] = NewRecord(None)]

Claim(f) ==
    /\ rec[f] # None
    /\ rec[f].due /\ ~rec[f].leased
    /\ rec' = [rec EXCEPT ![f].state = "running", ![f].leased = TRUE]

\* FLOW.COMPLETE, FLOW.FAIL, and a FLOW.RETRY that is exhausted.
Finish(f, status) ==
    /\ rec[f] # None
    /\ rec[f].state = "running" /\ rec[f].leased
    /\ rec' = close(f, status)

\* FLOW.CANCEL by the holder, or by anyone while unleased.
Cancel(f) ==
    /\ rec[f] # None
    /\ ~terminal_state(rec[f].state)
    /\ rec' = close(f, "cancelled")

\* max_active_ms elapsed.
Timeout(f) ==
    /\ f \in Expiring
    /\ rec[f] # None
    /\ ~terminal_state(rec[f].state)
    /\ rec' = close(f, "failed")

\* FLOW.TRANSITION, or a FLOW.SIGNAL with a transition, to an open state.
Transition(f) ==
    /\ rec[f] # None
    /\ ~terminal_state(rec[f].state)
    /\ rec' = [rec EXCEPT ![f].state = "queued", ![f].due = TRUE, ![f].leased = FALSE]

active_parent(p) == rec[p] # None /\ ~terminal_state(rec[p].state)

\* flow_create_many_prepare: unknown children, or idempotent ones of this parent
\* found in the state they would be created in.
may_create(p, c) ==
    \/ rec[c] = None
    \/ Idempotent /\ rec[c] # None /\ rec[c].state = "queued" /\ rec[c].parent = p

\* FLOW.SPAWN_CHILDREN of a new group; a known one is answered from its hash.
Spawn(p, g, kids, policy) ==
    /\ p \in Spawners
    /\ active_parent(p)
    /\ rec[p].groups[g] = None
    /\ kids # {} /\ p \notin kids
    /\ \A c \in kids : may_create(p, c)
    /\ rec' = [f \in Flows |->
          IF f = p
          THEN [rec[p] EXCEPT !.state = IF policy.wait = "none" THEN policy.success ELSE "waiting",
                              !.due = FALSE, !.leased = FALSE,
                              !.groups[g] = NewGroup(policy, kids)]
          ELSE IF f \in kids /\ rec[f] = None THEN NewRecord(p)
          ELSE rec[f]]

\* flow_require_rewindable: neither leased nor a parent nor a child.
require_rewindable(record) == ~record.leased /\ record.parent = None /\ record.groups = NoGroups

\* FLOW.REWIND to the creation event.
Rewind(f) ==
    /\ rec[f] # None
    /\ require_rewindable(rec[f])
    /\ rec' = [rec EXCEPT ![f].state = "queued", ![f].due = TRUE]

\* Retention removes a closed Flow.
RetentionCleanup(f) ==
    /\ rec[f] # None
    /\ terminal_state(rec[f].state)
    /\ rec' = [rec EXCEPT ![f] = None]

Next ==
    \E f \in Flows :
        \/ Create(f)
        \/ Claim(f)
        \/ \E status \in {"completed", "failed"} : Finish(f, status)
        \/ Cancel(f)
        \/ Timeout(f)
        \/ Transition(f)
        \/ \E g \in GroupIds, kids \in SUBSET Flows, policy \in Policies :
              Spawn(f, g, kids, policy)
        \/ Rewind(f)
        \/ RetentionCleanup(f)

\* The retention sweep runs again and again, so a Flow does not stay open past
\* its max_active_ms.  Timeout(f) is enabled exactly while f is open and closes
\* it, so this is its weak fairness, said of states.
SweptFairly == \A f \in Expiring : []<>(rec[f] = None \/ terminal_state(rec[f].state))

Spec == Init /\ [][Next]_rec /\ SweptFairly
-------------------------------------------------------------------------------
(* Properties. *)

Existing == {f \in Flows : rec[f] # None}

\* The records hold what the code stores in them.
TypeOK ==
    \A f \in Existing :
        /\ rec[f].state \in States /\ rec[f].due \in BOOLEAN /\ rec[f].leased \in BOOLEAN
        /\ rec[f].parent \in Flows \cup {None}
        /\ \A group \in GroupsOf(rec[f]) :
              /\ group.resolved \in {"success", "failure", None}
              /\ \A c \in DOMAIN group.children :
                    group.children[c] \in Terminal \cup {"running"}

\* "stale child terminal command does not double count parent child group": the
\* summary counts each child once, under the status the group shows for it.
SummaryMatches ==
    \A f \in Existing : \A group \in GroupsOf(rec[f]) : \A s \in Terminal :
        group.summary[s] = Cardinality({c \in DOMAIN group.children : group.children[c] = s})

\* A group is open exactly as long as its outcome is: a child still runs, and
\* what ended did not decide it.  A success means what the wait mode says.
OutcomeJustified ==
    \A f \in Existing : \A group \in GroupsOf(rec[f]) :
        LET ended == {group.children[c] : c \in DOMAIN group.children} \ {"running"}
            strict == group.policy.on_child_failed = "fail_parent"
        IN  /\ group.resolved = None =>
                  /\ Running(group) # {}
                  /\ strict => ended \subseteq {"completed"}
                  /\ group.policy.wait = "any" => "completed" \notin ended
            /\ group.resolved = "success" =>
                  CASE group.policy.wait = "all" ->
                            Running(group) = {} /\ (strict => ended = {"completed"})
                    [] group.policy.wait = "any" -> "completed" \in ended
                    [] OTHER -> TRUE

\* What a group record says of its children is what they did.
GroupsTruthful == SummaryMatches /\ OutcomeJustified

\* Nothing a parent waits for was missed: a child an open group shows as
\* running is a live Flow of that parent.  Were it closed, nothing would ever
\* move the parent on.
OpenGroupHearsItsChildren ==
    \A f \in Existing : \A group \in GroupsOf(rec[f]) :
        group.resolved = None =>
            \A c \in Running(group) :
                rec[c] # None /\ rec[c].parent = f /\ ~terminal_state(rec[c].state)

\* A Flow in its wait state, which no claim can reach, waits for something.
WaitingForSomething ==
    \A f \in Existing :
        rec[f].state = "waiting" => \E group \in GroupsOf(rec[f]) : group.resolved = None

\* "terminal parent cancellation cancels colocated children", however deep: no
\* child of a closed Flow is left running where the group says to cancel it.
ClosedLeavesNoOrphan ==
    \A f \in Existing :
        terminal_state(rec[f].state) =>
            \A group \in GroupsOf(rec[f]) :
                group.policy.on_parent_closed = "cancel_children" =>
                    \A c \in Running(group) :
                        rec[c] # None /\ rec[c].parent = f => terminal_state(rec[c].state)

\* A close reaches everybody it concerns in the command that makes it: the open
\* groups above the Flow and the children below it.
CloseReachesAll == OpenGroupHearsItsChildren /\ ClosedLeavesNoOrphan

\* A Flow with a parent or with children stays closed once it is closed: its
\* rewind is refused, and no child that ends later takes it, through a group that
\* was left open, back to an open state.  The group's resolution writes the state
\* of the parent without looking at it.
ClosedFamilyStaysClosed ==
    [][ \A f \in Flows :
          /\ rec[f] # None /\ terminal_state(rec[f].state)
          /\ rec[f].parent # None \/ rec[f].groups # NoGroups
          /\ rec'[f] # None
          => terminal_state(rec'[f].state) ]_rec

\* A Flow does not wait for ever if its children are given a max_active_ms.
JoinCompletes ==
    \A f \in Flows : rec[f] # None /\ rec[f].state = "waiting"
                    ~> rec[f] = None \/ rec[f].state # "waiting"
================================================================================
