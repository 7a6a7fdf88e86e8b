----------------------------- MODULE MCFlowFanout -----------------------------
(* Instances of FlowFanout for TLC. *)
EXTENDS FlowFanout

CONSTANTS f1, f2, f3, g1, g2

Join(wait, on_child_failed, on_parent_closed, success, failure) ==
    [wait |-> wait, on_child_failed |-> on_child_failed,
     on_parent_closed |-> on_parent_closed, success |-> success, failure |-> failure]

\* A parent that goes on when all children did, and one that ends with the first.
JoinAll == Join("all", "fail_parent", "cancel_children", "queued", "failed")
JoinAny == Join("any", "ignore", "cancel_children", "completed", "queued")

AllOrAny == {JoinAll, JoinAny}
================================================================================
