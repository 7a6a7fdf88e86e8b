---------------------------- MODULE MCFlowLifecycle ----------------------------
(* Instances of FlowLifecycle for TLC. *)
EXTENDS FlowLifecycle, TLC

CONSTANTS w1, w2, k1

\* Workers and keys are interchangeable.
WorkerSymmetry == Permutations(Workers)

MCSteps == {"queued", "review"}
OneStep == {"queued"}

OpenOrClosed == {"queued", "completed"}

\* A move out of the state the worker holds, and a plain notification.
MCSignals == {[if_state |-> "running", to |-> "queued"], [if_state |-> "running", to |-> None]}
Approval == {[if_state |-> "queued", to |-> "queued"]}
BothSignals == Approval \cup {[if_state |-> "queued", to |-> None]}
================================================================================
