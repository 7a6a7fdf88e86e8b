--------------------------------- MODULE MCHlc ---------------------------------
(* Instances of Hlc for TLC. *)
EXTENDS Hlc, TLC

CONSTANTS n1, n2, p1, p2, p3

\* Two processes share a clock, the third has another node's.
Placement == (p1 :> n1) @@ (p2 :> n1) @@ (p3 :> n2)

\* A logical counter above its bits, and timestamps that are refused.
OddTimestamps == {[physical |-> 0, logical |-> 3], [physical |-> 3, logical |-> 0],
                  [physical |-> 2, logical |-> 2]}

================================================================================
