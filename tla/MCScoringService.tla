-------------------------- MODULE MCScoringService -------------------------
(* Small instances of ScoringService for TLC.                              *)
EXTENDS ScoringService

CONSTANTS r1, a1, a2

TwoTasks == 1 .. 2

(* A restart finds at most one request of the relay under way, and later   *)
(* ones come one at a time; without a restart two of them overlap.         *)
RequestsAroundRestarts == restarts' = 0 \/ Cardinality(Asking') <= 1

BoundedSpec == Init /\ [][Next /\ RequestsAroundRestarts]_vars

(* The agents are interchangeable.                                         *)
Symmetry == Permutations({a1, a2})
=============================================================================
