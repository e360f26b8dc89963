--------------------------- MODULE MCBehaviorJobs ---------------------------
(* Instances of BehaviorJobs for TLC. *)
EXTENDS BehaviorJobs, TLC

CONSTANTS j1, j2, ann, p1, p2, x1, x2

PairKinds == j1 :> "turn" @@ j2 :> "schedule"
=============================================================================
