----------------------------- MODULE MCTriggers -----------------------------
(* Instances of Triggers for TLC: limits in the order of those of the code. *)
EXTENDS Triggers, TLC

CONSTANTS p1, p2, r1, r2

Everybody == [behavior |-> "checkin", rel |-> All]
Override == [behavior |-> "checkin", rel |-> r1]
Idle == [behavior |-> "nudge", rel |-> All]

BothLevels == {Everybody, Override}
IdleOnly == {Idle}
\* One time of the schedule.
OnceAtThree == [l \in BothLevels |-> {3}]

\* Two messages in one relationship, none in the other.
OneTalks == r1 :> 2
TwoTalk == (r1 :> 1) @@ (r2 :> 1)

Symmetric == Permutations({p1, p2})
=============================================================================
