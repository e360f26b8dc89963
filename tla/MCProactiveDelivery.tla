------------------------ MODULE MCProactiveDelivery ------------------------
(* Instances of ProactiveDelivery for TLC. *)
EXTENDS ProactiveDelivery

CONSTANTS s1, r1
=============================================================================
