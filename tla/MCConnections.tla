---------------------------- MODULE MCConnections ----------------------------
(* Instances of Connections for TLC. *)
EXTENDS Connections, TLC

CONSTANTS q1, t1, t2, e1, c1, s1, memory, tools
=============================================================================
