----------------------------- MODULE MCTurnLog -----------------------------
(* An instance of TurnLog for TLC. *)
EXTENDS TurnLog

CONSTANTS t1, p1, s1, s2, c1

\* One client that reconnects once, or connects twice at once.
OneClient == [s \in {s1, s2} |-> c1]

\* The bounds of the instance: a second connection, a proactive message and a
\* removal meet each other in pairs, each pair together with the turn.  The two
\* connections differ in name only, and s1 is used first.
SecondSocket == socketPc[s2] # "unused"
Pushed == pushPc[p1] # "idle"
Removal == resetting \/ removals # 0
InScope ==
  /\ ~SecondSocket \/ ~Pushed \/ ~Removal
  /\ SecondSocket => socketPc[s1] # "unused"

MCSpec == Init /\ [][Next /\ InScope']_vars /\ Fairness
=============================================================================
