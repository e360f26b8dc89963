------------------------------- MODULE Outbox -------------------------------
(***************************************************************************)
(* What the delivery of proactive messages promises, whoever delivers: a   *)
(* message waits, it is taken, it is settled; it is handed to the user     *)
(* only while it waits or by those who took it, and a settled one comes    *)
(* back only when a client asks for the log from an earlier number.        *)
(***************************************************************************)
EXTENDS Naturals

CONSTANTS
  Messages,
  Carrier,
  Replayers \* the carriers that ask for the log from an earlier number

VARIABLES
  state,  \* "absent", "waiting", "taken" or "settled"
  copies  \* how often a carrier brought a message to the user

outbox == <<state, copies>>

Init ==
  /\ state = [m \in Messages |-> "absent"]
  /\ copies = [c \in Carrier |-> [m \in Messages |-> 0]]

\* The messages of M leave the state they are in for taken or settled.
Moves(M) ==
  /\ \A m \in M : state[m] \in {"waiting", "taken"} /\ state'[m] \in {"taken", "settled"}
  /\ \A m \in Messages \ M : state'[m] = state[m]

Brings(c, M) ==
  /\ \A m \in M : copies'[c][m] = copies[c][m] + 1
  /\ \A d \in Carrier, m \in Messages :
       d # c \/ m \notin M => copies'[d][m] = copies[d][m]

Post(m) ==
  /\ state[m] = "absent"
  /\ state' = [state EXCEPT ![m] = "waiting"]
  /\ UNCHANGED copies

\* One statement may move several messages.
Advance == (\E M \in SUBSET Messages : Moves(M)) /\ UNCHANGED copies

\* Handing messages over may settle those that nobody else has in hand.
HandOver(c) ==
  \E M \in SUBSET Messages :
    /\ \A m \in M : state[m] \in {"waiting", "taken"}
    /\ \E N \in SUBSET M : Moves(N)
    /\ Brings(c, M)

Resend(c, m) ==
  /\ state[m] # "absent"
  /\ Brings(c, {m})
  /\ UNCHANGED state

Next ==
  \/ \E m \in Messages : Post(m) \/ \E c \in Replayers : Resend(c, m)
  \/ Advance
  \/ \E c \in Carrier : HandOver(c)

Spec == Init /\ [][Next]_outbox
=============================================================================
