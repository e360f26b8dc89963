----------------------- MODULE ProactiveDeliveryProofs -----------------------
(***************************************************************************)
(* What is proved of ProactiveDelivery, for any number of messages,        *)
(* connections and requests and for any batch limit: the types, and that   *)
(* it implements Outbox.                                                   *)
(***************************************************************************)
EXTENDS ProactiveDelivery, TLAPS

LEMMA HandType ==
  ASSUME handed \in [Carrier -> [Messages -> Nat]], NEW c \in Carrier, NEW M, Hand(c, M)
  PROVE  handed' \in [Carrier -> [Messages -> Nat]]
<1>1. handed[c] \in [Messages -> Nat]
  OBVIOUS
<1>2. [m \in Messages |-> IF m \in M THEN handed[c][m] + 1 ELSE handed[c][m]]
        \in [Messages -> Nat]
  BY <1>1
<1> QED BY <1>2 DEF Hand

LEMMA SendType ==
  ASSUME handed \in [Carrier -> [Messages -> Nat]], NEW s \in Sockets, NEW m \in Messages,
         NEW raised \in BOOLEAN, Send(s, m, raised)
  PROVE  handed' \in [Carrier -> [Messages -> Nat]]
BY HandType DEF Send, Carrier

(* Every step leaves the variables in their types. *)
LEMMA TypeStep == TypeOK /\ [Next]_vars => TypeOK'
<1> SUFFICES ASSUME TypeOK, [Next]_vars PROVE TypeOK'
  OBVIOUS
<1> USE DEF TypeOK, sockets, passes, replays, pushes, inbox
<1>1. ASSUME NEW m \in Messages, Create(m) \/ PushStep(m) \/ Expire(m) \/ Acknowledge(m)
      PROVE  TypeOK'
  <2>1. CASE Create(m)
    BY <2>1 DEF Create, Status
  <2>2. CASE StartPush(m)
    BY <2>2 DEF StartPush, Registered
  <2>3. CASE \E s \in Sockets : PushTo(m, s)
    BY <2>3, SendType DEF PushTo
  <2>4. CASE EndPush(m)
    BY <2>4 DEF EndPush, MarkDelivered, Status
  <2>5. CASE Expire(m)
    BY <2>5 DEF Expire
  <2>6. CASE Acknowledge(m)
    BY <2>6 DEF Acknowledge, Status
  <2> QED BY <1>1, <2>1, <2>2, <2>3, <2>4, <2>5, <2>6 DEF PushStep
<1>2. ASSUME NEW s \in Sockets, Connect(s) \/ Disconnect(s) \/ CleanUp(s) \/ ReplayStep(s)
      PROVE  TypeOK'
  <2>1. CASE Connect(s)
    <3>1. UNION {picked[r] : r \in {q \in Requests : request[q] = "answered"}} \subseteq Messages
      OBVIOUS
    <3> QED BY <2>1, <3>1 DEF Connect
  <2>2. CASE Disconnect(s)
    BY <2>2 DEF Disconnect
  <2>3. CASE CleanUp(s)
    BY <2>3 DEF CleanUp
  <2>4. CASE StartReplay(s)
    <3>1. CASE s \in Resuming
      <4>1. PICK since \in {0} \cup Messages :
              LET rows == {m \in Messages : status[m] # "none" /\ m > since} IN
                /\ backlog' = [backlog EXCEPT ![s] = rows]
                /\ owed' = [owed EXCEPT ![s] = {m \in rows : status[m] = "pending"}]
        BY <2>4, <3>1 DEF StartReplay
      <4>2. /\ backlog' \in [Sockets -> SUBSET Messages]
            /\ owed' \in [Sockets -> SUBSET Messages]
        BY <4>1
      <4> QED BY <2>4, <4>2 DEF StartReplay
    <3>2. CASE s \notin Resuming
      BY <2>4, <3>2 DEF StartReplay
    <3> QED BY <3>1, <3>2
  <2>5. CASE SendReplayed(s)
    <3>1. PICK m \in backlog[s] :
            Send(s, m, FALSE) /\ backlog' = [backlog EXCEPT ![s] = @ \ {m}]
      BY <2>5 DEF SendReplayed
    <3>2. m \in Messages /\ backlog' \in [Sockets -> SUBSET Messages]
      BY <3>1
    <3>3. handed' \in [Carrier -> [Messages -> Nat]]
      BY <3>1, <3>2, SendType
    <3> QED BY <2>5, <3>2, <3>3 DEF SendReplayed
  <2>6. CASE EndReplay(s)
    BY <2>6 DEF EndReplay, MarkDelivered, Status
  <2> QED BY <1>2, <2>1, <2>2, <2>3, <2>4, <2>5, <2>6 DEF ReplayStep
<1>3. ASSUME NEW k \in Task, PassStep(k)
      PROVE  TypeOK'
  <2>0. SocketOf(k) \in Sockets
    BY DEF Task, SocketOf
  <2>1. CASE SelectPending(k)
    BY <2>0, <2>1 DEF SelectPending, FirstBySeq, Pending
  <2>2. CASE MarkNext(k)
    BY <2>2 DEF MarkNext, MarkDelivered, Status
  <2>3. CASE SendNext(k)
    BY <2>0, <2>3, SendType DEF SendNext
  <2> QED BY <1>3, <2>1, <2>2, <2>3 DEF PassStep
<1>4. ASSUME NEW r \in Requests, InboxStep(r)
      PROVE  TypeOK'
  <2>1. CASE SelectInbox(r)
    BY <2>1 DEF SelectInbox, FirstBySeq, Pending
  <2>2. CASE MarkInbox(r)
    BY <2>2 DEF MarkInbox, MarkDelivered, Status
  <2>3. CASE RespondInbox(r)
    BY <2>3, HandType DEF RespondInbox, Carrier
  <2>4. CASE LoseInbox(r)
    BY <2>4 DEF LoseInbox
  <2> QED BY <1>4, <2>1, <2>2, <2>3, <2>4 DEF InboxStep
<1>5. CASE UNCHANGED vars
  BY <1>5 DEF vars
<1> QED BY <1>1, <1>2, <1>3, <1>4, <1>5 DEF Next

(* Every variable keeps its type. *)
THEOREM TypeCorrect == Spec => []TypeOK
<1>1. Init => TypeOK
  BY DEF Init, TypeOK, Status
<1> QED BY <1>1, TypeStep, PTL DEF Spec

-----------------------------------------------------------------------------
(* The invariant of the refinement: whatever is in somebody's list has been  *)
(* inserted, a push has targets only while it sends, what an inbox request   *)
(* is about to answer with is no longer pending, and only the connections    *)
(* that resume have anything to replay.                                      *)

ListsInserted ==
  /\ \A k \in Task : \A m \in batch[k] : status[m] # "none"
  /\ \A s \in Sockets : \A m \in backlog[s] \cup owed[s] : status[m] # "none"
PushesInserted ==
  \A m \in Messages :
    /\ pushing[m] # "no" => status[m] # "none"
    /\ targets[m] # {} => pushing[m] = "sending"
PickedInserted ==
  \A r \in Requests :
    /\ request[r] = "idle" => picked[r] = {}
    /\ request[r] = "selected" => \A m \in picked[r] : status[m] # "none"
    /\ request[r] = "marked" => \A m \in picked[r] : status[m] \in {"delivered", "acknowledged"}

OthersReplayNothing == \A s \in Sockets \ Resuming : backlog[s] = {}

Inserted ==
  TypeOK /\ ListsInserted /\ PushesInserted /\ PickedInserted /\ OthersReplayNothing

\* What a step may do to the status of a message that is there.
StatusMoves(m) ==
  \/ status'[m] = status[m]
  \/ status[m] # "none" /\ status'[m] \in {"delivered", "acknowledged"}

(* A step inserts a message or moves statuses forward, except that delivered *)
(* may overwrite acknowledged; nothing becomes pending again.                *)
LEMMA StatusesMove ==
  ASSUME Inserted, [Next]_vars
  PROVE  \/ \E m \in Messages : Create(m)
         \/ \A m \in Messages : StatusMoves(m)
<1> USE DEF Inserted, TypeOK
<1>1. ASSUME NEW m \in Messages, StartPush(m) \/ Expire(m) \/ \E s \in Sockets : PushTo(m, s)
      PROVE  \A n \in Messages : StatusMoves(n)
  BY <1>1 DEF StartPush, Expire, PushTo, StatusMoves
<1>2. ASSUME NEW m \in Messages, EndPush(m)
      PROVE  \A n \in Messages : StatusMoves(n)
  BY <1>2 DEF EndPush, MarkDelivered, StatusMoves, PushesInserted
<1>3. ASSUME NEW m \in Messages, Acknowledge(m)
      PROVE  \A n \in Messages : StatusMoves(n)
  BY <1>3 DEF Acknowledge, StatusMoves
<1>4. ASSUME NEW s \in Sockets,
             Connect(s) \/ Disconnect(s) \/ CleanUp(s) \/ StartReplay(s) \/ SendReplayed(s)
      PROVE  \A n \in Messages : StatusMoves(n)
  BY <1>4 DEF Connect, Disconnect, CleanUp, StartReplay, SendReplayed, StatusMoves
<1>5. ASSUME NEW s \in Sockets, EndReplay(s)
      PROVE  \A n \in Messages : StatusMoves(n)
  BY <1>5 DEF EndReplay, MarkDelivered, StatusMoves, ListsInserted
<1>6. ASSUME NEW k \in Task, SelectPending(k) \/ SendNext(k)
      PROVE  \A n \in Messages : StatusMoves(n)
  BY <1>6 DEF SelectPending, SendNext, StatusMoves
<1>7. ASSUME NEW k \in Task, MarkNext(k)
      PROVE  \A n \in Messages : StatusMoves(n)
  BY <1>7 DEF MarkNext, MarkDelivered, StatusMoves, ListsInserted
<1>8. ASSUME NEW r \in Requests, InboxStep(r)
      PROVE  \A n \in Messages : StatusMoves(n)
  BY <1>8 DEF InboxStep, SelectInbox, MarkInbox, RespondInbox, LoseInbox, MarkDelivered,
              StatusMoves, PickedInserted
<1>9. CASE UNCHANGED vars
  BY <1>9 DEF vars, StatusMoves
<1> QED
  BY <1>1, <1>2, <1>3, <1>4, <1>5, <1>6, <1>7, <1>8, <1>9
  DEF Next, PushStep, ReplayStep, PassStep

LEMMA InsertedStep == Inserted /\ [Next]_vars => Inserted'
<1> SUFFICES ASSUME Inserted, [Next]_vars PROVE Inserted'
  OBVIOUS
<1>0. /\ TypeOK /\ TypeOK'
      /\ \A m \in Messages : status[m] # "none" => status'[m] # "none"
      /\ \A m \in Messages : status[m] \in {"delivered", "acknowledged"}
                               => status'[m] \in {"delivered", "acknowledged"}
  <2>1. TypeOK /\ TypeOK'
    BY TypeStep DEF Inserted
  <2>2. CASE \E m \in Messages : Create(m)
    <3>1. PICK n \in Messages : status[n] = "none" /\ status' = [status EXCEPT ![n] = "pending"]
      BY <2>2 DEF Create
    <3> QED BY <2>1, <3>1 DEF TypeOK
  <2>3. CASE \A m \in Messages : StatusMoves(m)
    BY <2>1, <2>3 DEF StatusMoves
  <2> QED BY <2>2, <2>3, StatusesMove
<1> USE DEF sockets, passes, replays, pushes, inbox
<1>1. ListsInserted'
  <2>1. ASSUME UNCHANGED <<passes, replays>>
        PROVE  ListsInserted'
    BY <1>0, <2>1 DEF Inserted, ListsInserted, TypeOK
  <2>2. ASSUME NEW s \in Sockets, CleanUp(s) \/ ReplayStep(s)
        PROVE  ListsInserted'
    <3>1. CASE CleanUp(s)
      BY <1>0, <3>1 DEF CleanUp, Inserted, ListsInserted, TypeOK
    <3>2. CASE StartReplay(s)
      <4>1. \A r \in Sockets : \A m \in backlog'[r] \cup owed'[r] :
              m \in backlog[r] \cup owed[r] \/ (status[m] # "none" /\ m \in Messages)
        <5>1. CASE s \in Resuming
          <6>1. PICK since \in {0} \cup Messages :
                  LET rows == {m \in Messages : status[m] # "none" /\ m > since} IN
                    /\ backlog' = [backlog EXCEPT ![s] = rows]
                    /\ owed' = [owed EXCEPT ![s] = {m \in rows : status[m] = "pending"}]
            BY <3>2, <5>1 DEF StartReplay
          <6> DEFINE rows == {m \in Messages : status[m] # "none" /\ m > since}
          <6>2. \A m \in rows : status[m] # "none" /\ m \in Messages
            OBVIOUS
          <6>3. backlog' = [backlog EXCEPT ![s] = rows] /\ owed'[s] \subseteq rows
            BY <1>0, <6>1 DEF TypeOK
          <6>4. \A r \in Sockets : r # s => owed'[r] = owed[r]
            BY <1>0, <6>1 DEF TypeOK
          <6> HIDE DEF rows
          <6> QED BY <1>0, <6>2, <6>3, <6>4 DEF TypeOK
        <5>2. CASE s \notin Resuming
          <6>1. backlog' = backlog /\ owed' = owed
            BY <3>2, <5>2 DEF StartReplay
          <6> QED BY <6>1
        <5> QED BY <5>1, <5>2
      <4> QED BY <1>0, <3>2, <4>1 DEF StartReplay, Inserted, ListsInserted, TypeOK
    <3>3. CASE SendReplayed(s)
      BY <1>0, <3>3 DEF SendReplayed, Inserted, ListsInserted, TypeOK
    <3>4. CASE EndReplay(s)
      BY <1>0, <3>4 DEF EndReplay, Inserted, ListsInserted, TypeOK
    <3> QED BY <2>2, <3>1, <3>2, <3>3, <3>4 DEF ReplayStep
  <2>3. ASSUME NEW k \in Task, PassStep(k)
        PROVE  ListsInserted'
    <3>1. CASE SelectPending(k)
      BY <1>0, <3>1 DEF SelectPending, FirstBySeq, Pending, Inserted, ListsInserted, TypeOK
    <3>2. CASE MarkNext(k)
      BY <1>0, <3>2 DEF MarkNext, Inserted, ListsInserted, TypeOK
    <3>3. CASE SendNext(k)
      BY <1>0, <3>3 DEF SendNext, Inserted, ListsInserted, TypeOK
    <3> QED BY <2>3, <3>1, <3>2, <3>3 DEF PassStep
  <2> QED
    BY <2>1, <2>2, <2>3
    DEF Next, vars, PushStep, Create, StartPush, PushTo, EndPush, Expire, Acknowledge, Connect,
        Disconnect, InboxStep, SelectInbox, MarkInbox, RespondInbox, LoseInbox
<1>2. PushesInserted'
  <2>1. ASSUME UNCHANGED pushes
        PROVE  PushesInserted'
    BY <1>0, <2>1 DEF Inserted, PushesInserted
  <2>2. ASSUME NEW m \in Messages, Create(m) \/ PushStep(m)
        PROVE  PushesInserted'
    <3>1. CASE Create(m)
      BY <1>0, <3>1 DEF Create, Inserted, PushesInserted, TypeOK
    <3>2. CASE StartPush(m)
      BY <1>0, <3>2 DEF StartPush, Inserted, PushesInserted, TypeOK
    <3>3. CASE \E s \in Sockets : PushTo(m, s)
      BY <1>0, <3>3 DEF PushTo, Inserted, PushesInserted, TypeOK
    <3>4. CASE EndPush(m)
      BY <1>0, <3>4 DEF EndPush, Inserted, PushesInserted, TypeOK
    <3> QED BY <2>2, <3>1, <3>2, <3>3, <3>4 DEF PushStep
  <2> QED
    BY <2>1, <2>2
    DEF Next, vars, Expire, Acknowledge, Connect, Disconnect, CleanUp, ReplayStep, StartReplay,
        SendReplayed, EndReplay, PassStep, SelectPending, MarkNext, SendNext, InboxStep,
        SelectInbox, MarkInbox, RespondInbox, LoseInbox
<1>3. PickedInserted'
  <2>1. ASSUME UNCHANGED inbox
        PROVE  PickedInserted'
    BY <1>0, <2>1 DEF Inserted, PickedInserted, TypeOK
  <2>2. ASSUME NEW r \in Requests, InboxStep(r)
        PROVE  PickedInserted'
    <3>1. CASE SelectInbox(r)
      BY <1>0, <3>1 DEF SelectInbox, FirstBySeq, Pending, Inserted, PickedInserted, TypeOK
    <3>2. CASE MarkInbox(r)
      <4>1. \A m \in picked[r] : status'[m] = "delivered"
        BY <1>0, <3>2 DEF MarkInbox, MarkDelivered, TypeOK
      <4>2. /\ UNCHANGED picked /\ request'[r] = "marked"
            /\ \A q \in Requests : q # r => request'[q] = request[q]
        BY <1>0, <3>2 DEF MarkInbox, TypeOK
      <4>3. \A q \in Requests : picked[q] \subseteq Messages
        BY <1>0 DEF TypeOK
      <4> SUFFICES ASSUME NEW q \in Requests
                   PROVE  /\ request'[q] = "idle" => picked'[q] = {}
                          /\ request'[q] = "selected" => \A m \in picked'[q] : status'[m] # "none"
                          /\ request'[q] = "marked" =>
                               \A m \in picked'[q] : status'[m] \in {"delivered", "acknowledged"}
        BY DEF PickedInserted
      <4>4. CASE q = r
        BY <4>1, <4>2, <4>4
      <4>5. CASE q # r
        BY <1>0, <4>2, <4>3, <4>5 DEF Inserted, PickedInserted
      <4> QED BY <4>4, <4>5
    <3>3. CASE RespondInbox(r) \/ LoseInbox(r)
      <4>1. /\ UNCHANGED <<picked, status>> /\ request'[r] \in {"answered", "lost"}
            /\ \A q \in Requests : q # r => request'[q] = request[q]
        BY <1>0, <3>3 DEF RespondInbox, LoseInbox, TypeOK
      <4> QED BY <4>1 DEF Inserted, PickedInserted
    <3> QED BY <2>2, <3>1, <3>2, <3>3 DEF InboxStep
  <2> QED
    BY <2>1, <2>2
    DEF Next, vars, PushStep, Create, StartPush, PushTo, EndPush, Expire, Acknowledge, Connect,
        Disconnect, CleanUp, ReplayStep, StartReplay, SendReplayed, EndReplay, PassStep,
        SelectPending, MarkNext, SendNext
<1>4. OthersReplayNothing'
  <2>1. ASSUME UNCHANGED backlog
        PROVE  OthersReplayNothing'
    BY <2>1 DEF Inserted, OthersReplayNothing
  <2>2. ASSUME NEW s \in Sockets, ReplayStep(s)
        PROVE  OthersReplayNothing'
    <3>1. \E rows : /\ backlog' = [backlog EXCEPT ![s] = rows]
                    /\ s \notin Resuming => rows = {}
      <4>1. s \notin Resuming => backlog[s] = {}
        BY DEF Inserted, OthersReplayNothing
      <4>2. CASE StartReplay(s)
        <5>1. CASE s \in Resuming
          BY <4>2, <5>1 DEF StartReplay
        <5>2. CASE s \notin Resuming
          <6>1. backlog' = backlog
            BY <4>2, <5>2 DEF StartReplay
          <6>2. backlog' = [backlog EXCEPT ![s] = backlog[s]]
            BY <1>0, <6>1 DEF TypeOK
          <6> QED BY <4>1, <5>2, <6>2
        <5> QED BY <5>1, <5>2
      <4>3. CASE SendReplayed(s)
        <5>1. s \in Resuming
          BY <4>1, <4>3 DEF SendReplayed
        <5> QED BY <4>3, <5>1 DEF SendReplayed
      <4>4. CASE EndReplay(s)
        BY <4>4 DEF EndReplay
      <4> QED BY <2>2, <4>2, <4>3, <4>4 DEF ReplayStep
    <3> QED BY <1>0, <3>1 DEF Inserted, OthersReplayNothing, TypeOK
  <2> QED
    BY <2>1, <2>2
    DEF Next, vars, PushStep, Create, StartPush, PushTo, EndPush, Expire, Acknowledge, Connect,
        Disconnect, CleanUp, PassStep, SelectPending, MarkNext, SendNext, InboxStep, SelectInbox,
        MarkInbox, RespondInbox, LoseInbox
<1> QED BY <1>0, <1>1, <1>2, <1>3, <1>4 DEF Inserted

-----------------------------------------------------------------------------
(* The refinement. *)

\* The states of the messages in the outbox.
Stages ==
  [m \in Messages |->
     IF status[m] = "none" THEN "absent"
     ELSE IF status[m] = "pending" THEN "waiting"
     ELSE IF InHand(m) THEN "taken" ELSE "settled"]

\* A step that keeps a settled message settled.
NotTakenAgain(m) ==
  status[m] \in {"delivered", "acknowledged"} /\ InHand(m)' => InHand(m)

(* A message that moves moves as the outbox says. *)
LEMMA StageMoves ==
  ASSUME TypeOK, TypeOK', NEW m \in Messages, StatusMoves(m), NotTakenAgain(m)
  PROVE  \/ Stages'[m] = Stages[m]
         \/ Stages[m] \in {"waiting", "taken"} /\ Stages'[m] \in {"taken", "settled"}
<1>1. status[m] \in Status /\ status'[m] \in Status
  BY DEF TypeOK
<1>2. CASE status[m] = "none"
  BY <1>1, <1>2 DEF StatusMoves, Stages, Status
<1>3. CASE status[m] = "pending"
  BY <1>1, <1>3 DEF StatusMoves, Stages, Status
<1>4. CASE status[m] \in {"delivered", "acknowledged"}
  <2>1. status'[m] \in {"delivered", "acknowledged"}
    BY <1>4 DEF StatusMoves
  <2> QED BY <1>4, <2>1 DEF NotTakenAgain, Stages
<1> QED BY <1>1, <1>2, <1>3, <1>4 DEF Status

(* So a step that hands nothing over is an Advance of the outbox. *)
LEMMA Advances ==
  ASSUME TypeOK, TypeOK', UNCHANGED handed,
         \A m \in Messages : StatusMoves(m) /\ NotTakenAgain(m)
  PROVE  Promise!Next
<1> DEFINE M == {m \in Messages : Stages'[m] # Stages[m]}
<1>1. /\ \A m \in M : Stages[m] \in {"waiting", "taken"} /\ Stages'[m] \in {"taken", "settled"}
      /\ \A m \in Messages \ M : Stages'[m] = Stages[m]
      /\ M \subseteq Messages
  BY StageMoves
<1>2. \E L \in SUBSET Messages : Promise!Moves(L)
  <2> HIDE DEF M
  <2>1. M \in SUBSET Messages
    BY <1>1
  <2> QED BY <1>1, <2>1 DEF Promise!Moves, Stages
<1>3. Promise!Advance
  BY <1>2 DEF Promise!Advance
<1> QED BY <1>3 DEF Promise!Next

(* And one that hands messages over that wait or are taken is a HandOver. *)
LEMMA HandsOver ==
  ASSUME TypeOK, TypeOK', NEW c \in Carrier, NEW K \in SUBSET Messages, Hand(c, K),
         \A m \in K : Stages[m] \in {"waiting", "taken"},
         \A m \in Messages : StatusMoves(m) /\ NotTakenAgain(m),
         \A m \in Messages \ K : Stages'[m] = Stages[m]
  PROVE  Promise!Next
<1> DEFINE N == {m \in K : Stages'[m] # Stages[m]}
<1>1. /\ \A m \in N : Stages[m] \in {"waiting", "taken"} /\ Stages'[m] \in {"taken", "settled"}
      /\ \A m \in Messages \ N : Stages'[m] = Stages[m]
      /\ N \in SUBSET K
  BY StageMoves
<1>2. \E L \in SUBSET K : Promise!Moves(L)
  <2> HIDE DEF N
  <2> QED BY <1>1 DEF Promise!Moves, Stages
<1>3. Promise!Brings(c, K)
  <2>1. /\ handed'[c] = [m \in Messages |-> IF m \in K THEN handed[c][m] + 1 ELSE handed[c][m]]
        /\ \A d \in Carrier \ {c} : handed'[d] = handed[d]
    BY DEF Hand, TypeOK
  <2> QED BY <2>1 DEF Promise!Brings
<1>4. \A m \in K : Stages[m] \in {"waiting", "taken"}
  OBVIOUS
<1>5. Promise!HandOver(c)
  <2>1. K \in SUBSET Messages
    OBVIOUS
  <2> QED BY <1>2, <1>3, <1>4, <2>1 DEF Promise!HandOver, Stages
<1> QED BY <1>5 DEF Promise!Next

(* A step that leaves the deliverers' lists alone takes nothing again. *)
LEMMA SameHands ==
  ASSUME UNCHANGED <<batch, pushing, targets, request, picked>>
  PROVE  \A m \in Messages : (InHand(m)' <=> InHand(m)) /\ NotTakenAgain(m)
BY DEF InHand, NotTakenAgain

(* Every step is a step of the outbox or leaves it as it is. *)
LEMMA OutboxStep ==
  ASSUME Inserted, [Next]_vars
  PROVE  [Promise!Next]_(Promise!outbox)
<1> DEFINE Goal == [Promise!Next]_(Promise!outbox)
<1>0. TypeOK /\ TypeOK'
  BY TypeStep DEF Inserted
<1>1. ASSUME UNCHANGED <<status, batch, pushing, targets, request, picked, handed>>
      PROVE  Goal
  <2>1. \A m \in Messages : InHand(m)' <=> InHand(m)
    BY <1>1, SameHands
  <2>2. Stages' = Stages
    BY <1>1, <2>1 DEF Stages
  <2> QED BY <1>1, <2>2 DEF Promise!outbox, Stages
<1>2. ASSUME NEW m \in Messages, Create(m)
      PROVE  Goal
  <2>1. \A n \in Messages \ {m} : InHand(n)' <=> InHand(n)
    BY <1>0, <1>2 DEF Create, InHand, passes, pushes, inbox, TypeOK
  <2>2. /\ Stages[m] = "absent" /\ Stages'[m] = "waiting"
        /\ \A n \in Messages \ {m} : Stages'[n] = Stages[n]
    BY <1>0, <1>2, <2>1 DEF Create, Stages, TypeOK
  <2>3. Stages' = [Stages EXCEPT ![m] = "waiting"]
    BY <2>2 DEF Stages
  <2> QED BY <1>2, <2>2, <2>3 DEF Create, Promise!Next, Promise!Post, Stages
<1>3. ASSUME NEW m \in Messages, PushStep(m)
      PROVE  Goal
  <2>1. CASE StartPush(m)
    <3>1. \A n \in Messages : StatusMoves(n) /\ NotTakenAgain(n)
      BY <1>0, <2>1 DEF StartPush, StatusMoves, NotTakenAgain, InHand, passes, inbox, TypeOK
    <3> QED BY <1>0, <2>1, <3>1, Advances DEF StartPush
  <2>2. ASSUME NEW s \in Sockets, PushTo(m, s)
        PROVE  Goal
    <3>1. \A n \in Messages : StatusMoves(n) /\ NotTakenAgain(n)
      BY <1>0, <2>2 DEF PushTo, StatusMoves, NotTakenAgain, InHand, passes, inbox, TypeOK
    <3>2. \A n \in Messages \ {m} : Stages'[n] = Stages[n]
      BY <1>0, <2>2 DEF PushTo, Stages, InHand, passes, inbox, TypeOK
    <3>3. Stages[m] \in {"waiting", "taken"}
      BY <1>0, <2>2 DEF PushTo, Stages, InHand, Inserted, PushesInserted, TypeOK, Status
    <3>4. Hand(s, {m}) \/ UNCHANGED handed
      BY <2>2 DEF PushTo, Send
    <3> QED BY <1>0, <3>1, <3>2, <3>3, <3>4, Advances, HandsOver DEF Carrier
  <2>3. CASE EndPush(m)
    <3>1. \A n \in Messages : NotTakenAgain(n)
      BY <1>0, <2>3 DEF EndPush, NotTakenAgain, InHand, passes, inbox, TypeOK
    <3>2. ~Create(m) /\ \A n \in Messages : StatusMoves(n)
      BY <1>0, <2>3
      DEF EndPush, Create, MarkDelivered, StatusMoves, Inserted, PushesInserted, TypeOK
    <3> QED BY <1>0, <2>3, <3>1, <3>2, Advances DEF EndPush
  <2> QED BY <1>3, <2>1, <2>2, <2>3 DEF PushStep
<1>4. ASSUME NEW m \in Messages, Acknowledge(m)
      PROVE  Goal
  <2>1. \A n \in Messages : NotTakenAgain(n)
    BY <1>4, SameHands DEF Acknowledge, passes, pushes, inbox
  <2>2. \A n \in Messages : StatusMoves(n)
    BY <1>0, <1>4 DEF Acknowledge, StatusMoves, TypeOK
  <2> QED BY <1>0, <1>4, <2>1, <2>2, Advances DEF Acknowledge
<1>5. ASSUME NEW s \in Sockets, CleanUp(s)
      PROVE  Goal
  <2>1. \A n \in Messages : StatusMoves(n) /\ NotTakenAgain(n)
    BY <1>0, <1>5 DEF CleanUp, StatusMoves, NotTakenAgain, InHand, pushes, inbox, TypeOK
  <2> QED BY <1>0, <1>5, <2>1, Advances DEF CleanUp
<1>6. ASSUME NEW s \in Sockets, SendReplayed(s)
      PROVE  Goal
  <2>1. PICK m \in backlog[s] : Send(s, m, FALSE)
    BY <1>6 DEF SendReplayed
  <2>2. m \in Messages /\ Stages[m] # "absent" /\ s \in Resuming
    BY <1>0, <2>1 DEF Stages, Inserted, ListsInserted, OthersReplayNothing, TypeOK
  <2>3. \A n \in Messages : InHand(n)' <=> InHand(n)
    BY <1>6, SameHands DEF SendReplayed, passes, pushes, inbox
  <2>4. Stages' = Stages
    BY <1>6, <2>3 DEF SendReplayed, Stages
  <2>5. CASE UNCHANGED handed
    BY <2>4, <2>5 DEF Promise!outbox, Stages
  <2>6. CASE Hand(s, {m})
    <3>1. /\ handed'[s] = [n \in Messages |-> IF n \in {m} THEN handed[s][n] + 1 ELSE handed[s][n]]
          /\ \A d \in Carrier \ {s} : handed'[d] = handed[d]
          /\ s \in Carrier
      BY <1>0, <2>6 DEF Hand, TypeOK, Carrier
    <3>2. Promise!Brings(s, {m})
      BY <2>2, <3>1 DEF Promise!Brings
    <3> QED BY <2>2, <2>4, <3>1, <3>2 DEF Promise!Next, Promise!Resend, Stages
  <2> QED BY <2>1, <2>5, <2>6 DEF Send
<1>7. ASSUME NEW s \in Sockets, EndReplay(s)
      PROVE  Goal
  <2>1. \A n \in Messages : NotTakenAgain(n)
    BY <1>7, SameHands DEF EndReplay, passes, pushes, inbox
  <2>2. \A n \in Messages : StatusMoves(n)
    BY <1>0, <1>7 DEF EndReplay, MarkDelivered, StatusMoves, Inserted, ListsInserted, TypeOK
  <2> QED BY <1>0, <1>7, <2>1, <2>2, Advances DEF EndReplay
<1>8. ASSUME NEW k \in Task, PassStep(k)
      PROVE  Goal
  <2>0. SocketOf(k) \in Sockets
    BY DEF Task, SocketOf
  <2>1. CASE SelectPending(k)
    <3>1. \A n \in Messages : status[n] # "pending" => (InHand(n)' <=> InHand(n))
      <4>1. \A n \in FirstBySeq(Pending) : status[n] = "pending"
        BY DEF FirstBySeq, Pending
      <4>2. /\ batch[k] = {} /\ batch'[k] = FirstBySeq(Pending)
            /\ \A j \in Task : j # k => batch'[j] = batch[j]
        BY <1>0, <2>1 DEF SelectPending, TypeOK
      <4> QED BY <2>1, <4>1, <4>2 DEF SelectPending, InHand, pushes, inbox
    <3>2. Stages' = Stages
      BY <2>1, <3>1 DEF SelectPending, Stages
    <3> QED BY <2>1, <3>2 DEF SelectPending, Promise!outbox, Stages
  <2>2. CASE MarkNext(k)
    <3>1. \A n \in Messages : NotTakenAgain(n)
      BY <2>2, SameHands DEF MarkNext, pushes, inbox
    <3>2. \A n \in Messages : StatusMoves(n)
      BY <1>0, <2>2 DEF MarkNext, MarkDelivered, StatusMoves, Inserted, ListsInserted, TypeOK
    <3> QED BY <1>0, <2>2, <3>1, <3>2, Advances DEF MarkNext
  <2>3. CASE SendNext(k)
    <3>1. PICK m \in batch[k], raised \in BOOLEAN :
            /\ Send(SocketOf(k), m, raised)
            /\ batch' = [batch EXCEPT ![k] = IF raised THEN {} ELSE @ \ {m}]
      BY <2>3 DEF SendNext
    <3>2. m \in Messages /\ Stages[m] \in {"waiting", "taken"}
      BY <1>0, <3>1 DEF Stages, InHand, Inserted, ListsInserted, TypeOK, Status
    <3>3. \A n \in Messages : StatusMoves(n) /\ NotTakenAgain(n)
      BY <1>0, <2>3, <3>1
      DEF SendNext, StatusMoves, NotTakenAgain, InHand, pushes, inbox, TypeOK
    <3>4. CASE UNCHANGED handed
      BY <1>0, <3>3, <3>4, Advances
    <3>5. CASE ~raised /\ Hand(SocketOf(k), {m})
      <4>1. \A n \in Messages \ {m} : Stages'[n] = Stages[n]
        <5>1. \A n \in Messages \ {m} : InHand(n)' <=> InHand(n)
          BY <1>0, <2>3, <3>1, <3>5 DEF SendNext, InHand, pushes, inbox, TypeOK
        <5> QED BY <2>3, <5>1 DEF SendNext, Stages
      <4> QED BY <1>0, <2>0, <3>2, <3>3, <3>5, <4>1, HandsOver DEF Carrier
    <3> QED BY <3>1, <3>4, <3>5 DEF Send
  <2> QED BY <1>8, <2>1, <2>2, <2>3 DEF PassStep
<1>9. ASSUME NEW r \in Requests, InboxStep(r)
      PROVE  Goal
  <2>1. CASE SelectInbox(r)
    <3>1. \A n \in Messages : status[n] # "pending" => (InHand(n)' <=> InHand(n))
      <4>1. \A n \in FirstBySeq(Pending) : status[n] = "pending"
        BY DEF FirstBySeq, Pending
      <4>2. /\ picked'[r] = FirstBySeq(Pending)
            /\ request[r] = "idle" /\ request'[r] = "selected"
            /\ \A q \in Requests : q # r => picked'[q] = picked[q] /\ request'[q] = request[q]
        BY <1>0, <2>1 DEF SelectInbox, TypeOK
      <4> QED BY <2>1, <4>1, <4>2 DEF SelectInbox, InHand, passes, pushes
    <3>2. Stages' = Stages
      BY <2>1, <3>1 DEF SelectInbox, Stages
    <3> QED BY <2>1, <3>2 DEF SelectInbox, Promise!outbox, Stages
  <2>2. CASE MarkInbox(r)
    <3>1. \A n \in Messages : NotTakenAgain(n)
      BY <1>0, <2>2 DEF MarkInbox, NotTakenAgain, InHand, passes, pushes, TypeOK
    <3>2. \A n \in Messages : StatusMoves(n)
      BY <1>0, <2>2 DEF MarkInbox, MarkDelivered, StatusMoves, Inserted, PickedInserted, TypeOK
    <3> QED BY <1>0, <2>2, <3>1, <3>2, Advances DEF MarkInbox
  <2>3. CASE RespondInbox(r) \/ LoseInbox(r)
    <3>1. \A n \in Messages : StatusMoves(n) /\ NotTakenAgain(n)
      BY <1>0, <2>3
      DEF RespondInbox, LoseInbox, StatusMoves, NotTakenAgain, InHand, passes, pushes, TypeOK
    <3>2. CASE LoseInbox(r)
      BY <1>0, <3>1, <3>2, Advances DEF LoseInbox
    <3>3. CASE RespondInbox(r)
      <4>1. picked[r] \in SUBSET Messages /\ Hand(r, picked[r]) /\ r \in Carrier
        BY <1>0, <3>3 DEF RespondInbox, TypeOK, Carrier
      <4>2. \A m \in picked[r] : Stages[m] \in {"waiting", "taken"}
        BY <1>0, <3>3, <4>1 DEF RespondInbox, Stages, InHand, Inserted, PickedInserted
      <4>3. \A n \in Messages \ picked[r] : Stages'[n] = Stages[n]
        <5>1. \A n \in Messages \ picked[r] : InHand(n)' <=> InHand(n)
          BY <1>0, <3>3 DEF RespondInbox, InHand, passes, pushes, TypeOK
        <5> QED BY <3>3, <5>1 DEF RespondInbox, Stages
      <4> QED BY <1>0, <3>1, <4>1, <4>2, <4>3, HandsOver
    <3> QED BY <2>3, <3>2, <3>3
  <2> QED BY <1>9, <2>1, <2>2, <2>3 DEF InboxStep
<1>10. ASSUME NEW m \in Messages, Expire(m)
       PROVE  Goal
  BY <1>1, <1>10 DEF Expire, passes, pushes, inbox
<1>11. ASSUME NEW s \in Sockets, Connect(s) \/ Disconnect(s) \/ StartReplay(s)
       PROVE  Goal
  BY <1>1, <1>11 DEF Connect, Disconnect, StartReplay, passes, pushes, inbox
<1>12. CASE UNCHANGED vars
  BY <1>1, <1>12 DEF vars, passes, pushes, inbox
<1> QED
  BY <1>2, <1>3, <1>4, <1>5, <1>6, <1>7, <1>8, <1>9, <1>10, <1>11, <1>12 DEF Next, ReplayStep

(* The deliverers implement the outbox: nothing is delivered again once it is *)
(* marked and in nobody's hands, except by the replay of a connection that    *)
(* asked for one.                                                             *)
THEOREM DeliveryImplementsOutbox == Spec => ImplementsOutbox
<1>1. Init => Inserted
  <2>1. Init => TypeOK
    BY DEF Init, TypeOK, Status
  <2> QED BY <2>1 DEF Init, Inserted, ListsInserted, PushesInserted, PickedInserted,
                  OthersReplayNothing
<1>2. Init => Promise!Init
  BY DEF Init, Promise!Init
<1> QED BY <1>1, <1>2, InsertedStep, OutboxStep, PTL DEF Spec, ImplementsOutbox, Promise!Spec

(* An acknowledgement that nobody can undo stands: whoever marks a message    *)
(* had selected it, or was to push it, before the acknowledgement came.       *)
THEOREM AcknowledgementsStand == Spec => AcknowledgementsSettle
<1>1. TypeOK /\ [Next]_vars =>
        [\A m \in Messages :
           status[m] = "acknowledged" /\ ~Selected(m) => status'[m] = "acknowledged"]_vars
  <2> SUFFICES ASSUME TypeOK, Next,
                      NEW m \in Messages, status[m] = "acknowledged", ~Selected(m)
               PROVE  status'[m] = "acknowledged"
    OBVIOUS
  <2>0. /\ \A k \in Task : m \notin batch[k]
        /\ \A r \in Requests : request[r] = "selected" => m \notin picked[r]
        /\ pushing[m] # "sending"
        /\ \A s \in Sockets : m \notin owed[s]
    BY DEF Selected, InHand
  <2>1. ASSUME NEW n \in Messages, Create(n) \/ PushStep(n) \/ Expire(n) \/ Acknowledge(n)
        PROVE  status'[m] = "acknowledged"
    <3>1. CASE Create(n) \/ Acknowledge(n)
      BY <3>1 DEF TypeOK, Create, Acknowledge
    <3>2. CASE EndPush(n)
      BY <2>0, <3>2 DEF EndPush, MarkDelivered
    <3>3. CASE StartPush(n) \/ (\E s \in Sockets : PushTo(n, s)) \/ Expire(n)
      BY <3>3 DEF StartPush, PushTo, Expire
    <3> QED
      BY <2>1, <3>1, <3>2, <3>3 DEF PushStep
  <2>2. ASSUME NEW s \in Sockets, Connect(s) \/ Disconnect(s) \/ CleanUp(s) \/ ReplayStep(s)
        PROVE  status'[m] = "acknowledged"
    BY <2>0, <2>2
    DEF ReplayStep, Connect, Disconnect, CleanUp, StartReplay, SendReplayed, EndReplay,
        MarkDelivered
  <2>3. ASSUME NEW k \in Task, PassStep(k)
        PROVE  status'[m] = "acknowledged"
    BY <2>0, <2>3 DEF PassStep, SelectPending, MarkNext, SendNext, MarkDelivered
  <2>4. ASSUME NEW r \in Requests, InboxStep(r)
        PROVE  status'[m] = "acknowledged"
    BY <2>0, <2>4
    DEF InboxStep, SelectInbox, MarkInbox, RespondInbox, LoseInbox, MarkDelivered
  <2> QED
    BY <2>1, <2>2, <2>3, <2>4 DEF Next
<1> QED
  BY <1>1, TypeCorrect, PTL DEF Spec, AcknowledgementsSettle

-----------------------------------------------------------------------------
(* Nothing is lost but by a failure. *)

NoFailure ==
  /\ \A s \in Sockets : socket[s] \in {"unused", "open"}
  /\ \A r \in Requests : request[r] # "lost"

\* Whoever is to send has a connection.
SendersConnected ==
  /\ \A s \in Sockets : handler[s] # "idle" => socket[s] # "unused"
  /\ \A k \in Task : batch[k] # {} => socket[SocketOf(k)] # "unused"
  /\ \A m \in Messages : \A s \in targets[m] : socket[s] # "unused"

\* What a marked message still waits for: to be sent by a pass or in a response.
OnItsWay(m) ==
  \/ \E k \in Task : m \in batch[k]
  \/ \E r \in Requests : request[r] = "marked" /\ m \in picked[r]

(* A push that reached somebody did, a replay has sent what it owes or has it *)
(* still before it, and what is marked was received or is on its way.         *)
Lossless ==
  \A m \in Messages :
    /\ reached[m] => Received(m)
    /\ \A s \in Sockets : m \in owed[s] => m \in backlog[s] \/ Received(m)
    /\ status[m] = "delivered" => Received(m) \/ OnItsWay(m)

LossInv == Inserted /\ SendersConnected /\ (NoFailure => Lossless)

\* What the user has it keeps, and gets what is handed over.
LEMMA HandReceived ==
  ASSUME TypeOK, NEW c \in Carrier, NEW K, Hand(c, K)
  PROVE  \A m \in Messages : m \in K \/ Received(m) => Received(m)'
<1> SUFFICES ASSUME NEW m \in Messages, m \in K \/ Received(m)
             PROVE  \E d \in Carrier : handed'[d][m] > 0
  BY DEF Received
<1>1. /\ handed'[c][m] = IF m \in K THEN handed[c][m] + 1 ELSE handed[c][m]
      /\ \A d \in Carrier \ {c} : handed'[d] = handed[d]
      /\ \A d \in Carrier : handed[d][m] \in Nat
  BY DEF TypeOK, Hand
<1>2. CASE m \in K
  <2>1. handed'[c][m] > 0
    BY <1>1, <1>2
  <2> QED
    BY <2>1
<1>3. CASE m \notin K
  <2>1. PICK d \in Carrier : handed[d][m] > 0
    BY <1>3 DEF Received
  <2>2. handed'[d][m] = handed[d][m]
    BY <1>1, <1>3
  <2> QED
    BY <2>1, <2>2
<1> QED
  BY <1>2, <1>3

\* A send on a connection that is there does not fail before the connection does.
LEMMA SendReceived ==
  ASSUME TypeOK, NEW s \in Sockets, NEW m \in Messages, NEW raised \in BOOLEAN,
         Send(s, m, raised)
  PROVE  /\ \A n \in Messages : Received(n) => Received(n)'
         /\ NoFailure /\ socket[s] # "unused" => ~raised /\ Received(m)'
<1>1. CASE socket[s] = "open"
  <2>1. ~raised /\ Hand(s, {m}) /\ s \in Carrier
    BY <1>1 DEF Send, Carrier
  <2> QED
    BY <2>1, HandReceived
<1>2. CASE socket[s] # "open"
  <2>1. handed' = handed
    BY <1>2 DEF Send
  <2>2. \A n \in Messages : Received(n) => Received(n)'
    BY <2>1 DEF Received
  <2> QED
    BY <1>2, <2>2 DEF NoFailure
<1> QED
  BY <1>1, <1>2

\* Failures are not undone.
LEMMA FailuresStay ==
  ASSUME TypeOK, [Next]_vars, NoFailure'
  PROVE  NoFailure
<1>1. /\ \A s \in Sockets : socket[s] \in {"dead", "gone"} => socket'[s] \in {"dead", "gone"}
      /\ \A r \in Requests : request[r] = "lost" => request'[r] = "lost"
  <2>1. ASSUME NEW m \in Messages, Create(m) \/ PushStep(m) \/ Expire(m) \/ Acknowledge(m)
        PROVE  socket' = socket /\ request' = request
    BY <2>1 DEF PushStep, Create, StartPush, PushTo, EndPush, Expire, Acknowledge, sockets, inbox
  <2>2. ASSUME NEW s \in Sockets, ReplayStep(s)
        PROVE  socket' = socket /\ request' = request
    BY <2>2 DEF ReplayStep, StartReplay, SendReplayed, EndReplay, sockets, inbox
  <2>3. ASSUME NEW k \in Task, PassStep(k)
        PROVE  socket' = socket /\ request' = request
    BY <2>3 DEF PassStep, SelectPending, MarkNext, SendNext, sockets, inbox
  <2>4. ASSUME NEW s \in Sockets, Connect(s) \/ Disconnect(s) \/ CleanUp(s)
        PROVE  /\ \A t \in Sockets : socket[t] \in {"dead", "gone"} => socket'[t] \in {"dead", "gone"}
              /\ request' = request
    BY <2>4 DEF TypeOK, Connect, Disconnect, CleanUp, inbox
  <2>5. ASSUME NEW r \in Requests, InboxStep(r)
        PROVE  socket' = socket /\ \A q \in Requests : request[q] = "lost" => request'[q] = "lost"
    BY <2>5 DEF TypeOK, InboxStep, SelectInbox, MarkInbox, RespondInbox, LoseInbox, sockets
  <2>6. CASE UNCHANGED vars
    BY <2>6 DEF vars, sockets, inbox
  <2> QED
    BY <2>1, <2>2, <2>3, <2>4, <2>5, <2>6 DEF Next, inbox
<1> QED
  BY <1>1 DEF NoFailure, TypeOK

LEMMA ConnectedStep ==
  ASSUME LossInv, [Next]_vars
  PROVE  SendersConnected'
<1>0. TypeOK /\ TypeOK' /\ SendersConnected
  BY TypeStep DEF LossInv, Inserted
<1> USE DEF TypeOK, SendersConnected, SocketOf, Task, sockets, passes, pushes
<1>1. \A s \in Sockets : socket[s] # "unused" => socket'[s] # "unused"
  <2>1. CASE socket' = socket
    BY <2>1
  <2>2. CASE \E s \in Sockets : Connect(s) \/ Disconnect(s) \/ CleanUp(s)
    BY <1>0, <2>2 DEF Connect, Disconnect, CleanUp
  <2> QED
    BY <2>1, <2>2
    DEF Next, vars, PushStep, Create, StartPush, PushTo, EndPush, Expire, Acknowledge, ReplayStep,
        StartReplay, SendReplayed, EndReplay, PassStep, SelectPending, MarkNext, SendNext,
        InboxStep, SelectInbox, MarkInbox, RespondInbox, LoseInbox
<1>2. ASSUME UNCHANGED <<handler, batch, targets>>
      PROVE  SendersConnected'
  BY <1>0, <1>1, <1>2
<1>3. ASSUME NEW m \in Messages, PushStep(m)
      PROVE  SendersConnected'
  <2>1. CASE StartPush(m)
    BY <1>0, <1>1, <2>1 DEF StartPush, Registered
  <2>2. CASE \E s \in Sockets : PushTo(m, s)
    BY <1>0, <1>1, <2>2 DEF PushTo
  <2>3. CASE EndPush(m)
    BY <1>2, <2>3 DEF EndPush
  <2> QED
    BY <1>3, <2>1, <2>2, <2>3 DEF PushStep
<1>4. ASSUME NEW s \in Sockets, Connect(s) \/ CleanUp(s) \/ ReplayStep(s)
      PROVE  SendersConnected'
  <2>1. CASE Connect(s)
    BY <1>0, <1>1, <2>1 DEF Connect
  <2>2. CASE CleanUp(s)
    BY <1>0, <1>1, <2>2 DEF CleanUp
  <2>3. CASE ReplayStep(s)
    <3>1. /\ handler[s] # "idle" /\ batch' = batch /\ targets' = targets
          /\ handler' = handler \/ \E h : handler' = [handler EXCEPT ![s] = h]
      BY <2>3 DEF ReplayStep, StartReplay, SendReplayed, EndReplay
    <3>2. \A t \in Sockets : handler'[t] # "idle" => handler[t] # "idle"
      BY <1>0, <3>1
    <3> QED
      BY <1>0, <1>1, <3>1, <3>2
  <2> QED
    BY <1>4, <2>1, <2>2, <2>3
<1>5. ASSUME NEW k \in Task, PassStep(k)
      PROVE  SendersConnected'
  <2>1. CASE SelectPending(k)
    BY <1>0, <1>1, <2>1 DEF SelectPending, Registered
  <2>2. CASE MarkNext(k)
    BY <1>2, <2>2 DEF MarkNext
  <2>3. CASE SendNext(k)
    <3>1. batch[k] # {} /\ \A j \in Task : j # k => batch'[j] = batch[j]
      BY <1>0, <2>3 DEF SendNext
    <3> QED
      BY <1>0, <1>1, <2>3, <3>1 DEF SendNext
  <2> QED
    BY <1>5, <2>1, <2>2, <2>3 DEF PassStep
<1> QED
  BY <1>2, <1>3, <1>4, <1>5
  DEF Next, vars, Create, Expire, Acknowledge, Disconnect, InboxStep, SelectInbox, MarkInbox,
      RespondInbox, LoseInbox

\* A step that hands nothing over, marks nothing and drops nothing that was on its
\* way, whatever it adds to a replay.
LEMMA QuietStep ==
  ASSUME Lossless, handed' = handed, reached' = reached,
         \A m \in Messages : status'[m] = "delivered" => status[m] = "delivered",
         \A m \in Messages : OnItsWay(m) => OnItsWay(m)',
         \A s \in Sockets : \A m \in owed'[s] :
           m \in backlog'[s] \/ (m \in owed[s] /\ m \notin backlog[s])
  PROVE  Lossless'
<1>1. \A m \in Messages : Received(m)' <=> Received(m)
  BY DEF Received
<1> QED
  BY <1>1 DEF Lossless

(* The steps that send or mark. *)

LEMMA PushLossless ==
  ASSUME LossInv, NoFailure, NEW m \in Messages,
         EndPush(m) \/ \E s \in Sockets : PushTo(m, s)
  PROVE  Lossless'
<1>0. TypeOK /\ SendersConnected /\ Lossless
  BY DEF LossInv, Inserted
<1>1. ASSUME NEW s \in Sockets, PushTo(m, s)
      PROVE  Lossless'
  <2>1. PICK raised \in BOOLEAN :
          Send(s, m, raised) /\ reached' = [reached EXCEPT ![m] = @ \/ ~raised]
    BY <1>1 DEF PushTo
  <2>2. socket[s] # "unused"
    BY <1>0, <1>1 DEF PushTo, SendersConnected
  <2>3. Received(m)' /\ \A n \in Messages : Received(n) => Received(n)'
    BY <1>0, <2>1, <2>2, SendReceived
  <2>4. /\ status' = status /\ owed' = owed /\ backlog' = backlog
        /\ \A n \in Messages : n # m => reached'[n] = reached[n]
        /\ \A n \in Messages : OnItsWay(n) => OnItsWay(n)'
    BY <1>0, <1>1, <2>1 DEF PushTo, TypeOK, OnItsWay, passes, replays, inbox
  <2> QED
    BY <1>0, <2>3, <2>4 DEF Lossless
<1>2. ASSUME EndPush(m)
      PROVE  Lossless'
  <2>1. /\ \A n \in Messages : Received(n)' <=> Received(n)
        /\ \A n \in Messages : OnItsWay(n)' <=> OnItsWay(n)
        /\ reached' = reached /\ owed' = owed /\ backlog' = backlog
    BY <1>2 DEF EndPush, Received, OnItsWay, passes, replays, inbox
  <2>2. \A n \in Messages : status'[n] = "delivered" =>
          status[n] = "delivered" \/ (n = m /\ reached[m])
    BY <1>2 DEF EndPush, MarkDelivered
  <2> QED
    BY <1>0, <2>1, <2>2 DEF Lossless
<1> QED
  BY <1>1, <1>2

LEMMA PassLossless ==
  ASSUME LossInv, NoFailure, NEW k \in Task, MarkNext(k) \/ SendNext(k)
  PROVE  Lossless'
<1>0. TypeOK /\ SendersConnected /\ Lossless /\ SocketOf(k) \in Sockets
  BY DEF LossInv, Inserted, SocketOf, Task
<1>1. ASSUME MarkNext(k)
      PROVE  Lossless'
  <2>1. /\ \A n \in Messages : Received(n)' <=> Received(n)
        /\ \A n \in Messages : OnItsWay(n)' <=> OnItsWay(n)
        /\ reached' = reached /\ owed' = owed /\ backlog' = backlog
    BY <1>1 DEF MarkNext, Received, OnItsWay, replays, pushes, inbox
  <2>2. PICK m \in batch[k] : MarkDelivered({m})
    BY <1>1 DEF MarkNext
  <2>3. m \in Messages /\ OnItsWay(m)
    BY <1>0, <2>2 DEF OnItsWay, TypeOK
  <2>4. \A n \in Messages : status'[n] = "delivered" => status[n] = "delivered" \/ n = m
    BY <2>2 DEF MarkDelivered
  <2> QED
    BY <1>0, <2>1, <2>3, <2>4 DEF Lossless
<1>2. ASSUME SendNext(k)
      PROVE  Lossless'
  <2>1. PICK m \in batch[k], raised \in BOOLEAN :
          /\ Send(SocketOf(k), m, raised)
          /\ batch' = [batch EXCEPT ![k] = IF raised THEN {} ELSE @ \ {m}]
    BY <1>2 DEF SendNext
  <2>2. m \in Messages /\ socket[SocketOf(k)] # "unused"
    BY <1>0, <2>1 DEF SendersConnected, TypeOK
  <2>3. ~raised /\ Received(m)' /\ \A n \in Messages : Received(n) => Received(n)'
    BY <1>0, <2>1, <2>2, SendReceived
  <2>4. /\ status' = status /\ reached' = reached /\ owed' = owed /\ backlog' = backlog
        /\ request' = request /\ picked' = picked
    BY <1>2 DEF SendNext, replays, pushes, inbox
  <2>5. \A n \in Messages : OnItsWay(n) => n = m \/ OnItsWay(n)'
    <3>1. batch'[k] = batch[k] \ {m} /\ \A j \in Task : j # k => batch'[j] = batch[j]
      BY <1>0, <2>1, <2>3 DEF TypeOK
    <3> QED
      BY <2>4, <3>1 DEF OnItsWay
  <2> QED
    BY <1>0, <2>2, <2>3, <2>4, <2>5 DEF Lossless
<1> QED
  BY <1>1, <1>2

LEMMA ReplayLossless ==
  ASSUME LossInv, NoFailure, NEW s \in Sockets, SendReplayed(s) \/ EndReplay(s)
  PROVE  Lossless'
<1>0. TypeOK /\ SendersConnected /\ Lossless
  BY DEF LossInv, Inserted
<1>e. socket[s] = "open"
  BY <1>0 DEF SendReplayed, EndReplay, SendersConnected, NoFailure
<1>1. ASSUME SendReplayed(s)
      PROVE  Lossless'
  <2>1. PICK m \in backlog[s] : /\ Send(s, m, FALSE)
                                /\ backlog' = [backlog EXCEPT ![s] = @ \ {m}]
    BY <1>1 DEF SendReplayed
  <2>2. m \in Messages
    BY <1>0, <2>1 DEF TypeOK
  <2>3. Received(m)' /\ \A n \in Messages : Received(n) => Received(n)'
    BY <1>0, <1>e, <2>1, <2>2, SendReceived
  <2>4. /\ status' = status /\ reached' = reached /\ owed' = owed
        /\ \A n \in Messages : OnItsWay(n)' <=> OnItsWay(n)
    BY <1>1 DEF SendReplayed, OnItsWay, passes, pushes, inbox
  <2>5. \A t \in Sockets, n \in Messages : n \in backlog[t] => n = m \/ n \in backlog'[t]
    BY <1>0, <2>1 DEF TypeOK
  <2> QED
    BY <1>0, <2>3, <2>4, <2>5 DEF Lossless
<1>2. ASSUME EndReplay(s)
      PROVE  Lossless'
  <2>1. backlog[s] = {} /\ MarkDelivered(owed[s])
    BY <1>e, <1>2 DEF EndReplay
  <2>2. /\ reached' = reached
        /\ owed'[s] = {}
        /\ \A t \in Sockets : t # s => owed'[t] = owed[t] /\ backlog'[t] = backlog[t]
        /\ \A n \in Messages : Received(n)' <=> Received(n)
        /\ \A n \in Messages : OnItsWay(n)' <=> OnItsWay(n)
    BY <1>0, <1>2 DEF EndReplay, TypeOK, Received, OnItsWay, passes, pushes, inbox
  <2>3. \A n \in Messages : status'[n] = "delivered" => status[n] = "delivered" \/ Received(n)
    BY <1>0, <2>1 DEF MarkDelivered, Lossless
  <2> QED
    BY <1>0, <2>2, <2>3 DEF Lossless
<1> QED
  BY <1>1, <1>2

LEMMA InboxLossless ==
  ASSUME LossInv, NoFailure, NEW r \in Requests, MarkInbox(r) \/ RespondInbox(r)
  PROVE  Lossless'
<1>0. TypeOK /\ Lossless /\ r \in Carrier
  BY DEF LossInv, Inserted, Carrier
<1>1. ASSUME MarkInbox(r)
      PROVE  Lossless'
  <2>1. /\ reached' = reached /\ owed' = owed /\ backlog' = backlog
        /\ \A n \in Messages : Received(n)' <=> Received(n)
    BY <1>1 DEF MarkInbox, Received, replays, pushes
  <2>2. /\ picked' = picked /\ batch' = batch /\ request[r] = "selected"
        /\ request'[r] = "marked" /\ \A q \in Requests : q # r => request'[q] = request[q]
    BY <1>0, <1>1 DEF MarkInbox, TypeOK, passes
  <2>3. \A n \in Messages : OnItsWay(n) \/ n \in picked[r] => OnItsWay(n)'
    BY <2>2 DEF OnItsWay
  <2>4. \A n \in Messages : status'[n] = "delivered" => status[n] = "delivered" \/ n \in picked[r]
    BY <1>1 DEF MarkInbox, MarkDelivered
  <2> QED
    BY <1>0, <2>1, <2>3, <2>4 DEF Lossless
<1>2. ASSUME RespondInbox(r)
      PROVE  Lossless'
  <2>1. \A n \in Messages : n \in picked[r] \/ Received(n) => Received(n)'
    BY <1>0, <1>2, HandReceived DEF RespondInbox
  <2>2. /\ status' = status /\ reached' = reached /\ owed' = owed /\ backlog' = backlog
        /\ picked' = picked /\ batch' = batch
        /\ \A q \in Requests : q # r => request'[q] = request[q]
    BY <1>0, <1>2 DEF RespondInbox, TypeOK, passes, replays, pushes
  <2>3. \A n \in Messages : OnItsWay(n) => n \in picked[r] \/ OnItsWay(n)'
    BY <2>2 DEF OnItsWay
  <2> QED
    BY <1>0, <2>1, <2>2, <2>3 DEF Lossless
<1> QED
  BY <1>1, <1>2

LEMMA LosslessStep ==
  ASSUME LossInv, [Next]_vars, NoFailure'
  PROVE  Lossless'
<1>0. TypeOK /\ TypeOK' /\ Lossless /\ NoFailure /\ PushesInserted
  BY TypeStep, FailuresStay DEF LossInv, Inserted
<1> DEFINE Steady ==
      /\ handed' = handed /\ reached' = reached
      /\ \A m \in Messages : status'[m] = "delivered" => status[m] = "delivered"
<1>1. ASSUME Steady, UNCHANGED <<replays, batch, inbox>>
      PROVE  Lossless'
  <2>1. \A m \in Messages : OnItsWay(m) => OnItsWay(m)'
    BY <1>1 DEF OnItsWay, inbox
  <2> QED
    BY <1>0, <1>1, <2>1, QuietStep DEF replays
<1>2. ASSUME NEW m \in Messages, Create(m) \/ StartPush(m) \/ Expire(m) \/ Acknowledge(m)
      PROVE  Lossless'
  <2>1. Steady
    BY <1>0, <1>2 DEF TypeOK, Create, StartPush, Expire, Acknowledge, pushes
  <2> QED
    BY <1>1, <1>2, <2>1 DEF Create, StartPush, Expire, Acknowledge, passes
<1>3. ASSUME NEW s \in Sockets, Connect(s) \/ Disconnect(s)
      PROVE  Lossless'
  BY <1>1, <1>3 DEF Connect, Disconnect, passes, pushes
<1>4. ASSUME NEW s \in Sockets, CleanUp(s)
      PROVE  Lossless'
  BY <1>0, <1>4 DEF CleanUp, NoFailure
<1>5. ASSUME NEW s \in Sockets, StartReplay(s)
      PROVE  Lossless'
  <2>1. Steady /\ \A m \in Messages : OnItsWay(m) => OnItsWay(m)'
    BY <1>5 DEF StartReplay, OnItsWay, passes, pushes, inbox
  <2>2. CASE s \in Resuming
    <3>1. PICK since \in {0} \cup Messages :
            LET rows == {m \in Messages : status[m] # "none" /\ m > since} IN
              /\ backlog' = [backlog EXCEPT ![s] = rows]
              /\ owed' = [owed EXCEPT ![s] = {m \in rows : status[m] = "pending"}]
      BY <1>5, <2>2 DEF StartReplay
    <3>2. /\ owed'[s] \subseteq backlog'[s]
          /\ \A t \in Sockets : t # s => owed'[t] = owed[t] /\ backlog'[t] = backlog[t]
      BY <1>0, <3>1 DEF TypeOK
    <3> QED
      BY <1>0, <2>1, <3>2, QuietStep DEF TypeOK, Lossless
  <2>3. CASE s \notin Resuming
    BY <1>0, <1>5, <2>1, <2>3, QuietStep DEF StartReplay, replays
  <2> QED
    BY <2>2, <2>3
<1>6. ASSUME NEW k \in Task, SelectPending(k)
      PROVE  Lossless'
  <2>1. Steady /\ UNCHANGED <<replays, inbox>>
    BY <1>6 DEF SelectPending, pushes
  <2>2. batch[k] = {} /\ \A j \in Task : j # k => batch'[j] = batch[j]
    BY <1>0, <1>6 DEF SelectPending, TypeOK
  <2>3. \A m \in Messages : OnItsWay(m) => OnItsWay(m)'
    BY <2>1, <2>2 DEF OnItsWay, inbox
  <2> QED
    BY <1>0, <2>1, <2>3, QuietStep DEF replays
<1>7. ASSUME NEW r \in Requests, SelectInbox(r)
      PROVE  Lossless'
  <2>1. Steady /\ UNCHANGED <<replays, batch>>
    BY <1>7 DEF SelectInbox, passes, pushes
  <2>2. /\ request[r] = "idle"
        /\ \A q \in Requests : q # r => request'[q] = request[q] /\ picked'[q] = picked[q]
    BY <1>0, <1>7 DEF SelectInbox, TypeOK
  <2>3. \A m \in Messages : OnItsWay(m) => OnItsWay(m)'
    BY <2>1, <2>2 DEF OnItsWay
  <2> QED
    BY <1>0, <2>1, <2>3, QuietStep DEF replays
<1>8. ASSUME NEW r \in Requests, LoseInbox(r)
      PROVE  Lossless'
  BY <1>0, <1>8 DEF LoseInbox, NoFailure, TypeOK
<1>9. CASE UNCHANGED vars
  BY <1>1, <1>9 DEF vars, passes, pushes
<1> QED
  BY <1>0, <1>2, <1>3, <1>4, <1>5, <1>6, <1>7, <1>8, <1>9,
     PushLossless, PassLossless, ReplayLossless, InboxLossless
  DEF Next, PushStep, PassStep, ReplayStep, InboxStep

(* Whatever is marked delivered and in nobody's hands was received, as long   *)
(* as no connection died and no response was lost.                            *)
THEOREM NoLossWithoutFailure == Spec => []LossNeedsAFailure
<1>1. Init => LossInv
  <2>1. Init => TypeOK
    BY DEF Init, TypeOK, Status
  <2>2. Init => Inserted
    BY <2>1 DEF Init, Inserted, ListsInserted, PushesInserted, PickedInserted,
                OthersReplayNothing
  <2> QED
    BY <2>2 DEF Init, LossInv, SendersConnected, Lossless
<1>2. LossInv /\ [Next]_vars => LossInv'
  <2> SUFFICES ASSUME LossInv, [Next]_vars PROVE LossInv'
    OBVIOUS
  <2>1. Inserted'
    BY InsertedStep DEF LossInv
  <2> QED
    BY <2>1, ConnectedStep, LosslessStep DEF LossInv
<1>3. LossInv => LossNeedsAFailure
  <2> SUFFICES ASSUME LossInv, NoFailure,
                      NEW m \in Messages, status[m] = "delivered", ~InHand(m)
               PROVE  Received(m)
    BY DEF LossNeedsAFailure, NoFailure
  <2> QED
    BY DEF LossInv, Lossless, OnItsWay, InHand
<1> QED
  BY <1>1, <1>2, <1>3, PTL DEF Spec

=============================================================================
