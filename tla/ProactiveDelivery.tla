-------------------------- MODULE ProactiveDelivery --------------------------
(***************************************************************************)
(* The proactive messages of one relationship: who inserts them, and the   *)
(* four ways they reach the user, each with its own order of selecting,    *)
(* sending and marking:                                                    *)
(*   the push of the turn that made it      insert, send to all, mark      *)
(*   a pass over the pending ones           select, then mark and send each*)
(*     (at connect and at each heartbeat)                                  *)
(*   the replay of a reconnecting client    select, send all, mark         *)
(*   a request for the inbox                select, mark all, respond      *)
(* and the acknowledgement.  Each statement is its own transaction.        *)
(***************************************************************************)
EXTENDS Naturals, FiniteSets

CONSTANTS
  Messages,    \* proactive messages, named by their seq
  Background,  \* those a behavior job inserts, in a process without sockets
  Sockets,     \* connections of the relationship
  Resuming,    \* connections that ask for a replay (since_seq)
  Requests,    \* GET .../inbox
  BatchLimit   \* LIMIT of a pass (10) and of the inbox

ASSUME MessagesAssumption == Messages \subseteq Nat /\ IsFiniteSet(Messages)
ASSUME BackgroundAssumption == Background \subseteq Messages
ASSUME ResumingAssumption == Resuming \subseteq Sockets
ASSUME LimitAssumption == BatchLimit \in Nat \ {0}
ASSUME CarrierAssumption == Sockets \cap Requests = {}

Status == {"none", "pending", "delivered", "acknowledged"}

\* The tasks of a connection that run passes: its handler, once, and its
\* heartbeat loop.
Task == {"greet", "beat"} \X Sockets
SocketOf(k) == k[2]

Carrier == Sockets \cup Requests

VARIABLES
  status,    \* messages.delivery_status ("none": not inserted)
  expired,   \* the messages whose expires_at is past
  socket,    \* a connection: unused, open, dead (still registered), gone
  handler,   \* its handler: "idle", "greet", "replay", "replaying", "loop"
  batch,     \* a pass: the rows it selected and has not finished
  marked,    \* a pass has marked the first row of its batch
  backlog,   \* a replay: the rows it has still to send
  owed,      \* a replay: the rows that were pending when it selected them
  pushing,   \* a push: "no", "inserted", "sending", "done"
  targets,   \* a push: the connections it has still to send to
  reached,   \* a push: a send succeeded
  request,   \* an inbox request: "idle", "selected", "marked", "answered", "lost"
  picked,    \* an inbox request: the rows it selected
  handed     \* how often a carrier brought the message to the user

sockets == <<socket, handler>>
passes == <<batch, marked>>
replays == <<backlog, owed>>
pushes == <<pushing, targets, reached>>
inbox == <<request, picked>>
vars == <<status, expired, sockets, passes, replays, pushes, inbox, handed>>

TypeOK ==
  /\ status \in [Messages -> Status]
  /\ expired \subseteq Messages
  /\ socket \in [Sockets -> {"unused", "open", "dead", "gone"}]
  /\ handler \in [Sockets -> {"idle", "greet", "replay", "replaying", "loop"}]
  /\ batch \in [Task -> SUBSET Messages]
  /\ marked \in [Task -> BOOLEAN]
  /\ backlog \in [Sockets -> SUBSET Messages]
  /\ owed \in [Sockets -> SUBSET Messages]
  /\ pushing \in [Messages -> {"no", "inserted", "sending", "done"}]
  /\ targets \in [Messages -> SUBSET Sockets]
  /\ reached \in [Messages -> BOOLEAN]
  /\ request \in [Requests -> {"idle", "selected", "marked", "answered", "lost"}]
  /\ picked \in [Requests -> SUBSET Messages]
  /\ handed \in [Carrier -> [Messages -> Nat]]

Init ==
  /\ status = [m \in Messages |-> "none"]
  /\ expired = {}
  /\ socket = [s \in Sockets |-> "unused"]
  /\ handler = [s \in Sockets |-> "idle"]
  /\ batch = [k \in Task |-> {}]
  /\ marked = [k \in Task |-> FALSE]
  /\ backlog = [s \in Sockets |-> {}]
  /\ owed = [s \in Sockets |-> {}]
  /\ pushing = [m \in Messages |-> "no"]
  /\ targets = [m \in Messages |-> {}]
  /\ reached = [m \in Messages |-> FALSE]
  /\ request = [r \in Requests |-> "idle"]
  /\ picked = [r \in Requests |-> {}]
  /\ handed = [c \in Carrier |-> [m \in Messages |-> 0]]

-----------------------------------------------------------------------------
(* Helpers *)

Registered(s) == socket[s] \in {"open", "dead"}

\* A slip: the select forgets the status.
UnexpiredRows == {m \in Messages : status[m] # "none" /\ m \notin expired}

\* WHERE delivery_status = 'pending' AND (expires_at IS NULL OR expires_at > NOW())
Pending == {m \in Messages : status[m] = "pending" /\ m \notin expired}

\* ORDER BY seq ASC LIMIT BatchLimit
FirstBySeq(M) == {m \in M : Cardinality({n \in M : n < m}) < BatchLimit}
IsFirst(m, M) == m \in M /\ \A n \in M : m <= n

\* UPDATE messages SET delivery_status = 'delivered' WHERE id = ANY(M): no guard.
MarkDelivered(M) ==
  status' = [m \in Messages |-> IF m \in M THEN "delivered" ELSE status[m]]

Hand(c, M) ==
  handed' = [handed EXCEPT ![c] = [m \in Messages |-> IF m \in M THEN @[m] + 1 ELSE @[m]]]

\* A send reaches the user if the transport is alive; on a dead one it may raise
\* or be accepted and lost.
Send(s, m, raised) ==
  IF socket[s] = "open" THEN ~raised /\ Hand(s, {m}) ELSE UNCHANGED handed

\* Somebody selected the message, or is to push it, and has not done with it.
InHand(m) ==
  \/ \E k \in Task : m \in batch[k]
  \/ pushing[m] = "inserted" \/ targets[m] # {}
  \/ \E r \in Requests : request[r] \in {"selected", "marked"} /\ m \in picked[r]

Received(m) == \E c \in Carrier : handed[c][m] > 0

-----------------------------------------------------------------------------
(* Slips that the properties below would catch, no part of Next: a limit      *)
(* applied before the expiry, a push that marks whether or not anybody was    *)
(* connected, a status outside the column's check constraint, a replay that   *)
(* marks every row it covered.                                                *)

LimitBeforeExpiry(k) ==
  LET s == SocketOf(k)
      rows == FirstBySeq({m \in Messages : status[m] = "pending"}) \ expired IN
  /\ Registered(s)
  /\ batch[k] = {}
  /\ IF k[1] = "greet"
       THEN handler[s] = "greet" /\ handler' = [handler EXCEPT ![s] = "replay"]
       ELSE rows # {} /\ UNCHANGED handler
  /\ batch' = [batch EXCEPT ![k] = rows]
  /\ UNCHANGED <<status, expired, socket, marked, replays, pushes, inbox, handed>>

PushAlwaysMarks(m) ==
  /\ pushing[m] = "sending" /\ targets[m] = {}
  /\ MarkDelivered({m})
  /\ pushing' = [pushing EXCEPT ![m] = "done"]
  /\ UNCHANGED <<expired, sockets, passes, replays, targets, reached, inbox, handed>>

EndReplayMarksAll(s) ==
  /\ handler[s] = "replaying" /\ backlog[s] = {}
  /\ MarkDelivered({m \in Messages : status[m] # "none"})
  /\ owed' = [owed EXCEPT ![s] = {}]
  /\ handler' = [handler EXCEPT ![s] = "loop"]
  /\ UNCHANGED <<expired, socket, passes, backlog, pushes, inbox, handed>>

-----------------------------------------------------------------------------
(* Writers *)

\* Insert with delivery_status 'pending'.
Create(m) ==
  /\ status[m] = "none"
  /\ status' = [status EXCEPT ![m] = "pending"]
  /\ pushing' = [pushing EXCEPT ![m] = IF m \in Background THEN "done" ELSE "inserted"]
  /\ UNCHANGED <<expired, sockets, passes, replays, targets, reached, inbox, handed>>

\* send_proactive_message copies the list of connections.
StartPush(m) ==
  /\ pushing[m] = "inserted"
  /\ targets' = [targets EXCEPT ![m] = {s \in Sockets : Registered(s)}]
  /\ pushing' = [pushing EXCEPT ![m] = "sending"]
  /\ UNCHANGED <<status, expired, sockets, passes, replays, reached, inbox, handed>>

\* A failed send is logged and the next connection tried.
PushTo(m, s) ==
  /\ pushing[m] = "sending" /\ s \in targets[m]
  /\ \E raised \in BOOLEAN :
       /\ Send(s, m, raised)
       /\ reached' = [reached EXCEPT ![m] = @ \/ ~raised]
  /\ targets' = [targets EXCEPT ![m] = @ \ {s}]
  /\ UNCHANGED <<status, expired, sockets, passes, replays, pushing, inbox>>

EndPush(m) ==
  /\ pushing[m] = "sending" /\ targets[m] = {}
  /\ IF reached[m] THEN MarkDelivered({m}) ELSE UNCHANGED status
  /\ pushing' = [pushing EXCEPT ![m] = "done"]
  /\ UNCHANGED <<expired, sockets, passes, replays, targets, reached, inbox, handed>>

\* expires_at passes, which matters to a pending message only.
Expire(m) ==
  /\ status[m] = "pending" /\ m \notin expired
  /\ expired' = expired \cup {m}
  /\ UNCHANGED <<status, sockets, passes, replays, pushes, inbox, handed>>

-----------------------------------------------------------------------------
(* Connections *)

Connect(s) ==
  /\ socket[s] = "unused"
  /\ socket' = [socket EXCEPT ![s] = "open"]
  /\ handler' = [handler EXCEPT ![s] = "greet"]
  /\ UNCHANGED <<status, expired, passes, replays, pushes, inbox, handed>>

Disconnect(s) ==
  /\ socket[s] = "open"
  /\ socket' = [socket EXCEPT ![s] = "dead"]
  /\ UNCHANGED <<status, expired, handler, passes, replays, pushes, inbox, handed>>

\* The handler notices: it cancels the heartbeat task, whatever that was doing,
\* and leaves the registry.
CleanUp(s) ==
  /\ socket[s] = "dead" /\ handler[s] = "loop"
  /\ socket' = [socket EXCEPT ![s] = "gone"]
  /\ batch' = [batch EXCEPT ![<<"beat", s>>] = {}]
  /\ marked' = [marked EXCEPT ![<<"beat", s>>] = FALSE]
  /\ UNCHANGED <<status, expired, handler, replays, pushes, inbox, handed>>

-----------------------------------------------------------------------------
(* Passes: _deliver_pending_proactive_messages *)

\* The select; at connect it moves the handler on, and an empty one ends it.
SelectPending(k) ==
  LET s == SocketOf(k) IN
  /\ Registered(s)
  /\ batch[k] = {}
  /\ IF k[1] = "greet"
       THEN /\ handler[s] = "greet"
            /\ handler' = [handler EXCEPT ![s] = "replay"]
       ELSE Pending # {} /\ UNCHANGED handler
  /\ batch' = [batch EXCEPT ![k] = FirstBySeq(Pending)]
  /\ UNCHANGED <<status, expired, socket, marked, replays, pushes, inbox, handed>>

\* Update the status first ...
MarkNext(k) ==
  /\ ~marked[k]
  /\ \E m \in batch[k] : IsFirst(m, batch[k]) /\ MarkDelivered({m})
  /\ marked' = [marked EXCEPT ![k] = TRUE]
  /\ UNCHANGED <<expired, sockets, batch, replays, pushes, inbox, handed>>

\* ... then send; the first failure ends the pass.
SendNext(k) ==
  /\ marked[k]
  /\ \E m \in batch[k], raised \in BOOLEAN :
       /\ IsFirst(m, batch[k])
       /\ Send(SocketOf(k), m, raised)
       /\ batch' = [batch EXCEPT ![k] = IF raised THEN {} ELSE @ \ {m}]
  /\ marked' = [marked EXCEPT ![k] = FALSE]
  /\ UNCHANGED <<status, expired, sockets, replays, pushes, inbox>>

-----------------------------------------------------------------------------
(* Replay: _replay_events, of the proactive rows *)

\* WHERE seq > since_seq, whatever their delivery status or expiry.
StartReplay(s) ==
  /\ handler[s] = "replay" /\ batch[<<"greet", s>>] = {}
  /\ \/ s \notin Resuming /\ UNCHANGED replays
     \/ /\ s \in Resuming
        /\ \E since \in {0} \cup Messages :
             LET rows == {m \in Messages : status[m] # "none" /\ m > since} IN
               /\ backlog' = [backlog EXCEPT ![s] = rows]
               /\ owed' = [owed EXCEPT ![s] = {m \in rows : status[m] = "pending"}]
  /\ handler' = [handler EXCEPT ![s] = "replaying"]
  /\ UNCHANGED <<status, expired, socket, passes, pushes, inbox, handed>>

SendReplayed(s) ==
  /\ handler[s] = "replaying"
  /\ \E m \in backlog[s] :
       /\ IsFirst(m, backlog[s])
       /\ Send(s, m, FALSE)
       /\ backlog' = [backlog EXCEPT ![s] = @ \ {m}]
  /\ UNCHANGED <<status, expired, sockets, passes, owed, pushes, inbox>>

\* One update for all, at the end; a send that raises skips it.
EndReplay(s) ==
  /\ handler[s] = "replaying"
  /\ \/ backlog[s] = {} /\ MarkDelivered(owed[s])
     \/ backlog[s] # {} /\ socket[s] # "open" /\ UNCHANGED status
  /\ backlog' = [backlog EXCEPT ![s] = {}]
  /\ owed' = [owed EXCEPT ![s] = {}]
  /\ handler' = [handler EXCEPT ![s] = "loop"]
  /\ UNCHANGED <<expired, socket, passes, pushes, inbox, handed>>

-----------------------------------------------------------------------------
(* Inbox: get_inbox and acknowledge_messages *)

\* ORDER BY created_at LIMIT: any of the oldest; here by seq.
SelectInbox(r) ==
  /\ request[r] = "idle"
  /\ picked' = [picked EXCEPT ![r] = FirstBySeq(Pending)]
  /\ request' = [request EXCEPT ![r] = "selected"]
  /\ UNCHANGED <<status, expired, sockets, passes, replays, pushes, handed>>

MarkInbox(r) ==
  /\ request[r] = "selected"
  /\ MarkDelivered(picked[r])
  /\ request' = [request EXCEPT ![r] = "marked"]
  /\ UNCHANGED <<expired, sockets, passes, replays, pushes, picked, handed>>

RespondInbox(r) ==
  /\ request[r] = "marked"
  /\ Hand(r, picked[r])
  /\ request' = [request EXCEPT ![r] = "answered"]
  /\ UNCHANGED <<status, expired, sockets, passes, replays, pushes, picked>>

\* The statement failed, or the client is gone when the response is ready.
LoseInbox(r) ==
  /\ request[r] \in {"selected", "marked"}
  /\ request' = [request EXCEPT ![r] = "lost"]
  /\ UNCHANGED <<status, expired, sockets, passes, replays, pushes, picked, handed>>

\* The user acknowledges what it has; only pending and delivered rows change.
Acknowledge(m) ==
  /\ Received(m)
  /\ status[m] \in {"pending", "delivered"}
  /\ status' = [status EXCEPT ![m] = "acknowledged"]
  /\ UNCHANGED <<expired, sockets, passes, replays, pushes, inbox, handed>>

-----------------------------------------------------------------------------
PushStep(m) == StartPush(m) \/ (\E s \in Sockets : PushTo(m, s)) \/ EndPush(m)
PassStep(k) == SelectPending(k) \/ MarkNext(k) \/ SendNext(k)
ReplayStep(s) == StartReplay(s) \/ SendReplayed(s) \/ EndReplay(s)
InboxStep(r) == SelectInbox(r) \/ MarkInbox(r) \/ RespondInbox(r) \/ LoseInbox(r)

Next ==
  \/ \E m \in Messages : Create(m) \/ PushStep(m) \/ Expire(m) \/ Acknowledge(m)
  \/ \E s \in Sockets : Connect(s) \/ Disconnect(s) \/ CleanUp(s) \/ ReplayStep(s)
  \/ \E k \in Task : PassStep(k)
  \/ \E r \in Requests : InboxStep(r)

Spec == Init /\ [][Next]_vars

\* The heartbeat task of a connection runs beside its handler, for as long as the
\* connection is there; nothing is assumed of the rest.
Fairness == \A s \in Sockets : WF_vars(PassStep(<<"beat", s>>))

FairSpec == Spec /\ Fairness

-----------------------------------------------------------------------------
(* Properties *)

(* The statuses and the deliverers' private lists amount to an outbox: what   *)
(* was marked or acknowledged and is in nobody's hands is never delivered     *)
(* again, but on a connection that asks for the log from an earlier number.   *)
Promise == INSTANCE Outbox WITH
  Replayers <- Resuming,
  state <- [m \in Messages |->
              IF status[m] = "none" THEN "absent"
              ELSE IF status[m] = "pending" THEN "waiting"
              ELSE IF InHand(m) THEN "taken" ELSE "settled"],
  copies <- handed
ImplementsOutbox == Promise!Spec

(* A message is marked delivered without ever reaching the user only when a   *)
(* connection died or an inbox response was lost: no order of the deliverers  *)
(* alone loses one.                                                           *)
LossNeedsAFailure ==
  /\ \A s \in Sockets : socket[s] \in {"unused", "open"}
  /\ \A r \in Requests : request[r] # "lost"
  => \A m \in Messages :
       status[m] = "delivered" /\ ~InHand(m) => Received(m)

(* A relationship with a connection that stays open gets its messages out: the *)
(* heartbeats alone come, again and again, to where nothing is due, whatever   *)
(* the batch limit and whatever the others take from them or leave.           *)
PendingGetsOut ==
  \A s \in Sockets : <>[](socket[s] = "open") => []<>(Pending = {})

(* An acknowledgement can be overwritten (no update to 'delivered' tests the   *)
(* status), but only by a deliverer that selected the row while it was        *)
(* pending: one that comes when nobody has the row any more is final.         *)
Selected(m) ==
  InHand(m) \/ pushing[m] = "sending" \/ \E s \in Sockets : m \in owed[s]
AcknowledgementsSettle ==
  [][\A m \in Messages :
       status[m] = "acknowledged" /\ ~Selected(m) => status'[m] = "acknowledged"]_vars
=============================================================================
