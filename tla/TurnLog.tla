------------------------------- MODULE TurnLog -------------------------------
(***************************************************************************)
(* The message log of one relationship and everybody who writes to it:     *)
(* the turns of TurnProcessor (WebSocket and HTTP), the proactive messages *)
(* of behaviors ("pushes") and the intro message a socket may be greeted   *)
(* with; those who remove its rows: the resets of a test relationship and  *)
(* the voice token that clears them; and the client that follows the log   *)
(* by sequence number.                                                     *)
(*                                                                         *)
(* Statements run in autocommit mode, so an action is one statement and    *)
(* what the same coroutine does with it before its next await.  Two        *)
(* transactions have several statements: the intro message's and a reset's.*)
(***************************************************************************)
EXTENDS Naturals, Sequences, FiniteSets

CONSTANTS
  Turns,      \* calls of process_turn_streaming / process_turn_non_streaming
  Pushes,     \* proactive messages a behavior sends
  Clients,    \* devices that follow the log over a WebSocket
  Sockets,    \* connections, each used once
  OwnerOf,    \* the client that opens a socket
  WebClients, \* clients that keep the largest seq they saw; the others the last
  NoSocket,   \* the socket of a turn that has none
  SendOnce,   \* intro_message.send_once_per_relationship
  MaxRemovals \* bound: resets committed and logs cleared

ASSUME OwnerAssumption == OwnerOf \in [Sockets -> Clients]
ASSUME NoSocketAssumption == NoSocket \notin Sockets
ASSUME SendOnceAssumption == SendOnce \in BOOLEAN
ASSUME MaxRemovalsAssumption == MaxRemovals \in Nat
ASSUME WriterAssumption ==
  /\ Turns \cap Pushes = {}
  /\ Turns \cap Sockets = {}
  /\ Pushes \cap Sockets = {}

-----------------------------------------------------------------------------
(* Rows of the messages table, named by who writes them. *)

User(t) == <<"user", t>>
Reply(t) == <<"assistant", t>>
Push(p) == <<"push", p>>
Intro(s) == <<"intro", s>>

Message == {User(t) : t \in Turns} \cup {Reply(t) : t \in Turns}
             \cup {Push(p) : p \in Pushes} \cup {Intro(s) : s \in Sockets}

Writer == Turns \cup Pushes \cup Sockets
WriterOf(m) == m[2]

Event == [msg : Message, seq : Nat]

TurnPc == {"idle", "numbered", "saved", "acked", "generated", "answered",
           "counted", "done", "failed", "dropped"}
PushPc == {"idle", "numbered", "saved", "sent"}
SocketPc == {"unused", "intro", "waiting", "gated", "numbered", "replay", "sending", "ready"}

VARIABLES
  seqOf,        \* messages.seq of a row; 0: the row is not in the table
  messageCount, \* relationships.message_count
  introMark,    \* relationships.metadata has the intro key (committed)
  resetting, doomed,  \* a reset is under way; the rows its DELETE has seen
  removals,     \* bounded: resets committed and logs cleared
  turnPc, userSeq, turnSocket,   \* a turn: progress, TurnState.user_seq, the
                                 \* socket whose receive loop awaits it
  pushPc, pushSeq,               \* a proactive message: progress, seq it took
  socketPc, introSeq,            \* a connection's handler: progress, intro seq,
  since, backlog,                \* since_seq, events it has still to replay
  open,         \* the transport under a socket is alive
  wire,         \* events sent on a socket that the client has not read
  cursor,       \* a client: the seq it resumes from
  prior,        \* history: the rows in the table when a writer took its number
  removed,      \* history: the rows that were removed, with their numbers
  crossed       \* history: the writers whose work a removal took in part

removal == <<resetting, doomed, removals, removed, crossed>>
table == <<seqOf, messageCount, introMark, removal>>
turn == <<turnPc, userSeq, turnSocket>>
push == <<pushPc, pushSeq>>
handler == <<socketPc, introSeq, since, backlog>>
net == <<open, wire>>
vars == <<table, turn, push, handler, net, cursor, prior>>

TypeOK ==
  /\ seqOf \in [Message -> Nat]
  /\ messageCount \in Nat
  /\ introMark \in BOOLEAN
  /\ resetting \in BOOLEAN
  /\ doomed \in SUBSET Message
  /\ removals \in Nat
  /\ turnPc \in [Turns -> TurnPc]
  /\ userSeq \in [Turns -> Nat]
  /\ turnSocket \in [Turns -> Sockets \cup {NoSocket}]
  /\ pushPc \in [Pushes -> PushPc]
  /\ pushSeq \in [Pushes -> Nat]
  /\ socketPc \in [Sockets -> SocketPc]
  /\ introSeq \in [Sockets -> Nat]
  /\ since \in [Sockets -> Nat]
  /\ backlog \in [Sockets -> SUBSET Event]
  /\ open \in [Sockets -> BOOLEAN]
  /\ wire \in [Sockets -> Seq(Event)]
  /\ cursor \in [Clients -> Nat]
  /\ prior \in [Writer -> SUBSET Message]
  /\ removed \in SUBSET Event
  /\ crossed \in SUBSET Writer

Init ==
  /\ seqOf = [m \in Message |-> 0]
  /\ messageCount = 0
  /\ introMark = FALSE
  /\ resetting = FALSE
  /\ doomed = {}
  /\ removals = 0
  /\ turnPc = [t \in Turns |-> "idle"]
  /\ userSeq = [t \in Turns |-> 0]
  /\ turnSocket = [t \in Turns |-> NoSocket]
  /\ pushPc = [p \in Pushes |-> "idle"]
  /\ pushSeq = [p \in Pushes |-> 0]
  /\ socketPc = [s \in Sockets |-> "unused"]
  /\ introSeq = [s \in Sockets |-> 0]
  /\ since = [s \in Sockets |-> 0]
  /\ backlog = [s \in Sockets |-> {}]
  /\ open = [s \in Sockets |-> FALSE]
  /\ wire = [s \in Sockets |-> <<>>]
  /\ cursor = [c \in Clients |-> 0]
  /\ prior = [w \in Writer |-> {}]
  /\ removed = {}
  /\ crossed = {}

-----------------------------------------------------------------------------
(* Helpers *)

Rows == {m \in Message : seqOf[m] # 0}

\* A slip: MAX(seq) without the + 1.
MaxSeqs == LET largest == {seqOf[m] : m \in {k \in Rows : \A l \in Rows : seqOf[l] <= seqOf[k]}} IN
             IF Rows = {} THEN {1} ELSE largest

\* COALESCE(MAX(seq), 0) + 1, as a singleton.
NextSeqs == {n \in {seqOf[m] + 1 : m \in Message} : \A m \in Message : seqOf[m] < n}

\* The intro transaction holds the advisory lock from its call of
\* next_relationship_message_seq to its commit; everybody else releases it with
\* the statement that took it.
SeqLockFree == \A s \in Sockets : socketPc[s] # "numbered"

\* With send_once the gate of the intro is an UPDATE of the relationship's row,
\* locked to the end of its transaction.
RelationshipRowFree ==
  SendOnce => \A s \in Sockets : socketPc[s] \notin {"gated", "numbered"}

TurnActive(t) == turnPc[t] \notin {"idle", "done", "failed", "dropped"}

EventFor(m) == [msg |-> m, seq |-> seqOf[m]]
Events(M) == {EventFor(m) : m \in M}

\* Every row there ever was, with its number.
Log == Events(Rows) \cup removed

\* What is sent on a dead socket is lost (unless the send raises).
SendOn(s, e) == wire' = [wire EXCEPT ![s] = IF open[s] THEN Append(@, e) ELSE @]

TakeNumber(w, n) ==
  /\ SeqLockFree
  /\ n \in NextSeqs
  /\ prior' = [prior EXCEPT ![w] = Rows]

InsertRow(m, n) == seqOf' = [seqOf EXCEPT ![m] = n]

RemoveRows(M) ==
  /\ seqOf' = [m \in Message |-> IF m \in M THEN 0 ELSE seqOf[m]]
  /\ removed' = removed \cup Events(M \cap Rows)

\* A removal takes part of what these writers did: turns under way, and the
\* writers of the given rows.
Cross(M) == crossed' = crossed \cup {t \in Turns : TurnActive(t)} \cup {WriterOf(m) : m \in M}

-----------------------------------------------------------------------------
(* Slips that the properties below would catch, no part of Next: an event     *)
(* before its row, a count in a finally block, a gate outside its transaction *)
(* and a lock kept by the whole connection.                                   *)

GenerateAndEmit(t) ==
  /\ turnPc[t] = "acked"
  /\ IF turnSocket[t] = NoSocket
       THEN UNCHANGED wire
       ELSE SendOn(turnSocket[t], [msg |-> Reply(t), seq |-> userSeq[t] + 1])
  /\ turnPc' = [turnPc EXCEPT ![t] = "generated"]
  /\ UNCHANGED <<table, userSeq, turnSocket, push, handler, open, cursor, prior>>

FailAndCount(t) ==
  /\ TurnActive(t)
  /\ turnPc' = [turnPc EXCEPT ![t] = "failed"]
  /\ turnSocket' = [turnSocket EXCEPT ![t] = NoSocket]
  /\ messageCount' = messageCount + 2
  /\ UNCHANGED <<seqOf, introMark, removal, userSeq, push, handler, net, cursor, prior>>

LockAutocommits(s) ==
  /\ socketPc[s] = "waiting"
  /\ socketPc' = [socketPc EXCEPT ![s] = IF introMark THEN "replay" ELSE "gated"]
  /\ introMark' = TRUE
  /\ UNCHANGED <<seqOf, messageCount, removal, turn, push, introSeq, since, backlog, net,
                 cursor, prior>>

LockHeldToTheEnd(s) ==
  /\ socketPc[s] = "waiting"
  /\ \A r \in Sockets : socketPc[r] \in {"unused", "intro", "waiting"}
  /\ socketPc' = [socketPc EXCEPT ![s] = IF introMark THEN "replay" ELSE "gated"]
  /\ UNCHANGED <<table, turn, push, introSeq, since, backlog, net, cursor, prior>>

-----------------------------------------------------------------------------
(* A turn: TurnProcessor.process_turn_streaming *)

\* get_next_seq; assistant_seq = user_seq + 1 is computed, not reserved.
BeginTurn(t, s) ==
  /\ turnPc[t] = "idle"
  /\ \E n \in NextSeqs : TakeNumber(t, n) /\ userSeq' = [userSeq EXCEPT ![t] = n]
  /\ turnPc' = [turnPc EXCEPT ![t] = "numbered"]
  /\ turnSocket' = [turnSocket EXCEPT ![t] = s]
  /\ UNCHANGED <<table, push, handler, net, cursor>>

\* A turn over HTTP needs no connection.
HttpTurn(t) == BeginTurn(t, NoSocket)

\* The receive loop awaits the turn it started before it reads again, and ends
\* with a turn that could not report.  What the client sent before the transport
\* died is still read.
SocketTurn(t, s) ==
  /\ socketPc[s] = "ready"
  /\ \A u \in Turns : turnSocket[u] # s
  /\ BeginTurn(t, s)

SaveUser(t) ==
  /\ turnPc[t] = "numbered"
  /\ InsertRow(User(t), userSeq[t])
  /\ turnPc' = [turnPc EXCEPT ![t] = "saved"]
  /\ UNCHANGED <<messageCount, introMark, removal, userSeq, turnSocket, push, handler,
                 net, cursor, prior>>

EmitAck(t) ==
  /\ turnPc[t] = "saved"
  /\ IF turnSocket[t] = NoSocket
       THEN UNCHANGED wire
       ELSE SendOn(turnSocket[t], [msg |-> User(t), seq |-> userSeq[t]])
  /\ turnPc' = [turnPc EXCEPT ![t] = "acked"]
  /\ UNCHANGED <<table, userSeq, turnSocket, push, handler, open, cursor, prior>>

\* Context building and the LLM's answer; the deltas carry no seq.
Generate(t) ==
  /\ turnPc[t] = "acked"
  /\ turnPc' = [turnPc EXCEPT ![t] = "generated"]
  /\ UNCHANGED <<table, userSeq, turnSocket, push, handler, net, cursor, prior>>

SaveReply(t) ==
  /\ turnPc[t] = "generated"
  /\ InsertRow(Reply(t), userSeq[t] + 1)
  /\ turnPc' = [turnPc EXCEPT ![t] = "answered"]
  /\ UNCHANGED <<messageCount, introMark, removal, userSeq, turnSocket, push, handler,
                 net, cursor, prior>>

FinalizeTurn(t) ==
  /\ turnPc[t] = "answered"
  /\ RelationshipRowFree
  /\ messageCount' = messageCount + 2
  /\ turnPc' = [turnPc EXCEPT ![t] = "counted"]
  /\ UNCHANGED <<seqOf, introMark, removal, userSeq, turnSocket, push, handler, net,
                 cursor, prior>>

EmitMessage(t) ==
  /\ turnPc[t] = "counted"
  /\ IF turnSocket[t] = NoSocket
       THEN UNCHANGED wire
       ELSE SendOn(turnSocket[t], [msg |-> Reply(t), seq |-> userSeq[t] + 1])
  /\ turnPc' = [turnPc EXCEPT ![t] = "done"]
  /\ turnSocket' = [turnSocket EXCEPT ![t] = NoSocket]
  /\ UNCHANGED <<table, userSeq, push, handler, open, cursor, prior>>

\* A statement or the LLM raises: _process_ws_message reports an error event
\* without a seq, the HTTP handler an error response; nothing is undone.
FailTurn(t) ==
  /\ TurnActive(t)
  /\ turnPc' = [turnPc EXCEPT ![t] = "failed"]
  /\ turnSocket' = [turnSocket EXCEPT ![t] = NoSocket]
  /\ UNCHANGED <<table, userSeq, push, handler, net, cursor, prior>>

\* An emit on a dead socket may raise: the ack, a status or delta, the message.
DropTurn(t) ==
  /\ turnPc[t] \in {"saved", "acked", "generated", "counted"}
  /\ turnSocket[t] # NoSocket
  /\ ~open[turnSocket[t]]
  /\ turnPc' = [turnPc EXCEPT ![t] = "dropped"]
  /\ UNCHANGED <<table, userSeq, turnSocket, push, handler, net, cursor, prior>>

-----------------------------------------------------------------------------
(* A proactive message: PostTurnExecutor._send_proactive_message, and the   *)
(* same two statements in the behavior executor.                           *)

NumberPush(p) ==
  /\ pushPc[p] = "idle"
  /\ \E n \in NextSeqs : TakeNumber(p, n) /\ pushSeq' = [pushSeq EXCEPT ![p] = n]
  /\ pushPc' = [pushPc EXCEPT ![p] = "numbered"]
  /\ UNCHANGED <<table, turn, handler, net, cursor>>

SavePush(p) ==
  /\ pushPc[p] = "numbered"
  /\ InsertRow(Push(p), pushSeq[p])
  /\ pushPc' = [pushPc EXCEPT ![p] = "saved"]
  /\ UNCHANGED <<messageCount, introMark, removal, turn, pushSeq, handler, net, cursor, prior>>

\* Broadcast to every registered connection, or (the pending message a
\* heartbeat finds) to one.
SendPush(p) ==
  /\ pushPc[p] = "saved"
  /\ LET registered == {s \in Sockets : socketPc[s] # "unused" /\ open[s]}
         event == [msg |-> Push(p), seq |-> pushSeq[p]] IN
       \E S \in {registered} \cup {{s} : s \in registered} :
         /\ S # {}
         /\ wire' = [s \in Sockets |->
                       IF s \in S THEN Append(wire[s], event) ELSE wire[s]]
  /\ pushPc' = [pushPc EXCEPT ![p] = "sent"]
  /\ UNCHANGED <<table, turn, pushSeq, handler, open, cursor, prior>>

-----------------------------------------------------------------------------
(* A connection: websocket_connect *)

Connect(s) ==
  /\ socketPc[s] = "unused"
  /\ \A r \in Sockets : OwnerOf[r] = OwnerOf[s] => ~open[r]
  /\ socketPc' = [socketPc EXCEPT ![s] = "intro"]
  /\ since' = [since EXCEPT ![s] = cursor[OwnerOf[s]]]
  /\ open' = [open EXCEPT ![s] = TRUE]
  /\ UNCHANGED <<table, turn, push, introSeq, backlog, wire, cursor, prior>>

\* _maybe_send_intro_message opens its transaction.  The gate is one statement
\* in two steps: what it reads when it starts, and, with send_once, the lock of
\* the relationship's row, for which it may have to wait.
IntroGate(s) ==
  /\ socketPc[s] = "intro"
  /\ LET passes == Rows = {} /\ (SendOnce => ~introMark) IN
       socketPc' = [socketPc EXCEPT ![s] =
                      IF ~passes THEN "replay" ELSE IF SendOnce THEN "waiting" ELSE "gated"]
  /\ UNCHANGED <<table, turn, push, introSeq, since, backlog, net, cursor, prior>>

\* On the locked row the mark is checked again; that there are no messages stays
\* as the statement found it when it started.
LockForIntro(s) ==
  /\ socketPc[s] = "waiting"
  /\ RelationshipRowFree
  /\ socketPc' = [socketPc EXCEPT ![s] = IF introMark THEN "replay" ELSE "gated"]
  /\ UNCHANGED <<table, turn, push, introSeq, since, backlog, net, cursor, prior>>

NumberIntro(s) ==
  /\ socketPc[s] = "gated"
  /\ \E n \in NextSeqs : TakeNumber(s, n) /\ introSeq' = [introSeq EXCEPT ![s] = n]
  /\ socketPc' = [socketPc EXCEPT ![s] = "numbered"]
  /\ UNCHANGED <<table, turn, push, since, backlog, net, cursor>>

\* INSERT, COMMIT (the row and the gate's mark become visible), and the event.
CommitIntro(s) ==
  /\ socketPc[s] = "numbered"
  /\ InsertRow(Intro(s), introSeq[s])
  /\ introMark' = (introMark \/ SendOnce)
  /\ SendOn(s, [msg |-> Intro(s), seq |-> introSeq[s]])
  /\ socketPc' = [socketPc EXCEPT ![s] = "replay"]
  /\ UNCHANGED <<messageCount, removal, turn, push, introSeq, since, backlog, open, cursor, prior>>

\* The transaction is rolled back: the connect handler logs it and goes on.
RollbackIntro(s) ==
  /\ socketPc[s] \in {"waiting", "gated", "numbered"}
  /\ socketPc' = [socketPc EXCEPT ![s] = "replay"]
  /\ UNCHANGED <<table, turn, push, introSeq, since, backlog, net, cursor, prior>>

\* invalid_seq when the row the client names does not exist; else _replay_events
\* selects the later rows, all at once.  Without since_seq nothing is replayed.
\* The parameter is not used again.
StartReplay(s) ==
  /\ socketPc[s] = "replay"
  /\ backlog' = [backlog EXCEPT ![s] =
                   IF since[s] # 0 /\ \E m \in Rows : seqOf[m] = since[s]
                     THEN Events({m \in Rows : seqOf[m] > since[s]}) ELSE {}]
  /\ since' = [since EXCEPT ![s] = 0]
  /\ socketPc' = [socketPc EXCEPT ![s] = "sending"]
  /\ UNCHANGED <<table, turn, push, introSeq, net, cursor, prior>>

\* ORDER BY seq, one send at a time: other tasks send on the socket in between.
SendReplayed(s) ==
  /\ socketPc[s] = "sending"
  /\ \E e \in backlog[s] :
       /\ \A f \in backlog[s] : e.seq <= f.seq
       /\ SendOn(s, e)
       /\ backlog' = [backlog EXCEPT ![s] = @ \ {e}]
  /\ UNCHANGED <<table, turn, push, socketPc, introSeq, since, open, cursor, prior>>

\* The handler enters its receive loop; a send that raised ends the replay.
EndReplay(s) ==
  /\ socketPc[s] = "sending"
  /\ backlog[s] = {} \/ ~open[s]
  /\ backlog' = [backlog EXCEPT ![s] = {}]
  /\ socketPc' = [socketPc EXCEPT ![s] = "ready"]
  /\ UNCHANGED <<table, turn, push, introSeq, since, net, cursor, prior>>

\* The transport dies, and with it what the client has not read.
Disconnect(s) ==
  /\ open[s]
  /\ open' = [open EXCEPT ![s] = FALSE]
  /\ wire' = [wire EXCEPT ![s] = <<>>]
  /\ UNCHANGED <<table, turn, push, handler, cursor, prior>>

\* The client reads an event and tracks the seq it will resume from.
ReadEvent(s) ==
  /\ open[s] /\ wire[s] # <<>>
  /\ LET c == OwnerOf[s]
         seq == Head(wire[s]).seq IN
       cursor' = [cursor EXCEPT ![c] = IF c \in WebClients /\ seq < @ THEN @ ELSE seq]
  /\ wire' = [wire EXCEPT ![s] = Tail(@)]
  /\ UNCHANGED <<table, turn, push, handler, open, prior>>

-----------------------------------------------------------------------------
(* Removals: _reset_relationship_runtime_state, and create_voice_token with  *)
(* clear_messages.  The turns, sockets and deliveries under way are not told. *)

\* The DELETE locks the rows it sees; they stay in sight until the commit.  A
\* second reset waits for those locks.
ResetDelete ==
  /\ ~resetting /\ removals < MaxRemovals
  /\ resetting' = TRUE /\ doomed' = Rows
  /\ UNCHANGED <<seqOf, messageCount, introMark, removals, removed, crossed, turn, push, handler,
                 net, cursor, prior>>

\* The UPDATE of the relationship and the COMMIT.  Rows that were inserted after
\* the DELETE are left, and are no longer counted.
ResetCommit ==
  /\ resetting /\ RelationshipRowFree
  /\ removals < MaxRemovals /\ removals' = removals + 1
  /\ RemoveRows(doomed) /\ Cross(Rows \ doomed)
  /\ messageCount' = 0 /\ introMark' = FALSE
  /\ resetting' = FALSE /\ doomed' = {}
  /\ UNCHANGED <<turn, push, handler, net, cursor, prior>>

\* A statement fails, or the request is cancelled: the transaction takes back
\* what the DELETE did.
RollbackReset ==
  /\ resetting
  /\ resetting' = FALSE /\ doomed' = {}
  /\ UNCHANGED <<seqOf, messageCount, introMark, removals, removed, crossed, turn, push,
                 handler, net, cursor, prior>>

\* A DELETE in autocommit mode; the count and the intro's mark stay.
ClearMessages ==
  /\ doomed = {}
  /\ removals < MaxRemovals /\ removals' = removals + 1
  /\ RemoveRows(Rows) /\ Cross(Rows)
  /\ UNCHANGED <<messageCount, introMark, resetting, doomed, turn, push, handler, net,
                 cursor, prior>>

-----------------------------------------------------------------------------
TurnStep(t) ==
  \/ SaveUser(t) \/ EmitAck(t) \/ Generate(t) \/ SaveReply(t)
  \/ FinalizeTurn(t) \/ EmitMessage(t)

PushStep(p) == SavePush(p) \/ SendPush(p)

GreetStep(s) ==
  \/ IntroGate(s) \/ LockForIntro(s) \/ NumberIntro(s) \/ CommitIntro(s)
  \/ StartReplay(s) \/ SendReplayed(s) \/ EndReplay(s)

RemovalStep == ResetDelete \/ ResetCommit \/ RollbackReset \/ ClearMessages

Next ==
  \/ RemovalStep
  \/ \E t \in Turns :
       \/ HttpTurn(t)
       \/ \E s \in Sockets : SocketTurn(t, s)
       \/ TurnStep(t) \/ FailTurn(t) \/ DropTurn(t)
  \/ \E p \in Pushes : NumberPush(p) \/ PushStep(p)
  \/ \E s \in Sockets :
       \/ Connect(s) \/ GreetStep(s) \/ RollbackIntro(s)
       \/ Disconnect(s) \/ ReadEvent(s)

Spec == Init /\ [][Next]_vars

\* The event loop runs every task that can run; no other task need go on for a
\* connection to be greeted, and no transaction need fail.
Fairness == \A s \in Sockets : WF_vars(GreetStep(s))

FairSpec == Spec /\ Fairness

-----------------------------------------------------------------------------
(* Properties *)

(* A number taken after a row was saved is larger than that row's, also when  *)
(* the row is gone by then: writers that do not overlap are ordered by seq as *)
(* they ran, which is what the history given to the LLM (ORDER BY seq) and    *)
(* the replay rely on.                                                        *)
LaterWritersNumberHigher ==
  \A m \in Rows : \A n \in prior[WriterOf(m)] :
    \E e \in Log : e.msg = n /\ e.seq < seqOf[m]

(* Reconnecting with the seq of the last event a client read gets invalid_seq *)
(* only if a reset or a clear removed the row it names: every event with a    *)
(* seq is sent after its row was saved, and carries that row's number.        *)
CursorNamesARow ==
  \A c \in Clients : cursor[c] # 0 =>
    \/ \E m \in Rows : seqOf[m] = cursor[c]
    \/ \E e \in removed : e.seq = cursor[c]

(* With send_once a relationship gets one intro message, whichever of its     *)
(* devices connect at the same time, and the mark that stops the next one is  *)
(* there exactly with the message.  The exceptions: an intro that was         *)
(* committed between a reset's DELETE and its commit stays without the mark,  *)
(* and a clear leaves the mark without the message.                           *)
OneIntro ==
  SendOnce =>
    /\ \A r, s \in Sockets :
         Intro(r) \in Rows /\ Intro(s) \in Rows => r = s \/ r \in crossed \/ s \in crossed
    /\ \A s \in Sockets : Intro(s) \in Rows => introMark \/ s \in crossed
    /\ introMark => \E s \in Sockets : Intro(s) \in Rows \/ s \in crossed

(* message_count counts the rows of answered turns, two for each, and never   *)
(* runs ahead of them: failed and dropped turns may leave a row behind that   *)
(* it does not count, never the reverse.  Only the turns that a reset or a    *)
(* clear took in part are counted without rows or have rows without a count.  *)
CountTrailsRows ==
  /\ messageCount <=
       2 * Cardinality({t \in Turns : {User(t), Reply(t)} \subseteq Rows \/ t \in crossed})
  /\ messageCount >=
       2 * Cardinality({t \in Turns : turnPc[t] = "done" /\ User(t) \in Rows /\ t \notin crossed})

(* A message of the log is never renumbered, and leaves it only with a reset  *)
(* whose DELETE has seen it or with a clear, never with the failure of a turn *)
(* or the rollback of a reset.                                                *)
RowsLeaveByRemoval ==
  [][\A m \in Rows : seqOf'[m] # seqOf[m] =>
       /\ seqOf'[m] = 0 /\ removals' = removals + 1
       /\ resetting /\ ~resetting' => m \in doomed]_seqOf

(* Every connection reaches its receive loop: the row lock of the intro's gate *)
(* and the advisory lock its transaction holds are released again, whichever  *)
(* connections wait for them.                                                 *)
ConnectionsGetReady == []<>(\A s \in Sockets : socketPc[s] \in {"unused", "ready"})

-----------------------------------------------------------------------------
(* The inductive invariant behind the first three properties. *)

\* Messages that were numbered below n.
Below(M, n) == \A k \in M : \E e \in Log : e.msg = k /\ e.seq < n

\* A writer's number is above what it saw, and its rows carry that number.
TurnNumbers ==
  \A t \in Turns :
    /\ seqOf[User(t)] \in {0, userSeq[t]}
    /\ seqOf[Reply(t)] \in {0, userSeq[t] + 1}
    /\ turnPc[t] = "idle" => User(t) \notin Rows /\ Reply(t) \notin Rows
    /\ turnPc[t] # "idle" => userSeq[t] # 0 /\ Below(prior[t], userSeq[t])
    /\ turnPc[t] = "saved" => [msg |-> User(t), seq |-> userSeq[t]] \in Log
    /\ turnPc[t] \in {"answered", "counted"} =>
         [msg |-> Reply(t), seq |-> userSeq[t] + 1] \in Log

PushNumbers ==
  \A p \in Pushes :
    /\ seqOf[Push(p)] \in {0, pushSeq[p]}
    /\ pushPc[p] = "idle" => Push(p) \notin Rows
    /\ pushPc[p] # "idle" => pushSeq[p] # 0 /\ Below(prior[p], pushSeq[p])
    /\ pushPc[p] = "saved" => [msg |-> Push(p), seq |-> pushSeq[p]] \in Log

IntroNumbers ==
  \A s \in Sockets :
    /\ seqOf[Intro(s)] \in {0, introSeq[s]}
    /\ socketPc[s] \in {"unused", "intro", "waiting", "gated", "numbered"} => Intro(s) \notin Rows
    /\ socketPc[s] = "numbered" => introSeq[s] # 0 /\ Below(prior[s], introSeq[s])
    /\ Intro(s) \in Rows => Below(prior[s], introSeq[s])

\* What is under way to a client is an event of the log.
EventsNameRows ==
  \A s \in Sockets :
    /\ \A i \in 1..Len(wire[s]) : wire[s][i] \in Log
    /\ backlog[s] \subseteq Log

\* The row lock of the gate: one intro transaction, and none after the mark.
IntroGateInv ==
  SendOnce =>
    \A r, s \in Sockets :
      /\ socketPc[r] \in {"gated", "numbered"} =>
           /\ ~introMark
           /\ socketPc[s] \in {"gated", "numbered"} => r = s

IInv ==
  /\ TypeOK
  /\ TurnNumbers /\ PushNumbers /\ IntroNumbers
  /\ EventsNameRows /\ CursorNamesARow
  /\ IntroGateInv /\ OneIntro

-----------------------------------------------------------------------------
(* What the documents say, and the code does not do. *)

(* "seq is per-relationship monotonically increasing sequence number", taken  *)
(* with an "advisory lock to prevent race conditions".                        *)
SeqIsUnique == \A m, n \in Rows : seqOf[m] = seqOf[n] => m = n
=============================================================================
