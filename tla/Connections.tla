----------------------------- MODULE Connections -----------------------------
(***************************************************************************)
(* The pool of database connections of one API process, and everything     *)
(* that takes connections from it: HTTP requests, whose connection         *)
(* DatabaseSessionMiddleware takes before the handler and keeps to the     *)
(* last chunk of the answer; streams that outlive their client; sockets    *)
(* with their turns and heartbeats.                                        *)
(*                                                                         *)
(* A turn builds its context with layers that run at once and take a       *)
(* connection each, while the turn keeps the one it has.  pool.acquire()   *)
(* waits without a limit.                                                  *)
(***************************************************************************)
EXTENDS Naturals, FiniteSets

CONSTANTS
  Plain,    \* requests that use get_db and nothing else
  Turns,    \* POST .../messages: a turn on the connection of the request
  Streams,  \* the same as server-sent events: the turn is a task of its own
  Chats,    \* POST .../chat/stream: takes connections besides the request's
  Sockets,  \* WebSocket connections
  Layers,   \* layers of a context plan that read the database
  PoolSize  \* DB_POOL_MAX_SIZE

Requests == Plain \cup Turns \cup Streams \cup Chats
Planners == Turns \cup Streams \cup Chats \cup Sockets
Actors == Requests \cup Sockets

Base(a) == <<a, "base">>     \* taken by the middleware
Own(a) == <<a, "own">>       \* taken by the handler or the task itself
Beat(s) == <<s, "beat">>     \* taken by the heartbeat of a socket
LayerUses(a) == {<<a, l>> : l \in Layers}

Uses ==
  {Base(r) : r \in Requests} \cup {Own(a) : a \in Chats \cup Sockets}
    \cup (Planners \X Layers) \cup {Beat(s) : s \in Sockets}

\* Connections that may be kept while waiting for another.
Anchors ==
  {Base(r) : r \in Turns \cup Streams \cup Chats}
    \cup {Own(a) : a \in Chats \cup Sockets}

ASSUME PoolAssumption == PoolSize \in Nat \ {0}
ASSUME FiniteAssumption == IsFiniteSet(Actors) /\ IsFiniteSet(Layers)
ASSUME LayersAssumption == Layers \cap {"base", "own", "beat"} = {}
ASSUME ActorsAssumption ==
  /\ Plain \cap Planners = {}
  /\ Turns \cap (Streams \cup Chats \cup Sockets) = {}
  /\ Streams \cap (Chats \cup Sockets) = {}
  /\ Chats \cap Sockets = {}

VARIABLES
  pc,       \* [Actors -> progress]
  waiting,  \* uses that wait in pool.acquire()
  held,     \* uses that have a connection
  beat,     \* [Sockets -> state of the heartbeat task]
  gone,     \* sockets that are closed, by the client or by the heartbeat
  registry  \* ConnectionManager._connections

vars == <<pc, waiting, held, beat, gone, registry>>
pool == <<waiting, held>>
socket == <<beat, gone, registry>>

Pc == {"idle", "open", "loading", "planning", "context", "replying", "saving",
       "left", "done",
       "auth", "intro", "pending", "replay", "loop", "reload", "closing"}
BeatState == {"off", "sleeping", "delivering", "over", "broken"}

TypeOK ==
  /\ pc \in [Actors -> Pc]
  /\ waiting \subseteq Uses
  /\ held \subseteq Uses
  /\ waiting \cap held = {}
  /\ beat \in [Sockets -> BeatState]
  /\ gone \subseteq Sockets
  /\ registry \subseteq Sockets

Init ==
  /\ pc = [a \in Actors |-> "idle"]
  /\ waiting = {}
  /\ held = {}
  /\ beat = [s \in Sockets |-> "off"]
  /\ gone = {}
  /\ registry = {}

-----------------------------------------------------------------------------
(* The pool *)

\* A slip: one connection is never used.
GrantAllButOne(u) ==
  /\ u \in waiting
  /\ Cardinality(held) + 1 < PoolSize
  /\ waiting' = waiting \ {u}
  /\ held' = held \cup {u}
  /\ UNCHANGED <<pc, socket>>

\* async with pool.acquire(): an idle connection, or a new one below max_size.
Grant(u) ==
  /\ u \in waiting
  /\ Cardinality(held) < PoolSize
  /\ waiting' = waiting \ {u}
  /\ held' = held \cup {u}
  /\ UNCHANGED <<pc, socket>>

Goto(a, where) == pc' = [pc EXCEPT ![a] = where]

Ask(S) == waiting' = waiting \cup S /\ UNCHANGED held
Release(S) == held' = held \ S /\ UNCHANGED waiting

\* The end of one block and the start of the next, on the same use.
Renew(u) == held' = held \ {u} /\ waiting' = waiting \cup {u}

Has(u) == u \in held
NoLayers(a) == LayerUses(a) \cap (waiting \cup held) = {}

\* Of what a coroutine has or waits for, when it is cancelled.
Drop(S) == held' = held \ S /\ waiting' = waiting \ S

-----------------------------------------------------------------------------
(* HTTP requests *)

\* DatabaseSessionMiddleware.__call__, before the application is called.
Arrive(r) ==
  /\ r \in Requests
  /\ pc[r] = "idle"
  /\ Goto(r, "open")
  /\ Ask({Base(r)})
  /\ UNCHANGED socket

\* A slip: get_db takes a connection from the pool.
GetDbOfItsOwn(r) == {Own(r)}

\* get_db hands out the connection of the request.
GetDb(r) == {}

Handle(r) ==
  /\ r \in Plain
  /\ pc[r] = "open" /\ Has(Base(r))
  /\ Goto(r, "replying")
  /\ Ask(GetDb(r))
  /\ UNCHANGED socket

\* The last chunk of an answer, or an exception: close_resources.
Answer(r) ==
  /\ r \in Plain \cup Turns \cup Streams
  /\ pc[r] = "replying"
  /\ GetDb(r) \subseteq held
  /\ Goto(r, "done")
  /\ Release({Base(r)} \cup GetDb(r))
  /\ UNCHANGED socket

\* stream_chat_with_companion, up to the StreamingResponse.
Load(r) ==
  /\ r \in Chats
  /\ pc[r] = "open" /\ Has(Base(r))
  /\ Goto(r, "loading")
  /\ Ask({Own(r)})
  /\ UNCHANGED socket

\* event_stream takes a connection of its own to plan with.
StartStream(r) ==
  /\ pc[r] = "loading" /\ Has(Own(r))
  /\ Goto(r, "planning")
  /\ Renew(Own(r))
  /\ UNCHANGED socket

Save(r) ==
  /\ r \in Chats
  /\ pc[r] = "replying"
  /\ Goto(r, "saving")
  /\ Ask({Own(r)})
  /\ UNCHANGED socket

FinishChat(r) ==
  /\ pc[r] = "saving" /\ Has(Own(r))
  /\ Goto(r, "done")
  /\ Release({Own(r), Base(r)})
  /\ UNCHANGED socket

\* The client of a stream goes: the body iterator is cancelled, the
\* middleware takes the connection back.  The task of the turn, or of the
\* plan, was started with create_task and is not cancelled.
Leave(r) ==
  /\ \/ r \in Streams /\ pc[r] \in {"open", "context", "replying"} /\ Has(Base(r))
     \/ r \in Chats /\ pc[r] \in {"planning", "context", "replying", "saving"}
  /\ Goto(r, "left")
  /\ Drop({Base(r), Own(r)})
  /\ UNCHANGED socket

\* That task ends when its layers have: its next statement raises.
Abandon(r) ==
  /\ pc[r] = "left"
  /\ NoLayers(r)
  /\ Goto(r, "done")
  /\ UNCHANGED <<pool, socket>>

\* A request that is refused after its handler has looked (403, 404), or whose
\* plan or LLM fails: the blocks of its connections are left.
Raise(r) ==
  /\ \/ r \in Turns \cup Streams /\ pc[r] = "open" /\ Has(Base(r))
     \/ r \in Chats /\ pc[r] \in {"loading", "planning"} /\ Has(Own(r))
     \/ r \in Chats /\ pc[r] = "replying"
  /\ Goto(r, "done")
  /\ Release({Base(r), Own(r)})
  /\ UNCHANGED socket

-----------------------------------------------------------------------------
(* build_context_plan *)

\* _run_layers_parallel: gather of the layers, each with get_db_connection as
\* its factory, while the caller keeps what it has.
Gather(a) ==
  /\ \/ a \in Turns \cup Streams /\ pc[a] = "open" /\ Has(Base(a))
     \/ a \in Chats \cup Sockets /\ pc[a] = "planning" /\ Has(Own(a))
  /\ Goto(a, "context")
  /\ Ask(LayerUses(a))
  /\ UNCHANGED socket

\* A layer that fails is caught by run_one, and is over as well.
EndLayer(a, l) ==
  /\ Has(<<a, l>>)
  /\ Release({<<a, l>>})
  /\ UNCHANGED <<pc, socket>>

\* All results are there.  A chat leaves the block of its own connection.
Reply(a) ==
  /\ pc[a] = "context"
  /\ NoLayers(a)
  /\ Goto(a, "replying")
  /\ IF a \in Chats THEN Release({Own(a)}) ELSE UNCHANGED pool
  /\ UNCHANGED socket

-----------------------------------------------------------------------------
(* A socket: websocket_connect *)

Connect(s) ==
  /\ s \in Sockets
  /\ pc[s] = "idle"
  /\ Goto(s, "auth")
  /\ Ask({Own(s)})
  /\ UNCHANGED socket

Refuse(s) ==
  /\ pc[s] = "auth" /\ Has(Own(s))
  /\ Goto(s, "done")
  /\ Release({Own(s)})
  /\ UNCHANGED socket

\* connection_manager.connect, the heartbeat, and on to the intro.
Admit(s) ==
  /\ pc[s] = "auth" /\ Has(Own(s))
  /\ Goto(s, "intro")
  /\ Renew(Own(s))
  /\ registry' = registry \cup {s}
  /\ beat' = [beat EXCEPT ![s] = "sleeping"]
  /\ UNCHANGED gone

\* The intro, the pending messages, the replay that the client may ask for.
Greet(s) ==
  /\ Has(Own(s))
  /\ \/ pc[s] = "intro" /\ Goto(s, "pending") /\ Renew(Own(s))
     \/ pc[s] = "pending" /\ Goto(s, "replay") /\ Renew(Own(s))
     \/ pc[s] = "pending" /\ Goto(s, "loop") /\ Release({Own(s)})
     \/ pc[s] = "replay" /\ Goto(s, "loop") /\ Release({Own(s)})
  /\ UNCHANGED socket

\* A user_message; any other type is answered without the database.
Receive(s) ==
  /\ pc[s] = "loop" /\ s \notin gone
  /\ Goto(s, "reload")
  /\ Ask({Own(s)})
  /\ UNCHANGED socket

\* The relationship is there: _process_ws_message, in a task that is awaited.
StartTurn(s) ==
  /\ pc[s] = "reload" /\ Has(Own(s))
  /\ Goto(s, "planning")
  /\ Renew(Own(s))
  /\ UNCHANGED socket

\* The turn is over, or failed before or after its layers, or could not send:
\* then the error cannot be sent either, and the exception leaves the loop.
EndTurn(s) ==
  /\ s \in Sockets
  /\ pc[s] \in {"planning", "replying"} /\ Has(Own(s))
  /\ Goto(s, IF s \in gone THEN "closing" ELSE "loop")
  /\ Release({Own(s)})
  /\ UNCHANGED socket

\* The client goes; its socket learns of it when it sends or receives.
HangUp(s) ==
  /\ s \notin gone
  /\ s \in registry /\ pc[s] # "done"
  /\ gone' = gone \cup {s}
  /\ UNCHANGED <<pc, pool, beat, registry>>

\* receive_text raises WebSocketDisconnect.
Disconnected(s) ==
  /\ pc[s] = "loop" /\ s \in gone
  /\ Goto(s, "closing")
  /\ UNCHANGED <<pool, socket>>

\* A slip: the connection of the heartbeat is forgotten.
CloseOnly(s) ==
  /\ pc[s] = "closing"
  /\ Goto(s, "done")
  /\ beat' = [beat EXCEPT ![s] = IF @ = "broken" THEN @ ELSE "over"]
  /\ registry' = IF beat[s] = "broken" THEN registry ELSE registry \ {s}
  /\ UNCHANGED <<pool, gone>>

\* A slip: a heartbeat that is over raises as well.
CloseIfBeating(s) ==
  /\ pc[s] = "closing"
  /\ Goto(s, "done")
  /\ Drop({Beat(s)})
  /\ beat' = [beat EXCEPT ![s] = IF @ = "broken" THEN @ ELSE "over"]
  /\ registry' = IF beat[s] \in {"over", "broken"} THEN registry ELSE registry \ {s}
  /\ UNCHANGED gone

\* finally: the heartbeat is cancelled and awaited.  If it had ended with an
\* exception that is raised here, and what follows is skipped.
Close(s) ==
  /\ pc[s] = "closing"
  /\ Goto(s, "done")
  /\ Drop({Beat(s)})
  /\ beat' = [beat EXCEPT ![s] = IF @ = "broken" THEN @ ELSE "over"]
  /\ registry' = IF beat[s] = "broken" THEN registry ELSE registry \ {s}
  /\ UNCHANGED gone

-----------------------------------------------------------------------------
(* _heartbeat_loop *)

Wake(s) ==
  /\ beat[s] = "sleeping"
  /\ beat' = [beat EXCEPT ![s] = "delivering"]
  /\ Ask({Beat(s)})
  /\ UNCHANGED <<pc, gone, registry>>

\* The heartbeat that follows cannot be sent to a client that has gone.
Delivered(s) ==
  /\ beat[s] = "delivering" /\ Has(Beat(s))
  /\ beat' = [beat EXCEPT ![s] = IF s \in gone THEN "over" ELSE "sleeping"]
  /\ Release({Beat(s)})
  /\ UNCHANGED <<pc, gone, registry>>

\* Idle for too long, connected for too long, or the token has expired.  The
\* close raises when the client has gone.
HeartbeatCloses(s) ==
  /\ beat[s] = "sleeping"
  /\ beat' = [beat EXCEPT ![s] = IF s \in gone THEN "broken" ELSE "over"]
  /\ gone' = gone \cup {s}
  /\ UNCHANGED <<pc, pool, registry>>

-----------------------------------------------------------------------------

RequestStep(r) ==
  \/ Arrive(r) \/ Handle(r) \/ Answer(r) \/ Load(r) \/ StartStream(r)
  \/ Save(r) \/ FinishChat(r) \/ Abandon(r)

PlanStep(a) == Gather(a) \/ Reply(a) \/ \E l \in Layers : EndLayer(a, l)

SocketStep(s) ==
  \/ Connect(s) \/ Refuse(s) \/ Admit(s) \/ Greet(s) \/ Receive(s)
  \/ StartTurn(s) \/ EndTurn(s) \/ Disconnected(s) \/ Close(s)

BeatStep(s) == Wake(s) \/ Delivered(s)

Next ==
  \/ \E u \in waiting : Grant(u)
  \/ \E r \in Requests : RequestStep(r) \/ Leave(r) \/ Raise(r)
  \/ \E a \in Planners : PlanStep(a)
  \/ \E s \in Sockets :
       SocketStep(s) \/ BeatStep(s) \/ HangUp(s) \/ HeartbeatCloses(s)

Spec == Init /\ [][Next]_vars

\* Coroutines go on when they can.  Waiters of the pool are served in turn,
\* but a newcomer can slip in when a connection comes free.  Nothing makes a
\* request arrive, a client come, write or go, or a heartbeat wake.
Fairness ==
  /\ SF_vars(\E u \in waiting : u[1] \in Requests /\ Grant(u))
  /\ \A s \in Sockets :
       SF_vars(\E u \in waiting : u[1] = s /\ u[2] # "beat" /\ Grant(u))
  /\ \A a \in Actors :
       WF_vars(\/ pc[a] # "idle" /\ RequestStep(a)
               \/ a \in Planners /\ PlanStep(a)
               \/ a \in Sockets /\ pc[a] \notin {"idle", "loop"} /\ SocketStep(a)
               \/ a \in Sockets /\ Disconnected(a))
  /\ \A s \in Sockets : WF_vars(Delivered(s))

FairSpec == Spec /\ Fairness

-----------------------------------------------------------------------------
(* Properties *)

\* The holder of u waits for another connection before it gives u back.
Blocked(u) ==
  /\ u[2] \in {"base", "own"}
  /\ \E w \in waiting : w[1] = u[1] /\ w[2] # "beat"

\* Every connection is held by somebody who waits for another.
Standstill ==
  /\ waiting # {}
  /\ Cardinality(held) = PoolSize
  /\ \A u \in held : Blocked(u)

\* Calls cannot wait for each other in a circle as long as the pool has one
\* connection more than the calls in progress keep while they take another: two
\* for each chat stream, one for every other turn.
NoStandstillInALargePool == Cardinality(Anchors) < PoolSize => ~Standstill

\* src/server/app/db.py:187: get_db reuses the connection of the request "so a
\* request does not consume two pool slots", and the fixed request shape of
\* tests/test_connection_pool_incident.py survives as many requests at once as
\* the pool has connections.
SurvivesAFullPool == Cardinality(Requests) <= PoolSize => ~Standstill

\* Whatever way a call ends (an answer, a client that goes in the middle of a
\* stream, a socket closed by either side while the heartbeat is at work), it
\* neither keeps a connection nor stands in line for one.
NothingLeftBehind ==
  \A a \in Actors : pc[a] = "done" => \A u \in waiting \cup held : u[1] # a

\* A socket that has ended is forgotten, unless its heartbeat had failed to
\* close it because the client had gone already.
GhostsComeOfFailedCloses ==
  \A s \in registry : pc[s] = "done" => beat[s] = "broken" /\ s \in gone

\* In a pool that is large enough every request is answered or ends with its
\* client, and a socket whose client has gone ends, also from the middle of a
\* turn, however calls compete and heartbeats keep coming.
EveryCallEnds ==
  []<>(/\ \A r \in Requests : pc[r] \in {"idle", "done"}
       /\ \A s \in gone : pc[s] = "done")
=============================================================================
