# Models of the personality machine server

This directory holds TLA+ models of the server of the personality machine (`src/server/app`), the
TLC configurations that check them on small instances, and proofs checked by TLAPS. The models are
translated from the code; where the code and a comment or document of the repository disagree, the
model follows the code, and a run shows the disagreement (the runs marked *violation* below).

## 1. Inventory

The server is one FastAPI application on Postgres (asyncpg, autocommit unless a transaction is
opened), with work that leaves the process for Modal functions (behaviors, ingestion,
summarization), and clients that speak HTTP, SSE and WebSocket.

| Component | State | Operations | Interacts with | What is hard |
|---|---|---|---|---|
| Message log and turns (`services/message_processor.py`, `routers/v2/websockets.py`, `routers/v2/messages.py`, migration 0047) | `messages` rows with a per-relationship `seq`, `relationships.message_count`, the intro mark | number, save user row, ack, generate, save reply, count, final event; intro message; replay from `since_seq`; reset and clear | every other writer of the log, the sockets, the LLM | numbers taken without a reservation, events out of the order of the numbers, sockets that die in mid-turn, rows that are removed under turns, handshakes and cursors |
| Proactive message delivery (`websockets.py`, `routers/v2/inbox.py`, `context/post_turn_executor.py`) | `messages.delivery_status`, the registry of connections | insert, broadcast, connect and heartbeat passes, replay, inbox, acknowledge | log, sockets | four deliverers race over rows without locks |
| Behavior jobs (`repositories/job_repository.py`, `context/modal_behavior_executor.py`) | `jobs` rows | enqueue, claim, execute, effects, complete, fail, cancel | turns, relationships, Modal | overlapping pollers, crashes between claim and end, effects without a transaction |
| Triggers (`modal_behavior_executor.py`: cron and idle) | the cron marker job, created jobs, the time | check marker, insert marker, evaluate cron, evaluate idle | behavior jobs | check-then-insert deduplication in windows of seconds |
| Sessions (`repositories/session_repository.py`, `routers/v2/sessions.py`, migration 0048) | `v2_sessions` rows: status, isolated, state, summary | create, list, end (with an LLM summary), patch state | turns, messages | a trigger that looks for another active session without a lock; an end that awaits an LLM between read and write |
| State and its cache (`repositories/user_state_repository.py`, `services/cache_manager.py`) | the profile of a relationship, an in-process cache of it with a time to live | hydrate, get, set, invalidate, expire | turns, behaviors, every process of the server | entries set after an invalidation; writers in processes that cannot invalidate |
| Summaries (`services/message_processor.py`, `modals/workers/summarize_conversation.py`, `repositories/summary_repository.py`) | `relationship_summaries` versions, `messages_since_summary` and the like | trigger by count, worker reads, LLM, insert version | turns, Modal | stale counts, duplicate dispatches, versions that collide |
| Memory v2 (`modals/workers/memory_v2_ingest.py`, `repositories/memory_v2_repository.py`) | scratchpad entries of a relationship | ingest: read entries, ask the LLM, apply add/update/delete | turns, Modal, the memory API | two ingestions of one relationship at once |
| WebSocket connection (`routers/v2/websockets.py`) | connection state, pending turn, heartbeat, token expiry | authenticate, receive loop, cancel, refresh, heartbeat, cleanup | turns, registry | the receive loop awaits the turn it should be able to cancel |
| Database connections (`database/middleware.py`, `db.py`) | the pool's connections, one per request | acquire, nested acquire, release with the last chunk | every request | a pool of twelve and requests that hold one while they wait for another |
| Relationships (`repositories/relationship_repository.py`, `routers/v2/relationships.py`) | profile with a version, context mode, counters | get or create, replace, merge, clear, set and delete a path, lock mode | turns, behaviors | two statements for one path, writers that do not bump the version, a race at creation |
| Knowledge ingestion (`services/knowledge_service.py`, `repositories/project.py`) | knowledge jobs and assets | create, dispatch, status changes | Modal, OpenAI vector stores | failures between the steps |
| Companion sharing (`repositories/share.py`, `routers/public_companions.py`) | shares, visitor tokens, message allowances | create share, admit visitor, consume | v1 chat | counters at their limit |
| CLI authorization (`routers/oauth_cli.py`) | authorization codes | create, exchange | auth | single use of a code |
| Phone calls (`routers/voice/twilio.py`, `routers/api.py`, `routers/dialogmachine.py`) | `_pending_calls`, `_call_auth_tokens`, `_call_status` in memory, `twilio_calls` rows | dial, webhook, status callbacks, stream, end | Twilio, the voice pipeline, turns | callbacks that are late, lost or crossed, restarts that empty the dictionaries, tasks that write in any order |
| Voice (`routers/voice/`) | voice connections, shared workspace | connect, pipelines, hot context | turns, S3, an external framework | lost updates of a shared file |
| v1 conversations and client API (`routers/client_api.py`, `routers/conversations.py`, `repositories/conversation_repository.py`, `services/context_builder.py`) | conversations, messages, two caches of the messages for thirty seconds | turns by dashboard, share and client API, lists | memory v1, context engine | caches that are appended to after a look at their last row, SELECTs stored late |
| Context engine (`context/orchestrator.py`, `context/*`) | none between calls | build the prompt of a turn from layers | state loaders, LLM | timeouts of layers that run in parallel |
| DialogMachine, analytics, tools, labelling, testing routers | settings and reports | dashboards | database | request-local |
| Clients (`web/`, `sdk/`, `client/`, `packages/pip-emotion-machine/`) | cursor, message lists, reconnect timers | send, follow, reconnect | WebSocket, SSE | resume and duplicates |


For each component, what makes it correct:

- *Message log*: a row is never renumbered; later writers number higher; one intro; every cursor a
  client may hold names a row; counts trail rows; rows leave by resets and clears alone, and what
  these break of the rest is known; every connection gets through its handshake.
- *Proactive delivery*: what is settled is not delivered again, nothing is lost without a failure,
  an acknowledgement is not overwritten by a deliverer that comes later, pending rows get out.
- *Behavior jobs*: no effect twice, effects in order, a cancelled job stays cancelled, every job
  ends when nothing crashes.
- *Sessions*: one active session but for a race of two INSERTs, an end takes effect and is for
  good, a sealed session's messages stay in it.
- *Triggers*: one job for one fire of a schedule and one for one silence; no fire missed.
- *Summaries*: what counts as summarized is in the summary, a prompt lacks nothing that was said
  before its count, and no version knows less than the one before it.
- *State cache and relationships*: a turn sees what its process wrote, no copy outlives its time to
  live, and no writer of a path loses a neighbour's.
- *v1 conversations*: a prompt repeats nothing, keeps the order, and lacks nothing recent.
- *Database connections*: every call that waits for a connection gets one, and leaves none behind.
- *WebSocket connection*: one turn at a time; a socket that is over leaves the registry.
- *Phone calls*: an answered call is served, its row says what happened last, its pipeline ends once,
  and nothing of it stays in memory.

`PROJECT.json` lists the hazards of each at their lines, with the properties that cover them.

## 2. Modules

| Module | Models | Proofs in |
|---|---|---|
| `TurnLog` | the message log: turns, proactive writers, intro, replay, client cursor, resets and clears | `TurnLogProofs` |
| `ProactiveDelivery` | the ways a proactive message reaches the user | `ProactiveDeliveryProofs` |
| `Outbox` | abstract: what delivery promises; `ProactiveDelivery` implements it | `ProactiveDeliveryProofs` |
| `BehaviorJobs` | queue, pollers, containers, cancellation | `BehaviorJobsProofs` |
| `Sessions` | sessions of a relationship and the turns inside and outside of them | `SessionsProofs` |
| `Triggers` | cron and idle triggers, which create jobs by the clock | `BehaviorJobsProofs` |
| `Summaries` | incremental summaries, by turns, by hand, and resets | `RelationshipProofs` |
| `Connections` | the pool of database connections and all that take from it | `ConnectionsProofs` |
| `Calls` | phone calls, their callbacks, streams and rows | `CallsProofs` |
| `Profile` | the profile of a relationship, its writers and its cache | `RelationshipProofs` |
| `History` | the messages of a first-generation conversation and two caches of them | `HistoryProofs` |

`MC...` modules give each of them sets and bounds for TLC; the `.cfg` files name the properties.
Each `...Proofs` module extends the module it is about and TLAPS; two extend a pair:
`BehaviorJobsProofs` is about the jobs and the triggers that insert them, `RelationshipProofs` about
the profile and the summaries of a relationship. To be extended together, `Summaries` and `Triggers`
name their specifications after themselves (`SummariesSpec`, `TriggersNext`, and so on). The modules
are kept apart where their components share only a row or a call: what a trigger inserts is a job of
`BehaviorJobs`, the numbers of `Summaries` are those of `TurnLog`, what `Sessions` leaves in the
profile is a write of `Profile`, and the sockets of `ProactiveDelivery` hold the connections of
`Connections`.

Throughout, one action is one SQL statement with what its coroutine does up to its next `await`:
the server runs statements in autocommit mode, so other tasks and processes see the effect of a
statement as soon as it has returned, and run between any two. A statement is atomic, and a row that
it updates is the row as it is then (READ COMMITTED). The few transactions that span statements are
modelled by the locks they hold. Ids are model values; texts, names and JSON are left out unless a
property tells them apart.

Definitions that a comment calls *slips* are no part of any specification: each is a way the code
next to it might plausibly be wrong (a dropped guard, a lock left out), kept to show that the
properties notice.

### 2.1 `TurnLog`

| State | Code |
|---|---|
| `seqOf` | `messages.seq` of every row, 0 while it is not there. Rows are named by who writes them: `User(t)`, `Reply(t)`, `Push(p)`, `Intro(s)` |
| `messageCount`, `introMark` | `relationships.message_count`, the intro key in `relationships.metadata` |
| `turnPc`, `userSeq`, `turnSocket` | a call of `TurnProcessor.process_turn_streaming` or `process_turn_non_streaming`; `TurnState.user_seq` |
| `pushPc`, `pushSeq` | a call of `_send_proactive_message`, or the same two statements in the behavior executor |
| `socketPc`, `introSeq`, `since`, `backlog` | the coroutine `websocket_connect` up to its receive loop; `backlog` holds the events it has selected and not yet sent |
| `resetting`, `doomed` | the transaction of `_reset_relationship_runtime_state` and the rows its DELETE has seen |
| `open`, `wire` | the transport and what it holds that the client has not read |
| `cursor` | a client's `since_seq`. `WebClients` keep the largest (`useRelationshipChat.ts`), the others the last (`websocket.py` of the Python package) |
| `prior` | history: the rows in the table when a writer took its number |
| `removed`, `crossed` | history: the rows that were removed, with their numbers; the writers of whose work a removal took a part and left a part |

`BeginTurn` is `get_next_seq`: the advisory lock of `next_relationship_message_seq` lives as long as
the statement's transaction, that is to the end of the statement; only the intro's transaction keeps
it (`SeqLockFree`). `SaveUser`, `EmitAck`, `Generate`, `SaveReply`, `FinalizeTurn`, `EmitMessage`
follow in the code's order; `FailTurn` is any exception, `DropTurn` an emit that raises on a dead
socket. `IntroGate`, `LockForIntro`, `NumberIntro`, `CommitIntro`, `RollbackIntro` are the intro's
transaction. Its gate locks the relationship's row when `send_once_per_relationship` is set
(`RelationshipRowFree`) and is a statement in two steps, because it may wait for that lock: then the
mark is checked again on the locked row, but the NOT EXISTS over the messages is not. `FinalizeTurn`
updates the same row and waits for it. `StartReplay`, `SendReplayed`, `EndReplay` are the check of
`since_seq`, which is folded into the SELECT after it, and `_replay_events`.

Rows leave the table in two ways, and nobody who is at work is told. `ResetDelete` and `ResetCommit`
are `_reset_relationship_runtime_state` (`api.py:64`): a transaction that deletes the messages it
sees, then zeroes `message_count` and drops the intro mark; `RollbackReset` is its failure. Rows that
are inserted between DELETE and COMMIT stay. `ClearMessages` is the token of a voice session with
`clear_messages` (`voice/v2.py:292`), one autocommitted DELETE that leaves count and mark as they are.
After either the next number is 1 again.

Left out: the context and the LLM (one step, `Generate`), deltas and status events (they carry no
number), a second reset that waits for the first, and the deletion of the whole relationship
(`RelationshipRepository.delete`), after which its other writers fail. `HttpTurn` stands for the
streamed (SSE) and the plain HTTP turn, which write alike; the turn of the instance that TLC checks
comes by either way.

Resets are modelled here, in `Summaries` and in `Profile`. `ProactiveDelivery` and `Sessions` leave
them out: what they say is about messages, and sessions, that no reset has removed.

### 2.2 `ProactiveDelivery` and `Outbox`

`status` is `messages.delivery_status`; `batch` and `marked` are a pass of
`_deliver_pending_proactive_messages`, which a connection runs once when it connects (`greet`) and
its heartbeat again and again (`beat`): it selects ten rows and then, for each, marks and sends.
`pushing`, `targets` and `reached` are the broadcast of the turn that made the message: send to all,
then mark if one send succeeded. `backlog` and `owed` are the replay: send all, then mark those that
were pending. `request` and `picked` are `GET .../inbox`: select, mark all, respond. `Acknowledge` is
`POST .../inbox/ack`. `socket` tells a dead transport from one that has left the registry.
Messages of `Background` are inserted by the behavior executor, in a process without sockets, so
nobody broadcasts them. `handed` counts what reached the user by each carrier.

`Outbox` says what all of this amounts to: a message waits, is taken, is settled; it is handed over
while it waits or by those who took it, and a settled one is sent again only on a connection that
asked for a replay. The refinement mapping computes a message's stage from its status and from
whether any deliverer has it in hand.

### 2.3 `BehaviorJobs`

`status`, `due` and `created` are the columns of `jobs`; `batch` the rows that a call of
`poll_behavior_jobs` has claimed (`UPDATE ... FOR UPDATE SKIP LOCKED`, by priority and age) and has
not heard of; `pc`, `job`, `caller`, `step` a container of `BehaviorExecutor` with `execute_job`
under way. Pollers are started every ten seconds and may run for minutes, so several overlap.
`PollerDies` and `ContainerDies` are the platform's timeouts and losses: nothing is written then, and
a job that was claimed stays `running`: `Abandoned`, in no batch and no container, is what `JobsEnd`
excepts. `CallByHand` is `execute_behavior_job`. `FindActive` and
`CancelFound` are the two statements of a cancelling schedule effect. `KeyInColumn` and `KeyInParams`
say where a job of each kind carries its behavior's key; the executor looks in one place, the
cancellation in the other. Left out: what effects do, retries of HTTP calls, `reclaim_stuck_jobs`
(called by nobody).

### 2.4 `Sessions`

`status`, `state`, `summary` are a row of `v2_sessions`, with `checked`, `inserted` and `refused`
for a `create_session` on its way; `Insert` runs the trigger `check_single_active_session`, which
sees committed rows only, and `Commit` makes the row visible. `EndStart` and `EndUpdate` are
`end_session` before and after its LLM; `PatchCheck` and `PatchUpdate` are `patch_session_state`. A
turn is accepted over HTTP (the session must be active, `isolated` is looked up) or over the
WebSocket (neither), then saves, builds its context by one of the builders, replies, and applies
effects. `later` holds what it dispatched to other processes, the async behaviors and
`ingest_memory_v2`, and `left` the turns that changed the profile or the memory. A session with
`isolated = TRUE` is called sealed. `History` is `get_message_history`, and `BuildsSealed` who tells
it that the session is isolated: the turn, or, when the history was read for the intent classifier
(`orchestrator.py:446`) and is then used for the prompt, nobody, so that it looks the session up. A
turn over the WebSocket in a sealed session is shown the open history without a classifier and its
own session's with one. Abstractions: the limits of the histories (100 and 200 messages) are not
reached; the fast builder is the session builder without effects; the row and the messages that an
end reads are read in one step; session effects of behaviors are never emitted, because no caller
gives a behavior its session (`context/modal_behavior_executor.py:606` passes an empty one).

### 2.5 `Triggers`

`run` is what a run of `poll_behavior_jobs` (in one of the containers `Runners`) has in hand while
it evaluates triggers, `marker` the newest `cron_check` row, `jobs` the rows that triggers have
inserted, `talk` the number and time of each relationship's last message. A run looks for a recent
marker (`Launch`), inserts its own (`Mark`), reads the links (`ReadLinks`), goes through the cron
triggers one by one (`FireCompanion`, `FireRelation`), scans for silent relationships (`StartIdle`,
`ScanSilences`) and nudges them one by one (`Nudge`), until `Finish`. An INSERT that fails
(`FailOnce`: once in a behavior) ends the loop it is in; `Die` is a container that is lost or killed
after its timeout. `Tick` passes time: Modal starts a run every `Period`, exactly if the schedule is
`steady`, else up to `Jitter` late, and kills it after `Timeout`. `Hear` is a message. Time is
counted in ticks, of which five seconds would make every limit of the code a whole number. Cron
expressions are the set of times they stand for (`DueTimes`); time zones and the parser are left
out.

### 2.6 `Summaries`

`seqOf`, `messageCount`, `lastSummarized` and `summaries` are columns and rows, `snap` the
relationship as a turn or request has read it, `jobs` the spawned calls of `summarize_relationship`.
A turn takes its number (`TakeNumber`), saves (`SaveUser`), reads the relationship again
(`RefreshRelationship`), answers and counts (`SaveReply`, `FinalizeTurn`), looks for the latest
version (`Look`) and spawns a job if its stale count has crossed the threshold (`Spawn`); `Ask` is
the endpoint that does so by hand. `Land` is the worker's transaction after the LLM has answered,
`Lose` a job that fails or a version that was taken. `ResetRelationship` is the reset of a test
user. A summary stands for the set of messages whose text the LLM was shown, its predecessor's
included; what the LLM makes of them is left out.

### 2.7 `Connections`

`held` are the uses of connections, `waiting` the uses that wait in `pool.acquire()`: `Base` is the
one that `DatabaseSessionMiddleware` takes for a request, `Own` that of a handler, a socket's step
or a chat, `Beat` that of a heartbeat, and each layer of a context plan takes one. `pc` follows a
call of one of five shapes: a plain request, a turn over HTTP, a turn as a stream, a chat stream, a
socket. `Abandon`, `Leave` and `HangUp` are clients that go; `Close` is the cleanup of a socket,
which cancels the heartbeat; `HeartbeatCloses` is a heartbeat that finds its socket idle or
connected for too long, or its token expired. `registry` is the registry of connections. `Raise` is
a request that ends with an exception (a 404, a plan or an LLM that fails) before the end of its
answer; a socket's turn that fails goes back to the receive loop (`EndTurn`). Left out: the order in
which asyncpg serves those who wait (any order, with the fairness below), inactive connections that
the pool closes, statements.

### 2.8 `Calls`

`pending`, `tokens` and `status` are the dictionaries of `twilio.py`, `row` the status in
`twilio_calls`, `tasks` the events whose persistence is scheduled. `DialOut`, `DashboardDial` and
`DialogmachineDial` are the three endpoints that dial, `DialFails` an answer of Twilio that does not
come back, `Inbound` the webhook of an incoming call, `GetTwiml` the one of an answered call,
`StatusCallback` the callbacks. `Start`, `Resolve`, `Load` and `EndSession` are the stream's
coroutine; `RequestEnd`, `Say` and `Saved` the model's request to hang up and the transcript that is
saved meanwhile. `Upsert`, `Record` and `WriteFails` are the two statements of an event, and
`Restart` empties the dictionaries. `line`, `served`, `starts` and `post` are Twilio's side:
`Advance`, `HangUp`, `LoseCallback`, `OpenStream`. Two of the five final statuses stand for all.
Twilio is external; what the code relies on is that it signs with the token of the account that
dialled, asks for TwiML after the call has been answered, and reports statuses in any order.

### 2.9 `Profile`

`profile` maps keys and the leaves below them to who wrote them last; `cache` is the namespace
`repo:user_state` of each process. A turn of the first generation or of voice hydrates through the
cache (`Hit`, or `Miss`, `Fetch`, `Store`, with `FailToHydrate`); a v2 text turn reads the row
(`Refresh`). `SetProfile`, `PatchProfile` and `ClearProfile` are the profile API and the effects of
turns, each followed by `Invalidate` in its own process (`InvalidateAnother` is a slip of it);
`Reset` does not invalidate. `EnsureParent` and `SetLeaf` are the statements by which a behavior
sets a path, `DeleteLeaf` the one by which it deletes it. Paths have two parts, and a parent that is
not there becomes an object; a parent that is a scalar or null, under which `jsonb_set` changes
nothing (`modal_behavior_executor.py:777`), is not told from an object. A copy knows which `edition`
of the row it is, and whether a write of its process came between its SELECT and the cache
(`raced`). Left out: the legacy memory block, the cache of layers.

### 2.10 `History`

`log` is the table, `repo` and `history` the two caches of each process (namespaces `repo:history`
and `history`). A turn saves its message (`SaveUser`), notes it in the repository's cache
(`NoteUser`), is given its history from a cache (`ReadHistory`, `ReadRepo`) or after a SELECT
(`Select`, `StoreForTurn`), saves and notes its reply (`SaveReply`, `NoteReply`), and, if it came by
the dashboard or a share, updates the other cache (`PostTurn`). `Fail` may end it before that;
`StoreForReader` is a coroutine that lists the messages. `Tick` ages the entries. Left out: lines
of voice sessions (`db.py:242`, inserted past the caches), the endpoint that seeds a conversation
(it drops one of the two entries), a connection that is lost between commit and answer. The message of
the turn itself is looked for, and appended if it is missing, after the connection of the SELECT has
been released (`conversations.py:1280-1285`); the model does this with the read. It matters only
when another coroutine works in between, an overlap that the properties except or tolerate. The update
after a shared turn runs in a thread; its read and its write of the cache are one step here.

## 3. Runs

| Run | What it asks | Properties | Distinct states |
|---|---|---|---|
| `turnlog` | One turn over HTTP or a socket, a proactive message, a device that connects twice or reconnects, a reset or a clear | `CursorNamesARow`, `LaterWritersNumberHigher`, `OneIntro`, `CountTrailsRows`, `ConnectionsGetReady` | 1.26 million |
| `delivery` | A broadcast message and one that a background job leaves pending; passes and an inbox request of one row each, a connection that resumes, deaths, expiry, acknowledgements | `LossNeedsAFailure`, `ImplementsOutbox`, `AcknowledgementsSettle`, `PendingGetsOut` | 977 000 |
| `jobs` | Two pollers that overlap, two containers, cancellation, executions by hand, deaths at any point | `EffectsOnce`, `EffectsInOrder`, `CancelledNeverRuns`, `JobsEnd` | 623 000 |
| `sessions` | Two sessions, one sealed, two turns, an end and a patch in any order | `OnlyRacingInserts`, `HistoryStaysInside`, `EndReturnsEnded`, `EndedForGood` | 1.46 million |
| `profile` | Two turns, a request that writes the profile, two behaviors that write neighbouring paths | `OwnWritesShow`, `OldProfilesFade`, `LeavesSurvive` | 2.2 million |
| `triggers` | Two pollers, a cron time with two links that reach one relationship, idle triggers, messages | `FiresOnceWhenSteady`, `FewDuplicates`, `NudgesApart`, `SilenceGetsNudge` | 2.3 million |
| `summaries` | Two turns on two devices, a proactive message, a request by hand, a reset | `SummarizedIsKnown`, `PromptMissesOnlyUncounted`, `KnowledgeGrows` | 2.0 million |
| `connections` | A plain request, a stream, a chat and a socket in a pool one larger than what they keep | `NoStandstillInALargePool`, `NothingLeftBehind`, `GhostsComeOfFailedCloses`, `EveryCallEnds` | 117 000 |
| `connections_full` | *violation*: two turns and a pool of two | `SurvivesAFullPool` | |
| `calls` | One call of any kind and account, callbacks late, lost and out of order, a restart at any point | `LeftoversAreKnown`, `KnownCallsAreServed`, `RowIsTheLatest`, `EndFrameOnce`, `TheEndIsKept`, `SessionsEnd` | 440 000 |
| `history` | Three turns and a reader, two at a time, one of which may fail | `ReposKeepUp`, `RecentTurnsAreRemembered`, `DisorderNeedsOverlap` | 1.27 million |
| `history_full` | *violation*: three turns one after the other, an entry that ends in time | `FullHistory` | |

A property that a run passes holds of every state or behavior of that instance. Every property has
one mutated definition in `PROJECT.json` under which the same run finds it violated, so that none
holds of anything whatever.

### Bounds

Writers, connections, requests and jobs take part once, so the sets of a configuration are most of
its bounds. The properties are about pairs (two writers of one number, two pollers of one job, two
INSERTs, a deliverer between another's two statements), and the sets are as small as keeps every such
pair together with the failure that makes it interesting.

- `turnlog`: one turn, one proactive message and the intro are three writers of numbers, and two
  connections of one client are what resuming and the intro's gate need. One reset or clear
  (`MaxRemovals`) may come at any point. `MCTurnLog!MCSpec` bounds the instance further: the second
  connection, the proactive message and the removal meet in pairs, each pair together with the turn,
  never all three; no property relates all three, and the proofs have no such bound.
- `delivery`: one socket that resumes, one inbox request, limits of one row (ten in the code), so
  that two messages exceed them.
- `jobs`: batches of two (five in the code) and two effects, so that a death may come between two
  effects of one job and between two jobs of one batch.
- `sessions`: one end and one patch; that any number of both leave an ended row alone is proved.
- `profile`: a time to live of two ticks, a fetch of one, four ticks: an entry may be stored late,
  expire, and be stored again.
- `triggers`: `Period` 2, `MarkerGap` 5, `Window` 6, `IdleAfter` 6, `Timeout` 2, `Jitter` 1 and 14
  ticks keep the order of the code's limits (10, 55, 60 seconds, minutes, 300 seconds, some), not
  their size.
- `summaries`: a threshold of two messages, so that each turn crosses it, and one reset.
- `connections`: one call of each shape that may be cut short, and a pool of five, one more than the
  four connections they may keep while they wait. In `connections_full` two turns suffice.
- `calls`: one call, since nothing ties two together; two webhook requests, one restart, two lines.
- `history`: a time to live of one tick, so that any step may lie beyond it; two coroutines at once.

Turns, pollers and the like are symmetric in runs without liveness. Deadlock is not checked, because
everything that takes part may be done.

### Fairness

Liveness is asked of four runs and assumes no more than this. No arrival, no failure, no client's
step and no waking of a heartbeat is fair unless it is named.

- `turnlog`: weak fairness of each connection's handshake (`GreetStep`): a coroutine of an event loop
  that runs every task that can go on. Turns and pushes need not go on for it, and no transaction need
  be rolled back (`RollbackIntro` is not part of it).
- `delivery`: weak fairness of the heartbeat's pass of each connection, which recurs as long as it is
  registered.
- `jobs`: `run_at` comes; some poller claims when there is something to claim (the platform starts
  one every ten seconds), weakly; a poller's call finds a container again and again free, so its
  fairness is strong; a container's code runs to its end or the container dies. `JobsEnd` excepts
  `Abandoned` jobs: nothing calls `reclaim_stuck_jobs`.
- `connections`: strong fairness of grants, for requests as a group and for each socket: asyncpg
  serves those who wait in turn, but the pool may be full in between. Weak fairness of what a
  coroutine does with its connections, and of the end of a heartbeat's delivery.
- `calls`: weak fairness of scheduled tasks and of the stream's own coroutine.

## 4. Theorems

All hold for any sets of turns, sockets, jobs, sessions, processes and so on, and for any limits and
times to live, not only for those of the runs. They assume what the modules' ASSUMEs say (disjoint
names, positive limits, finite sets where something is counted), and TLC evaluates these in every run
of the module. Three theorems about `Triggers` have hypotheses of their own, named below, about how
the code's limits relate. TLC has checked the inductive invariants on small instances before they
were proved.

- `TurnLogProofs`: `Invariance` (`IInv`), from which `TypeCorrect`, `LaterWriters`, `CursorsResume`
  and `GreetedOnce`; `RowsLeave`; `CountsAnsweredTurns`. They hold with any number of resets and
  clears at any point, and say what these break: a cursor names a row or one that was removed, which
  is the only way for a client to get `invalid_seq`; count and mark are wrong only by writers in
  `crossed`, those that a removal found at work or whose rows it left or took. `RowsLeave` is an
  action property without a run of its own: no row is renumbered, and one leaves only with the commit
  of a reset whose DELETE has seen it or with a clear. That a writer numbers its row above everything
  it saw is not inductive. It is said of the `Log`, the rows and the removed ones, since what a writer
  saw may be gone, and `IInv` adds the number each writer holds between its two statements
  (`TurnNumbers`, `PushNumbers`, `IntroNumbers`), that every event on a wire is of the `Log`
  (`EventsNameRows`), and that at most one connection is inside the intro's gate while its mark is
  missing (`IntroGateInv`). That the count trails the rows is a statement about cardinalities; its
  invariant, `CountInv`, gives the set of turns that have been counted, whose members have both rows
  or were crossed, so that a step adds one member and two to the count, or neither.
- `ProactiveDeliveryProofs`: `TypeCorrect`; `DeliveryImplementsOutbox`, the refinement, from
  `Inserted` (what is in a deliverer's list has been inserted, only a running push has targets, what
  an inbox request is about to answer with is marked, only resuming connections have rows to
  replay): each step is an `Advance`, a `HandOver`, a `Post`, a `Resend` or a stutter;
  `AcknowledgementsStand`, an action property, by cases over the statements that write the status;
  `NoLossWithoutFailure`, whose invariant (`LossInv`) adds that connections with a pass are connected,
  and follows each delivered message to those who have it in hand.
- `BehaviorJobsProofs`: `Invariance` (`IInv`), with `PolledOnce`, `CancelIsSafe` and `TypeCorrect`.
  `Places` follows each job from the claim to at most one poller and at most one container,
  `NotClaimed`, `NotCalled` and `UnderWay` say how many of its effects are applied at each place.
  `InOrder` adds that what a job has applied is a prefix of its effects, which follows one by one from
  how far the container that has it has come.
- `SessionsProofs`: `InductiveInvariant` (`IInv`), with `TwoActiveOnlyByRace`, `EndsTakeEffect`,
  `SealedHistory`, and the action property `EndedRowsStay`. `Rivals` says that of two sessions in
  flight or active each is known to the other as a rival; `ContextOfLog` and `LogOfStarted` that a
  prompt is made of rows whose session was fixed before.
- `BehaviorJobsProofs`, of `Triggers`: three invariants, because its properties have three kinds of
  hypotheses.
  - `TriggersInvariance` (`TalkInv`), with `TriggersTypeCorrect` and `NudgesStayApart`, assumes
    nothing: a run may be late, overtaken, or die. `Scanned` says that the jobs made for the earlier
    messages of a silence in hand lie more than `IdleAfter` back; a message that comes between scan
    and job does not change this. `Apart` is the property without its exception of
    evaluations that overlap. The exception stays in the property because the model makes the look
    for an idle job and its INSERT one step: a message in between changes neither of them, but
    another evaluation's INSERT would.
  - `DuplicatesStayFew` (`MarkInv`) assumes `TimesInOrder`: a window is at most two gaps between
    markers (60 and 55 seconds in the code, `modal_behavior_executor.py:1066` and 1186). `Counted`
    says how long before the latest marker a time with one, two or three jobs was, and of a run that
    still has the link before it, one more gap: the third job needs a third marker.
  - `FiresOnce` (`CronInv`) and `SilenceAnswered` (`IdleInv`) are about an exact schedule and assume
    `ScheduleFits`: runs start every `Period`, a `Window` is a multiple of it and longer, and less
    than a `Period` longer than `MarkerGap` (10, 60, 55). From this follows what the code counts on
    without saying it, `Timely`: the run that sets a marker is a window after the one before, and an
    evaluation ends before the next begins. `CronTimes` and `CronApart` say that the jobs of a time
    were made in its window and by one evaluation, `CronFired` and `CronKept` that what an
    evaluation is done with is there; `IdleMade` the same of silences. `FiresOnce` also assumes
    `TimesFit`: the times of one behavior's links are the same or a window apart, as those of
    five-field cron expressions are, which are whole minutes. Relationships are finitely many. Other
    proportions would not do: with a `Window` of `MarkerGap + Period` or more a run in between would
    set the marker, and with one that is no multiple of `Period` times are missed or fire twice. The
    instance that TLC checks (2, 6, 5) satisfies all three, so that none is empty.
- `RelationshipProofs`, of `Profile`: `TypeCorrect`; `WritesShow` from `ShowInv` (a cached or
  fetched copy is as new as every write shown to its process, or it was overtaken); `ProfilesFade`
  from `AgeInv` (an entry ends a time to live after it was stored, at most a fetch after its
  SELECT); `LeavesStay` from `LeavesInv` (a parent that was made is still an object, unless its key
  was overtaken).
- `RelationshipProofs`, of `Summaries`: `SummariesInvariance` (`SInv`), with `SummariesTypeCorrect`,
  `SummarizedStaysKnown`, `PromptMissesNothingCounted` and the action property `KnowledgeOnlyGrows`.
  None of the properties is inductive. `Versioned` says that versions have no gap and that what a
  caller has looked up and a job is to extend is one of them: so a job whose version is taken fails,
  and one that lands knows its predecessor. `Numbering` says that as long as no two rows share a
  number they are numbered 1, 2, ..., and a writer that holds a number holds at most the next;
  `Counting` that the count is the number of rows of finalized turns and no snapshot is ahead of
  it. These make a range of counts lie below the rows there are, and `Summarizing` follows it from
  the mark of the relationship through snapshots and jobs: all rows up to it are in the version that
  its holder will extend. `Smoothly` is what `PromptMissesNothingCounted` needs: when turns and jobs
  come one at a time, every threshold that the count has crossed has been summarized, or is by
  the job or turn under way (`AllDue`); the rest is about cardinalities of ranges.
- `HistoryProofs`: `Invariance` (`IInv`) with `TypeCorrect`, `RepositoryKeepsUp` and
  `TurnsAreRemembered`. `FetchedKeepUp` says what a SELECT under way may miss, `HistoryKeepsUp` what
  the entry for text turns holds, `FreshLives` that it lives as long as the turns it must remember.
  `PromptsKeepTheOrder` has an invariant of its own, `OrderInv`: without an overlap there is one
  writer, its message is the last row, and every cached or fetched list is in the order of the log
  (`LastWriter`, `AllOrderly`); this is why a look at the last row suffices as a check for duplicates.
- `ConnectionsProofs`: `Invariance` (`IInv`) with `TypeCorrect`, `CallsLeaveNothing`,
  `GhostsAreExplained` and `LargePoolsGoOn`. `UsesFit` says which uses a call may have or wait for at
  each point, `Keeps` which it certainly has, `BeatsFit` the same of heartbeats. From these a holder
  that waits for another holds one of its anchors, so that a standstill needs as many anchors as the
  pool has connections; the rest is a fact about cardinalities.
- `CallsProofs`: `Invariance` (`IInv`) with `Leftovers`, `AnsweredCalls`, `RowsCatchUp`, `OneEndFrame`
  and the action property `EndsStay`. `TokensWait` says that a token waits for the last callback,
  `EntriesWait` that an entry waits for its stream, `OneInFlight` and `InFlightIsLatest` that without
  a crossing the one event in flight is the latest, `TokensGo` when a token is gone.

Only model-checked:

- the liveness properties (`ConnectionsGetReady`, `PendingGetsOut`, `JobsEnd`, `EveryCallEnds`,
  `SessionsEnd`), since ENABLED is beyond the provers used;
- the two properties of the runs marked *violation*, which are false: TLC shows the behavior.

Every other property of a run is a theorem. No module uses RECURSIVE operators, and no theorem needs
induction over data.

## 5. Where code and documents disagree

Shown by runs:

- `connections_full`: as many turns at once as the pool has connections wait for one another for
  good, although `db.py:187` says that a request does not consume two slots and
  `tests/test_connection_pool_incident.py:75` that the fixed request shape survives.
- `history_full`: "Return full conversation history" (`context_builder.py:34`) and "append ... into
  the cache if present" (`context_builder.py:51`): an entry that ends while a turn is under way
  becomes one of that turn alone. A user who writes 25 seconds after the last reply and waits six
  seconds for the next is enough.

Met while modelling, without a run of their own. In the message log and its delivery:

- `SeqIsUnique`: two writers at once take one `seq`, because the advisory lock ends with the
  statement that takes the number; migration 0047 says that the lock prevents it.
- A client that resumes misses durable messages whose numbers are below its cursor.
- After a reset the numbers begin again: a cursor from before gets `invalid_seq`, or, when enough new
  rows are there, names another row, and the resume skips the new rows below it. Open sockets are not
  told of a reset.
- A turn that a reset crosses adds two to a count that was just zeroed, and leaves a reply without
  its question. An intro that is committed between the reset's DELETE and its commit stays without
  its mark, and a gate that waits for the reset's lock decides by messages as they were before it.
  The clear of a voice token leaves count and mark behind.
- A row may be `delivered` that was never pushed: a pass marks before it sends (`websockets.py:705`),
  while migration 0047:43 calls it pushed. An acknowledged row may become `delivered` again
  (`inbox.py:141`), and what the inbox gave out is replayed to a client that resumes.
- A turn whose socket dies between ack and reply may be dropped with its answer unsaved, while the
  API reference (line 1189) promises the final message after a reconnect.
- `cancel` over the WebSocket is read only after the turn it is to cancel (`websockets.py:1089`;
  `API_V2_REFERENCE.md` 304-312 and 1204-1213).

In jobs and triggers:

- A job executed by hand leaves a status that migration 0034:102 calls terminal and takes another.
- A scheduled behavior's key is stored where the executor does not look
  (`post_turn_executor.py:333`): such a job always fails.
- A cancelling effect finds the newest job of the companion, whosever user it belongs to.
- A job whose poller died stays `running`: `reclaim_stuck_jobs` has no caller.
- Cron's duplicate check at companion level looks for jobs without a relationship, which are never
  made, and its window of 55 seconds is shorter than the firing window of 60.

In sessions, profile and summaries:

- A relationship can have two active sessions, by two INSERTs at once.
- Turns of isolated sessions reach memory and profile (`message_processor.py:774`;
  `API_V2_REFERENCE.md` 1383-1384), summaries include their messages, and when the layered context
  fails an isolated turn is shown the relationship's history.
- A turn over the WebSocket ignores that its session is ended or isolated; `end_session` does not
  clear the session's state, though migration 0048:28 says so.
- `NothingFromBefore`: a job that was under way stores a summary of what a reset has deleted, though
  the reset is there "to prevent stale leakage".
- `PATCH .../profile` is documented as a JSON merge patch (RFC 7396), but `||` merges the top level
  only.
- Resets (`api.py:60-134`, 2105-2111) leave the caches alone, and the reset of a voice test and the
  making of a behavior's parents do not count the version up.
- `MemoryV2Layer.invalidate_cache` has no callers.

In the first API generation and in calls:

- Messages of failed turns, of the client API, of voice and of other processes are missing from the
  context builder's cache until it ends; the comment of `client_api.py:802`, that the history
  includes the message just added, does not hold if a SELECT of another coroutine crossed it.
- A call that a dashboard dialled for a companion with an account of its own is refused its TwiML:
  only one of the three endpoints that dial leaves the token (`twilio.py:627-631`).
- A late callback overwrites `completed` in the row, an incoming call's row never becomes final, and
  a request to hang up that finds an earlier line being saved ends the call before the last one.
- The history of a phone call is the oldest fifty messages, of which the last twenty are used
  (`twilio.py` around 1188).
- Blocking turns with a shared companion never ingest memories: the coroutine that would is not
  awaited (`public_companions.py` 891, 919).

Hazards that the models reach in part only: a wait for a cancelled job, an intro without
`send_once_per_relationship`, the cancellation of another user's job, the limit of a hundred
relationships in an idle scan, a replay that does not look at `delivery_status`, two requests that
create one relationship.

## 6. Not modelled

- *Memory v2*: what an ingestion adds, updates and deletes is an LLM's answer about entries it was
  shown; two at once may add twice. That it runs is in `Sessions`.
- *Context engine*: keeps nothing between calls; one step of a turn.
- *Knowledge ingestion*: one request in sequence against an external vector store.
- *Companion sharing*: counters updated in one transaction under a row lock. A share is read and then
  inserted without a unique index, so that two first requests may create two.
- *CLI authorization*: one guarded UPDATE.
- *Voice* (other than phone calls): pipelines of an external framework and a file in object storage.
- *Dashboards and tools*: requests that stand alone.
- *Clients*: their cursor and resume are in `TurnLog`; timers and rendering are not.

## 7. What is left

1. The look for an idle job and its INSERT as two steps, to say how far evaluations that overlap
   nudge twice.
2. An abstract queue that `BehaviorJobs` implements, and a composition with `Triggers` through the
   jobs these create.
3. Memory v2 with operations on entries that are gone, and sharing with its allowances.
