------------------------------ MODULE Profile ------------------------------
(***************************************************************************)
(* The profile of one relationship: a JSON object in the relationships row *)
(* with three kinds of writers (the profile API and the effects of turns,  *)
(* resets, behaviors that run in other processes), and the turns that read *)
(* it, from the row or through a cache of their process with a             *)
(* time to live.                                                           *)
(*                                                                         *)
(* An action is one SQL statement and what its coroutine does up to its    *)
(* next await.  Time is counted in ticks, of which TTL make up the 30 s of *)
(* USER_STATE_CACHE_TTL_S.                                                 *)
(***************************************************************************)
EXTENDS Naturals

CONSTANTS
  Readers,     \* turns whose prompt or behaviors are given the profile
  Requests,    \* PUT, PATCH, DELETE and reset of the profile, and effects of turns
  Behaviors,   \* profile effects of behaviors that run in other processes
  Processes,   \* processes of the server, each with a cache
  ProcessOf,   \* the process of a turn or request
  Keys,        \* top-level keys of the profile
  Leaves,      \* the keys below them
  PathOf,      \* the path <<key, leaf>> that a request or a behavior writes
  TTL,         \* how long a cached profile lives
  FetchMax,    \* how long a coroutine may take to go on after its SELECT
  Horizon      \* the last tick

ASSUME ProcessAssumption == ProcessOf \in [Readers \cup Requests -> Processes]
ASSUME PathAssumption == PathOf \in [Requests \cup Behaviors -> Keys \X Leaves]
ASSUME TimeAssumption == TTL \in Nat \ {0} /\ FetchMax \in Nat /\ Horizon \in Nat

Writers == Requests \cup Behaviors

Nobody == <<"nobody">>
Missing == <<"missing">>

\* Below a key stands who wrote each leaf last.
Objects == [Leaves -> Writers \cup {Nobody}]
EmptyObject == [l \in Leaves |-> Nobody]
EmptyProfile == [k \in Keys |-> Missing]

ASSUME MissingAssumption == Missing \notin Objects

VARIABLES
  profile,           \* relationships.profile
  cache,             \* the namespace repo:user_state of each process's CacheManager
  turnPc, fetched,   \* a turn's progress, the row it has selected
  seen,              \* what a turn was given, and when
  requestPc,         \* a request's progress
  behaviorPc,        \* an effect's progress
  now,               \* the tick, from 1 on: 0 is always over
  \* History:
  edition,           \* how many statements have written the profile
  written,           \* the edition a request made
  shown,             \* the latest edition whose writer has invalidated the process's cache
  floor,             \* shown, when a turn began to read
  overtaken          \* behaviors whose key was written by others after they began

row == <<profile, edition>>
reader == <<turnPc, fetched, seen, floor>>
writer == <<requestPc, written, behaviorPc, overtaken>>
vars == <<row, cache, reader, writer, now, shown>>

\* What a SELECT returned: which edition of the profile, when, and whether a
\* request of the same process invalidated the cache before it was stored.
\* (The column version does not tell editions apart: two of the statements that
\* write the profile leave it alone, the one that makes the parents of a
\* behavior's leaf and the reset of a voice test.)
Copies == [edition : Nat, at : Nat, raced : BOOLEAN]
NoCopy == [edition |-> 0, at |-> 0, raced |-> FALSE]
TheRow == [edition |-> edition, at |-> now, raced |-> FALSE]

\* No entry, or one that has expired from the start.
NotCached == [copy |-> NoCopy, exp |-> 0]

TypeOK ==
  /\ profile \in [Keys -> Objects \cup {Missing}]
  /\ cache \in [Processes -> [copy : Copies, exp : Nat]]
  /\ turnPc \in [Readers -> {"idle", "select", "fetched", "read", "failed"}]
  /\ fetched \in [Readers -> Copies]
  /\ seen \in [Readers -> [copy : Copies, at : Nat]]
  /\ requestPc \in [Requests -> {"idle", "written", "done"}]
  /\ behaviorPc \in [Behaviors -> {"idle", "ensured", "set", "deleted"}]
  /\ now \in Nat
  /\ edition \in Nat
  /\ written \in [Requests -> Nat]
  /\ shown \in [Processes -> Nat]
  /\ floor \in [Readers -> Nat]
  /\ overtaken \subseteq Behaviors

Init ==
  /\ profile = EmptyProfile
  /\ cache = [p \in Processes |-> NotCached]
  /\ turnPc = [t \in Readers |-> "idle"]
  /\ fetched = [t \in Readers |-> NoCopy]
  /\ seen = [t \in Readers |-> [copy |-> NoCopy, at |-> 0]]
  /\ requestPc = [r \in Requests |-> "idle"]
  /\ behaviorPc = [b \in Behaviors |-> "idle"]
  /\ now = 1
  /\ edition = 0
  /\ written = [r \in Requests |-> 0]
  /\ shown = [p \in Processes |-> 0]
  /\ floor = [t \in Readers |-> 0]
  /\ overtaken = {}

-----------------------------------------------------------------------------
(* Reading *)

\* A slip: an entry is still returned in the tick in which it expires.
LiveToTheEnd(p) == now <= cache[p].exp

Live(p) == now < cache[p].exp

\* cache.get finds an entry: there is no await before the profile is returned.
Hit(t) ==
  LET p == ProcessOf[t] IN
  /\ turnPc[t] = "idle"
  /\ Live(p)
  /\ seen' = [seen EXCEPT ![t] = [copy |-> cache[p].copy, at |-> now]]
  /\ floor' = [floor EXCEPT ![t] = shown[p]]
  /\ turnPc' = [turnPc EXCEPT ![t] = "read"]
  /\ UNCHANGED <<row, cache, fetched, writer, now, shown>>

\* An entry that has expired is removed.
Miss(t) ==
  LET p == ProcessOf[t] IN
  /\ turnPc[t] = "idle"
  /\ ~Live(p)
  /\ cache' = [cache EXCEPT ![p] = NotCached]
  /\ floor' = [floor EXCEPT ![t] = shown[p]]
  /\ turnPc' = [turnPc EXCEPT ![t] = "select"]
  /\ UNCHANGED <<row, fetched, seen, writer, now, shown>>

\* The SELECT of get_user_state is executed.
Fetch(t) ==
  /\ turnPc[t] = "select"
  /\ fetched' = [fetched EXCEPT ![t] = TheRow]
  /\ turnPc' = [turnPc EXCEPT ![t] = "fetched"]
  /\ UNCHANGED <<row, cache, seen, floor, writer, now, shown>>

\* The coroutine goes on and caches what it has got, whatever happened since.
Store(t) ==
  /\ turnPc[t] = "fetched"
  /\ cache' = [cache EXCEPT ![ProcessOf[t]] =
       [copy |-> fetched[t], exp |-> now + TTL]]
  /\ seen' = [seen EXCEPT ![t] = [copy |-> fetched[t], at |-> now]]
  /\ fetched' = [fetched EXCEPT ![t] = NoCopy]
  /\ turnPc' = [turnPc EXCEPT ![t] = "read"]
  /\ UNCHANGED <<row, floor, writer, now, shown>>

\* Hydration that raises leaves the turn without a profile.
FailToHydrate(t) ==
  /\ turnPc[t] = "select"
  /\ turnPc' = [turnPc EXCEPT ![t] = "failed"]
  /\ UNCHANGED <<row, cache, fetched, seen, floor, writer, now, shown>>

\* A text turn of the second API reads the row right before it builds its prompt;
\* those of the first API and of voice are hydrated through the cache.
Refresh(t) ==
  /\ turnPc[t] = "idle"
  /\ seen' = [seen EXCEPT ![t] = [copy |-> TheRow, at |-> now]]
  /\ floor' = [floor EXCEPT ![t] = shown[ProcessOf[t]]]
  /\ turnPc' = [turnPc EXCEPT ![t] = "read"]
  /\ UNCHANGED <<row, cache, fetched, writer, now, shown>>

-----------------------------------------------------------------------------
(* Writing *)

\* An UPDATE of the row.
Put(new) ==
  /\ profile' = new
  /\ edition' = edition + 1

\* Who has begun to write below one of the keys is overtaken by another write
\* of the whole key.
Overtake(keys) ==
  overtaken' = overtaken \cup {b \in Behaviors : behaviorPc[b] # "idle" /\ PathOf[b][1] \in keys}

\* A profile, with an object at the key that a request writes which holds
\* nothing but what it writes.
With(new, r) ==
  [new EXCEPT ![PathOf[r][1]] = [EmptyObject EXCEPT ![PathOf[r][2]] = r]]

\* The UPDATE of a request has been executed.
Wrote(r) ==
  /\ requestPc[r] = "idle"
  /\ requestPc' = [requestPc EXCEPT ![r] = "written"]
  /\ written' = [written EXCEPT ![r] = edition + 1]
  /\ UNCHANGED <<cache, reader, behaviorPc, now, shown>>

\* profile || changes replaces the value of each top-level key of the changes
\* and leaves the other keys alone.
PatchProfile(r) ==
  /\ Wrote(r)
  /\ Put(With(profile, r))
  /\ Overtake({PathOf[r][1]})

SetProfile(r) ==
  /\ Wrote(r)
  /\ Put(With(EmptyProfile, r))
  /\ Overtake(Keys)

ClearProfile(r) ==
  /\ Wrote(r)
  /\ Put(EmptyProfile)
  /\ Overtake(Keys)

\* A slip: the key that is deleted is not the one under which the profile is
\* cached.
InvalidateAnother(r) ==
  LET p == ProcessOf[r] IN
  /\ requestPc[r] = "written"
  /\ requestPc' = [requestPc EXCEPT ![r] = "done"]
  /\ shown' = [shown EXCEPT ![p] = IF written[r] > @ THEN written[r] ELSE @]
  /\ fetched' = [t \in Readers |->
       IF turnPc[t] = "fetched" /\ ProcessOf[t] = p
       THEN [fetched[t] EXCEPT !.raced = TRUE] ELSE fetched[t]]
  /\ UNCHANGED <<row, cache, turnPc, seen, floor, written, behaviorPc, overtaken, now>>

\* The coroutine goes on and deletes the entry of its own process.
Invalidate(r) ==
  LET p == ProcessOf[r] IN
  /\ requestPc[r] = "written"
  /\ requestPc' = [requestPc EXCEPT ![r] = "done"]
  /\ cache' = [cache EXCEPT ![p] = NotCached]
  /\ shown' = [shown EXCEPT ![p] = IF written[r] > @ THEN written[r] ELSE @]
  /\ fetched' = [t \in Readers |->
       IF turnPc[t] = "fetched" /\ ProcessOf[t] = p
       THEN [fetched[t] EXCEPT !.raced = TRUE] ELSE fetched[t]]
  /\ UNCHANGED <<row, turnPc, seen, floor, written, behaviorPc, overtaken, now>>

\* _reset_relationship_runtime_state and the voice test empty the profile and
\* invalidate nothing.
Reset(r) ==
  /\ requestPc[r] = "idle"
  /\ requestPc' = [requestPc EXCEPT ![r] = "done"]
  /\ Put(EmptyProfile)
  /\ Overtake(Keys)
  /\ UNCHANGED <<cache, reader, written, behaviorPc, now, shown>>

\* A slip: the parent is made whether or not there is one.
EnsureParentAlways(b) ==
  LET k == PathOf[b][1] IN
  /\ behaviorPc[b] = "idle"
  /\ behaviorPc' = [behaviorPc EXCEPT ![b] = "ensured"]
  /\ Put([profile EXCEPT ![k] = EmptyObject])
  /\ UNCHANGED <<cache, reader, requestPc, written, overtaken, now, shown>>

\* A behavior's effect makes the object above its leaf when there is none...
EnsureParent(b) ==
  LET k == PathOf[b][1] IN
  /\ behaviorPc[b] = "idle"
  /\ behaviorPc' = [behaviorPc EXCEPT ![b] = "ensured"]
  /\ IF profile[k] = Missing
     THEN Put([profile EXCEPT ![k] = EmptyObject])
     ELSE UNCHANGED row
  /\ UNCHANGED <<cache, reader, requestPc, written, overtaken, now, shown>>

\* Another behavior's leaf is overtaken by a write of the same path.
OvertakeAt(b) ==
  overtaken' = overtaken \cup
    {c \in Behaviors \ {b} : behaviorPc[c] # "idle" /\ PathOf[c] = PathOf[b]}

\* ... and sets it with a second statement: jsonb_set changes nothing when the
\* object has gone meanwhile.
SetLeaf(b) ==
  LET k == PathOf[b][1]
      l == PathOf[b][2] IN
  /\ behaviorPc[b] = "ensured"
  /\ behaviorPc' = [behaviorPc EXCEPT ![b] = "set"]
  /\ Put(IF profile[k] = Missing THEN profile ELSE [profile EXCEPT ![k][l] = b])
  /\ OvertakeAt(b)
  /\ UNCHANGED <<cache, reader, requestPc, written, now, shown>>

DeleteLeaf(b) ==
  LET k == PathOf[b][1]
      l == PathOf[b][2] IN
  /\ behaviorPc[b] = "idle"
  /\ behaviorPc' = [behaviorPc EXCEPT ![b] = "deleted"]
  /\ Put(IF profile[k] = Missing THEN profile ELSE [profile EXCEPT ![k][l] = Nobody])
  /\ OvertakeAt(b)
  /\ UNCHANGED <<cache, reader, requestPc, written, now, shown>>

-----------------------------------------------------------------------------
\* Time passes, but no coroutine is kept longer than FetchMax from its row.
Tick ==
  /\ now < Horizon
  /\ \A t \in Readers : turnPc[t] = "fetched" => now < fetched[t].at + FetchMax
  /\ now' = now + 1
  /\ UNCHANGED <<row, cache, reader, writer, shown>>

Next ==
  \/ \E t \in Readers :
       Hit(t) \/ Miss(t) \/ Fetch(t) \/ Store(t) \/ FailToHydrate(t) \/ Refresh(t)
  \/ \E r \in Requests :
       PatchProfile(r) \/ SetProfile(r) \/ ClearProfile(r) \/ Invalidate(r) \/ Reset(r)
  \/ \E b \in Behaviors : EnsureParent(b) \/ SetLeaf(b) \/ DeleteLeaf(b)
  \/ Tick

Spec == Init /\ [][Next]_vars

-----------------------------------------------------------------------------
(* Properties *)

\* A turn that begins after a profile request of its process was answered sees
\* that write or a later one, through the cache too; except where a SELECT was
\* under way when the request invalidated the cache, whose result is cached
\* after it.
OwnWritesShow ==
  \A t \in Readers : turnPc[t] = "read" =>
    seen[t].copy.edition >= floor[t] \/ seen[t].copy.raced

\* Whoever wrote, in this process or another, with an invalidation or without:
\* a turn is given the profile as the row was less than a time to live and a
\* fetch ago.
OldProfilesFade ==
  \A t \in Readers : turnPc[t] = "read" =>
    seen[t].at < seen[t].copy.at + TTL + FetchMax

\* What a behavior sets below a key stays until another write of that path or of
\* its whole key: writers of neighbouring paths, patches of other keys and the
\* making of parents lose nothing.
LeavesSurvive ==
  \A b \in Behaviors : behaviorPc[b] = "set" /\ b \notin overtaken =>
    LET k == PathOf[b][1] IN profile[k] # Missing /\ profile[k][PathOf[b][2]] = b
=============================================================================
