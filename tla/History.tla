------------------------------ MODULE History ------------------------------
(***************************************************************************)
(* The messages of one conversation of the first API generation, and the   *)
(* two caches that each process keeps of them for thirty seconds:          *)
(* "repo:history" of the repository, which every writer and reader of the  *)
(* process goes through, and "history" of the context builder, which only  *)
(* text turns of the dashboard and of shared companions use.               *)
(*                                                                         *)
(* An action is one SQL statement, or what a coroutine does after it up to *)
(* its next await.  Time is counted in ticks, of which TTL make up         *)
(* TEXT_HISTORY_CACHE_TTL_S; entries count down to their end.              *)
(***************************************************************************)
EXTENDS Naturals, Sequences, SequencesExt, FiniteSets

CONSTANTS
  Turns,       \* turns of users with the companion
  Readers,     \* coroutines that list the messages
  Processes,   \* processes of the server
  HomeOf,      \* the process of each turn and reader
  TTL,         \* how long an entry lives
  MaxAtOnce,   \* how many coroutines may be under way at once
  MaxFailures  \* how many turns may fail

ASSUME TTLAssumption == TTL \in Nat \ {0}
ASSUME BoundAssumption == MaxAtOnce \in Nat \ {0} /\ MaxFailures \in Nat
ASSUME CallerAssumption == Turns \cap Readers = {}

Callers == Turns \cup Readers

ASSUME HomeAssumption == HomeOf \in [Callers -> Processes]

User(t) == <<t, "user">>
Reply(t) == <<t, "assistant">>
Messages == Turns \X {"user", "assistant"}
TurnOf(m) == m[1]

VARIABLES
  log,        \* the rows of messages, by created_at
  repo,       \* the namespace repo:history of each process's cache
  history,    \* the namespace history
  text,       \* turns that came by the dashboard or a share, not by the client API
  pc,         \* a coroutine's progress
  fetched,    \* the rows it has selected
  \* What happened, for the properties:
  prompt,     \* the history that a turn was given in this step, if one was
  fresh,      \* ticks for which a finished turn is certain to be remembered
  crossed,    \* messages inserted while a SELECT of their process was under way
  forgotten,  \* messages that were there when a post-turn update found no entry
  overlapped  \* two writers were under way at once

caches == <<repo, history>>
ghosts == <<fresh, crossed, forgotten, overlapped>>
vars == <<log, caches, text, pc, fetched, ghosts, prompt>>

Entries == [rows : Seq(Messages), left : 0..TTL]
NoEntry == [rows |-> <<>>, left |-> 0]

Steps == {"new", "saved", "noted", "selected", "generating", "replied", "answered",
          "finished", "ended", "failed"}

TypeOK ==
  /\ log \in Seq(Messages)
  /\ repo \in [Processes -> Entries]
  /\ history \in [Processes -> Entries]
  /\ text \subseteq Turns
  /\ pc \in [Callers -> Steps]
  /\ fetched \in [Callers -> Seq(Messages)]
  /\ prompt \subseteq [turn : Turns, rows : Seq(Messages)]
  /\ fresh \in [Turns -> 0..TTL]
  /\ crossed \subseteq Messages
  /\ forgotten \in [Processes -> SUBSET Messages]
  /\ overlapped \in BOOLEAN

Init ==
  /\ log = <<>>
  /\ repo = [p \in Processes |-> NoEntry]
  /\ history = [p \in Processes |-> NoEntry]
  /\ text = {}
  /\ pc = [c \in Callers |-> "new"]
  /\ fetched = [c \in Callers |-> <<>>]
  /\ prompt = {}
  /\ fresh = [t \in Turns |-> 0]
  /\ crossed = {}
  /\ forgotten = [p \in Processes |-> {}]
  /\ overlapped = FALSE

-----------------------------------------------------------------------------
(* The caches.                                                              *)

\* CacheManager.get returns something.
Live(entry) == entry.left > 0

\* CacheManager.set with a full time to live.
Entry(rows) == [rows |-> rows, left |-> TTL]

\* All duplicate checks of the caches look at the last row only.
EndsWith(rows, m) == rows # <<>> /\ Last(rows) = m
Ensured(rows, m) == IF EndsWith(rows, m) THEN rows ELSE Append(rows, m)

\* append_to_history_cache: nothing to append to, known already, or a longer
\* list for another thirty seconds.
\* A slip: the check for a row that is known already is left out.
NotedAgain(entry, m) == IF Live(entry) THEN Entry(Append(entry.rows, m)) ELSE entry

\* A slip: without an entry the row makes a new one.
NotedAnew(entry, m) == IF EndsWith(entry.rows, m) THEN entry ELSE Entry(Append(entry.rows, m))

Noted(entry, m) ==
  IF Live(entry) /\ ~EndsWith(entry.rows, m) THEN Entry(Append(entry.rows, m)) ELSE entry

\* update_history_cache_post_turn, for which no entry is an empty one.
\* A slip: only the reply is appended.
ReplyNoted(entry, t) == Entry(Append(entry.rows, Reply(t)))

TurnNoted(entry, t) == Entry(Append(Ensured(entry.rows, User(t)), Reply(t)))

Aged(entry) == IF entry.left > 1 THEN [entry EXCEPT !.left = @ - 1] ELSE NoEntry

-----------------------------------------------------------------------------
(* The steps of every coroutine.                                            *)

InFlight(w) == pc[w] \notin {"new", "finished", "ended", "failed"}

Goto(c, step) == pc' = [pc EXCEPT ![c] = step] /\ prompt' = {}

\* An INSERT of message m by writer w.
Inserts(w, m) ==
  /\ log' = Append(log, m)
  /\ crossed' = IF \E c \in Callers : pc[c] = "selected" /\ HomeOf[c] = HomeOf[w]
                THEN crossed \cup {m} ELSE crossed
  /\ overlapped' = (overlapped \/ \E v \in Turns \ {w} : InFlight(v))

\* A bound: only so many coroutines are under way at once.
MayBegin(c) == pc[c] = "new" /\ Cardinality({d \in Callers : InFlight(d)}) < MaxAtOnce

\* add_message_returning up to its await, and after it.  The message comes to
\* one of the text endpoints or to the client API.
SaveUser(t) ==
  /\ MayBegin(t)
  /\ Inserts(t, User(t))
  /\ text' \in {text, text \cup {t}}
  /\ Goto(t, "saved")
  /\ UNCHANGED <<caches, fetched, fresh, forgotten>>

NoteUser(t) ==
  /\ pc[t] = "saved"
  /\ repo' = [repo EXCEPT ![HomeOf[t]] = Noted(@, User(t))]
  /\ Goto(t, "noted")
  /\ UNCHANGED <<text, log, history, fetched, ghosts>>

SaveReply(t) ==
  /\ pc[t] = "generating"
  /\ Inserts(t, Reply(t))
  /\ Goto(t, "replied")
  /\ UNCHANGED <<text, caches, fetched, fresh, forgotten>>

NoteReply(t) ==
  /\ pc[t] = "replied"
  /\ repo' = [repo EXCEPT ![HomeOf[t]] = Noted(@, Reply(t))]
  /\ Goto(t, IF t \in text THEN "answered" ELSE "ended")
  /\ UNCHANGED <<text, log, history, fetched, ghosts>>

\* An exception, or a client that has gone: the stream ends where it is.
Fail(t) ==
  /\ pc[t] \in {"noted", "selected", "generating", "answered"}
  /\ Cardinality({s \in Turns : pc[s] = "failed"}) < MaxFailures
  /\ fetched' = [fetched EXCEPT ![t] = <<>>]
  /\ Goto(t, "failed")
  /\ UNCHANGED <<text, log, caches, ghosts>>

-----------------------------------------------------------------------------
(* Reading the conversation.                                                *)

\* The rows are at hand: in "history" for a text turn, else in repo:history.
InHistory(c) == c \in text /\ Live(history[HomeOf[c]])
InRepo(c) == ~InHistory(c) /\ Live(repo[HomeOf[c]])

MayRead(c) == IF c \in Readers THEN MayBegin(c) ELSE pc[c] = "noted"

\* What a turn does with rows that it was given.  A text turn appends its own
\* message to them if it does not come last.
Prompted(t, rows) ==
  /\ prompt' = {[turn |-> t, rows |-> IF t \in text THEN Ensured(rows, User(t)) ELSE rows]}
  /\ pc' = [pc EXCEPT ![t] = "generating"]

\* get_full_history hands out a copy of its own rows.
ReadHistory(t) ==
  /\ MayRead(t)
  /\ InHistory(t)
  /\ Prompted(t, history[HomeOf[t]].rows)
  /\ UNCHANGED <<text, log, caches, fetched, ghosts>>

\* get_conversation_messages hands out the list that is in the cache, so that
\* what a text turn appends to it is in the cache, too; get_full_history has
\* copied it before.
Handed(t, rows) ==
  IF t \in text
  THEN /\ repo' = [repo EXCEPT ![HomeOf[t]].rows = Ensured(rows, User(t))]
       /\ history' = [history EXCEPT ![HomeOf[t]] = Entry(rows)]
  ELSE UNCHANGED caches

ReadRepo(t) ==
  /\ MayRead(t)
  /\ InRepo(t)
  /\ Handed(t, repo[HomeOf[t]].rows)
  /\ Prompted(t, repo[HomeOf[t]].rows)
  /\ UNCHANGED <<text, log, fetched, ghosts>>

Select(c) ==
  /\ MayRead(c)
  /\ ~InHistory(c) /\ ~InRepo(c)
  /\ fetched' = [fetched EXCEPT ![c] = log]
  /\ Goto(c, "selected")
  /\ UNCHANGED <<text, log, caches, ghosts>>

\* After the SELECT, whatever has become of the caches meanwhile.
StoreForTurn(t) ==
  /\ pc[t] = "selected"
  /\ IF t \in text
     THEN /\ repo' = [repo EXCEPT ![HomeOf[t]] = Entry(Ensured(fetched[t], User(t)))]
          /\ history' = [history EXCEPT ![HomeOf[t]] = Entry(fetched[t])]
     ELSE /\ repo' = [repo EXCEPT ![HomeOf[t]] = Entry(fetched[t])]
          /\ UNCHANGED history
  /\ Prompted(t, fetched[t])
  /\ fetched' = [fetched EXCEPT ![t] = <<>>]
  /\ UNCHANGED <<text, log, ghosts>>

StoreForReader(r) ==
  /\ pc[r] = "selected"
  /\ repo' = [repo EXCEPT ![HomeOf[r]] = Entry(fetched[r])]
  /\ fetched' = [fetched EXCEPT ![r] = <<>>]
  /\ Goto(r, "ended")
  /\ UNCHANGED <<text, log, history, ghosts>>

-----------------------------------------------------------------------------
(* The end of a text turn, and time.                                        *)

\* cache.get(...) or []: without an entry the turn's two rows make a new one.
PostTurn(t) ==
  /\ pc[t] = "answered"
  /\ history' = [history EXCEPT ![HomeOf[t]] = TurnNoted(@, t)]
  /\ forgotten' = IF Live(history[HomeOf[t]]) THEN forgotten
                  ELSE [forgotten EXCEPT ![HomeOf[t]] = @ \cup ToSet(log)]
  /\ fresh' = [fresh EXCEPT ![t] = TTL]
  /\ Goto(t, "finished")
  /\ UNCHANGED <<text, log, repo, fetched, crossed, overlapped>>

Tick ==
  /\ repo' = [p \in Processes |-> Aged(repo[p])]
  /\ history' = [p \in Processes |-> Aged(history[p])]
  /\ fresh' = [t \in Turns |-> IF fresh[t] > 0 THEN fresh[t] - 1 ELSE 0]
  /\ prompt' = {}
  /\ UNCHANGED <<log, text, pc, fetched, crossed, forgotten, overlapped>>

TurnNext(t) ==
  \/ SaveUser(t) \/ NoteUser(t)
  \/ ReadHistory(t) \/ ReadRepo(t) \/ Select(t) \/ StoreForTurn(t)
  \/ SaveReply(t) \/ NoteReply(t) \/ PostTurn(t)
  \/ Fail(t)

Next ==
  \/ \E t \in Turns : TurnNext(t)
  \/ \E r \in Readers : Select(r) \/ StoreForReader(r)
  \/ Tick

Spec == Init /\ [][Next]_vars

-----------------------------------------------------------------------------
(* Properties.                                                              *)

\* The process has gone on after the INSERT of message m.
KnownAt(p, m) ==
  /\ HomeOf[TurnOf(m)] = p
  /\ ~(pc[TurnOf(m)] = "saved" /\ m = User(TurnOf(m)))
  /\ ~(pc[TurnOf(m)] = "replied" /\ m = Reply(TurnOf(m)))

\* What a process has inserted is in its repo:history as long as that lives:
\* turns of the client API find their own message, and all that went before in
\* their process, even though the cache is updated by appending.  The exception
\* is a message inserted while a coroutine of its process was waiting for the
\* rows, which that coroutine then stores without it.
ReposKeepUp ==
  \A p \in Processes : Live(repo[p]) =>
    \A m \in ToSet(log) \ crossed : KnownAt(p, m) => m \in ToSet(repo[p].rows)

\* Why a text turn may be prompted without message m of the conversation.
MissingHasACause(t, m) ==
  /\ m # User(t)
  /\ \/ m \in crossed
     \* m was written by another process or through the client API;
     \/ HomeOf[TurnOf(m)] # HomeOf[t] \/ TurnOf(m) \notin text
     \* or by a turn that has not come to its post-turn update, or never did;
     \/ pc[TurnOf(m)] # "finished"
     \* or m's turn ended a time to live ago, and since then a turn came to its
     \* own update when the entry had ended.
     \/ m \in forgotten[HomeOf[t]] /\ fresh[TurnOf(m)] = 0

\* A prompt of a text turn contains every message of the conversation but those
\* with one of these causes.  In particular a turn is remembered for thirty
\* seconds after its end, whatever other turns and readers do.
RecentTurnsAreRemembered ==
  \A given \in prompt : given.turn \in text =>
    \A m \in ToSet(log) \ ToSet(given.rows) : MissingHasACause(given.turn, m)

Position(m) == CHOOSE i \in DOMAIN log : log[i] = m

\* A prompt repeats no message and keeps the order of the conversation, unless
\* two writers were under way at once: the caches are appended to by writers
\* that compare the last row only, while readers store whole lists.
DisorderNeedsOverlap ==
  ~overlapped =>
    \A given \in prompt : \A i, j \in DOMAIN given.rows :
      i < j => Position(given.rows[i]) < Position(given.rows[j])

\* "Return full conversation history" says get_full_history: a text turn is
\* prompted with all that turns have said that came to their end before it in
\* its process, if never two writers were under way at once.
FullHistory ==
  ~overlapped =>
    \A given \in prompt : \A s \in text :
      given.turn \in text /\ pc[s] = "finished" /\ HomeOf[s] = HomeOf[given.turn] =>
        {User(s), Reply(s)} \subseteq ToSet(given.rows)

-----------------------------------------------------------------------------
(* The inductive invariant of the proofs.                                   *)

\* What a SELECT has returned misses only messages that came after it.
FetchedKeepUp ==
  \A c \in Callers : pc[c] = "selected" =>
    \A m \in ToSet(log) \ crossed :
      HomeOf[TurnOf(m)] = HomeOf[c] => m \in ToSet(fetched[c])

\* The entry for text turns holds the finished ones that it has not forgotten.
HistoryKeepsUp ==
  \A p \in Processes : Live(history[p]) =>
    \A m \in ToSet(log) \ crossed :
      /\ HomeOf[TurnOf(m)] = p /\ pc[TurnOf(m)] = "finished"
      /\ m \in forgotten[p] => fresh[TurnOf(m)] > 0
      => m \in ToSet(history[p].rows)

\* It lives as long as a turn that it has last been told of is fresh.
FreshLives == \A t \in Turns : fresh[t] <= history[HomeOf[t]].left

IInv == TypeOK /\ FetchedKeepUp /\ ReposKeepUp /\ HistoryKeepsUp /\ FreshLives
=============================================================================
