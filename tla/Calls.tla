-------------------------------- MODULE Calls --------------------------------
(***************************************************************************)
(* Phone calls over Twilio.  A call is dialled through one of three        *)
(* endpoints or comes in through a webhook; what the stream of its audio   *)
(* will need waits under a call_id in _pending_calls.  Twilio reports the  *)
(* status of a call by callbacks signed with the token of the account      *)
(* that dialled; statuses go to _call_status and, by tasks of their own    *)
(* that nothing orders, to the row of the call and its list of events.     *)
(* The dictionaries are in memory: a restart empties them.                 *)
(***************************************************************************)
EXTENDS Naturals, FiniteSets

CONSTANTS
  Calls,        \* calls, named by their call_sid
  Reported,     \* bound: the statuses whose callbacks are followed
  MaxTries,     \* bound: requests of the webhook for one incoming call
  MaxRestarts,  \* bound: restarts of the server
  MaxLines      \* bound: transcript updates of the assistant in one call

ASSUME CallsAssumption == IsFiniteSet(Calls)
ASSUME BoundsAssumption ==
  MaxTries \in Nat \ {0} /\ MaxRestarts \in Nat /\ MaxLines \in Nat

Final == {"completed", "busy"}  \* the code has five; these are two ways to end
Statuses == {"incoming", "queued", "ringing", "in-progress"} \cup Final
Kinds == {"api", "dashboard", "inbound"}  \* "dashboard": dialled from either dashboard
Ids == Calls \X (1..MaxTries)             \* call_ids: a new one at every request
Stages == {"none", "resolving", "loading", "talking", "ended"}

VARIABLES
  kind,      \* [Calls -> Kinds]
  own,       \* calls whose companion has Twilio credentials of its own
  pending,   \* keys of _pending_calls
  tokens,    \* keys of _call_auth_tokens
  status,    \* _call_status
  row,       \* twilio_calls.status
  tasks,     \* scheduled events: [call, id, type, status, at]
  sess,      \* [Ids -> stage of the stream of a call_id]
  saving,    \* [Ids -> handlers on_transcript_update at work]
  asked,     \* ids with pending_end_call
  ends,      \* [Ids -> EndFrames queued]
  said,      \* [Ids -> lines of the assistant so far]
  line,      \* [Calls -> the call as Twilio knows it]
  tried,     \* [Calls -> webhook requests so far]
  served,    \* ids whose TwiML Twilio has
  starts,    \* ids whose stream was opened, its start message on the way
  post,      \* callbacks on the way: <<call, status>>
  restarts,
  lost,      \* history: calls under way that the server forgot or never knew
  refused,   \* history: answered calls that were refused their TwiML
  unheard,   \* history: calls that lost a callback on the way
  failed,    \* history: calls that lost an event
  crossed,   \* history: calls of which two events were in flight at once
  latest     \* history: [Calls -> status of the event scheduled last]

dicts == <<pending, tokens, status>>
talk == <<saving, asked, ends, said>>
network == <<served, starts, post>>
fixed == <<kind, own>>
marks == <<lost, refused, unheard>>
events == <<tasks, crossed, latest>>
vars == <<fixed, dicts, row, events, failed, sess, talk, line, tried,
          network, restarts, marks>>

Init ==
  /\ kind \in [Calls -> Kinds] /\ own \in SUBSET Calls
  /\ pending = {} /\ tokens = {} /\ status = [c \in Calls |-> "unknown"]
  /\ row = [c \in Calls |-> "unknown"] /\ tasks = {}
  /\ sess = [i \in Ids |-> "none"]
  /\ saving = [i \in Ids |-> 0] /\ asked = {}
  /\ ends = [i \in Ids |-> 0] /\ said = [i \in Ids |-> 0]
  /\ line = [c \in Calls |-> "idle"] /\ tried = [c \in Calls |-> 0]
  /\ served = {} /\ starts = {} /\ post = {}
  /\ restarts = 0
  /\ lost = {} /\ refused = {} /\ unheard = {} /\ failed = {} /\ crossed = {}
  /\ latest = [c \in Calls |-> "unknown"]

-----------------------------------------------------------------------------
(* Events, persisted by tasks. *)

OfCall(c, T) == {t \in T : t.call = c}

\* _schedule_twilio_call_event: a task for each event, which waits for no other
\* (id: the number of the call_id, 0 where the event has none).
Schedule(c, id, type, s) ==
  /\ tasks' = tasks \cup
       {[call |-> c, id |-> id, type |-> type, status |-> s, at |-> "row"]}
  /\ crossed' = IF OfCall(c, tasks) = {} THEN crossed ELSE crossed \cup {c}
  /\ latest' = [latest EXCEPT ![c] = s]

\* COALESCE(EXCLUDED.status, twilio_calls.status): every event has a status.
\* A slip: the arguments swapped.
CoalesceSwapped(old, new) == IF old = "unknown" THEN new ELSE old

Coalesce(old, new) == new

\* Two statements, each committed by itself: the upsert ...
Upsert(t) ==
  /\ t.at = "row"
  /\ row' = [row EXCEPT ![t.call] = Coalesce(@, t.status)]
  /\ tasks' = (tasks \ {t}) \cup {[t EXCEPT !.at = "log"]}
  /\ UNCHANGED failed

\* ... and the insert into twilio_call_events, which nothing reads.
Record(t) ==
  /\ t.at = "log"
  /\ tasks' = tasks \ {t}
  /\ UNCHANGED <<row, failed>>

\* A failure is logged; the event is not tried again.
WriteFails(t) ==
  /\ failed' = failed \cup {t.call}
  /\ tasks' = tasks \ {t}
  /\ UNCHANGED row

Persist ==
  /\ \E t \in tasks : Upsert(t) \/ Record(t) \/ WriteFails(t)
  /\ UNCHANGED <<fixed, dicts, crossed, latest, sess, talk, line, tried, network,
                 restarts, marks>>

-----------------------------------------------------------------------------
(* Twilio: a call goes on, ends, and its callbacks travel in any order. *)

Callback(c, s) == IF s \in Reported \cup Final THEN {<<c, s>>} ELSE {}

Advance(c, from, to) ==
  /\ line[c] = from /\ kind[c] # "inbound"
  /\ line' = [line EXCEPT ![c] = to]
  /\ post' = post \cup Callback(c, to)
  /\ UNCHANGED <<fixed, dicts, row, events, failed, sess, talk, tried, served,
                 starts, restarts, marks>>

Ring(c) == Advance(c, "queued", "ringing")
PickUp(c) == Advance(c, "ringing", "in-progress")

\* Only calls that were dialled were told where to report.
Over(c) ==
  /\ line' = [line EXCEPT ![c] = "over"]
  /\ post' = IF kind[c] = "inbound" \/ line[c] = "over" THEN post
             ELSE post \cup
               Callback(c, IF line[c] = "in-progress" THEN "completed" ELSE "busy")

HangUp(c) ==
  /\ line[c] \in {"queued", "ringing", "in-progress"}
  /\ Over(c)
  /\ UNCHANGED <<fixed, dicts, row, events, failed, sess, talk, tried, served,
                 starts, restarts, marks>>

LoseCallback(c, s) ==
  /\ <<c, s>> \in post
  /\ post' = post \ {<<c, s>>}
  /\ unheard' = unheard \cup {c}
  /\ UNCHANGED <<fixed, dicts, row, events, failed, sess, talk, line, tried,
                 served, starts, restarts, lost, refused>>

\* The stream of a call under way is opened with the call_id of its TwiML.
OpenStream(i) ==
  /\ i \in served \ starts /\ line[i[1]] = "in-progress" /\ sess[i] = "none"
  /\ starts' = starts \cup {i}
  /\ UNCHANGED <<fixed, dicts, row, events, failed, sess, talk, line, tried,
                 served, post, restarts, marks>>

-----------------------------------------------------------------------------
(* Requests. *)

\* _validate_twilio_signature: the server's own token is always tried; a call
\* of a companion's account needs that account's token among those tried.
Valid(c, found) == c \in own => found

\* The end of the three endpoints that dial: once they have the relationship
\* they do the rest in one go, for Twilio is called synchronously.
Place(c) ==
  /\ line[c] = "idle"
  /\ line' = [line EXCEPT ![c] = "queued"]
  /\ post' = post \cup Callback(c, "queued")
  /\ pending' = pending \cup {<<c, 1>>}
  /\ tokens' = tokens \cup {c}
  /\ Schedule(c, 1, "dial_out_initiated", "queued")
  /\ UNCHANGED <<fixed, status, row, failed, sess, talk, tried, served, starts,
                 restarts, marks>>

DialOut(c) == kind[c] = "api" /\ Place(c)                 \* dial_out
DashboardDial(c) == kind[c] = "dashboard" /\ Place(c)     \* of the dashboard
DialogmachineDial(c) == kind[c] = "dashboard" /\ Place(c) \* of dialogmachine

\* The request to Twilio raises: the entry is taken back.  The call may have
\* been placed all the same, if only the answer was lost.
DialFails(c) ==
  /\ kind[c] # "inbound" /\ line[c] = "idle"
  /\ \/ line' = [line EXCEPT ![c] = "over"] /\ UNCHANGED <<post, lost>>
     \/ /\ line' = [line EXCEPT ![c] = "queued"]
        /\ post' = post \cup Callback(c, "queued")
        /\ lost' = lost \cup {c}
  /\ UNCHANGED <<fixed, dicts, row, events, failed, sess, talk, tried, served,
                 starts, restarts, refused, unheard>>

NewId(c) == <<c, tried[c] + 1>>

\* handle_inbound_call: a new call_id at each request.  Twilio takes the answer,
\* or has given up waiting and asks again.
Inbound(c) ==
  /\ kind[c] = "inbound" /\ line[c] \in {"idle", "ringing"} /\ tried[c] < MaxTries
  /\ LET i == NewId(c)
     IN /\ tried' = [tried EXCEPT ![c] = @ + 1]
        /\ pending' = pending \cup {i}
        /\ Schedule(c, i[2], "inbound_webhook_received", "incoming")
        /\ \/ line' = [line EXCEPT ![c] = "in-progress"] /\ served' = served \cup {i}
           \/ line' = [line EXCEPT ![c] = "ringing"] /\ UNCHANGED served
  /\ UNCHANGED <<fixed, tokens, status, row, failed, sess, talk, starts, post,
                 restarts, marks>>

\* The tokens get_twiml tries: only dial_out leaves one in the entry.
\* A slip: the entry is looked up, its token is not.
OnlyTheServersToken(c) == FALSE

TokenInEntry(c) == <<c, 1>> \in pending /\ kind[c] = "api"

\* get_twiml, asked for when the call is answered: refused if the signature is
\* not of a token at hand, a farewell if the entry has gone.
GetTwiml(c) ==
  /\ kind[c] # "inbound" /\ line[c] = "in-progress" /\ <<c, 1>> \notin served
  /\ IF Valid(c, TokenInEntry(c)) /\ <<c, 1>> \in pending
     THEN served' = served \cup {<<c, 1>>} /\ UNCHANGED <<line, post, refused>>
     ELSE Over(c) /\ refused' = refused \cup {c} /\ UNCHANGED served
  /\ UNCHANGED <<fixed, dicts, row, events, failed, sess, talk, tried, starts,
                 restarts, lost, unheard>>

\* The token goes with the last status of the call.
\* A slip: a call that was never answered keeps its token.
TokensAfterCompleted(c, s) == IF s = "completed" THEN tokens \ {c} ELSE tokens

TokensAfter(c, s) == IF s \in Final THEN tokens \ {c} ELSE tokens

\* status_callback.
StatusCallback(c, s) ==
  /\ <<c, s>> \in post
  /\ post' = post \ {<<c, s>>}
  /\ IF Valid(c, c \in tokens)
     THEN /\ status' = [status EXCEPT ![c] = s]
          /\ tokens' = TokensAfter(c, s)
          /\ Schedule(c, 0, "status_callback", s)
     ELSE UNCHANGED <<status, tokens, events>>
  /\ UNCHANGED <<fixed, pending, row, failed, sess, talk, line, tried, served,
                 starts, restarts, marks>>

-----------------------------------------------------------------------------
(* The stream of a call: twilio_websocket. *)

\* _pending_calls.pop: an entry is good for one stream.
\* A slip: get.
GetEntry(i) == pending

PopEntry(i) == pending \ {i}

\* The session's own end closes the socket, and with it the call.
Close(i) ==
  /\ sess' = [sess EXCEPT ![i] = "ended"]
  /\ asked' = asked \ {i} /\ saving' = [saving EXCEPT ![i] = 0]
  /\ Over(i[1])
  /\ UNCHANGED <<ends, said>>

Started(i) == Schedule(i[1], i[2], "media_stream_started", "in-progress")

\* The start message.  A call that came in has no relationship yet.
Start(i) ==
  /\ i \in starts
  /\ starts' = starts \ {i}
  /\ IF i \in pending
     THEN /\ pending' = PopEntry(i)
          /\ IF kind[i[1]] = "inbound"
             THEN sess' = [sess EXCEPT ![i] = "resolving"] /\ UNCHANGED events
             ELSE sess' = [sess EXCEPT ![i] = "loading"] /\ Started(i)
          /\ UNCHANGED <<talk, line, post>>
     ELSE Close(i) /\ UNCHANGED <<pending, events>>
  /\ UNCHANGED <<fixed, tokens, status, row, failed, tried, served, restarts, marks>>

Resolve(i) ==
  /\ sess[i] = "resolving"
  /\ \/ /\ sess' = [sess EXCEPT ![i] = "loading"]
        /\ Started(i)
        /\ UNCHANGED <<talk, line, post>>
     \/ Close(i) /\ UNCHANGED events
  /\ UNCHANGED <<fixed, dicts, row, failed, tried, served, starts, restarts, marks>>

\* _run_twilio_voice_session: the companion and the relationship are read and the
\* pipeline is built, or one of them fails and the session is over.
Load(i) ==
  /\ sess[i] = "loading"
  /\ \/ sess' = [sess EXCEPT ![i] = "talking"] /\ UNCHANGED <<talk, line, post>>
     \/ Close(i)
  /\ UNCHANGED <<fixed, dicts, row, events, failed, tried, served, starts,
                 restarts, marks>>

\* request_end_call, the tool of the fast brain.
RequestEnd(i) ==
  /\ sess[i] = "talking"
  /\ asked' = asked \cup {i}
  /\ UNCHANGED <<fixed, dicts, row, events, failed, sess, saving, ends, said,
                 line, tried, network, restarts, marks>>

\* A line of the assistant: its handler first saves it ...
Say(i) ==
  /\ sess[i] = "talking" /\ said[i] < MaxLines
  /\ said' = [said EXCEPT ![i] = @ + 1]
  /\ saving' = [saving EXCEPT ![i] = @ + 1]
  /\ UNCHANGED <<fixed, dicts, row, events, failed, sess, asked, ends,
                 line, tried, network, restarts, marks>>

\* pending_end_call and not end_call_enqueued.
\* A slip: the first flag alone.
MustEndAgain(i) == i \in asked

MustEnd(i) == i \in asked /\ ends[i] = 0

\* ... or fails to, and then ends the call if that was asked for meanwhile.
Saved(i) ==
  /\ sess[i] = "talking" /\ saving[i] > 0
  /\ saving' = [saving EXCEPT ![i] = @ - 1]
  /\ IF MustEnd(i)
     THEN asked' = asked \ {i} /\ ends' = [ends EXCEPT ![i] = @ + 1]
     ELSE UNCHANGED <<asked, ends>>
  /\ UNCHANGED <<fixed, dicts, row, events, failed, sess, said, line, tried,
                 network, restarts, marks>>

\* The EndFrame has gone through the pipeline, or on_client_disconnected.
\* A slip: nobody listens to the client.
DisconnectIgnored(i) == ends[i] > 0

PipelineEnds(i) == ends[i] > 0 \/ line[i[1]] = "over"

EndSession(i) ==
  /\ sess[i] = "talking" /\ PipelineEnds(i)
  /\ Close(i)
  /\ UNCHANGED <<fixed, dicts, row, events, failed, tried, served, starts,
                 restarts, marks>>

-----------------------------------------------------------------------------
\* The process dies: the dictionaries, tasks and sockets go.
Restart ==
  /\ restarts < MaxRestarts
  /\ restarts' = restarts + 1
  /\ pending' = {} /\ tokens' = {} /\ status' = [c \in Calls |-> "unknown"]
  /\ tasks' = {} /\ failed' = failed \cup {t.call : t \in tasks}
  /\ sess' = [i \in Ids |-> IF sess[i] = "none" THEN "none" ELSE "ended"]
  /\ saving' = [i \in Ids |-> 0] /\ asked' = {}
  /\ starts' = {}
  /\ lost' = lost \cup {c \in Calls : line[c] \notin {"idle", "over"}}
  /\ UNCHANGED <<fixed, row, crossed, latest, ends, said, line, tried, served,
                 post, refused, unheard>>

CallStep(c) ==
  \/ DialOut(c) \/ DashboardDial(c) \/ DialogmachineDial(c) \/ DialFails(c)
  \/ Inbound(c) \/ GetTwiml(c)
  \/ Ring(c) \/ PickUp(c) \/ HangUp(c)
  \/ \E s \in Statuses : StatusCallback(c, s) \/ LoseCallback(c, s)

StreamStep(i) ==
  \/ OpenStream(i) \/ Start(i) \/ Resolve(i) \/ Load(i)
  \/ RequestEnd(i) \/ Say(i) \/ Saved(i) \/ EndSession(i)

Next ==
  \/ \E c \in Calls : CallStep(c)
  \/ \E i \in Ids : StreamStep(i)
  \/ Persist \/ Restart

Spec == Init /\ [][Next]_vars

\* Tasks and handlers that can go on do; nothing is asked of Twilio.
FairSpec ==
  /\ Spec
  /\ WF_vars(Persist)
  /\ \A i \in Ids : WF_vars(Resolve(i) \/ Load(i) \/ EndSession(i))

-----------------------------------------------------------------------------
EventTypes == {"dial_out_initiated", "inbound_webhook_received", "status_callback",
               "media_stream_started"}
Event == [call : Calls, id : 0..MaxTries, type : EventTypes, status : Statuses,
          at : {"row", "log"}]

\* Every variable stays in its set (one line per group of them).
TypeOK ==
  /\ kind \in [Calls -> Kinds] /\ own \subseteq Calls
  /\ pending \subseteq Ids /\ tokens \subseteq Calls
  /\ status \in [Calls -> Statuses \cup {"unknown"}]
  /\ row \in [Calls -> Statuses \cup {"unknown"}]
  /\ latest \in [Calls -> Statuses \cup {"unknown"}]
  /\ tasks \subseteq Event
  /\ sess \in [Ids -> Stages]
  /\ saving \in [Ids -> Nat] /\ said \in [Ids -> Nat]
  /\ asked \subseteq Ids /\ ends \in [Ids -> Nat]
  /\ line \in [Calls -> {"idle", "queued", "ringing", "in-progress", "over"}]
  /\ tried \in [Calls -> 0..MaxTries]
  /\ served \subseteq Ids /\ starts \subseteq Ids /\ post \subseteq Calls \X Statuses
  /\ restarts \in 0..MaxRestarts
  /\ lost \cup refused \cup unheard \cup failed \cup crossed \subseteq Calls

\* What is left of a call in memory when it is over is what the code has no
\* handler for: the entry of a call whose stream never began, the token of a
\* call whose last callback never came.
LeftoversAreKnown ==
  /\ \A i \in pending : line[i[1]] = "over" /\ i \notin starts => sess[i] = "none"
  /\ \A c \in tokens :
       line[c] = "over" /\ (\A s \in Statuses : <<c, s>> \notin post) => c \in unheard

\* An answered call gets its TwiML, unless the server has forgotten it, never
\* learned that it was placed, or dialled it for a companion with an account of
\* its own through an endpoint that leaves no token in the entry.
KnownCallsAreServed ==
  \A c \in refused : c \in lost \/ (kind[c] = "dashboard" /\ c \in own)

\* When nothing of a call is in flight, its row says what the last event said,
\* unless two events were in flight at once or one was lost.
RowIsTheLatest ==
  \A c \in Calls \ (crossed \cup failed) :
    OfCall(c, tasks) = {} => row[c] = latest[c]

\* However often the end of a call is asked for, and however many lines are
\* being saved then, its pipeline is told to end once.
EndFrameOnce == \A i \in Ids : ends[i] <= 1

\* The last status of a call of a companion's account stays: in memory until a
\* restart forgets it, in its row unless writes crossed, or its stream starts
\* when the call is over.
TheEndIsKept ==
  [][\A c \in own :
       /\ status[c] \in Final => status'[c] \in {status[c], "unknown"}
       /\ row[c] \in Final /\ c \notin crossed =>
            row'[c] \in {row[c], "in-progress"}]_vars

\* The session of a call that is over ends, whatever it was doing.
SessionsEnd ==
  []<>(\A i \in Ids :
         sess[i] \in {"resolving", "loading", "talking"} => line[i[1]] # "over")

-----------------------------------------------------------------------------
(* The inductive invariant. *)

\* A call_id in use belongs to a call that has begun, and was given out.
IdsInUse ==
  /\ starts \subseteq served
  /\ \A i \in Ids : i \in served \/ sess[i] # "none" =>
       /\ line[i[1]] # "idle"
       /\ kind[i[1]] = "inbound" => i[2] <= tried[i[1]]

\* An entry has not been used.
EntriesUnused == \A i \in pending : sess[i] = "none"

\* A token waits for the last callback of a call that was dialled.
TokensWait ==
  \A c \in tokens :
    /\ kind[c] # "inbound" /\ line[c] # "idle"
    /\ line[c] = "over" =>
         c \in unheard \/ <<c, "completed">> \in post \/ <<c, "busy">> \in post

\* Nothing is known of a call before it begins.
NothingBefore ==
  \A c \in Calls : line[c] = "idle" =>
    /\ status[c] = "unknown" /\ row[c] = "unknown" /\ OfCall(c, tasks) = {}
    /\ \A s \in Statuses : <<c, s>> \notin post

\* Nobody reports the end of a call that came in.
InboundNeverEnds ==
  \A c \in Calls : kind[c] = "inbound" =>
    /\ row[c] \notin Final
    /\ \A s \in Statuses : <<c, s>> \notin post
    /\ \A t \in OfCall(c, tasks) : t.status \notin Final

\* A dialled call that goes on has its entry until its TwiML is served.
EntriesWait ==
  \A c \in Calls \ lost :
    kind[c] # "inbound" /\ line[c] \notin {"idle", "over"} /\ <<c, 1>> \notin served =>
      <<c, 1>> \in pending

\* Events of a call in flight: one, unless they crossed; what it is about to
\* write, or has written, is the latest.
OneInFlight ==
  \A t, u \in tasks : t.call = u.call /\ t # u => t.call \in crossed

InFlightIsLatest ==
  \A t \in tasks : t.call \notin crossed =>
    /\ t.at = "row" => t.status = latest[t.call]
    /\ t.at = "log" /\ t.call \notin failed => row[t.call] = latest[t.call]

\* When the end of a call of a companion's account is known, its token is gone.
TokensGo ==
  \A c \in own :
    /\ status[c] \in Final \/ row[c] \in Final => c \notin tokens
    /\ \A t \in OfCall(c, tasks) : t.status \in Final => c \notin tokens
    /\ row[c] \in Final /\ c \notin crossed =>
         \A t \in OfCall(c, tasks) : t.at = "row" => t.status = "in-progress"

IInv ==
  /\ TypeOK /\ IdsInUse /\ EntriesUnused /\ TokensWait /\ NothingBefore
  /\ InboundNeverEnds /\ EntriesWait /\ KnownCallsAreServed /\ EndFrameOnce
  /\ OneInFlight /\ InFlightIsLatest /\ RowIsTheLatest /\ TokensGo
=============================================================================
