----------------------------- MODULE CallsProofs -----------------------------
(***************************************************************************)
(* IInv is an inductive invariant of Calls, for any number of calls, of    *)
(* requests for one call, of restarts and of lines; the properties of the  *)
(* entries, the rows and the ends of calls follow from it.                 *)
(***************************************************************************)
EXTENDS Calls, TLAPS

\* A call_id names its call and its number.
LEMMA IdsAre ==
  /\ \A i \in Ids : i[1] \in Calls /\ i[2] \in 1..MaxTries /\ i = <<i[1], i[2]>>
  /\ \A c \in Calls : <<c, 1>> \in Ids /\ <<c, 1>>[1] = c /\ <<c, 1>>[2] = 1
  BY BoundsAssumption DEF Ids

\* What the end of a call (Over) does to the line, the callbacks and the tokens.
LEMMA Ends ==
  ASSUME TypeOK, TokensWait, NothingBefore, InboundNeverEnds,
         NEW c \in Calls, line[c] # "idle", Over(c),
         UNCHANGED <<kind, tokens, unheard, status, row, tasks>>
  PROVE  /\ line' = [line EXCEPT ![c] = "over"]
         /\ line' \in [Calls -> {"idle", "queued", "ringing", "in-progress", "over"}]
         /\ post' \subseteq Calls \X Statuses
         /\ TokensWait' /\ NothingBefore' /\ InboundNeverEnds'
<1>1. line' = [line EXCEPT ![c] = "over"]
  BY DEF Over
<1>2. \A d \in Calls : line'[d] = IF d = c THEN "over" ELSE line[d]
  BY <1>1 DEF TypeOK
<1>3. PICK s \in Final :
        post' = IF kind[c] = "inbound" \/ line[c] = "over" THEN post ELSE post \cup {<<c, s>>}
  <2>1. CASE line[c] = "in-progress"
    BY <2>1 DEF Over, Callback, Final
  <2>2. CASE line[c] # "in-progress"
    BY <2>2 DEF Over, Callback, Final
  <2>. QED
    BY <2>1, <2>2
<1>4. post \subseteq post' /\ \A p \in post' \ post : p = <<c, s>> /\ kind[c] # "inbound"
  BY <1>3
<1>5. post' \subseteq Calls \X Statuses
  BY <1>3 DEF TypeOK, Statuses
<1>6. TokensWait'
  <2>. SUFFICES ASSUME NEW d \in tokens
       PROVE  /\ kind[d] # "inbound" /\ line'[d] # "idle"
              /\ line'[d] = "over" =>
                   d \in unheard \/ <<d, "completed">> \in post' \/ <<d, "busy">> \in post'
    BY DEF TokensWait
  <2>1. d \in Calls
    BY DEF TypeOK
  <2>2. CASE d = c /\ line[c] # "over"
    <3>1. <<c, s>> \in post'
      BY <1>3, <2>2 DEF TokensWait
    <3>. QED
      BY <1>2, <2>1, <2>2, <3>1 DEF TokensWait, Final
  <2>3. CASE ~(d = c /\ line[c] # "over")
    BY <1>2, <1>4, <2>1, <2>3 DEF TokensWait
  <2>. QED
    BY <2>2, <2>3
<1>7. NothingBefore'
  BY <1>2, <1>4 DEF NothingBefore, OfCall
<1>8. InboundNeverEnds'
  BY <1>4 DEF InboundNeverEnds, OfCall
<1>. QED
  BY <1>1, <1>2, <1>5, <1>6, <1>7, <1>8 DEF TypeOK

\* What an event that is scheduled (_schedule_twilio_call_event) leaves true of the events.
LEMMA Scheduled ==
  ASSUME TypeOK, OneInFlight, InFlightIsLatest, RowIsTheLatest,
         NEW c \in Calls, NEW id \in 0..MaxTries, NEW type \in EventTypes, NEW s \in Statuses,
         Schedule(c, id, type, s), row' = row, failed' = failed
  PROVE  /\ tasks' \subseteq Event
         /\ latest' \in [Calls -> Statuses \cup {"unknown"}]
         /\ crossed \subseteq crossed' /\ crossed' \subseteq Calls
         /\ \A t \in tasks' \ tasks : t.call = c /\ t.status = s /\ t.at = "row"
         /\ \A t \in tasks : t.call = c => c \in crossed'
         /\ OneInFlight' /\ InFlightIsLatest' /\ RowIsTheLatest'
<1>. DEFINE new == [call |-> c, id |-> id, type |-> type, status |-> s, at |-> "row"]
<1>1. tasks' = tasks \cup {new} /\ latest' = [latest EXCEPT ![c] = s]
  BY DEF Schedule
<1>2. new.call = c /\ new.status = s /\ new.at = "row" /\ new \in Event
  BY DEF Event
<1>. HIDE DEF new
<1>3. crossed' = IF OfCall(c, tasks) = {} THEN crossed ELSE crossed \cup {c}
  BY DEF Schedule
<1>4. crossed \subseteq crossed' /\ crossed' \subseteq Calls
  BY <1>3 DEF TypeOK
<1>5. \A t \in tasks : t.call = c => c \in crossed'
  BY <1>3 DEF OfCall
<1>6. \A d \in Calls : latest'[d] = IF d = c THEN s ELSE latest[d]
  BY <1>1 DEF TypeOK
<1>7. OneInFlight'
  BY <1>1, <1>2, <1>4, <1>5 DEF OneInFlight
<1>8. InFlightIsLatest'
  BY <1>1, <1>2, <1>4, <1>5, <1>6 DEF InFlightIsLatest, TypeOK, Event
<1>9. RowIsTheLatest'
  BY <1>1, <1>2, <1>4, <1>6 DEF RowIsTheLatest, OfCall
<1>. QED
  BY <1>1, <1>2, <1>4, <1>5, <1>6, <1>7, <1>8, <1>9 DEF TypeOK

\* Calls starts in the invariant.
LEMMA InitIInv == Init => IInv
<1>. SUFFICES ASSUME Init PROVE IInv
  OBVIOUS
<1>1. TypeOK
  BY BoundsAssumption DEF Init, TypeOK, Stages
<1>2. IdsInUse /\ EntriesUnused /\ TokensWait /\ EntriesWait /\ KnownCallsAreServed
  BY IdsAre DEF Init, IdsInUse, EntriesUnused, TokensWait, EntriesWait, KnownCallsAreServed
<1>3. NothingBefore /\ InboundNeverEnds
  BY DEF Init, NothingBefore, InboundNeverEnds, OfCall, Final
<1>4. EndFrameOnce /\ OneInFlight /\ InFlightIsLatest /\ RowIsTheLatest
  BY DEF Init, EndFrameOnce, OneInFlight, InFlightIsLatest, RowIsTheLatest
<1>5. TokensGo
  BY DEF Init, TokensGo, OfCall, Final
<1>. QED
  BY <1>1, <1>2, <1>3, <1>4, <1>5 DEF IInv

\* A call goes on, and says so.
LEMMA Advances ==
  ASSUME IInv, NEW c \in Calls, NEW a \in Statuses, NEW b \in {"ringing", "in-progress"},
         a \in {"queued", "ringing"}, Advance(c, a, b)
  PROVE  IInv'
<1>. USE DEF IInv
<1>a. line[c] = a /\ line' = [line EXCEPT ![c] = b] /\ post \subseteq post'
  BY DEF Advance
<1>b. \A p \in post' \ post : p = <<c, b>> /\ kind[c] # "inbound"
  BY DEF Advance, Callback
<1>c. \A d \in Calls : line'[d] = IF d = c THEN b ELSE line[d]
  BY <1>a DEF TypeOK
<1>1. TypeOK'
  BY <1>a, <1>b DEF TypeOK, Advance, Statuses, fixed, dicts, talk, marks, events
<1>2. IdsInUse'
  BY <1>c, IdsAre DEF IdsInUse, Advance, fixed, talk
<1>3. EntriesUnused'
  BY DEF EntriesUnused, Advance, dicts
<1>4. TokensWait'
  BY <1>a, <1>c DEF TypeOK, TokensWait, Advance, fixed, dicts, marks
<1>5. NothingBefore'
  BY <1>a, <1>b, <1>c DEF NothingBefore, OfCall, Advance, dicts, events
<1>6. InboundNeverEnds'
  BY <1>b DEF InboundNeverEnds, OfCall, Advance, fixed, events
<1>7. EntriesWait'
  BY <1>a, <1>c DEF EntriesWait, Advance, fixed, dicts, marks
<1>8. KnownCallsAreServed'
  BY DEF KnownCallsAreServed, Advance, fixed, marks
<1>9. EndFrameOnce'
  BY DEF EndFrameOnce, Advance, talk
<1>10. OneInFlight'
  BY DEF OneInFlight, Advance, events
<1>11. InFlightIsLatest'
  BY DEF InFlightIsLatest, Advance, events
<1>12. RowIsTheLatest'
  BY DEF RowIsTheLatest, OfCall, Advance, events
<1>13. TokensGo'
  BY DEF TokensGo, OfCall, Advance, fixed, dicts, events
<1>. QED
  BY <1>1, <1>2, <1>3, <1>4, <1>5, <1>6, <1>7, <1>8, <1>9, <1>10, <1>11, <1>12, <1>13

\* A call ends without an answer, or by the caller.
LEMMA HangsUp ==
  ASSUME IInv, NEW c \in Calls, HangUp(c)
  PROVE  IInv'
<1>. USE DEF IInv
<1>a. line[c] # "idle" /\ Over(c)
  BY DEF HangUp
<1>b. UNCHANGED <<kind, tokens, unheard, status, row, tasks>>
  BY DEF HangUp, fixed, dicts, marks, events
<1>c. /\ line' = [line EXCEPT ![c] = "over"] /\ post' \subseteq Calls \X Statuses
      /\ line' \in [Calls -> {"idle", "queued", "ringing", "in-progress", "over"}]
      /\ TokensWait' /\ NothingBefore' /\ InboundNeverEnds'
  BY <1>a, <1>b, Ends
<1>d. \A d \in Calls : line'[d] = IF d = c THEN "over" ELSE line[d]
  BY <1>c DEF TypeOK
<1>1. TypeOK'
  BY <1>c DEF TypeOK, HangUp, fixed, dicts, talk, marks, events
<1>2. IdsInUse'
  BY <1>a, <1>d, IdsAre DEF IdsInUse, HangUp, fixed
<1>3. EntriesUnused'
  BY DEF EntriesUnused, HangUp, dicts
<1>4. TokensWait'
  BY <1>c
<1>5. NothingBefore'
  BY <1>c
<1>6. InboundNeverEnds'
  BY <1>c
<1>7. EntriesWait'
  BY <1>a, <1>d DEF EntriesWait, HangUp, fixed, dicts, marks
<1>8. KnownCallsAreServed'
  BY DEF KnownCallsAreServed, HangUp, fixed, marks
<1>9. EndFrameOnce'
  BY DEF EndFrameOnce, HangUp, talk
<1>10. OneInFlight'
  BY DEF OneInFlight, HangUp, events
<1>11. InFlightIsLatest'
  BY DEF InFlightIsLatest, HangUp, events
<1>12. RowIsTheLatest'
  BY DEF RowIsTheLatest, OfCall, HangUp, events
<1>13. TokensGo'
  BY DEF TokensGo, OfCall, HangUp, fixed, dicts, events
<1>. QED
  BY <1>1, <1>2, <1>3, <1>4, <1>5, <1>6, <1>7, <1>8, <1>9, <1>10, <1>11, <1>12, <1>13

\* A callback is lost.
LEMMA Loses ==
  ASSUME IInv, NEW c \in Calls, NEW s \in Statuses, LoseCallback(c, s)
  PROVE  IInv'
<1>. USE DEF IInv
<1>1. TypeOK'
  BY DEF TypeOK, Statuses, Final, Kinds, Stages, LoseCallback, fixed, dicts, talk, network,
     marks, events
<1>2. IdsInUse'
  BY DEF IdsInUse, LoseCallback, fixed
<1>3. EntriesUnused'
  BY DEF EntriesUnused, LoseCallback, dicts
<1>4. TokensWait'
  BY DEF TokensWait, LoseCallback, fixed, dicts, marks
<1>5. NothingBefore'
  BY DEF NothingBefore, OfCall, LoseCallback, dicts, events
<1>6. InboundNeverEnds'
  BY DEF InboundNeverEnds, OfCall, LoseCallback, fixed, events
<1>7. EntriesWait'
  BY DEF EntriesWait, LoseCallback, fixed, dicts, marks
<1>8. KnownCallsAreServed'
  BY DEF KnownCallsAreServed, LoseCallback, fixed, marks
<1>9. EndFrameOnce'
  BY DEF EndFrameOnce, LoseCallback, talk
<1>10. OneInFlight'
  BY DEF OneInFlight, LoseCallback, events
<1>11. InFlightIsLatest'
  BY DEF InFlightIsLatest, LoseCallback, events
<1>12. RowIsTheLatest'
  BY DEF RowIsTheLatest, OfCall, LoseCallback, events
<1>13. TokensGo'
  BY DEF TokensGo, OfCall, LoseCallback, fixed, dicts, events
<1>. QED
  BY <1>1, <1>2, <1>3, <1>4, <1>5, <1>6, <1>7, <1>8, <1>9, <1>10, <1>11, <1>12, <1>13

\* The stream of a call is opened.
LEMMA Opens ==
  ASSUME IInv, NEW i \in Ids, OpenStream(i)
  PROVE  IInv'
<1>. USE DEF IInv
<1>a. starts' = starts \cup {i} /\ i \in served
  BY DEF OpenStream
<1>1. TypeOK'
  BY DEF TypeOK, Statuses, Final, Kinds, Stages, OpenStream, fixed, dicts, talk, network, marks,
     events
<1>2. IdsInUse'
  BY <1>a DEF IdsInUse, OpenStream, fixed
<1>3. EntriesUnused'
  BY DEF EntriesUnused, OpenStream, dicts
<1>4. TokensWait'
  BY DEF TokensWait, OpenStream, fixed, dicts, marks
<1>5. NothingBefore'
  BY DEF NothingBefore, OfCall, OpenStream, dicts, events
<1>6. InboundNeverEnds'
  BY DEF InboundNeverEnds, OfCall, OpenStream, fixed, events
<1>7. EntriesWait'
  BY DEF EntriesWait, OpenStream, fixed, dicts, marks
<1>8. KnownCallsAreServed'
  BY DEF KnownCallsAreServed, OpenStream, fixed, marks
<1>9. EndFrameOnce'
  BY DEF EndFrameOnce, OpenStream, talk
<1>10. OneInFlight'
  BY DEF OneInFlight, OpenStream, events
<1>11. InFlightIsLatest'
  BY DEF InFlightIsLatest, OpenStream, events
<1>12. RowIsTheLatest'
  BY DEF RowIsTheLatest, OfCall, OpenStream, events
<1>13. TokensGo'
  BY DEF TokensGo, OfCall, OpenStream, fixed, dicts, events
<1>. QED
  BY <1>1, <1>2, <1>3, <1>4, <1>5, <1>6, <1>7, <1>8, <1>9, <1>10, <1>11, <1>12, <1>13

\* A call is dialled.
LEMMA Places ==
  ASSUME IInv, NEW c \in Calls, kind[c] # "inbound", Place(c)
  PROVE  IInv'
<1>. USE DEF IInv
<1>a. Schedule(c, 1, "dial_out_initiated", "queued") /\ row' = row /\ failed' = failed
  BY DEF Place
<1>0. /\ 1 \in 0..MaxTries /\ "queued" \in Statuses
      /\ "dial_out_initiated" \in EventTypes
  BY BoundsAssumption DEF Statuses, EventTypes
<1>b. /\ tasks' \subseteq Event
      /\ latest' \in [Calls -> Statuses \cup {"unknown"}]
      /\ crossed \subseteq crossed' /\ crossed' \subseteq Calls
      /\ \A t \in tasks' \ tasks : t.call = c /\ t.status = "queued" /\ t.at = "row"
      /\ \A t \in tasks : t.call = c => c \in crossed'
      /\ OneInFlight' /\ InFlightIsLatest' /\ RowIsTheLatest'
  BY <1>a, <1>0, Scheduled, Zenon
<1>c. /\ line[c] = "idle" /\ pending' = pending \cup {<<c, 1>>} /\ tokens' = tokens \cup {c}
      /\ \A d \in Calls : line'[d] = IF d = c THEN "queued" ELSE line[d]
      /\ line' \in [Calls -> {"idle", "queued", "ringing", "in-progress", "over"}]
  BY DEF Place, TypeOK
<1>d. post \subseteq post' /\ \A p \in post' \ post : p = <<c, "queued">>
  BY DEF Place, Callback
<1>1. TypeOK'
  BY <1>b, <1>c, <1>d, IdsAre DEF TypeOK, Place, Statuses, fixed, talk, marks
<1>2. IdsInUse'
  BY <1>c, IdsAre DEF IdsInUse, Place, fixed
<1>3. EntriesUnused'
  <2>1. sess[<<c, 1>>] = "none"
    BY <1>c, IdsAre DEF IdsInUse
  <2>. QED
    BY <1>c, <2>1 DEF EntriesUnused, Place
<1>4. TokensWait'
  <2>. SUFFICES ASSUME NEW d \in tokens'
       PROVE  /\ kind[d] # "inbound" /\ line'[d] # "idle"
              /\ line'[d] = "over" =>
                   d \in unheard \/ <<d, "completed">> \in post' \/ <<d, "busy">> \in post'
    BY DEF TokensWait, Place, fixed, marks
  <2>1. CASE d = c
    BY <1>c, <2>1
  <2>2. CASE d # c
    BY <1>c, <1>d, <2>2 DEF TokensWait, TypeOK
  <2>. QED
    BY <2>1, <2>2
<1>5. NothingBefore'
  BY <1>b, <1>c, <1>d DEF NothingBefore, OfCall, Place
<1>6. InboundNeverEnds'
  BY <1>b, <1>d DEF InboundNeverEnds, OfCall, Place, fixed
<1>7. EntriesWait'
  BY <1>c DEF EntriesWait, Place, fixed, marks
<1>8. KnownCallsAreServed'
  BY DEF KnownCallsAreServed, Place, fixed, marks
<1>9. EndFrameOnce'
  BY DEF EndFrameOnce, Place, talk
<1>10. OneInFlight'
  BY <1>b
<1>11. InFlightIsLatest'
  BY <1>b
<1>12. RowIsTheLatest'
  BY <1>b
<1>13. TokensGo'
  <2>1. status[c] = "unknown" /\ row[c] = "unknown" /\ OfCall(c, tasks) = {}
    BY <1>c DEF NothingBefore
  <2>2. \A t \in OfCall(c, tasks') : t.status = "queued"
    BY <1>b, <2>1 DEF OfCall
  <2>. QED
    BY <1>b, <1>c, <2>1, <2>2 DEF TokensGo, OfCall, Place, fixed, Final, TypeOK
<1>. QED
  BY <1>1, <1>2, <1>3, <1>4, <1>5, <1>6, <1>7, <1>8, <1>9, <1>10, <1>11, <1>12, <1>13

\* Dialling fails, or seems to.
LEMMA DialBreaks ==
  ASSUME IInv, NEW c \in Calls, DialFails(c)
  PROVE  IInv'
<1>. USE DEF IInv
<1>a. /\ line[c] = "idle" /\ kind[c] # "inbound" /\ lost \subseteq lost' /\ lost' \subseteq Calls
      /\ line' \in [Calls -> {"idle", "queued", "ringing", "in-progress", "over"}]
      /\ line'[c] # "idle" /\ \A d \in Calls : d # c => line'[d] = line[d]
      /\ line'[c] = "over" \/ c \in lost'
  BY DEF DialFails, TypeOK
<1>b. post \subseteq post' /\ \A p \in post' \ post : p = <<c, "queued">>
  BY DEF DialFails, Callback
<1>1. TypeOK'
  BY <1>a, <1>b DEF TypeOK, DialFails, Statuses, fixed, dicts, talk, events
<1>2. IdsInUse'
  BY <1>a, IdsAre DEF IdsInUse, DialFails, fixed
<1>3. EntriesUnused'
  BY DEF EntriesUnused, DialFails, dicts
<1>4. TokensWait'
  BY <1>a DEF TypeOK, TokensWait, DialFails, fixed, dicts
<1>5. NothingBefore'
  BY <1>a, <1>b DEF NothingBefore, OfCall, DialFails, dicts, events
<1>6. InboundNeverEnds'
  BY <1>a, <1>b DEF InboundNeverEnds, OfCall, DialFails, fixed, events
<1>7. EntriesWait'
  BY <1>a DEF EntriesWait, DialFails, fixed, dicts
<1>8. KnownCallsAreServed'
  BY <1>a DEF KnownCallsAreServed, DialFails, fixed
<1>9. EndFrameOnce'
  BY DEF EndFrameOnce, DialFails, talk
<1>10. OneInFlight'
  BY DEF OneInFlight, DialFails, events
<1>11. InFlightIsLatest'
  BY DEF InFlightIsLatest, DialFails, events
<1>12. RowIsTheLatest'
  BY DEF RowIsTheLatest, OfCall, DialFails, events
<1>13. TokensGo'
  BY DEF TokensGo, OfCall, DialFails, fixed, dicts, events
<1>. QED
  BY <1>1, <1>2, <1>3, <1>4, <1>5, <1>6, <1>7, <1>8, <1>9, <1>10, <1>11, <1>12, <1>13

\* A call comes in, or its webhook is asked again.
LEMMA ComesIn ==
  ASSUME IInv, NEW c \in Calls, Inbound(c)
  PROVE  IInv'
<1>. USE DEF IInv
<1>a. /\ Schedule(c, NewId(c)[2], "inbound_webhook_received", "incoming")
      /\ row' = row /\ failed' = failed
  BY DEF Inbound
<1>c. /\ kind[c] = "inbound" /\ tried' = [tried EXCEPT ![c] = @ + 1] /\ tried[c] < MaxTries
      /\ pending' = pending \cup {NewId(c)} /\ post' = post
      /\ \/ served' = served \cup {NewId(c)} /\ line' = [line EXCEPT ![c] = "in-progress"]
         \/ served' = served /\ line' = [line EXCEPT ![c] = "ringing"]
  BY DEF Inbound
<1>d. /\ NewId(c) \in Ids /\ NewId(c)[1] = c /\ NewId(c)[2] = tried[c] + 1
      /\ tried[c] \in Nat /\ tried' \in [Calls -> 0..MaxTries]
      /\ \A d \in Calls : tried[d] <= tried'[d]
      /\ tried'[c] = tried[c] + 1
  BY <1>c, BoundsAssumption DEF NewId, Ids, TypeOK
<1>f. NewId(c)[2] \in 0..MaxTries
  BY <1>d DEF Ids
<1>0. /\ 1 \in 0..MaxTries /\ "incoming" \in Statuses
      /\ "inbound_webhook_received" \in EventTypes
  BY BoundsAssumption DEF Statuses, EventTypes
<1>b. /\ tasks' \subseteq Event
      /\ latest' \in [Calls -> Statuses \cup {"unknown"}]
      /\ crossed \subseteq crossed' /\ crossed' \subseteq Calls
      /\ \A t \in tasks' \ tasks : t.call = c /\ t.status = "incoming" /\ t.at = "row"
      /\ \A t \in tasks : t.call = c => c \in crossed'
      /\ OneInFlight' /\ InFlightIsLatest' /\ RowIsTheLatest'
  BY <1>a, <1>0, <1>d, <1>f, Scheduled, Zenon
<1>e. line'[c] # "idle" /\ \A d \in Calls : d # c => line'[d] = line[d]
  BY <1>c DEF TypeOK
<1>1. TypeOK'
  BY <1>b, <1>c, <1>d DEF TypeOK, Inbound, fixed, talk, marks
<1>2. IdsInUse'
  <2>1. /\ served' \subseteq served \cup {NewId(c)}
        /\ served \subseteq served'
        /\ starts' = starts /\ sess' = sess
    BY DEF Inbound, NewId
  <2>. QED
    BY <1>c, <1>d, <2>1, IdsAre DEF IdsInUse, TypeOK, fixed, Inbound
<1>3. EntriesUnused'
  <2>1. sess[NewId(c)] = "none"
    BY <1>c, <1>d DEF IdsInUse
  <2>. QED
    BY <1>c, <2>1 DEF EntriesUnused, Inbound
<1>4. TokensWait'
  BY <1>c, <1>e DEF TypeOK, TokensWait, Inbound, fixed, marks
<1>5. NothingBefore'
  BY <1>b, <1>c, <1>e DEF NothingBefore, OfCall, Inbound
<1>6. InboundNeverEnds'
  BY <1>b DEF InboundNeverEnds, OfCall, Inbound, fixed, Final
<1>7. EntriesWait'
  BY <1>c, <1>e DEF EntriesWait, Inbound, fixed, marks
<1>8. KnownCallsAreServed'
  BY DEF KnownCallsAreServed, Inbound, fixed, marks
<1>9. EndFrameOnce'
  BY DEF EndFrameOnce, Inbound, talk
<1>10. OneInFlight'
  BY <1>b
<1>11. InFlightIsLatest'
  BY <1>b
<1>12. RowIsTheLatest'
  BY <1>b
<1>13. TokensGo'
  <2>1. row[c] \notin Final
    BY <1>c DEF InboundNeverEnds
  <2>. QED
    BY <1>b, <2>1 DEF TokensGo, OfCall, Inbound, fixed, Final
<1>. QED
  BY <1>1, <1>2, <1>3, <1>4, <1>5, <1>6, <1>7, <1>8, <1>9, <1>10, <1>11, <1>12, <1>13

\* The TwiML of an answered call is asked for.
LEMMA Fetches ==
  ASSUME IInv, NEW c \in Calls, GetTwiml(c)
  PROVE  IInv'
<1>. USE DEF IInv
<1>a. /\ kind[c] # "inbound" /\ line[c] = "in-progress" /\ <<c, 1>> \notin served
      /\ UNCHANGED <<kind, own, pending, tokens, status, row, tasks, crossed, latest, failed,
                     sess, saving, asked, ends, said, tried, starts, restarts, lost, unheard>>
  BY DEF GetTwiml, fixed, dicts, events, talk
<1>. DEFINE Granted == Valid(c, TokenInEntry(c)) /\ <<c, 1>> \in pending
<1>b. CASE Granted
  <2>1. served' = served \cup {<<c, 1>>} /\ UNCHANGED <<line, post, refused>>
    BY <1>b DEF GetTwiml
  <2>2. TypeOK' /\ IdsInUse'
    BY <1>a, <2>1, IdsAre DEF TypeOK, IdsInUse
  <2>3. EntriesWait'
    BY <1>a, <2>1 DEF EntriesWait
  <2>4. EntriesUnused' /\ TokensWait' /\ KnownCallsAreServed' /\ EndFrameOnce'
    BY <1>a, <2>1 DEF EntriesUnused, TokensWait, KnownCallsAreServed, EndFrameOnce
  <2>5. NothingBefore' /\ InboundNeverEnds' /\ TokensGo'
    BY <1>a, <2>1 DEF NothingBefore, InboundNeverEnds, TokensGo, OfCall
  <2>6. OneInFlight' /\ InFlightIsLatest' /\ RowIsTheLatest'
    BY <1>a, <2>1 DEF OneInFlight, InFlightIsLatest, RowIsTheLatest, OfCall
  <2>. QED
    BY <2>2, <2>3, <2>4, <2>5, <2>6
<1>c. CASE ~Granted
  <2>1. Over(c) /\ refused' = refused \cup {c} /\ UNCHANGED served
    BY <1>c DEF GetTwiml
  <2>2. /\ line' = [line EXCEPT ![c] = "over"] /\ post' \subseteq Calls \X Statuses
        /\ line' \in [Calls -> {"idle", "queued", "ringing", "in-progress", "over"}]
        /\ TokensWait' /\ NothingBefore' /\ InboundNeverEnds'
    BY <1>a, <2>1, Ends
  <2>3. \A d \in Calls : line'[d] = IF d = c THEN "over" ELSE line[d]
    BY <2>2 DEF TypeOK
  <2>4. TypeOK' /\ IdsInUse'
    BY <1>a, <2>1, <2>2, <2>3, IdsAre DEF TypeOK, IdsInUse
  <2>5. EntriesWait'
    BY <1>a, <2>1, <2>3 DEF EntriesWait
  <2>6. c \in lost \/ (kind[c] = "dashboard" /\ c \in own)
    <3>1. CASE c \in lost
      BY <3>1
    <3>2. CASE c \notin lost
      <4>1. <<c, 1>> \in pending
        BY <1>a, <3>2 DEF EntriesWait
      <4>2. c \in own /\ kind[c] # "api"
        BY <1>c, <4>1 DEF Valid, TokenInEntry
      <4>. QED
        BY <1>a, <4>2 DEF TypeOK, Kinds
    <3>. QED
      BY <3>1, <3>2
  <2>7. KnownCallsAreServed'
    BY <1>a, <2>1, <2>6 DEF KnownCallsAreServed
  <2>8. EntriesUnused' /\ EndFrameOnce'
    BY <1>a DEF EntriesUnused, EndFrameOnce
  <2>9. OneInFlight' /\ InFlightIsLatest' /\ RowIsTheLatest' /\ TokensGo'
    BY <1>a DEF OneInFlight, InFlightIsLatest, RowIsTheLatest, TokensGo, OfCall
  <2>. QED
    BY <2>2, <2>4, <2>5, <2>7, <2>8, <2>9
<1>. QED
  BY <1>b, <1>c

\* A callback arrives.
LEMMA Reports ==
  ASSUME IInv, NEW c \in Calls, NEW s \in Statuses, StatusCallback(c, s)
  PROVE  IInv'
<1>. USE DEF IInv
<1>a. /\ <<c, s>> \in post /\ post' = post \ {<<c, s>>}
      /\ UNCHANGED <<kind, own, pending, row, failed, sess, saving, asked, ends, said, line,
                     tried, served, starts, restarts, lost, refused, unheard>>
  BY DEF StatusCallback, fixed, talk, marks
<1>b. kind[c] # "inbound" /\ line[c] # "idle"
  BY <1>a DEF InboundNeverEnds, NothingBefore
<1>c. IdsInUse' /\ EntriesUnused' /\ EntriesWait' /\ KnownCallsAreServed' /\ EndFrameOnce'
  BY <1>a DEF IdsInUse, EntriesUnused, EntriesWait, KnownCallsAreServed, EndFrameOnce
<1>d. CASE Valid(c, c \in tokens)
  <2>1. /\ status' = [status EXCEPT ![c] = s] /\ tokens' = TokensAfter(c, s)
        /\ Schedule(c, 0, "status_callback", s)
    BY <1>d DEF StatusCallback
  <2>2. /\ tasks' \subseteq Event
        /\ latest' \in [Calls -> Statuses \cup {"unknown"}]
        /\ crossed \subseteq crossed' /\ crossed' \subseteq Calls
        /\ \A t \in tasks' \ tasks : t.call = c /\ t.status = s /\ t.at = "row"
        /\ \A t \in tasks : t.call = c => c \in crossed'
        /\ OneInFlight' /\ InFlightIsLatest' /\ RowIsTheLatest'
    <3>1. row' = row /\ failed' = failed /\ 0 \in 0..MaxTries
          /\ "status_callback" \in EventTypes
      BY <1>a, BoundsAssumption DEF EventTypes
    <3>. QED
      BY <2>1, <3>1, Scheduled, Zenon
  <2>3. tokens' \subseteq tokens /\ (s \in Final => c \notin tokens')
    BY <2>1 DEF TokensAfter
  <2>4. \A d \in Calls : status'[d] = IF d = c THEN s ELSE status[d]
    BY <2>1 DEF TypeOK
  <2>5. TypeOK'
    BY <1>a, <2>1, <2>2, <2>3 DEF TypeOK
  <2>6. TokensWait'
    <3>. SUFFICES ASSUME NEW d \in tokens'
         PROVE  /\ kind[d] # "inbound" /\ line[d] # "idle"
                /\ line[d] = "over" =>
                     d \in unheard \/ <<d, "completed">> \in post' \/ <<d, "busy">> \in post'
      BY <1>a DEF TokensWait
    <3>1. CASE d = c
      BY <1>a, <2>3, <3>1 DEF TokensWait, Final
    <3>2. CASE d # c
      BY <1>a, <2>3, <3>2 DEF TokensWait
    <3>. QED
      BY <3>1, <3>2
  <2>7. NothingBefore'
    BY <1>a, <1>b, <2>2, <2>4 DEF NothingBefore, OfCall
  <2>8. InboundNeverEnds'
    BY <1>a, <1>b, <2>2 DEF InboundNeverEnds, OfCall
  <2>9. TokensGo'
    <3>. SUFFICES ASSUME NEW d \in own
         PROVE  /\ status'[d] \in Final \/ row[d] \in Final => d \notin tokens'
                /\ \A t \in OfCall(d, tasks') : t.status \in Final => d \notin tokens'
                /\ row[d] \in Final /\ d \notin crossed' =>
                     \A t \in OfCall(d, tasks') : t.at = "row" => t.status = "in-progress"
      BY <1>a DEF TokensGo
    <3>0. d \in Calls
      BY DEF TypeOK
    <3>1. CASE d = c
      <4>1. d \in tokens
        BY <1>d, <3>1 DEF Valid
      <4>2. row[d] \notin Final /\ \A t \in OfCall(d, tasks) : t.status \notin Final
        BY <4>1 DEF TokensGo
      <4>. QED
        BY <2>2, <2>3, <2>4, <3>0, <3>1, <4>2 DEF OfCall
    <3>2. CASE d # c
      BY <2>2, <2>3, <2>4, <3>0, <3>2 DEF TokensGo, OfCall
    <3>. QED
      BY <3>1, <3>2
  <2>. QED
    BY <1>c, <2>2, <2>5, <2>6, <2>7, <2>8, <2>9
<1>e. CASE ~Valid(c, c \in tokens)
  <2>1. c \notin tokens
    BY <1>e DEF Valid
  <2>2. UNCHANGED <<status, tokens, tasks, crossed, latest>>
    BY <1>e DEF StatusCallback, events
  <2>3. TypeOK'
    BY <1>a, <2>2 DEF TypeOK
  <2>4. TokensWait'
    BY <1>a, <2>1, <2>2 DEF TokensWait
  <2>5. NothingBefore' /\ InboundNeverEnds' /\ TokensGo'
    BY <1>a, <2>2 DEF NothingBefore, InboundNeverEnds, TokensGo, OfCall
  <2>6. OneInFlight' /\ InFlightIsLatest' /\ RowIsTheLatest'
    BY <1>a, <2>2 DEF OneInFlight, InFlightIsLatest, RowIsTheLatest, OfCall
  <2>. QED
    BY <1>c, <2>3, <2>4, <2>5, <2>6
<1>. QED
  BY <1>d, <1>e

\* A stream's session ends, and its call.
LEMMA Closing ==
  ASSUME IInv, NEW i \in Ids, i \in served \/ sess[i] # "none", i \notin pending,
         Close(i), starts' \subseteq starts,
         UNCHANGED <<fixed, dicts, row, events, failed, tried, served, restarts, marks>>
  PROVE  IInv'
<1>. USE DEF IInv
<1>a. /\ Over(i[1]) /\ sess' = [sess EXCEPT ![i] = "ended"]
      /\ asked' = asked \ {i} /\ saving' = [saving EXCEPT ![i] = 0]
      /\ UNCHANGED <<kind, own, pending, tokens, status, row, tasks, crossed, latest, failed,
                     ends, said, tried, served, restarts, lost, refused, unheard>>
  BY DEF Close, fixed, dicts, events, marks
<1>b. i[1] \in Calls /\ line[i[1]] # "idle"
  BY IdsAre DEF IdsInUse
<1>c. /\ line' = [line EXCEPT ![i[1]] = "over"] /\ post' \subseteq Calls \X Statuses
      /\ line' \in [Calls -> {"idle", "queued", "ringing", "in-progress", "over"}]
      /\ TokensWait' /\ NothingBefore' /\ InboundNeverEnds'
  BY <1>a, <1>b, Ends
<1>d. \A d \in Calls : line'[d] = IF d = i[1] THEN "over" ELSE line[d]
  BY <1>c DEF TypeOK
<1>e. \A j \in Ids : sess'[j] = IF j = i THEN "ended" ELSE sess[j]
  BY <1>a DEF TypeOK
<1>1. TypeOK'
  BY <1>a, <1>c DEF TypeOK, Stages
<1>2. IdsInUse'
  BY <1>a, <1>d, <1>e, IdsAre DEF IdsInUse
<1>3. EntriesUnused'
  BY <1>a, <1>e DEF TypeOK, EntriesUnused
<1>4. TokensWait'
  BY <1>c
<1>5. NothingBefore'
  BY <1>c
<1>6. InboundNeverEnds'
  BY <1>c
<1>7. EntriesWait'
  BY <1>a, <1>d DEF EntriesWait
<1>8. KnownCallsAreServed'
  BY <1>a DEF KnownCallsAreServed
<1>9. EndFrameOnce'
  BY <1>a DEF EndFrameOnce
<1>10. OneInFlight'
  BY <1>a DEF OneInFlight
<1>11. InFlightIsLatest'
  BY <1>a DEF InFlightIsLatest
<1>12. RowIsTheLatest'
  BY <1>a DEF RowIsTheLatest, OfCall
<1>13. TokensGo'
  BY <1>a DEF TokensGo, OfCall
<1>. QED
  BY <1>1, <1>2, <1>3, <1>4, <1>5, <1>6, <1>7, <1>8, <1>9, <1>10, <1>11, <1>12, <1>13

\* The relationship of a stream's call is known.
LEMMA Starting ==
  ASSUME IInv, NEW i \in Ids, i \in served \/ sess[i] # "none",
         i \notin pending', pending' = pending \/ (i \in served /\ pending' = pending \ {i}),
         sess' = [sess EXCEPT ![i] = "loading"], Started(i), starts' \subseteq starts,
         UNCHANGED <<fixed, tokens, status, row, failed, talk, line, post, tried, served,
                     restarts, marks>>
  PROVE  IInv'
<1>. USE DEF IInv
<1>. DEFINE c == i[1]
<1>a. /\ c \in Calls /\ i[2] \in 0..MaxTries /\ line[c] # "idle"
      /\ UNCHANGED <<kind, own, tokens, status, row, failed, saving, asked, ends, said,
                     line, post, tried, served, restarts, lost, refused, unheard>>
  BY IdsAre, BoundsAssumption DEF IdsInUse, fixed, talk, marks
<1>b. Schedule(c, i[2], "media_stream_started", "in-progress") /\ row' = row /\ failed' = failed
  BY DEF Started
<1>0. "in-progress" \in Statuses /\ "media_stream_started" \in EventTypes
  BY DEF Statuses, EventTypes
<1>. HIDE DEF c
<1>c. /\ tasks' \subseteq Event
      /\ latest' \in [Calls -> Statuses \cup {"unknown"}]
      /\ crossed \subseteq crossed' /\ crossed' \subseteq Calls
      /\ \A t \in tasks' \ tasks : t.call = c /\ t.status = "in-progress" /\ t.at = "row"
      /\ \A t \in tasks : t.call = c => c \in crossed'
      /\ OneInFlight' /\ InFlightIsLatest' /\ RowIsTheLatest'
  BY <1>0, <1>a, <1>b, Scheduled, Zenon
<1>d. \A j \in Ids : sess'[j] = IF j = i THEN "loading" ELSE sess[j]
  BY DEF TypeOK
<1>1. TypeOK'
  BY <1>a, <1>c DEF TypeOK, Stages
<1>2. IdsInUse'
  BY <1>a, <1>d, IdsAre DEF IdsInUse
<1>3. EntriesUnused'
  BY <1>d DEF TypeOK, EntriesUnused
<1>4. TokensWait'
  BY <1>a DEF TokensWait
<1>5. NothingBefore'
  BY <1>a, <1>c DEF NothingBefore, OfCall
<1>6. InboundNeverEnds'
  BY <1>a, <1>c DEF InboundNeverEnds, OfCall, Final
<1>7. EntriesWait'
  BY <1>a DEF EntriesWait
<1>8. KnownCallsAreServed'
  BY <1>a DEF KnownCallsAreServed
<1>9. EndFrameOnce'
  BY <1>a DEF EndFrameOnce
<1>10. OneInFlight'
  BY <1>c
<1>11. InFlightIsLatest'
  BY <1>c
<1>12. RowIsTheLatest'
  BY <1>c
<1>13. TokensGo'
  BY <1>a, <1>c DEF TokensGo, OfCall, Final
<1>. QED
  BY <1>1, <1>2, <1>3, <1>4, <1>5, <1>6, <1>7, <1>8, <1>9, <1>10, <1>11, <1>12, <1>13

\* A stream's session goes on otherwise.
LEMMA Proceeding ==
  ASSUME IInv, NEW i \in Ids, i \in served \/ sess[i] # "none",
         NEW stage \in {"resolving", "talking"},
         i \notin pending', pending' = pending \/ (i \in served /\ pending' = pending \ {i}),
         sess' = [sess EXCEPT ![i] = stage], starts' \subseteq starts,
         UNCHANGED <<fixed, tokens, status, row, events, failed, talk, line, post, tried,
                     served, restarts, marks>>
  PROVE  IInv'
<1>. USE DEF IInv
<1>a. UNCHANGED <<kind, own, tokens, status, row, tasks, crossed, latest, failed, saving,
                  asked, ends, said, line, post, tried, served, restarts, lost, refused,
                  unheard>>
  BY DEF fixed, talk, marks, events
<1>b. \A j \in Ids : sess'[j] = IF j = i THEN stage ELSE sess[j]
  BY DEF TypeOK
<1>1. TypeOK'
  BY <1>a DEF TypeOK, Stages
<1>2. IdsInUse'
  BY <1>a, <1>b, IdsAre DEF IdsInUse
<1>3. EntriesUnused'
  BY <1>b DEF TypeOK, EntriesUnused
<1>4. TokensWait'
  BY <1>a DEF TokensWait
<1>5. NothingBefore'
  BY <1>a DEF NothingBefore, OfCall
<1>6. InboundNeverEnds'
  BY <1>a DEF InboundNeverEnds, OfCall
<1>7. EntriesWait'
  BY <1>a DEF EntriesWait
<1>8. KnownCallsAreServed'
  BY <1>a DEF KnownCallsAreServed
<1>9. EndFrameOnce'
  BY <1>a DEF EndFrameOnce
<1>10. OneInFlight'
  BY <1>a DEF OneInFlight
<1>11. InFlightIsLatest'
  BY <1>a DEF InFlightIsLatest
<1>12. RowIsTheLatest'
  BY <1>a DEF RowIsTheLatest, OfCall
<1>13. TokensGo'
  BY <1>a DEF TokensGo, OfCall
<1>. QED
  BY <1>1, <1>2, <1>3, <1>4, <1>5, <1>6, <1>7, <1>8, <1>9, <1>10, <1>11, <1>12, <1>13

\* Start, resolution, loading and end of a stream.
LEMMA StreamSteps ==
  ASSUME IInv, NEW i \in Ids, Start(i) \/ Resolve(i) \/ Load(i) \/ EndSession(i)
  PROVE  IInv'
<1>. USE DEF IInv
<1>a. CASE Start(i)
  <2>1. i \in served /\ starts' \subseteq starts
    BY <1>a DEF Start, IdsInUse
  <2>2. CASE i \notin pending
    <3>1. Close(i) /\ UNCHANGED <<pending, events>>
      BY <1>a, <2>2 DEF Start
    <3>. QED
      BY <1>a, <2>1, <2>2, <3>1, Closing DEF Start, dicts
  <2>3. CASE i \in pending /\ kind[i[1]] = "inbound"
    <3>1. /\ pending' = pending \ {i} /\ sess' = [sess EXCEPT ![i] = "resolving"]
          /\ UNCHANGED <<events, talk, line, post>>
      BY <1>a, <2>3 DEF Start, PopEntry
    <3>. QED
      BY <1>a, <2>1, <3>1, Proceeding DEF Start
  <2>4. CASE i \in pending /\ kind[i[1]] # "inbound"
    <3>1. /\ pending' = pending \ {i} /\ sess' = [sess EXCEPT ![i] = "loading"]
          /\ Started(i) /\ UNCHANGED <<talk, line, post>>
      BY <1>a, <2>4 DEF Start, PopEntry
    <3>. QED
      BY <1>a, <2>1, <3>1, Starting DEF Start
  <2>. QED
    BY <2>2, <2>3, <2>4
<1>b. CASE Resolve(i)
  <2>1. sess[i] # "none" /\ i \notin pending
    BY <1>b DEF Resolve, EntriesUnused
  <2>2. /\ UNCHANGED <<fixed, dicts, row, failed, tried, served, starts, restarts, marks>>
        /\ \/ sess' = [sess EXCEPT ![i] = "loading"] /\ Started(i) /\ UNCHANGED <<talk, line, post>>
           \/ Close(i) /\ UNCHANGED events
    BY <1>b DEF Resolve
  <2>3. CASE Close(i) /\ UNCHANGED events
    BY <2>1, <2>2, <2>3, Closing
  <2>4. CASE ~(Close(i) /\ UNCHANGED events)
    <3>1. pending' = pending
      BY <2>2 DEF dicts
    <3>. QED
      BY <2>1, <2>2, <2>4, <3>1, Starting DEF dicts
  <2>. QED
    BY <2>3, <2>4
<1>c. CASE Load(i)
  <2>1. sess[i] # "none" /\ i \notin pending
    BY <1>c DEF Load, EntriesUnused
  <2>2. /\ UNCHANGED <<fixed, dicts, row, events, failed, tried, served, starts, restarts, marks>>
        /\ \/ sess' = [sess EXCEPT ![i] = "talking"] /\ UNCHANGED <<talk, line, post>>
           \/ Close(i)
    BY <1>c DEF Load
  <2>3. CASE Close(i)
    BY <2>1, <2>2, <2>3, Closing
  <2>4. CASE ~Close(i)
    <3>1. pending' = pending
      BY <2>2 DEF dicts
    <3>. QED
      BY <2>1, <2>2, <2>4, <3>1, Proceeding DEF dicts
  <2>. QED
    BY <2>3, <2>4
<1>d. CASE EndSession(i)
  <2>1. sess[i] # "none" /\ i \notin pending
    BY <1>d DEF EndSession, EntriesUnused
  <2>. QED
    BY <1>d, <2>1, Closing DEF EndSession
<1>. QED
  BY <1>a, <1>b, <1>c, <1>d

\* Lines of the assistant, and requests to end the call.
LEMMA Talks ==
  ASSUME IInv, NEW i \in Ids, RequestEnd(i) \/ Say(i) \/ Saved(i)
  PROVE  IInv'
<1>. USE DEF IInv
<1>a. /\ UNCHANGED <<kind, own, pending, tokens, status, row, tasks, crossed, latest, failed,
                     sess, line, tried, served, starts, post, restarts, lost, refused, unheard>>
      /\ sess[i] = "talking"
  BY DEF RequestEnd, Say, Saved, fixed, dicts, events, network, marks
<1>b. /\ saving' \in [Ids -> Nat] /\ said' \in [Ids -> Nat] /\ asked' \subseteq Ids
      /\ ends' \in [Ids -> Nat] /\ EndFrameOnce'
  <2>1. CASE RequestEnd(i) \/ Say(i)
    BY <2>1 DEF RequestEnd, Say, TypeOK, EndFrameOnce
  <2>2. CASE Saved(i) /\ MustEnd(i)
    <3>1. ends' = [ends EXCEPT ![i] = @ + 1] /\ ends[i] = 0 /\ asked' = asked \ {i}
      BY <2>2 DEF Saved, MustEnd
    <3>2. saving' = [saving EXCEPT ![i] = @ - 1] /\ saving[i] > 0 /\ said' = said
      BY <2>2 DEF Saved
    <3>. QED
      BY <3>1, <3>2 DEF TypeOK, EndFrameOnce
  <2>3. CASE Saved(i) /\ ~MustEnd(i)
    BY <2>3 DEF Saved, TypeOK, EndFrameOnce
  <2>. QED
    BY <2>1, <2>2, <2>3
<1>1. TypeOK'
  BY <1>a, <1>b DEF TypeOK
<1>2. IdsInUse'
  BY <1>a DEF IdsInUse
<1>3. EntriesUnused'
  BY <1>a DEF EntriesUnused
<1>4. TokensWait'
  BY <1>a DEF TokensWait
<1>5. NothingBefore'
  BY <1>a DEF NothingBefore, OfCall
<1>6. InboundNeverEnds'
  BY <1>a DEF InboundNeverEnds, OfCall
<1>7. EntriesWait'
  BY <1>a DEF EntriesWait
<1>8. KnownCallsAreServed'
  BY <1>a DEF KnownCallsAreServed
<1>9. EndFrameOnce'
  BY <1>b
<1>10. OneInFlight'
  BY <1>a DEF OneInFlight
<1>11. InFlightIsLatest'
  BY <1>a DEF InFlightIsLatest
<1>12. RowIsTheLatest'
  BY <1>a DEF RowIsTheLatest, OfCall
<1>13. TokensGo'
  BY <1>a DEF TokensGo, OfCall
<1>. QED
  BY <1>1, <1>2, <1>3, <1>4, <1>5, <1>6, <1>7, <1>8, <1>9, <1>10, <1>11, <1>12, <1>13

\* The row of a call is written by a task of an event.
LEMMA Upserts ==
  ASSUME IInv, NEW t \in tasks, Upsert(t),
         UNCHANGED <<fixed, dicts, crossed, latest, sess, talk, line, tried, network,
                     restarts, marks>>
  PROVE  IInv'
<1>. USE DEF IInv
<1>a. UNCHANGED <<kind, own, pending, tokens, status, crossed, latest, sess, saving, asked,
                  ends, said, line, tried, served, starts, post, restarts, lost, refused,
                  unheard>>
  BY DEF fixed, dicts, talk, network, marks
<1>b. t \in Event /\ t.call \in Calls /\ line[t.call] # "idle"
  BY DEF TypeOK, Event, NothingBefore, OfCall
<1>c. /\ t.at = "row" /\ failed' = failed /\ row' = [row EXCEPT ![t.call] = t.status]
      /\ tasks' = (tasks \ {t}) \cup {[t EXCEPT !.at = "log"]}
  BY DEF Upsert, Coalesce
<1>d. PICK n \in Event :
        /\ tasks' = (tasks \ {t}) \cup {n}
        /\ n.call = t.call /\ n.status = t.status /\ n.at = "log"
  <2>. DEFINE n == [t EXCEPT !.at = "log"]
  <2>1. n \in Event /\ n.call = t.call /\ n.status = t.status /\ n.at = "log"
    BY <1>b DEF Event
  <2>2. tasks' = (tasks \ {t}) \cup {n}
    BY <1>c
  <2>. HIDE DEF n
  <2>. QED
    BY <2>1, <2>2
<1>e. \A d \in Calls : row'[d] = IF d = t.call THEN t.status ELSE row[d]
  BY <1>c DEF TypeOK
<1>1. TypeOK'
  BY <1>a, <1>b, <1>c, <1>d DEF TypeOK, Event
<1>2. IdsInUse'
  BY <1>a DEF IdsInUse
<1>3. EntriesUnused'
  BY <1>a DEF EntriesUnused
<1>4. TokensWait'
  BY <1>a DEF TokensWait
<1>5. NothingBefore'
  BY <1>a, <1>b, <1>d, <1>e DEF NothingBefore, OfCall
<1>6. InboundNeverEnds'
  BY <1>a, <1>b, <1>d, <1>e DEF InboundNeverEnds, OfCall
<1>7. EntriesWait'
  BY <1>a DEF EntriesWait
<1>8. KnownCallsAreServed'
  BY <1>a DEF KnownCallsAreServed
<1>9. EndFrameOnce'
  BY <1>a DEF EndFrameOnce
<1>10. OneInFlight'
  BY <1>a, <1>d DEF OneInFlight
<1>11. InFlightIsLatest'
  <2>. SUFFICES ASSUME NEW u \in tasks', u.call \notin crossed
       PROVE  /\ u.at = "row" => u.status = latest[u.call]
              /\ u.at = "log" /\ u.call \notin failed => row'[u.call] = latest[u.call]
    BY <1>a, <1>c DEF InFlightIsLatest
  <2>1. CASE u \in tasks
    <3>1. u.call # t.call \/ u = t
      BY <2>1 DEF OneInFlight
    <3>2. u # t /\ u.call \in Calls
      BY <1>c, <1>d, <2>1 DEF TypeOK, Event
    <3>. QED
      BY <1>e, <2>1, <3>1, <3>2 DEF InFlightIsLatest
  <2>2. CASE u \notin tasks
    BY <1>b, <1>c, <1>d, <1>e, <2>2 DEF InFlightIsLatest
  <2>. QED
    BY <2>1, <2>2
<1>12. RowIsTheLatest'
  <2>. SUFFICES ASSUME NEW d \in Calls, d \notin crossed, d \notin failed, OfCall(d, tasks') = {}
       PROVE  row'[d] = latest[d]
    BY <1>a, <1>c DEF RowIsTheLatest
  <2>1. d # t.call /\ OfCall(d, tasks) = {}
    BY <1>d DEF OfCall
  <2>. QED
    BY <1>e, <2>1 DEF RowIsTheLatest
<1>13. TokensGo'
  <2>. SUFFICES ASSUME NEW d \in own
       PROVE  /\ status[d] \in Final \/ row'[d] \in Final => d \notin tokens
              /\ \A u \in OfCall(d, tasks') : u.status \in Final => d \notin tokens
              /\ row'[d] \in Final /\ d \notin crossed =>
                   \A u \in OfCall(d, tasks') : u.at = "row" => u.status = "in-progress"
    BY <1>a DEF TokensGo
  <2>0. d \in Calls
    BY DEF TypeOK
  <2>1. CASE d = t.call
    <3>1. t.status \in Final => d \notin tokens
      BY <2>1 DEF TokensGo, OfCall
    <3>2. status[d] \in Final \/ row'[d] \in Final => d \notin tokens
      BY <1>e, <2>0, <2>1, <3>1 DEF TokensGo
    <3>3. \A u \in OfCall(d, tasks') : u.status \in Final => d \notin tokens
      BY <1>d, <3>1 DEF TokensGo, OfCall
    <3>4. ASSUME d \notin crossed, NEW u \in OfCall(d, tasks'), u.at = "row" PROVE FALSE
      BY <1>d, <2>1, <3>4 DEF OneInFlight, OfCall
    <3>. QED
      BY <3>2, <3>3, <3>4
  <2>2. CASE d # t.call
    BY <1>d, <1>e, <2>0, <2>2 DEF TokensGo, OfCall
  <2>. QED
    BY <2>1, <2>2
<1>. QED
  BY <1>1, <1>2, <1>3, <1>4, <1>5, <1>6, <1>7, <1>8, <1>9, <1>10, <1>11, <1>12, <1>13

\* The event itself is written.
LEMMA Records ==
  ASSUME IInv, NEW t \in tasks, Record(t),
         UNCHANGED <<fixed, dicts, crossed, latest, sess, talk, line, tried, network,
                     restarts, marks>>
  PROVE  IInv'
<1>. USE DEF IInv
<1>a. UNCHANGED <<kind, own, pending, tokens, status, crossed, latest, sess, saving, asked,
                  ends, said, line, tried, served, starts, post, restarts, lost, refused,
                  unheard>>
  BY DEF fixed, dicts, talk, network, marks
<1>b. t \in Event /\ t.call \in Calls /\ line[t.call] # "idle"
  BY DEF TypeOK, Event, NothingBefore, OfCall
<1>c. t.at = "log" /\ tasks' = tasks \ {t} /\ row' = row /\ failed' = failed
  BY DEF Record
<1>1. TypeOK'
  BY <1>a, <1>c DEF TypeOK
<1>2. IdsInUse'
  BY <1>a DEF IdsInUse
<1>3. EntriesUnused'
  BY <1>a DEF EntriesUnused
<1>4. TokensWait'
  BY <1>a DEF TokensWait
<1>5. NothingBefore'
  BY <1>a, <1>c DEF NothingBefore, OfCall
<1>6. InboundNeverEnds'
  BY <1>a, <1>c DEF InboundNeverEnds, OfCall
<1>7. EntriesWait'
  BY <1>a DEF EntriesWait
<1>8. KnownCallsAreServed'
  BY <1>a DEF KnownCallsAreServed
<1>9. EndFrameOnce'
  BY <1>a DEF EndFrameOnce
<1>10. OneInFlight'
  BY <1>a, <1>c DEF OneInFlight
<1>11. InFlightIsLatest'
  BY <1>a, <1>c DEF InFlightIsLatest
<1>12. RowIsTheLatest'
  <2>. SUFFICES ASSUME NEW d \in Calls, d \notin crossed, d \notin failed, OfCall(d, tasks') = {}
       PROVE  row[d] = latest[d]
    BY <1>a, <1>c DEF RowIsTheLatest
  <2>1. CASE d = t.call
    BY <1>c, <2>1 DEF InFlightIsLatest
  <2>2. CASE d # t.call
    <3>1. OfCall(d, tasks) = {}
      BY <1>c, <2>2 DEF OfCall
    <3>. QED
      BY <3>1 DEF RowIsTheLatest
  <2>. QED
    BY <2>1, <2>2
<1>13. TokensGo'
  BY <1>a, <1>c DEF TokensGo, OfCall
<1>. QED
  BY <1>1, <1>2, <1>3, <1>4, <1>5, <1>6, <1>7, <1>8, <1>9, <1>10, <1>11, <1>12, <1>13

\* An event is lost.
LEMMA WriteBreaks ==
  ASSUME IInv, NEW t \in tasks, WriteFails(t),
         UNCHANGED <<fixed, dicts, crossed, latest, sess, talk, line, tried, network,
                     restarts, marks>>
  PROVE  IInv'
<1>. USE DEF IInv
<1>a. UNCHANGED <<kind, own, pending, tokens, status, crossed, latest, sess, saving, asked,
                  ends, said, line, tried, served, starts, post, restarts, lost, refused,
                  unheard>>
  BY DEF fixed, dicts, talk, network, marks
<1>b. t \in Event /\ t.call \in Calls /\ line[t.call] # "idle"
  BY DEF TypeOK, Event, NothingBefore, OfCall
<1>c. tasks' = tasks \ {t} /\ row' = row /\ failed' = failed \cup {t.call}
  BY DEF WriteFails
<1>1. TypeOK'
  BY <1>a, <1>b, <1>c DEF TypeOK
<1>2. IdsInUse'
  BY <1>a DEF IdsInUse
<1>3. EntriesUnused'
  BY <1>a DEF EntriesUnused
<1>4. TokensWait'
  BY <1>a DEF TokensWait
<1>5. NothingBefore'
  BY <1>a, <1>c DEF NothingBefore, OfCall
<1>6. InboundNeverEnds'
  BY <1>a, <1>c DEF InboundNeverEnds, OfCall
<1>7. EntriesWait'
  BY <1>a DEF EntriesWait
<1>8. KnownCallsAreServed'
  BY <1>a DEF KnownCallsAreServed
<1>9. EndFrameOnce'
  BY <1>a DEF EndFrameOnce
<1>10. OneInFlight'
  BY <1>a, <1>c DEF OneInFlight
<1>11. InFlightIsLatest'
  BY <1>a, <1>c DEF InFlightIsLatest
<1>12. RowIsTheLatest'
  <2>. SUFFICES ASSUME NEW d \in Calls, d \notin crossed, d \notin failed', OfCall(d, tasks') = {}
       PROVE  row[d] = latest[d]
    BY <1>a, <1>c DEF RowIsTheLatest
  <2>1. OfCall(d, tasks) = {}
    BY <1>c DEF OfCall
  <2>. QED
    BY <1>c, <2>1 DEF RowIsTheLatest
<1>13. TokensGo'
  BY <1>a, <1>c DEF TokensGo, OfCall
<1>. QED
  BY <1>1, <1>2, <1>3, <1>4, <1>5, <1>6, <1>7, <1>8, <1>9, <1>10, <1>11, <1>12, <1>13

\* The server restarts.
LEMMA Restarts ==
  ASSUME IInv, Restart
  PROVE  IInv'
<1>. USE DEF IInv
<1>a. failed' \subseteq Calls /\ lost' \subseteq Calls
  BY DEF Restart, TypeOK, Event
<1>b. sess' \in [Ids -> Stages] /\ restarts' \in 0..MaxRestarts
  BY BoundsAssumption DEF Restart, TypeOK, Stages
<1>1. TypeOK'
  BY <1>a, <1>b DEF Restart, TypeOK, fixed
<1>2. IdsInUse'
  BY DEF IdsInUse, Restart, fixed
<1>3. EntriesUnused'
  BY DEF EntriesUnused, Restart
<1>4. TokensWait'
  BY DEF TokensWait, Restart, fixed, marks
<1>5. NothingBefore'
  BY DEF NothingBefore, OfCall, Restart, events
<1>6. InboundNeverEnds'
  BY DEF InboundNeverEnds, OfCall, Restart, fixed, events
<1>7. EntriesWait'
  BY DEF EntriesWait, Restart, fixed, marks
<1>8. KnownCallsAreServed'
  BY DEF KnownCallsAreServed, Restart, fixed, marks
<1>9. EndFrameOnce'
  BY DEF EndFrameOnce, Restart
<1>10. OneInFlight'
  BY DEF OneInFlight, Restart, events
<1>11. InFlightIsLatest'
  BY DEF InFlightIsLatest, Restart, events
<1>12. RowIsTheLatest'
  BY DEF RowIsTheLatest, OfCall, Restart, events
<1>13. TokensGo'
  BY DEF TokensGo, OfCall, Restart, fixed, events
<1>. QED
  BY <1>1, <1>2, <1>3, <1>4, <1>5, <1>6, <1>7, <1>8, <1>9, <1>10, <1>11, <1>12, <1>13

\* A step of a call: its dialling, its webhooks, its callbacks, Twilio's own steps.
LEMMA CallSteps ==
  ASSUME IInv, NEW c \in Calls, CallStep(c)
  PROVE  IInv'
<1>1. CASE DialOut(c) \/ DashboardDial(c) \/ DialogmachineDial(c)
  BY <1>1, Places DEF DialOut, DashboardDial, DialogmachineDial
<1>2. CASE DialFails(c)
  BY <1>2, DialBreaks
<1>3. CASE Inbound(c)
  BY <1>3, ComesIn
<1>4. CASE GetTwiml(c)
  BY <1>4, Fetches
<1>5. CASE Ring(c) \/ PickUp(c)
  BY <1>5, Advances DEF Ring, PickUp, Statuses
<1>6. CASE HangUp(c)
  BY <1>6, HangsUp
<1>7. CASE \E s \in Statuses : StatusCallback(c, s) \/ LoseCallback(c, s)
  BY <1>7, Reports, Loses
<1>. QED
  BY <1>1, <1>2, <1>3, <1>4, <1>5, <1>6, <1>7 DEF CallStep

\* Every step keeps the invariant.
LEMMA NextIInv == IInv /\ [Next]_vars => IInv'
<1>. SUFFICES ASSUME IInv, [Next]_vars PROVE IInv'
  OBVIOUS
<1>1. CASE \E c \in Calls : CallStep(c)
  BY <1>1, CallSteps
<1>2. CASE \E i \in Ids : StreamStep(i)
  BY <1>2, Opens, StreamSteps, Talks DEF StreamStep
<1>3. CASE Persist
  <2>1. UNCHANGED <<fixed, dicts, crossed, latest, sess, talk, line, tried, network,
                    restarts, marks>>
    BY <1>3 DEF Persist
  <2>2. PICK t \in tasks : Upsert(t) \/ Record(t) \/ WriteFails(t)
    BY <1>3 DEF Persist
  <2>. QED
    BY <2>1, <2>2, Upserts, Records, WriteBreaks
<1>4. CASE Restart
  BY <1>4, Restarts
<1>5. CASE UNCHANGED vars
  <2>1. UNCHANGED <<kind, own, pending, tokens, status, row, tasks, crossed, latest, failed,
                    sess, saving, asked, ends, said, line, tried, served, starts, post,
                    restarts, lost, refused, unheard>>
    BY <1>5 DEF vars, fixed, dicts, events, talk, network, marks
  <2>2. TypeOK' /\ IdsInUse' /\ EntriesUnused' /\ TokensWait' /\ EndFrameOnce'
    BY <2>1 DEF IInv, TypeOK, IdsInUse, EntriesUnused, TokensWait, EndFrameOnce
  <2>3. NothingBefore' /\ InboundNeverEnds' /\ EntriesWait' /\ KnownCallsAreServed'
    BY <2>1 DEF IInv, NothingBefore, InboundNeverEnds, EntriesWait, KnownCallsAreServed, OfCall
  <2>4. OneInFlight' /\ InFlightIsLatest' /\ RowIsTheLatest' /\ TokensGo'
    BY <2>1 DEF IInv, OneInFlight, InFlightIsLatest, RowIsTheLatest, TokensGo, OfCall
  <2>. QED
    BY <2>2, <2>3, <2>4 DEF IInv
<1>. QED
  BY <1>1, <1>2, <1>3, <1>4, <1>5 DEF Next

\* The invariant holds in every reachable state.
THEOREM Invariance == Spec => []IInv
<1>1. Init => IInv
  BY InitIInv
<1>2. IInv /\ [Next]_vars => IInv'
  BY NextIInv
<1>. QED
  BY <1>1, <1>2, PTL DEF Spec

\* What a call leaves in the dictionaries when it is over is what no handler removes:
\* the entry of a stream that never began, the token of a callback that never came.
THEOREM Leftovers == Spec => []LeftoversAreKnown
<1>1. IInv => LeftoversAreKnown
  <2>. SUFFICES ASSUME IInv PROVE LeftoversAreKnown
    OBVIOUS
  <2>1. \A i \in pending : sess[i] = "none"
    BY DEF IInv, EntriesUnused
  <2>2. ASSUME NEW c \in tokens, line[c] = "over", \A s \in Statuses : <<c, s>> \notin post
        PROVE  c \in unheard
    BY <2>2 DEF IInv, TokensWait, Statuses, Final
  <2>. QED
    BY <2>1, <2>2 DEF LeftoversAreKnown
<1>. QED
  BY <1>1, Invariance, PTL

\* get_twiml refuses a call that was answered for the known reasons only.
THEOREM AnsweredCalls == Spec => []KnownCallsAreServed
<1>1. IInv => KnownCallsAreServed
  BY DEF IInv
<1>. QED
  BY <1>1, Invariance, PTL

\* With no event in flight, none lost and none crossed, a call's row is up to date.
THEOREM RowsCatchUp == Spec => []RowIsTheLatest
<1>1. IInv => RowIsTheLatest
  BY DEF IInv
<1>. QED
  BY <1>1, Invariance, PTL

\* However many lines are being saved when the end is asked for, the pipeline of a
\* stream gets one EndFrame.
THEOREM OneEndFrame == Spec => []EndFrameOnce
<1>1. IInv => EndFrameOnce
  BY DEF IInv
<1>. QED
  BY <1>1, Invariance, PTL
\* Two steps write the last status of a call of a companion's account: a callback, whose
\* signature cannot be checked any more, and a task, which has a stream's start to write.
LEMMA StatusSteps ==
  ASSUME IInv, NEW c \in own, status[c] \in Final,
         NEW d \in Calls, NEW s \in Statuses, StatusCallback(d, s)
  PROVE  status'[c] = status[c]
<1>1. c \notin tokens /\ c \in Calls /\ status \in [Calls -> Statuses \cup {"unknown"}]
  BY DEF IInv, TokensGo, TypeOK
<1>2. CASE d = c
  BY <1>1, <1>2 DEF StatusCallback, Valid
<1>3. CASE d # c
  BY <1>1, <1>3 DEF StatusCallback
<1>. QED
  BY <1>2, <1>3

LEMMA RowSteps ==
  ASSUME IInv, NEW c \in own, row[c] \in Final, c \notin crossed, NEW t \in tasks, Upsert(t)
  PROVE  row'[c] \in {row[c], "in-progress"}
<1>1. c \in Calls /\ row \in [Calls -> Statuses \cup {"unknown"}]
  BY DEF IInv, TypeOK
<1>2. t.at = "row" /\ row' = [row EXCEPT ![t.call] = t.status]
  BY DEF Upsert, Coalesce
<1>3. CASE t.call = c
  <2>1. t.status = "in-progress"
    BY <1>2, <1>3 DEF IInv, TokensGo, OfCall
  <2>. QED
    BY <1>1, <1>2, <1>3, <2>1
<1>4. CASE t.call # c
  BY <1>1, <1>2, <1>4
<1>. QED
  BY <1>3, <1>4

\* The last status of a call of a companion's account stays, in memory and in its row.
THEOREM EndsStay == Spec => TheEndIsKept
<1>. DEFINE Kept == \A c \in own :
       /\ status[c] \in Final => status'[c] \in {status[c], "unknown"}
       /\ row[c] \in Final /\ c \notin crossed => row'[c] \in {row[c], "in-progress"}
<1>1. ASSUME IInv, [Next]_vars PROVE Kept
  <2>. SUFFICES ASSUME NEW c \in own PROVE
         /\ status[c] \in Final => status'[c] \in {status[c], "unknown"}
         /\ row[c] \in Final /\ c \notin crossed => row'[c] \in {row[c], "in-progress"}
    OBVIOUS
  <2>1. CASE \E d \in Calls : CallStep(d)
    <3>1. PICK d \in Calls : CallStep(d)
      BY <2>1
    <3>2. CASE \E s \in Statuses : StatusCallback(d, s)
      <4>1. row' = row
        BY <3>2 DEF StatusCallback
      <4>. QED
        BY <1>1, <3>2, <4>1, StatusSteps
    <3>3. CASE ~ \E s \in Statuses : StatusCallback(d, s)
      <4>1. UNCHANGED <<status, row>>
        BY <3>1, <3>3 DEF CallStep, DialOut, DashboardDial, DialogmachineDial, Place, DialFails,
             Inbound, GetTwiml, Ring, PickUp, Advance, HangUp, LoseCallback, dicts
      <4>. QED
        BY <4>1
    <3>. QED
      BY <3>2, <3>3
  <2>2. CASE \E i \in Ids : StreamStep(i)
    <3>1. UNCHANGED <<status, row>>
      BY <2>2 DEF StreamStep, OpenStream, Start, Resolve, Load, RequestEnd, Say, Saved,
           EndSession, dicts
    <3>. QED
      BY <3>1
  <2>3. CASE Persist
    <3>1. status' = status
      BY <2>3 DEF Persist, dicts
    <3>2. PICK t \in tasks : Upsert(t) \/ Record(t) \/ WriteFails(t)
      BY <2>3 DEF Persist
    <3>3. CASE Upsert(t)
      BY <1>1, <3>1, <3>3, RowSteps
    <3>4. CASE Record(t) \/ WriteFails(t)
      BY <3>1, <3>4 DEF Record, WriteFails
    <3>. QED
      BY <3>2, <3>3, <3>4
  <2>4. CASE Restart
    <3>1. c \in Calls
      BY <1>1 DEF IInv, TypeOK
    <3>. QED
      BY <2>4, <3>1 DEF Restart
  <2>5. CASE UNCHANGED vars
    BY <2>5 DEF vars, dicts
  <2>. QED
    BY <1>1, <2>1, <2>2, <2>3, <2>4, <2>5 DEF Next
<1>2. IInv /\ [Next]_vars => [Kept]_vars
  BY <1>1
<1>. QED
  BY <1>2, Invariance, PTL DEF Spec, TheEndIsKept

=============================================================================
