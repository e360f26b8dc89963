------------------------------ MODULE Sessions ------------------------------
(***************************************************************************)
(* The sessions of one relationship: requests create, patch and end them,  *)
(* each in several autocommitted statements; turns run inside or outside   *)
(* of them, and what a turn says may outlive it in the history of other    *)
(* turns, in the relationship's profile and in its memory.  A sealed       *)
(* session is one with isolated = TRUE.                                    *)
(***************************************************************************)
EXTENDS FiniteSets

CONSTANTS
  Sessions,  \* one for each call of create_session
  Sealed,    \* those created with isolated = TRUE
  Turns,     \* messages that clients send
  Enders,    \* calls of end_session
  Patchers,  \* calls of patch_session_state, each with a key of its own
  NoSession

ASSUME SealedAssumption == Sealed \subseteq Sessions
ASSUME NoSessionAssumption == NoSession \notin Sessions

Status == {"none", "checked", "inserted", "refused", "active", "ended"}
Message == Turns \X {"user", "assistant"}
Builders == {"session", "classified", "legacy"}

VARIABLES
  status,    \* of a session, before and after its row is committed
  state,     \* of a session: the changes merged into it
  summary,   \* of a session: the messages it was made from
  log,       \* messages rows
  pc, target, isolated, mode, \* a turn
  context,   \* a turn: the messages in its prompt
  later,     \* turns whose async behaviors or ingestion have yet to run
  left,      \* turns that left something in the profile or the memory
  endPc, endOf, seen, \* a call of end_session
  patchPc, patchOf,   \* a call of patch_session_state
  rivals     \* history: sessions whose INSERTs were in flight together

row == <<status, state, summary>>
turn == <<pc, target, isolated, mode, context>>
trace == <<later, left>>
end == <<endPc, endOf, seen>>
patch == <<patchPc, patchOf>>
vars == <<row, log, turn, trace, end, patch, rivals>>

TypeOK ==
  /\ status \in [Sessions -> Status]
  /\ state \in [Sessions -> SUBSET Patchers]
  /\ summary \in [Sessions -> SUBSET Message]
  /\ log \subseteq Message
  /\ pc \in [Turns -> {"idle", "accepted", "saved", "built", "replied", "done"}]
  /\ target \in [Turns -> Sessions \cup {NoSession}]
  /\ isolated \in [Turns -> BOOLEAN]
  /\ mode \in [Turns -> {"none"} \cup Builders]
  /\ context \in [Turns -> SUBSET Message]
  /\ later \subseteq Turns
  /\ left \subseteq Turns
  /\ endPc \in [Enders -> {"idle", "read", "returned"}]
  /\ endOf \in [Enders -> Sessions \cup {NoSession}]
  /\ seen \in [Enders -> SUBSET Message]
  /\ patchPc \in [Patchers -> {"idle", "checked", "saved", "failed"}]
  /\ patchOf \in [Patchers -> Sessions \cup {NoSession}]
  /\ rivals \in [Sessions -> SUBSET Sessions]

Init ==
  /\ status = [s \in Sessions |-> "none"]
  /\ state = [s \in Sessions |-> {}]
  /\ summary = [s \in Sessions |-> {}]
  /\ log = {}
  /\ pc = [t \in Turns |-> "idle"]
  /\ target = [t \in Turns |-> NoSession]
  /\ isolated = [t \in Turns |-> FALSE]
  /\ mode = [t \in Turns |-> "none"]
  /\ context = [t \in Turns |-> {}]
  /\ later = {}
  /\ left = {}
  /\ endPc = [e \in Enders |-> "idle"]
  /\ endOf = [e \in Enders |-> NoSession]
  /\ seen = [e \in Enders |-> {}]
  /\ patchPc = [p \in Patchers |-> "idle"]
  /\ patchOf = [p \in Patchers |-> NoSession]
  /\ rivals = [s \in Sessions |-> {}]

Active == {s \in Sessions : status[s] = "active"}
InFlight == {s \in Sessions : status[s] = "inserted"}
Messages(s) == {m \in log : target[m[1]] = s}

-----------------------------------------------------------------------------
(***************************************************************************)
(* Create.  The trigger check_single_active_session sees committed rows    *)
(* only, and runs in the INSERT: other INSERTs may be in flight with it.   *)
(***************************************************************************)
\* A slip: the trigger forgotten.
TriggerNever(s) == TRUE

TriggerAllows(s) == Active \subseteq {s}

CheckActive(s) ==
  /\ status[s] = "none"
  /\ status' = [status EXCEPT ![s] = IF Active = {} THEN "checked" ELSE "refused"]
  /\ UNCHANGED <<state, summary, log, turn, trace, end, patch, rivals>>

Insert(s) ==
  /\ status[s] = "checked"
  /\ IF TriggerAllows(s)
       THEN /\ status' = [status EXCEPT ![s] = "inserted"]
            /\ rivals' = [r \in Sessions |->
                 IF r = s THEN rivals[s] \cup InFlight
                 ELSE IF r \in InFlight THEN rivals[r] \cup {s} ELSE rivals[r]]
       ELSE /\ status' = [status EXCEPT ![s] = "refused"]
            /\ UNCHANGED rivals
  /\ UNCHANGED <<state, summary, log, turn, trace, end, patch>>

Commit(s) ==
  /\ status[s] = "inserted"
  /\ status' = [status EXCEPT ![s] = "active"]
  /\ UNCHANGED <<state, summary, log, turn, trace, end, patch, rivals>>

-----------------------------------------------------------------------------
(***************************************************************************)
(* End.  A read of the row and one of the messages (one step here: when    *)
(* the session is ended between them, the call fails either way), the      *)
(* summary by the LLM, the guarded UPDATE; the trigger looks only at rows  *)
(* that stay active.                                                       *)
(***************************************************************************)
EndStart(e, s) ==
  /\ endPc[e] = "idle"
  /\ status[s] = "active"
  /\ endPc' = [endPc EXCEPT ![e] = "read"]
  /\ endOf' = [endOf EXCEPT ![e] = s]
  /\ seen' = [seen EXCEPT ![e] = Messages(s)]
  /\ UNCHANGED <<row, log, turn, trace, patch, rivals>>

\* A slip: the trigger without IF NEW.status = 'active', which then refuses
\* the end of a session while another is active.
EndTriggered(e) ==
  /\ endPc[e] = "read"
  /\ endPc' = [endPc EXCEPT ![e] = "returned"]
  /\ LET s == endOf[e] IN
       IF status[s] = "active" /\ TriggerAllows(s)
         THEN /\ status' = [status EXCEPT ![s] = "ended"]
              /\ summary' = [summary EXCEPT ![s] = seen[e]]
         ELSE UNCHANGED <<status, summary>>
  /\ UNCHANGED <<state, log, turn, trace, endOf, seen, patch, rivals>>

\* An LLM that fails gives the summary of no messages.  A session that is
\* ended already is left alone, and the call answers 500.
EndUpdate(e) ==
  /\ endPc[e] = "read"
  /\ endPc' = [endPc EXCEPT ![e] = "returned"]
  /\ LET s == endOf[e] IN
       IF status[s] = "active"
         THEN /\ status' = [status EXCEPT ![s] = "ended"]
              /\ \E text \in {seen[e], {}} : summary' = [summary EXCEPT ![s] = text]
         ELSE UNCHANGED <<status, summary>>
  /\ UNCHANGED <<state, log, turn, trace, endOf, seen, patch, rivals>>

-----------------------------------------------------------------------------
(***************************************************************************)
(* Patch.  A read that validates, and a guarded UPDATE that merges; the    *)
(* trigger refuses it while another session is active.                     *)
(***************************************************************************)
PatchCheck(p, s) ==
  /\ patchPc[p] = "idle"
  /\ status[s] = "active"
  /\ s \notin Sealed
  /\ patchPc' = [patchPc EXCEPT ![p] = "checked"]
  /\ patchOf' = [patchOf EXCEPT ![p] = s]
  /\ UNCHANGED <<row, log, turn, trace, end, rivals>>

\* A slip: the UPDATE without AND status = 'active'.
PatchUnguarded(p) ==
  /\ patchPc[p] = "checked"
  /\ state' = [state EXCEPT ![patchOf[p]] = @ \cup {p}]
  /\ patchPc' = [patchPc EXCEPT ![p] = "saved"]
  /\ UNCHANGED <<status, summary, log, turn, trace, end, patchOf, rivals>>

PatchUpdate(p) ==
  /\ patchPc[p] = "checked"
  /\ LET s == patchOf[p] IN
       IF status[s] = "active" /\ TriggerAllows(s)
         THEN /\ state' = [state EXCEPT ![s] = @ \cup {p}]
              /\ patchPc' = [patchPc EXCEPT ![p] = "saved"]
         ELSE /\ patchPc' = [patchPc EXCEPT ![p] = "failed"]
              /\ UNCHANGED state
  /\ UNCHANGED <<status, summary, log, turn, trace, end, patchOf, rivals>>

-----------------------------------------------------------------------------
(***************************************************************************)
(* Turns.  A request over HTTP must name an active session and looks up    *)
(* whether it is sealed; one over the WebSocket does neither, and only the *)
(* foreign key asks that the session exist.  A turn whose LLM raises or    *)
(* whose client is gone stops where it is: nothing obliges it to go on.    *)
(***************************************************************************)
AcceptHttp(t, s) ==
  /\ pc[t] = "idle"
  /\ s = NoSession \/ s \in Active
  /\ pc' = [pc EXCEPT ![t] = "accepted"]
  /\ target' = [target EXCEPT ![t] = s]
  /\ isolated' = [isolated EXCEPT ![t] = s \in Sealed]
  /\ UNCHANGED <<row, log, mode, context, trace, end, patch, rivals>>

AcceptWebSocket(t, s) ==
  /\ pc[t] = "idle"
  /\ \/ s = NoSession
     \/ /\ s \in Sessions
        /\ status[s] \in {"active", "ended"}
  /\ pc' = [pc EXCEPT ![t] = "accepted"]
  /\ target' = [target EXCEPT ![t] = s]
  /\ UNCHANGED <<row, log, isolated, mode, context, trace, end, patch, rivals>>

SaveUser(t) ==
  /\ pc[t] = "accepted"
  /\ pc' = [pc EXCEPT ![t] = "saved"]
  /\ log' = log \cup {<<t, "user">>}
  /\ UNCHANGED <<row, target, isolated, mode, context, trace, end, patch, rivals>>

\* A slip: the join leaves out the sealed sessions that are still active, as
\* if an ended session were sealed no more.
HistoryOfEnded(s, sealed) ==
  IF sealed THEN Messages(s)
  ELSE {m \in log : target[m[1]] \notin Sealed \cap Active}

\* get_message_history, for a turn that takes itself for isolated or not.
History(s, sealed) ==
  IF sealed THEN Messages(s) ELSE {m \in log : target[m[1]] \notin Sealed}

\* Whether a turn's prompt is made for a sealed session.  The layered and the
\* fast builder ask the turn.  With a classifier the layered one takes the
\* history that was read for it, without a word from the turn: that query looks
\* the session up.  The legacy builder, to which the layered one falls back, is
\* not told of a session.
BuildsSealed(t, how) ==
  \/ how = "session" /\ isolated[t]
  \/ how = "classified" /\ target[t] \in Sealed

BuildContext(t, how) ==
  /\ pc[t] = "saved"
  /\ pc' = [pc EXCEPT ![t] = "built"]
  /\ mode' = [mode EXCEPT ![t] = how]
  /\ context' = [context EXCEPT ![t] = History(target[t], BuildsSealed(t, how))]
  /\ UNCHANGED <<row, log, target, isolated, trace, end, patch, rivals>>

Reply(t) ==
  /\ pc[t] = "built"
  /\ pc' = [pc EXCEPT ![t] = "replied"]
  /\ log' = log \cup {<<t, "assistant">>}
  /\ UNCHANGED <<row, target, isolated, mode, context, trace, end, patch, rivals>>

\* The effects of a layered context skip the profile and the memory in an
\* isolated turn; the jobs of async behaviors and the dispatch to
\* ingest_memory_v2 carry nothing of the session.
PostTurn(t) ==
  /\ pc[t] = "replied"
  /\ pc' = [pc EXCEPT ![t] = "done"]
  /\ \E effects \in SUBSET {t} :
       /\ effects # {} => mode[t] \in {"session", "classified"} /\ ~isolated[t]
       /\ left' = left \cup effects
  /\ \E dispatched \in SUBSET {t} : later' = later \cup dispatched
  /\ UNCHANGED <<row, log, target, isolated, mode, context, end, patch, rivals>>

\* A job's behavior, or the ingestion's LLM, may find nothing to write.
RunLater(t) ==
  /\ t \in later
  /\ later' = later \ {t}
  /\ \E effects \in SUBSET {t} : left' = left \cup effects
  /\ UNCHANGED <<row, log, turn, end, patch, rivals>>

-----------------------------------------------------------------------------
Creates == \E s \in Sessions : CheckActive(s) \/ Insert(s) \/ Commit(s)

Ends == \E e \in Enders :
  EndUpdate(e) \/ \E s \in Sessions : EndStart(e, s)

Patches == \E p \in Patchers :
  PatchUpdate(p) \/ \E s \in Sessions : PatchCheck(p, s)

TurnSteps == \E t \in Turns :
  \/ \E s \in Sessions \cup {NoSession} : AcceptHttp(t, s) \/ AcceptWebSocket(t, s)
  \/ \E how \in Builders : BuildContext(t, how)
  \/ SaveUser(t) \/ Reply(t) \/ PostTurn(t)
  \/ RunLater(t)

Next == Creates \/ Ends \/ Patches \/ TurnSteps

Spec == Init /\ [][Next]_vars

-----------------------------------------------------------------------------
(***************************************************************************)
(* Properties.                                                             *)
(***************************************************************************)

\* A relationship has two active sessions only when their INSERTs were in
\* flight together: the read before the INSERT and the trigger inside it
\* (check_single_active_session) leave no other way.
OnlyRacingInserts ==
  \A s, r \in Active : s # r => r \in rivals[s]

\* When a call of end_session has answered, with 200 or with 500, its session
\* is ended: a second end that comes meanwhile, or a second active session
\* whose trigger refuses updates, cannot leave it open.
EndReturnsEnded ==
  \A e \in Enders : endPc[e] = "returned" => status[endOf[e]] = "ended"

\* The row of an ended session never changes again, whichever ends and
\* patches had passed their checks before the end came.
EndedForGood ==
  [][\A s \in Sessions : status[s] = "ended" =>
       /\ status'[s] = "ended"
       /\ summary'[s] = summary[s]
       /\ state'[s] = state[s]]_vars

\* A patch that was answered with success stays in the session's state,
\* whatever other patches pass at the same time.
PatchesStay ==
  \A p \in Patchers : patchPc[p] = "saved" => p \in state[patchOf[p]]

\* A prompt shows a sealed session's messages only to turns of that session,
\* however they came and whatever fallback built the prompt.  A turn that
\* takes itself for isolated sees nothing but its own session, unless its
\* prompt is the legacy one, and so does any turn of a sealed session whose
\* history was read for the classifier.
HistoryStaysInside ==
  \A t \in Turns : \A m \in context[t] :
    /\ target[m[1]] \in Sealed => target[m[1]] = target[t]
    /\ isolated[t] /\ mode[t] # "legacy" => target[m[1]] = target[t]
    /\ mode[t] = "classified" /\ target[t] \in Sealed => target[m[1]] = target[t]

\* There is one active session at most, as the docstring of
\* SessionRepository.create says of the trigger.  Two INSERTs in flight
\* together break it.
OneActive == \A s, r \in Active : s = r

\* Turns that the server itself takes for isolated leave nothing in the
\* profile or the memory, as API_V2_REFERENCE.md says.  Jobs of async behaviors and the
\* ingestion of Memory v2 break it: they know no session.
SealedLeavesNothing ==
  \A t \in left : ~isolated[t]

-----------------------------------------------------------------------------
(***************************************************************************)
(* The inductive invariant.                                                *)
(***************************************************************************)
Rivals ==
  \A s, r \in Sessions :
    s # r /\ status[s] \in {"inserted", "active"} /\ status[r] \in {"inserted", "active"}
      => r \in rivals[s]

EndsAskExisting ==
  \A e \in Enders : endPc[e] # "idle" =>
    endOf[e] \in Sessions /\ status[endOf[e]] \in {"active", "ended"}

PatchesAskExisting ==
  \A p \in Patchers : patchPc[p] # "idle" => patchOf[p] \in Sessions

LogOfStarted == \A m \in log : pc[m[1]] # "idle"

ContextOfLog == \A t \in Turns :
  /\ context[t] \subseteq log
  /\ pc[t] \in {"idle", "accepted", "saved"} => context[t] = {}

IsolatedIsSealed ==
  \A t \in Turns : isolated[t] => pc[t] # "idle" /\ target[t] \in Sealed

IInv ==
  /\ TypeOK
  /\ IsolatedIsSealed
  /\ Rivals
  /\ EndsAskExisting
  /\ EndReturnsEnded
  /\ PatchesAskExisting
  /\ PatchesStay
  /\ LogOfStarted
  /\ ContextOfLog
  /\ HistoryStaysInside

=============================================================================
