---------------------------- MODULE SessionsProofs ----------------------------
(***************************************************************************)
(* IInv is an inductive invariant of Sessions, for any number of sessions, *)
(* turns and calls; the safety properties follow from it.                  *)
(***************************************************************************)
EXTENDS Sessions, TLAPS

\* Sessions starts in the invariant.
LEMMA InitIInv == Init => IInv
<1>. SUFFICES ASSUME Init PROVE IInv
  OBVIOUS
<1>1. TypeOK
  BY NoSessionAssumption DEF Init, TypeOK, Status
<1>2. Rivals /\ EndsAskExisting /\ EndReturnsEnded /\ PatchesAskExisting /\ PatchesStay
  BY DEF Init, Rivals, EndsAskExisting, EndReturnsEnded, PatchesAskExisting, PatchesStay
<1>3. LogOfStarted /\ ContextOfLog /\ HistoryStaysInside /\ IsolatedIsSealed
  BY DEF Init, LogOfStarted, ContextOfLog, HistoryStaysInside, IsolatedIsSealed
<1>. QED
  BY <1>1, <1>2, <1>3 DEF IInv

\* What the requests may change of the sessions, and leave of the turns.
LEMMA CreateStep ==
  ASSUME IInv, NEW s \in Sessions, CheckActive(s) \/ Insert(s) \/ Commit(s)
  PROVE  IInv'
<1>. USE DEF IInv
<1>1. TypeOK'
  <2>1. CASE CheckActive(s)
    BY <2>1 DEF TypeOK, CheckActive, Status, turn, trace, end, patch
  <2>2. CASE Insert(s)
    BY <2>2 DEF TypeOK, Insert, Status, InFlight, turn, trace, end, patch
  <2>3. CASE Commit(s)
    BY <2>3 DEF TypeOK, Commit, Status, turn, trace, end, patch
  <2>. QED
    BY <2>1, <2>2, <2>3
<1>2. Rivals'
  <2>1. CASE CheckActive(s)
    BY <2>1 DEF TypeOK, Rivals, CheckActive
  <2>2. CASE Insert(s)
    <3>1. CASE TriggerAllows(s)
      <4>1. \A r \in Sessions \ {s} : status[r] # "active"
        BY <2>2, <3>1 DEF TriggerAllows, Active
      <4>2. status' = [status EXCEPT ![s] = "inserted"]
        BY <2>2, <3>1 DEF Insert
      <4>3. \A r \in Sessions : rivals'[r] =
              IF r = s THEN rivals[s] \cup InFlight
              ELSE IF r \in InFlight THEN rivals[r] \cup {s} ELSE rivals[r]
        BY <2>2, <3>1 DEF Insert
      <4>4. \A r \in Sessions : r # s => status'[r] = status[r]
        BY <4>2 DEF TypeOK
      <4>5. \A r \in Sessions : r \in InFlight <=> status[r] = "inserted"
        BY DEF InFlight
      <4>6. ASSUME NEW p \in Sessions, NEW q \in Sessions, p # q,
                   status'[p] \in {"inserted", "active"}, status'[q] \in {"inserted", "active"}
            PROVE  q \in rivals'[p]
        <5>1. CASE p = s
          BY <5>1, <4>1, <4>3, <4>4, <4>5, <4>6
        <5>2. CASE q = s
          BY <5>2, <4>1, <4>3, <4>4, <4>5, <4>6
        <5>3. CASE p # s /\ q # s
          BY <5>3, <4>3, <4>4, <4>6 DEF Rivals
        <5>. QED
          BY <5>1, <5>2, <5>3
      <4>. QED
        BY <4>6 DEF Rivals
    <3>2. CASE ~TriggerAllows(s)
      BY <2>2, <3>2 DEF TypeOK, Rivals, Insert
    <3>. QED
      BY <3>1, <3>2
  <2>3. CASE Commit(s)
    BY <2>3 DEF TypeOK, Rivals, Commit
  <2>. QED
    BY <2>1, <2>2, <2>3
<1>3. \A r \in Sessions : status[r] \in {"active", "ended"} => status'[r] = status[r]
  BY DEF TypeOK, CheckActive, Insert, Commit
<1>4. UNCHANGED <<state, summary, log, turn, trace, end, patch>>
  BY DEF CheckActive, Insert, Commit
<1>5. EndsAskExisting' /\ EndReturnsEnded'
  BY <1>3, <1>4 DEF EndsAskExisting, EndReturnsEnded, end
<1>6. PatchesAskExisting' /\ PatchesStay'
  BY <1>4 DEF PatchesAskExisting, PatchesStay, patch
<1>7. LogOfStarted' /\ ContextOfLog' /\ HistoryStaysInside' /\ IsolatedIsSealed'
  BY <1>4 DEF LogOfStarted, ContextOfLog, HistoryStaysInside, IsolatedIsSealed, turn
<1>. QED
  BY <1>1, <1>2, <1>5, <1>6, <1>7

LEMMA EndStep ==
  ASSUME IInv, NEW e \in Enders, EndUpdate(e) \/ \E s \in Sessions : EndStart(e, s)
  PROVE  IInv'
<1>. USE DEF IInv
<1>1. CASE EndUpdate(e)
  <2>1. endOf[e] \in Sessions /\ status[endOf[e]] \in {"active", "ended"}
    BY <1>1 DEF EndUpdate, EndsAskExisting
  <2>2. TypeOK'
    BY <1>1, <2>1 DEF TypeOK, EndUpdate, Status, turn, trace, patch
  <2>3. /\ status'[endOf[e]] = "ended"
        /\ \A r \in Sessions : r # endOf[e] => status'[r] = status[r]
    BY <1>1, <2>1 DEF EndUpdate, TypeOK
  <2>4. Rivals'
    BY <1>1, <2>3 DEF EndUpdate, Rivals
  <2>5. EndsAskExisting' /\ EndReturnsEnded'
    BY <1>1, <2>1, <2>3 DEF EndUpdate, TypeOK, EndsAskExisting, EndReturnsEnded
  <2>6. PatchesAskExisting' /\ PatchesStay' /\ LogOfStarted' /\ ContextOfLog' /\ HistoryStaysInside' /\ IsolatedIsSealed'
    BY <1>1 DEF EndUpdate, PatchesAskExisting, PatchesStay, LogOfStarted, ContextOfLog,
                HistoryStaysInside, IsolatedIsSealed, turn, patch
  <2>. QED
    BY <2>2, <2>4, <2>5, <2>6
<1>2. ASSUME NEW s \in Sessions, EndStart(e, s) PROVE IInv'
  <2>1. TypeOK'
    BY <1>2 DEF TypeOK, EndStart, Messages, row, turn, trace, patch
  <2>2. EndsAskExisting' /\ EndReturnsEnded'
    BY <1>2 DEF EndStart, TypeOK, EndsAskExisting, EndReturnsEnded, row
  <2>3. Rivals' /\ PatchesAskExisting' /\ PatchesStay'
    BY <1>2 DEF EndStart, Rivals, PatchesAskExisting, PatchesStay, row, patch
  <2>4. LogOfStarted' /\ ContextOfLog' /\ HistoryStaysInside' /\ IsolatedIsSealed'
    BY <1>2 DEF EndStart, LogOfStarted, ContextOfLog, HistoryStaysInside, IsolatedIsSealed, turn
  <2>. QED
    BY <2>1, <2>2, <2>3, <2>4
<1>. QED
  BY <1>1, <1>2

LEMMA PatchStep ==
  ASSUME IInv, NEW p \in Patchers, PatchUpdate(p) \/ \E s \in Sessions : PatchCheck(p, s)
  PROVE  IInv'
<1>. USE DEF IInv
<1>1. CASE PatchUpdate(p)
  <2>1. patchOf[p] \in Sessions
    BY <1>1 DEF PatchUpdate, PatchesAskExisting
  <2>2. TypeOK'
    BY <1>1, <2>1 DEF TypeOK, PatchUpdate, turn, trace, end
  <2>3. PatchesAskExisting' /\ PatchesStay'
    BY <1>1, <2>1 DEF PatchUpdate, TypeOK, PatchesAskExisting, PatchesStay
  <2>4. Rivals' /\ EndsAskExisting' /\ EndReturnsEnded'
    BY <1>1 DEF PatchUpdate, Rivals, EndsAskExisting, EndReturnsEnded, end
  <2>5. LogOfStarted' /\ ContextOfLog' /\ HistoryStaysInside' /\ IsolatedIsSealed'
    BY <1>1 DEF PatchUpdate, LogOfStarted, ContextOfLog, HistoryStaysInside, IsolatedIsSealed, turn
  <2>. QED
    BY <2>2, <2>3, <2>4, <2>5
<1>2. ASSUME NEW s \in Sessions, PatchCheck(p, s) PROVE IInv'
  <2>1. TypeOK'
    BY <1>2 DEF TypeOK, PatchCheck, row, turn, trace, end
  <2>2. PatchesAskExisting' /\ PatchesStay'
    BY <1>2 DEF PatchCheck, TypeOK, PatchesAskExisting, PatchesStay, row
  <2>3. Rivals' /\ EndsAskExisting' /\ EndReturnsEnded'
    BY <1>2 DEF PatchCheck, Rivals, EndsAskExisting, EndReturnsEnded, row, end
  <2>4. LogOfStarted' /\ ContextOfLog' /\ HistoryStaysInside' /\ IsolatedIsSealed'
    BY <1>2 DEF PatchCheck, LogOfStarted, ContextOfLog, HistoryStaysInside, IsolatedIsSealed, turn
  <2>. QED
    BY <2>1, <2>2, <2>3, <2>4
<1>. QED
  BY <1>1, <1>2

TurnStep(t) ==
  \/ \E s \in Sessions \cup {NoSession} : AcceptHttp(t, s) \/ AcceptWebSocket(t, s)
  \/ \E how \in Builders : BuildContext(t, how)
  \/ SaveUser(t) \/ Reply(t) \/ PostTurn(t) \/ RunLater(t)

\* A turn is no session's business: the parts of the invariant about the
\* requests survive its steps.
LEMMA TurnFrame ==
  ASSUME IInv, NEW t \in Turns, TurnStep(t)
  PROVE  /\ Rivals' /\ EndsAskExisting' /\ EndReturnsEnded'
         /\ PatchesAskExisting' /\ PatchesStay'
<1>1. UNCHANGED <<row, end, patch, rivals>>
  BY DEF TurnStep, AcceptHttp, AcceptWebSocket, BuildContext, SaveUser, Reply, PostTurn, RunLater
<1>. QED
  BY <1>1 DEF IInv, Rivals, EndsAskExisting, EndReturnsEnded, PatchesAskExisting, PatchesStay,
              row, end, patch

LEMMA TurnTypes ==
  ASSUME TypeOK, NEW t \in Turns, TurnStep(t)
  PROVE  TypeOK'
<1>. USE DEF TypeOK, row, end, patch, trace, turn
<1>1. ASSUME NEW s \in Sessions \cup {NoSession}, AcceptHttp(t, s) PROVE TypeOK'
  BY <1>1 DEF AcceptHttp
<1>2. ASSUME NEW s \in Sessions \cup {NoSession}, AcceptWebSocket(t, s) PROVE TypeOK'
  BY <1>2 DEF AcceptWebSocket
<1>3. CASE SaveUser(t)
  BY <1>3 DEF SaveUser, Message
<1>4. ASSUME NEW how \in Builders, BuildContext(t, how) PROVE TypeOK'
  BY <1>4 DEF BuildContext, Builders, History, Messages
<1>5. CASE Reply(t)
  BY <1>5 DEF Reply, Message
<1>6. CASE PostTurn(t)
  BY <1>6 DEF PostTurn
<1>7. CASE RunLater(t)
  BY <1>7 DEF RunLater
<1>. QED
  BY <1>1, <1>2, <1>3, <1>4, <1>5, <1>6, <1>7 DEF TurnStep

\* A turn that starts has said nothing yet, so nobody's prompt shows it.
LEMMA AcceptStep ==
  ASSUME IInv, NEW t \in Turns,
         pc[t] = "idle",
         pc' = [pc EXCEPT ![t] = "accepted"],
         NEW s, target' = [target EXCEPT ![t] = s],
         \A u \in Turns : u # t => isolated'[u] = isolated[u],
         isolated'[t] => s \in Sealed,
         UNCHANGED <<log, mode, context>>
  PROVE  LogOfStarted' /\ ContextOfLog' /\ HistoryStaysInside' /\ IsolatedIsSealed'
<1>. USE DEF IInv
<1>1. \A u \in Turns : u # t =>
        /\ pc'[u] = pc[u]
        /\ target'[u] = target[u]
        /\ isolated'[u] = isolated[u]
  BY DEF TypeOK
<1>2. \A m \in log : m[1] \in Turns /\ m[1] # t
  BY DEF TypeOK, LogOfStarted, Message
<1>3. LogOfStarted'
  BY <1>1, <1>2 DEF LogOfStarted
<1>4. ContextOfLog'
  BY <1>1 DEF ContextOfLog, TypeOK
<1>5. HistoryStaysInside'
  <2>. SUFFICES ASSUME NEW u \in Turns, NEW m \in context[u]
                PROVE  /\ target'[m[1]] \in Sealed => target'[m[1]] = target'[u]
                       /\ isolated'[u] /\ mode[u] # "legacy" => target'[m[1]] = target'[u]
                       /\ mode[u] = "classified" /\ target'[u] \in Sealed =>
                            target'[m[1]] = target'[u]
    BY DEF HistoryStaysInside
  <2>1. u # t /\ m \in log
    BY DEF ContextOfLog
  <2>. QED
    BY <1>1, <1>2, <2>1 DEF HistoryStaysInside
<1>6. IsolatedIsSealed'
  BY <1>1 DEF IsolatedIsSealed, TypeOK
<1>. QED
  BY <1>3, <1>4, <1>5, <1>6

\* A message joins the log of a turn whose prompt is not built by this step.
LEMMA SayStep ==
  ASSUME IInv, NEW t \in Turns, NEW role,
         pc[t] # "idle", NEW next, next \in {"saved", "replied"},
         next = "saved" => pc[t] = "accepted",
         pc' = [pc EXCEPT ![t] = next],
         log' = log \cup {<<t, role>>},
         UNCHANGED <<target, isolated, mode, context>>
  PROVE  LogOfStarted' /\ ContextOfLog' /\ HistoryStaysInside' /\ IsolatedIsSealed'
<1>. USE DEF IInv
<1>1. LogOfStarted'
  BY DEF LogOfStarted, TypeOK, Message
<1>2. ContextOfLog'
  BY DEF ContextOfLog, TypeOK
<1>3. HistoryStaysInside'
  BY DEF HistoryStaysInside
<1>4. IsolatedIsSealed'
  BY DEF IsolatedIsSealed, TypeOK
<1>. QED
  BY <1>1, <1>2, <1>3, <1>4

LEMMA BuildStep ==
  ASSUME IInv, NEW t \in Turns, NEW how \in Builders, BuildContext(t, how)
  PROVE  LogOfStarted' /\ ContextOfLog' /\ HistoryStaysInside' /\ IsolatedIsSealed'
<1>. USE DEF IInv
<1>1. /\ \A u \in Turns : u # t => /\ pc'[u] = pc[u]
                                   /\ context'[u] = context[u]
                                   /\ mode'[u] = mode[u]
      /\ pc'[t] = "built"
      /\ mode'[t] = how
      /\ context'[t] = History(target[t], BuildsSealed(t, how))
      /\ UNCHANGED <<log, target, isolated>>
  BY DEF BuildContext, TypeOK
<1>2. LogOfStarted'
  BY <1>1 DEF LogOfStarted, TypeOK, Message
<1>3. ContextOfLog'
  BY <1>1 DEF ContextOfLog, History, Messages
<1>4. HistoryStaysInside'
  <2>1. \A m \in History(target[t], BuildsSealed(t, how)) :
          /\ target[m[1]] \in Sealed => target[m[1]] = target[t]
          /\ BuildsSealed(t, how) => target[m[1]] = target[t]
    BY DEF History, Messages
  <2>2. /\ isolated[t] /\ how # "legacy" => BuildsSealed(t, how)
        /\ how = "classified" /\ target[t] \in Sealed => BuildsSealed(t, how)
    BY DEF BuildsSealed, Builders, IsolatedIsSealed
  <2>. QED
    BY <1>1, <2>1, <2>2 DEF HistoryStaysInside
<1>5. IsolatedIsSealed'
  BY <1>1 DEF IsolatedIsSealed, BuildContext
<1>. QED
  BY <1>2, <1>3, <1>4, <1>5

LEMMA TurnHistory ==
  ASSUME IInv, NEW t \in Turns, TurnStep(t)
  PROVE  LogOfStarted' /\ ContextOfLog' /\ HistoryStaysInside' /\ IsolatedIsSealed'
<1>1. ASSUME NEW s \in Sessions \cup {NoSession}, AcceptHttp(t, s)
      PROVE  LogOfStarted' /\ ContextOfLog' /\ HistoryStaysInside' /\ IsolatedIsSealed'
  <2>1. /\ \A u \in Turns : u # t => isolated'[u] = isolated[u]
        /\ isolated'[t] => s \in Sealed
    BY <1>1 DEF AcceptHttp, IInv, TypeOK
  <2>. QED
    BY <1>1, <2>1, AcceptStep DEF AcceptHttp
<1>2. ASSUME NEW s \in Sessions \cup {NoSession}, AcceptWebSocket(t, s)
      PROVE  LogOfStarted' /\ ContextOfLog' /\ HistoryStaysInside' /\ IsolatedIsSealed'
  <2>1. /\ \A u \in Turns : u # t => isolated'[u] = isolated[u]
        /\ isolated'[t] => s \in Sealed
    BY <1>2 DEF AcceptWebSocket, IInv, TypeOK, IsolatedIsSealed
  <2>. QED
    BY <1>2, <2>1, AcceptStep DEF AcceptWebSocket
<1>3. CASE SaveUser(t)
  BY <1>3, SayStep DEF SaveUser
<1>4. ASSUME NEW how \in Builders, BuildContext(t, how)
      PROVE  LogOfStarted' /\ ContextOfLog' /\ HistoryStaysInside' /\ IsolatedIsSealed'
  BY <1>4, BuildStep
<1>5. CASE Reply(t)
  BY <1>5, SayStep DEF Reply
<1>6. CASE PostTurn(t)
  BY <1>6 DEF PostTurn, IInv, TypeOK, LogOfStarted, ContextOfLog, HistoryStaysInside, IsolatedIsSealed
<1>7. CASE RunLater(t)
  BY <1>7 DEF RunLater, turn, IInv, LogOfStarted, ContextOfLog, HistoryStaysInside, IsolatedIsSealed
<1>. QED
  BY <1>1, <1>2, <1>3, <1>4, <1>5, <1>6, <1>7 DEF TurnStep

LEMMA StutterStep ==
  ASSUME IInv, UNCHANGED vars
  PROVE  IInv'
BY DEF vars, row, turn, trace, end, patch, IInv, TypeOK, Rivals, EndsAskExisting, EndReturnsEnded,
       PatchesAskExisting, PatchesStay, LogOfStarted, ContextOfLog, HistoryStaysInside, IsolatedIsSealed

\* The invariant is inductive.
LEMMA NextIInv == IInv /\ [Next]_vars => IInv'
<1>. SUFFICES ASSUME IInv, [Next]_vars PROVE IInv'
  OBVIOUS
<1>1. CASE Creates
  BY <1>1, CreateStep DEF Creates
<1>2. CASE Ends
  BY <1>2, EndStep DEF Ends
<1>3. CASE Patches
  BY <1>3, PatchStep DEF Patches
<1>4. CASE TurnSteps
  <2>1. PICK t \in Turns : TurnStep(t)
    BY <1>4 DEF TurnSteps, TurnStep
  <2>2. TypeOK'
    BY <2>1, TurnTypes DEF IInv
  <2>. QED
    BY <2>1, <2>2, TurnFrame, TurnHistory DEF IInv
<1>5. CASE UNCHANGED vars
  BY <1>5, StutterStep
<1>. QED
  BY <1>1, <1>2, <1>3, <1>4, <1>5 DEF Next

\* Every reachable state has the types declared and satisfies the invariant.
THEOREM InductiveInvariant == Spec => []IInv
BY InitIInv, NextIInv, PTL DEF Spec

\* Two sessions of a relationship are active together only when their INSERTs
\* were in flight together, however many create requests there are.
THEOREM TwoActiveOnlyByRace == Spec => []OnlyRacingInserts
<1>1. IInv => OnlyRacingInserts
  BY DEF IInv, Rivals, OnlyRacingInserts, Active
<1>. QED
  BY <1>1, InductiveInvariant, PTL

\* A call of end_session that has answered leaves its session ended.
THEOREM EndsTakeEffect == Spec => []EndReturnsEnded
<1>1. IInv => EndReturnsEnded
  BY DEF IInv
<1>. QED
  BY <1>1, InductiveInvariant, PTL

\* What a sealed session's turns said is in no prompt outside it.
THEOREM SealedHistory == Spec => []HistoryStaysInside
<1>1. IInv => HistoryStaysInside
  BY DEF IInv
<1>. QED
  BY <1>1, InductiveInvariant, PTL

\* No step changes the row of an ended session, whatever was under way.
THEOREM EndedRowsStay == Spec => EndedForGood
<1>1. IInv /\ [Next]_vars =>
        [\A s \in Sessions : status[s] = "ended" =>
           /\ status'[s] = "ended"
           /\ summary'[s] = summary[s]
           /\ state'[s] = state[s]]_vars
  <2>. SUFFICES ASSUME IInv, Next, NEW s \in Sessions, status[s] = "ended"
                PROVE  /\ status'[s] = "ended"
                       /\ summary'[s] = summary[s]
                       /\ state'[s] = state[s]
    OBVIOUS
  <2>. USE DEF IInv, TypeOK
  <2>1. CASE Creates
    BY <2>1 DEF Creates, CheckActive, Insert, Commit
  <2>2. CASE Ends
    <3>1. PICK e \in Enders : EndUpdate(e) \/ \E r \in Sessions : EndStart(e, r)
      BY <2>2 DEF Ends
    <3>2. CASE EndUpdate(e)
      BY <3>2 DEF EndUpdate
    <3>3. CASE \E r \in Sessions : EndStart(e, r)
      BY <3>3 DEF EndStart, row
    <3>. QED
      BY <3>1, <3>2, <3>3
  <2>3. CASE Patches
    BY <2>3 DEF Patches, PatchUpdate, PatchCheck, row
  <2>4. CASE TurnSteps
    BY <2>4 DEF TurnSteps, AcceptHttp, AcceptWebSocket, SaveUser, BuildContext, Reply, PostTurn,
                RunLater, row
  <2>. QED
    BY <2>1, <2>2, <2>3, <2>4 DEF Next
<1>. QED
  BY <1>1, InductiveInvariant, PTL DEF Spec, EndedForGood
=============================================================================
