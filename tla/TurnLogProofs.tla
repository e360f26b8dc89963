---------------------------- MODULE TurnLogProofs ----------------------------
(***************************************************************************)
(* What is proved of TurnLog for any number of turns, proactive messages,  *)
(* devices and connections.                                                *)
(***************************************************************************)
EXTENDS TurnLog, FiniteSetTheorems, TLAPS

(* The rows of different writers, and the two rows of a turn, are different. *)
LEMMA RowNames ==
  /\ \A t \in Turns : User(t) \in Message /\ Reply(t) \in Message /\ User(t) # Reply(t)
  /\ \A p \in Pushes : Push(p) \in Message
  /\ \A s \in Sockets : Intro(s) \in Message
  /\ \A m \in Message : WriterOf(m) \in Writer
BY DEF Message, User, Reply, Push, Intro, Writer, WriterOf

(* A number taken from the table is above every number in it. *)
LEMMA NextSeqIsAbove ==
  ASSUME TypeOK, NEW n \in NextSeqs
  PROVE  n \in Nat /\ n # 0 /\ \A m \in Message : seqOf[m] < n
BY DEF TypeOK, NextSeqs

(* A row and its number are an event of the log. *)
LEMMA RowsAreLogged ==
  ASSUME TypeOK
  PROVE  /\ \A M \in SUBSET Message : Events(M) \in SUBSET Event
         /\ \A m \in Rows : [msg |-> m, seq |-> seqOf[m]] \in Log
BY DEF TypeOK, Events, EventFor, Event, Log

(* A number taken from the table is above what every row is logged with. *)
LEMMA NextSeqIsAboveRows ==
  ASSUME TypeOK, NEW n \in NextSeqs
  PROVE  Below(Rows, n)
BY NextSeqIsAbove, RowsAreLogged DEF Below, Rows

(* An inserted row is in the table, and in the log with its number. *)
LEMMA InsertLogs ==
  ASSUME TypeOK, NEW m \in Message, NEW n \in Nat, n # 0, InsertRow(m, n)
  PROVE  m \in Rows' /\ [msg |-> m, seq |-> n] \in Log'
<1>1. seqOf'[m] = n /\ m \in Rows'
  BY DEF TypeOK, InsertRow, Rows
<1> QED BY <1>1 DEF Log, Events, EventFor

(* An event that is sent is appended to the events of its socket. *)
LEMMA SendOnType ==
  ASSUME wire \in [Sockets -> Seq(Event)], NEW s \in Sockets, NEW e \in Event, SendOn(s, e)
  PROVE  wire' \in [Sockets -> Seq(Event)]
<1>1. wire[s] \in Seq(Event) /\ Append(wire[s], e) \in Seq(Event)
  OBVIOUS
<1>2. (IF open[s] THEN Append(wire[s], e) ELSE wire[s]) \in Seq(Event)
  BY <1>1
<1> QED BY <1>2 DEF SendOn

(* Every step leaves the variables in their types. *)
LEMMA TypeStep == TypeOK /\ [Next]_vars => TypeOK'
<1> SUFFICES ASSUME TypeOK, [Next]_vars PROVE TypeOK'
  OBVIOUS
<1> USE RowNames DEF TypeOK, table, removal, turn, push, handler, net
<1>1. ASSUME NEW t \in Turns, NEW s \in Sockets \cup {NoSocket}, BeginTurn(t, s)
      PROVE  TypeOK'
  BY <1>1, NextSeqIsAbove DEF BeginTurn, TakeNumber, Rows, TurnPc, Writer
<1>2. ASSUME NEW t \in Turns, TurnStep(t) \/ FailTurn(t) \/ DropTurn(t)
      PROVE  TypeOK'
  <2>1. CASE SaveUser(t)
    BY <2>1 DEF SaveUser, InsertRow, TurnPc
  <2>2. CASE EmitAck(t)
    <3>1. [msg |-> User(t), seq |-> userSeq[t]] \in Event
      BY DEF Event
    <3> QED BY <2>2, <3>1, SendOnType DEF EmitAck, TurnPc
  <2>3. CASE Generate(t)
    BY <2>3 DEF Generate, TurnPc
  <2>4. CASE SaveReply(t)
    BY <2>4 DEF SaveReply, InsertRow, TurnPc
  <2>5. CASE FinalizeTurn(t)
    BY <2>5 DEF FinalizeTurn, TurnPc
  <2>6. CASE EmitMessage(t)
    <3>1. [msg |-> Reply(t), seq |-> userSeq[t] + 1] \in Event
      BY DEF Event
    <3> QED BY <2>6, <3>1, SendOnType DEF EmitMessage, TurnPc
  <2>7. CASE FailTurn(t)
    BY <2>7 DEF FailTurn, TurnPc
  <2>8. CASE DropTurn(t)
    BY <2>8 DEF DropTurn, TurnPc
  <2> QED BY <1>2, <2>1, <2>2, <2>3, <2>4, <2>5, <2>6, <2>7, <2>8 DEF TurnStep
<1>3. ASSUME NEW p \in Pushes, NumberPush(p) \/ PushStep(p)
      PROVE  TypeOK'
  <2>1. CASE NumberPush(p)
    BY <2>1, NextSeqIsAbove DEF NumberPush, TakeNumber, Rows, PushPc, Writer
  <2>2. CASE SavePush(p)
    BY <2>2 DEF SavePush, InsertRow, PushPc
  <2>3. CASE SendPush(p)
    <3>1. [msg |-> Push(p), seq |-> pushSeq[p]] \in Event
      BY DEF Event
    <3>2. \A s \in Sockets :
            Append(wire[s], [msg |-> Push(p), seq |-> pushSeq[p]]) \in Seq(Event)
      BY <3>1
    <3> QED BY <2>3, <3>2 DEF SendPush, PushPc
  <2> QED BY <1>3, <2>1, <2>2, <2>3 DEF PushStep
<1>4. ASSUME NEW s \in Sockets, Connect(s) \/ GreetStep(s) \/ RollbackIntro(s) \/ Disconnect(s) \/ ReadEvent(s)
      PROVE  TypeOK'
  <2>1. CASE Connect(s)
    BY <2>1, OwnerAssumption DEF Connect, SocketPc
  <2>2. CASE IntroGate(s)
    BY <2>2 DEF IntroGate, SocketPc
  <2>11. CASE LockForIntro(s)
    BY <2>11 DEF LockForIntro, SocketPc
  <2>3. CASE NumberIntro(s)
    BY <2>3, NextSeqIsAbove DEF NumberIntro, TakeNumber, Rows, SocketPc, Writer
  <2>4. CASE CommitIntro(s)
    <3>1. [msg |-> Intro(s), seq |-> introSeq[s]] \in Event
      BY DEF Event
    <3> QED BY <2>4, <3>1, SendOnType DEF CommitIntro, InsertRow, SocketPc
  <2>5. CASE RollbackIntro(s)
    BY <2>5 DEF RollbackIntro, SocketPc
  <2>6. CASE StartReplay(s)
    <3>1. PICK B \in {Events({m \in Rows : seqOf[m] > since[s]}), {}} :
             backlog' = [backlog EXCEPT ![s] = B]
      BY <2>6 DEF StartReplay
    <3>2. B \in SUBSET Event
      <4>1. {m \in Rows : seqOf[m] > since[s]} \in SUBSET Message
        BY DEF Rows
      <4>2. Events({m \in Rows : seqOf[m] > since[s]}) \in SUBSET Event
        BY <4>1, RowsAreLogged
      <4>3. {} \in SUBSET Event
        OBVIOUS
      <4> QED BY <4>2, <4>3
    <3>3. backlog' \in [Sockets -> SUBSET Event]
      BY <3>1, <3>2
    <3>4. /\ socketPc' = [socketPc EXCEPT ![s] = "sending"]
          /\ since' = [since EXCEPT ![s] = 0]
          /\ UNCHANGED <<table, turn, push, introSeq, net, cursor, prior>>
      BY <2>6 DEF StartReplay
    <3>5. socketPc' \in [Sockets -> SocketPc] /\ since' \in [Sockets -> Nat]
      BY <3>4 DEF SocketPc
    <3>6. UNCHANGED <<table, turn, push, introSeq, net, cursor, prior>>
      BY <3>4
    <3> QED BY <3>3, <3>5, <3>6, SMTT(20)
  <2>7. CASE SendReplayed(s)
    BY <2>7, SendOnType DEF SendReplayed
  <2>8. CASE EndReplay(s)
    BY <2>8 DEF EndReplay, SocketPc
  <2>9. CASE Disconnect(s)
    BY <2>9 DEF Disconnect
  <2>10. CASE ReadEvent(s)
    <3>1. Head(wire[s]) \in Event /\ Tail(wire[s]) \in Seq(Event)
      BY <2>10 DEF ReadEvent
    <3>2. OwnerOf[s] \in Clients
      BY OwnerAssumption
    <3> QED BY <2>10, <3>1, <3>2 DEF ReadEvent, Event
  <2> QED BY <1>4, <2>1, <2>2, <2>3, <2>4, <2>5, <2>6, <2>7, <2>8, <2>9, <2>10, <2>11
          DEF GreetStep
<1>5. CASE RemovalStep
  <2>1. ASSUME NEW M \in SUBSET Message, RemoveRows(M), NEW K \in SUBSET Message, Cross(K)
        PROVE  /\ seqOf' \in [Message -> Nat] /\ removed' \in SUBSET Event
               /\ crossed' \in SUBSET Writer
    <3>1. Events(M \cap Rows) \in SUBSET Event
      BY RowsAreLogged
    <3>2. seqOf' \in [Message -> Nat]
      <4>1. \A m \in Message : (IF m \in M THEN 0 ELSE seqOf[m]) \in Nat
        OBVIOUS
      <4> QED BY <2>1, <4>1, Zenon DEF RemoveRows
    <3>3. removed' = removed \cup Events(M \cap Rows)
      BY <2>1 DEF RemoveRows
    <3>4. crossed' = crossed \cup {t \in Turns : TurnActive(t)} \cup {WriterOf(m) : m \in K}
      BY <2>1 DEF Cross
    <3>5. {WriterOf(m) : m \in K} \subseteq Writer /\ {t \in Turns : TurnActive(t)} \subseteq Writer
      BY <2>1 DEF Writer
    <3> QED BY <3>1, <3>2, <3>3, <3>4, <3>5
  <2>2. CASE ResetDelete
    BY <2>2 DEF ResetDelete, Rows
  <2>3. CASE ResetCommit
    <3>1. doomed \in SUBSET Message /\ Rows \ doomed \in SUBSET Message
      BY DEF Rows
    <3>2. RemoveRows(doomed) /\ Cross(Rows \ doomed)
      BY <2>3 DEF ResetCommit
    <3>3. /\ seqOf' \in [Message -> Nat] /\ removed' \in SUBSET Event
          /\ crossed' \in SUBSET Writer
      BY <2>1, <3>1, <3>2
    <3>4. /\ messageCount' = 0 /\ introMark' = FALSE /\ resetting' = FALSE
          /\ doomed' = {} /\ removals' = removals + 1
      BY <2>3 DEF ResetCommit
    <3>5. UNCHANGED <<turn, push, handler, net, cursor, prior>>
      BY <2>3 DEF ResetCommit
    <3>6. messageCount' \in Nat /\ removals' \in Nat /\ doomed' \in SUBSET Message
      BY <3>4
    <3>7. introMark' \in BOOLEAN /\ resetting' \in BOOLEAN
      BY <3>4, Zenon
    <3> QED BY <3>3, <3>5, <3>6, <3>7
  <2>4. CASE RollbackReset
    BY <2>4 DEF RollbackReset
  <2>5. CASE ClearMessages
    <3>1. Rows \in SUBSET Message
      BY DEF Rows
    <3>2. RemoveRows(Rows) /\ Cross(Rows)
      BY <2>5 DEF ClearMessages
    <3>3. /\ seqOf' \in [Message -> Nat] /\ removed' \in SUBSET Event
          /\ crossed' \in SUBSET Writer
      BY <2>1, <3>1, <3>2
    <3> QED BY <2>5, <3>3 DEF ClearMessages
  <2> QED BY <1>5, <2>2, <2>3, <2>4, <2>5 DEF RemovalStep
<1>6. CASE UNCHANGED vars
  BY <1>6 DEF vars
<1> QED BY <1>1, <1>2, <1>3, <1>4, <1>5, <1>6 DEF Next, HttpTurn, SocketTurn

(* What a step does to the rows: it never changes the number of one, and only *)
(* the commit of a reset and a clear remove any.                              *)
LEMMA RowsKeepNumbers ==
  ASSUME TypeOK, TurnNumbers, PushNumbers, IntroNumbers, [Next]_vars, ~RemovalStep
  PROVE  /\ \A m \in Message : seqOf[m] # 0 => seqOf'[m] = seqOf[m]
         /\ UNCHANGED removal
<1> USE RowNames DEF TypeOK
<1>1. ASSUME NEW t \in Turns, SaveUser(t) \/ SaveReply(t)
      PROVE  \A m \in Message : seqOf[m] # 0 => seqOf'[m] = seqOf[m]
  BY <1>1 DEF SaveUser, SaveReply, InsertRow, TurnNumbers
<1>2. ASSUME NEW p \in Pushes, SavePush(p)
      PROVE  \A m \in Message : seqOf[m] # 0 => seqOf'[m] = seqOf[m]
  BY <1>2 DEF SavePush, InsertRow, PushNumbers
<1>3. ASSUME NEW s \in Sockets, CommitIntro(s)
      PROVE  \A m \in Message : seqOf[m] # 0 => seqOf'[m] = seqOf[m]
  BY <1>3 DEF CommitIntro, InsertRow, IntroNumbers
<1>4. ASSUME UNCHANGED seqOf
      PROVE  \A m \in Message : seqOf[m] # 0 => seqOf'[m] = seqOf[m]
  BY <1>4
<1>5. /\ UNCHANGED removal
      /\ \/ UNCHANGED seqOf
         \/ \E t \in Turns : SaveUser(t) \/ SaveReply(t)
         \/ \E p \in Pushes : SavePush(p)
         \/ \E s \in Sockets : CommitIntro(s)
  <2>1. ASSUME NEW t \in Turns, NEW s \in Sockets \cup {NoSocket}, BeginTurn(t, s)
        PROVE  UNCHANGED <<removal, seqOf>>
    BY <2>1 DEF BeginTurn, table
  <2>2. ASSUME NEW t \in Turns, TurnStep(t) \/ FailTurn(t) \/ DropTurn(t)
        PROVE  UNCHANGED removal /\ (UNCHANGED seqOf \/ SaveUser(t) \/ SaveReply(t))
    BY <2>2 DEF TurnStep, SaveUser, EmitAck, Generate, SaveReply, FinalizeTurn, EmitMessage,
                FailTurn, DropTurn, table
  <2>3. ASSUME NEW p \in Pushes, NumberPush(p) \/ PushStep(p)
        PROVE  UNCHANGED removal /\ (UNCHANGED seqOf \/ SavePush(p))
    BY <2>3 DEF NumberPush, PushStep, SavePush, SendPush, table
  <2>4. ASSUME NEW s \in Sockets, Connect(s) \/ GreetStep(s) \/ RollbackIntro(s) \/ Disconnect(s) \/ ReadEvent(s)
        PROVE  UNCHANGED removal /\ (UNCHANGED seqOf \/ CommitIntro(s))
    BY <2>4 DEF Connect, GreetStep, IntroGate, LockForIntro, NumberIntro, CommitIntro,
                RollbackIntro, StartReplay, SendReplayed, EndReplay, Disconnect, ReadEvent, table
  <2>5. CASE UNCHANGED vars
    BY <2>5 DEF vars, table
  <2> QED BY <2>1, <2>2, <2>3, <2>4, <2>5 DEF Next, HttpTurn, SocketTurn
<1> QED
  BY <1>1, <1>2, <1>3, <1>4, <1>5

LEMMA RemovalOfRows ==
  ASSUME TypeOK, RemovalStep
  PROVE  /\ UNCHANGED <<turn, push, handler, net, cursor, prior>>
         /\ \/ UNCHANGED <<seqOf, messageCount, introMark, removed, crossed>>
            \/ RemoveRows(doomed) /\ ResetCommit
            \/ RemoveRows(Rows) /\ ClearMessages
         /\ \A m \in Message : seqOf'[m] \in {0, seqOf[m]}
         /\ \A m \in Message : m \in Rows' => m \in Rows
BY DEF RemovalStep, ResetDelete, ResetCommit, RollbackReset, ClearMessages, RemoveRows, Rows, TypeOK

(* The log of all rows there ever were only grows. *)
LEMMA LogStays ==
  ASSUME TypeOK, TurnNumbers, PushNumbers, IntroNumbers, [Next]_vars
  PROVE  Log \subseteq Log'
<1>1. CASE RemovalStep
  <2>1. CASE UNCHANGED <<seqOf, removed>>
    BY <2>1 DEF Log, Events, EventFor, Rows
  <2>2. ASSUME NEW M \in SUBSET Message, RemoveRows(M)
        PROVE  Log \subseteq Log'
    <3> SUFFICES ASSUME NEW e \in Log PROVE e \in Log'
      OBVIOUS
    <3>1. CASE e \in removed
      BY <2>2, <3>1 DEF Log, RemoveRows
    <3>2. ASSUME NEW m \in Rows, e = EventFor(m), m \in M
          PROVE  e \in Log'
      BY <2>2, <3>2 DEF Log, RemoveRows, Events
    <3>3. ASSUME NEW m \in Rows, e = EventFor(m), m \notin M
          PROVE  e \in Log'
      <4>1. m \in Message /\ seqOf'[m] = seqOf[m] /\ m \in Rows'
        BY <2>2, <3>3 DEF RemoveRows, Rows
      <4> QED BY <3>3, <4>1 DEF Log, Events, EventFor
    <3> QED BY <3>1, <3>2, <3>3 DEF Log, Events
  <2>3. doomed \in SUBSET Message /\ Rows \in SUBSET Message
    BY DEF TypeOK, Rows
  <2> QED BY <1>1, <2>1, <2>2, <2>3, RemovalOfRows
<1>2. CASE ~RemovalStep
  <2>1. /\ \A m \in Rows : m \in Rows' /\ seqOf'[m] = seqOf[m]
        /\ removed' = removed
    BY <1>2, RowsKeepNumbers DEF Rows, removal
  <2> QED BY <2>1 DEF Log, Events, EventFor
<1> QED BY <1>1, <1>2

(* Writing a row of one kind leaves the rows of the others alone. *)
LEMMA RowNamesDiffer ==
  /\ \A t, u \in Turns : /\ User(t) # Reply(u)
                         /\ User(t) = User(u) => t = u
                         /\ Reply(t) = Reply(u) => t = u
  /\ \A p, q \in Pushes : Push(p) = Push(q) => p = q
  /\ \A r, s \in Sockets : Intro(r) = Intro(s) => r = s
  /\ \A t \in Turns, p \in Pushes : User(t) # Push(p) /\ Reply(t) # Push(p)
  /\ \A t \in Turns, s \in Sockets : User(t) # Intro(s) /\ Reply(t) # Intro(s)
  /\ \A p \in Pushes, s \in Sockets : Push(p) # Intro(s)
  /\ \A t \in Turns : WriterOf(User(t)) = t /\ WriterOf(Reply(t)) = t
  /\ \A p \in Pushes : WriterOf(Push(p)) = p
  /\ \A s \in Sockets : WriterOf(Intro(s)) = s
BY DEF User, Reply, Push, Intro, WriterOf

(* The number of a turn: above what was there when it was taken, and the one *)
(* its rows carry.                                                           *)
LEMMA TurnNumbersStep ==
  ASSUME TypeOK, TurnNumbers, PushNumbers, IntroNumbers, [Next]_vars
  PROVE  TurnNumbers'
<1> DEFINE Holds(t) ==
      /\ seqOf[User(t)] \in {0, userSeq[t]}
      /\ seqOf[Reply(t)] \in {0, userSeq[t] + 1}
      /\ turnPc[t] = "idle" => User(t) \notin Rows /\ Reply(t) \notin Rows
      /\ turnPc[t] # "idle" => userSeq[t] # 0 /\ Below(prior[t], userSeq[t])
      /\ turnPc[t] = "saved" => [msg |-> User(t), seq |-> userSeq[t]] \in Log
      /\ turnPc[t] \in {"answered", "counted"} =>
           [msg |-> Reply(t), seq |-> userSeq[t] + 1] \in Log
<1> SUFFICES ASSUME NEW u \in Turns PROVE Holds(u)'
  BY DEF TurnNumbers
<1>0. /\ Holds(u)
      /\ Log \subseteq Log'
      /\ seqOf \in [Message -> Nat] /\ userSeq \in [Turns -> Nat]
      /\ turnPc \in [Turns -> TurnPc] /\ prior \in [Writer -> SUBSET Message]
      /\ User(u) \in Message /\ Reply(u) \in Message /\ u \in Writer
  BY LogStays, RowNames DEF TurnNumbers, TypeOK, Writer
<1>1. ASSUME NEW t \in Turns, NEW s \in Sockets \cup {NoSocket}, BeginTurn(t, s)
      PROVE  Holds(u)'
  <2>1. PICK n \in NextSeqs : TakeNumber(t, n) /\ userSeq' = [userSeq EXCEPT ![t] = n]
    BY <1>1 DEF BeginTurn
  <2>2. n \in Nat /\ n # 0 /\ Below(Rows, n)
    BY NextSeqIsAbove, NextSeqIsAboveRows
  <2>3. CASE u = t
    <3>1. prior'[t] = Rows /\ userSeq'[t] = n /\ turnPc[t] = "idle" /\ turnPc'[t] = "numbered"
      BY <1>0, <1>1, <2>1, <2>3 DEF BeginTurn, TakeNumber
    <3>2. Below(prior[t], userSeq[t])'
      BY <1>0, <2>2, <3>1 DEF Below
    <3>3. User(t) \notin Rows' /\ Reply(t) \notin Rows' /\ seqOf' = seqOf
      BY <1>0, <1>1, <2>3, <3>1 DEF BeginTurn, table, Rows
    <3> QED BY <1>0, <2>2, <2>3, <3>1, <3>2, <3>3 DEF Rows
  <2>4. CASE u # t
    BY <1>0, <1>1, <2>1, <2>4 DEF BeginTurn, TakeNumber, Rows, table, Below
  <2> QED BY <2>3, <2>4
<1>2. ASSUME NEW t \in Turns, SaveUser(t)
      PROVE  Holds(u)'
  <2>1. userSeq[t] \in Nat /\ userSeq[t] # 0 /\ User(t) \in Message
    BY <1>0, <1>2, RowNames DEF SaveUser, TurnNumbers
  <2>2. [msg |-> User(t), seq |-> userSeq[t]] \in Log'
    BY <1>2, <2>1, InsertLogs DEF SaveUser
  <2> QED BY <1>0, <1>2, <2>1, <2>2, RowNames, RowNamesDiffer DEF SaveUser, InsertRow, Rows, Below
<1>3. ASSUME NEW t \in Turns, SaveReply(t)
      PROVE  Holds(u)'
  <2>1. userSeq[t] + 1 \in Nat /\ userSeq[t] + 1 # 0 /\ Reply(t) \in Message
    BY <1>0, RowNames
  <2>2. [msg |-> Reply(t), seq |-> userSeq[t] + 1] \in Log'
    BY <1>3, <2>1, InsertLogs DEF SaveReply
  <2> QED BY <1>0, <1>3, <2>1, <2>2, RowNames, RowNamesDiffer DEF SaveReply, InsertRow, Rows, Below
<1>4. ASSUME NEW t \in Turns, \/ EmitAck(t) \/ Generate(t) \/ FinalizeTurn(t) \/ EmitMessage(t)
                              \/ FailTurn(t) \/ DropTurn(t)
      PROVE  Holds(u)'
  <2>1. /\ seqOf' = seqOf /\ userSeq' = userSeq /\ prior' = prior
        /\ \/ turnPc' = turnPc
           \/ turnPc[t] # "idle" /\ \/ turnPc' = [turnPc EXCEPT ![t] = "acked"]
                                    \/ turnPc' = [turnPc EXCEPT ![t] = "generated"]
                                    \/ turnPc' = [turnPc EXCEPT ![t] = "done"]
                                    \/ turnPc' = [turnPc EXCEPT ![t] = "failed"]
                                    \/ turnPc' = [turnPc EXCEPT ![t] = "dropped"]
           \/ turnPc[t] = "answered" /\ turnPc' = [turnPc EXCEPT ![t] = "counted"]
    BY <1>4 DEF EmitAck, Generate, FinalizeTurn, EmitMessage, FailTurn, DropTurn, table, TurnActive
  <2> QED BY <1>0, <2>1 DEF Rows, Below
<1>5. ASSUME NEW w \in Pushes \cup Sockets, NEW n \in Nat, TakeNumber(w, n), UNCHANGED <<table, turn>>
      PROVE  Holds(u)'
  BY <1>0, <1>5, WriterAssumption DEF TakeNumber, Rows, table, turn, Writer, Below
<1>6. ASSUME UNCHANGED <<turn, prior>>, seqOf'[User(u)] \in {0, seqOf[User(u)]},
             seqOf'[Reply(u)] \in {0, seqOf[Reply(u)]}
      PROVE  Holds(u)'
  BY <1>0, <1>6 DEF Rows, turn, Below
<1>7. ASSUME NEW p \in Pushes, NumberPush(p) \/ PushStep(p)
      PROVE  Holds(u)'
  <2>1. CASE NumberPush(p)
    <3>1. PICK n \in NextSeqs : TakeNumber(p, n)
      BY <2>1 DEF NumberPush
    <3>2. UNCHANGED <<table, turn>>
      BY <2>1 DEF NumberPush
    <3> QED BY <1>5, <3>1, <3>2, NextSeqIsAbove
  <2>2. CASE PushStep(p)
    BY <1>0, <1>6, <2>2, RowNames, RowNamesDiffer
    DEF PushStep, SavePush, SendPush, InsertRow, table
  <2> QED BY <1>7, <2>1, <2>2
<1>8. ASSUME NEW s \in Sockets, Connect(s) \/ GreetStep(s) \/ RollbackIntro(s) \/ Disconnect(s) \/ ReadEvent(s)
      PROVE  Holds(u)'
  <2>1. CASE NumberIntro(s)
    <3>1. PICK n \in NextSeqs : TakeNumber(s, n)
      BY <2>1 DEF NumberIntro
    <3>2. UNCHANGED <<table, turn>>
      BY <2>1 DEF NumberIntro
    <3> QED BY <1>5, <3>1, <3>2, NextSeqIsAbove
  <2>2. CASE CommitIntro(s)
    BY <1>0, <1>6, <2>2, RowNames, RowNamesDiffer DEF CommitIntro, InsertRow
  <2> QED
    BY <1>6, <1>8, <2>1, <2>2
    DEF GreetStep, Connect, IntroGate, LockForIntro, RollbackIntro, StartReplay, SendReplayed,
        EndReplay, Disconnect, ReadEvent, table
<1>9. CASE UNCHANGED vars
  BY <1>6, <1>9 DEF vars, table
<1>10. CASE RemovalStep
  BY <1>0, <1>6, <1>10, RemovalOfRows
<1> QED
  BY <1>1, <1>2, <1>3, <1>4, <1>7, <1>8, <1>9, <1>10 DEF Next, HttpTurn, SocketTurn, TurnStep

(* The same for a proactive message. *)
LEMMA PushNumbersStep ==
  ASSUME TypeOK, TurnNumbers, PushNumbers, IntroNumbers, [Next]_vars
  PROVE  PushNumbers'
<1> DEFINE Holds(p) ==
      /\ seqOf[Push(p)] \in {0, pushSeq[p]}
      /\ pushPc[p] = "idle" => Push(p) \notin Rows
      /\ pushPc[p] # "idle" => pushSeq[p] # 0 /\ Below(prior[p], pushSeq[p])
      /\ pushPc[p] = "saved" => [msg |-> Push(p), seq |-> pushSeq[p]] \in Log
<1> SUFFICES ASSUME NEW q \in Pushes PROVE Holds(q)'
  BY DEF PushNumbers
<1>0. /\ Holds(q)
      /\ Log \subseteq Log'
      /\ seqOf \in [Message -> Nat] /\ pushSeq \in [Pushes -> Nat]
      /\ pushPc \in [Pushes -> PushPc] /\ prior \in [Writer -> SUBSET Message]
      /\ Push(q) \in Message /\ q \in Writer
  BY LogStays, RowNames DEF PushNumbers, TypeOK, Writer
<1>1. ASSUME NEW p \in Pushes, NumberPush(p)
      PROVE  Holds(q)'
  <2>1. PICK n \in NextSeqs : TakeNumber(p, n) /\ pushSeq' = [pushSeq EXCEPT ![p] = n]
    BY <1>1 DEF NumberPush
  <2>2. n \in Nat /\ n # 0 /\ Below(Rows, n)
    BY NextSeqIsAbove, NextSeqIsAboveRows
  <2>3. CASE q = p
    <3>1. prior'[p] = Rows /\ pushSeq'[p] = n /\ pushPc[p] = "idle" /\ pushPc'[p] = "numbered"
      BY <1>0, <1>1, <2>1, <2>3 DEF NumberPush, TakeNumber
    <3>2. Below(prior[p], pushSeq[p])'
      BY <1>0, <2>2, <3>1 DEF Below
    <3>3. Push(p) \notin Rows' /\ seqOf' = seqOf
      BY <1>0, <1>1, <2>3, <3>1 DEF NumberPush, table, Rows
    <3> QED BY <1>0, <2>2, <2>3, <3>1, <3>2, <3>3 DEF Rows
  <2>4. CASE q # p
    BY <1>0, <1>1, <2>1, <2>4 DEF NumberPush, TakeNumber, Rows, table, Below
  <2> QED BY <2>3, <2>4
<1>2. ASSUME NEW p \in Pushes, SavePush(p)
      PROVE  Holds(q)'
  <2>1. pushSeq[p] \in Nat /\ pushSeq[p] # 0 /\ Push(p) \in Message
    BY <1>0, <1>2, RowNames DEF SavePush, PushNumbers
  <2>2. [msg |-> Push(p), seq |-> pushSeq[p]] \in Log'
    BY <1>2, <2>1, InsertLogs DEF SavePush
  <2> QED BY <1>0, <1>2, <2>1, <2>2, RowNames, RowNamesDiffer DEF SavePush, InsertRow, Rows, Below
<1>3. ASSUME NEW p \in Pushes, SendPush(p)
      PROVE  Holds(q)'
  BY <1>0, <1>3 DEF SendPush, Rows, table, Below
<1>4. ASSUME NEW w \in Turns \cup Sockets, NEW n \in Nat, TakeNumber(w, n),
             UNCHANGED <<table, push>>
      PROVE  Holds(q)'
  BY <1>0, <1>4, WriterAssumption DEF TakeNumber, Rows, table, push, Writer, Below
<1>5. ASSUME UNCHANGED <<push, prior>>, seqOf'[Push(q)] \in {0, seqOf[Push(q)]}
      PROVE  Holds(q)'
  BY <1>0, <1>5 DEF Rows, push, Below
<1>6. ASSUME NEW t \in Turns, NEW s \in Sockets \cup {NoSocket}, BeginTurn(t, s)
      PROVE  Holds(q)'
  <2>1. PICK n \in NextSeqs : TakeNumber(t, n)
    BY <1>6 DEF BeginTurn
  <2>2. UNCHANGED <<table, push>>
    BY <1>6 DEF BeginTurn
  <2> QED BY <1>4, <2>1, <2>2, NextSeqIsAbove
<1>7. ASSUME NEW t \in Turns, TurnStep(t) \/ FailTurn(t) \/ DropTurn(t)
      PROVE  Holds(q)'
  BY <1>0, <1>5, <1>7, RowNames, RowNamesDiffer
  DEF TurnStep, SaveUser, EmitAck, Generate, SaveReply, FinalizeTurn, EmitMessage,
      FailTurn, DropTurn, InsertRow, table
<1>8. ASSUME NEW s \in Sockets, Connect(s) \/ GreetStep(s) \/ RollbackIntro(s) \/ Disconnect(s) \/ ReadEvent(s)
      PROVE  Holds(q)'
  <2>1. CASE NumberIntro(s)
    <3>1. PICK n \in NextSeqs : TakeNumber(s, n)
      BY <2>1 DEF NumberIntro
    <3>2. UNCHANGED <<table, push>>
      BY <2>1 DEF NumberIntro
    <3> QED BY <1>4, <3>1, <3>2, NextSeqIsAbove
  <2>2. CASE CommitIntro(s)
    BY <1>0, <1>5, <2>2, RowNames, RowNamesDiffer DEF CommitIntro, InsertRow
  <2> QED
    BY <1>5, <1>8, <2>1, <2>2
    DEF GreetStep, Connect, IntroGate, LockForIntro, RollbackIntro, StartReplay, SendReplayed,
        EndReplay, Disconnect, ReadEvent, table
<1>9. CASE UNCHANGED vars
  BY <1>5, <1>9 DEF vars, table
<1>10. CASE RemovalStep
  BY <1>0, <1>5, <1>10, RemovalOfRows
<1> QED
  BY <1>1, <1>2, <1>3, <1>6, <1>7, <1>8, <1>9, <1>10 DEF Next, HttpTurn, SocketTurn, PushStep

(* The same for an intro message: its transaction inserts it last. *)
LEMMA IntroNumbersStep ==
  ASSUME TypeOK, TurnNumbers, PushNumbers, IntroNumbers, [Next]_vars
  PROVE  IntroNumbers'
<1> DEFINE Holds(s) ==
      /\ seqOf[Intro(s)] \in {0, introSeq[s]}
      /\ socketPc[s] \in {"unused", "intro", "waiting", "gated", "numbered"} => Intro(s) \notin Rows
      /\ socketPc[s] = "numbered" => introSeq[s] # 0 /\ Below(prior[s], introSeq[s])
      /\ Intro(s) \in Rows => Below(prior[s], introSeq[s])
<1> SUFFICES ASSUME NEW r \in Sockets PROVE Holds(r)'
  BY DEF IntroNumbers
<1>0. /\ Holds(r)
      /\ Log \subseteq Log'
      /\ seqOf \in [Message -> Nat] /\ introSeq \in [Sockets -> Nat]
      /\ socketPc \in [Sockets -> SocketPc] /\ prior \in [Writer -> SUBSET Message]
      /\ Intro(r) \in Message /\ r \in Writer
  BY LogStays, RowNames DEF IntroNumbers, TypeOK, Writer
<1>1. ASSUME NEW s \in Sockets, NumberIntro(s)
      PROVE  Holds(r)'
  <2>1. PICK n \in NextSeqs : TakeNumber(s, n) /\ introSeq' = [introSeq EXCEPT ![s] = n]
    BY <1>1 DEF NumberIntro
  <2>2. n \in Nat /\ n # 0 /\ Below(Rows, n)
    BY NextSeqIsAbove, NextSeqIsAboveRows
  <2>3. CASE r = s
    <3>1. /\ prior'[s] = Rows /\ introSeq'[s] = n
          /\ socketPc[s] = "gated" /\ socketPc'[s] = "numbered"
      BY <1>0, <1>1, <2>1, <2>3 DEF NumberIntro, TakeNumber
    <3>2. Below(prior[s], introSeq[s])'
      BY <1>0, <2>2, <3>1 DEF Below
    <3>3. Intro(s) \notin Rows' /\ seqOf' = seqOf
      BY <1>0, <1>1, <2>3, <3>1 DEF NumberIntro, table, Rows
    <3> QED BY <1>0, <2>2, <2>3, <3>1, <3>2, <3>3 DEF Rows
  <2>4. CASE r # s
    BY <1>0, <1>1, <2>1, <2>4 DEF NumberIntro, TakeNumber, Rows, table, Below
  <2> QED BY <2>3, <2>4
<1>2. ASSUME NEW s \in Sockets, CommitIntro(s)
      PROVE  Holds(r)'
  BY <1>0, <1>2, RowNames, RowNamesDiffer DEF CommitIntro, InsertRow, Rows, IntroNumbers, Below
<1>3. ASSUME NEW s \in Sockets,
             \/ Connect(s) \/ IntroGate(s) \/ LockForIntro(s) \/ RollbackIntro(s)
             \/ StartReplay(s) \/ EndReplay(s)
      PROVE  Holds(r)'
  BY <1>0, <1>3 DEF Connect, IntroGate, LockForIntro, RollbackIntro, StartReplay, EndReplay, Rows,
                    table, Below
<1>4. ASSUME NEW w \in Turns \cup Pushes, NEW n \in Nat, TakeNumber(w, n),
             UNCHANGED <<table, handler>>
      PROVE  Holds(r)'
  BY <1>0, <1>4, WriterAssumption DEF TakeNumber, Rows, table, handler, Writer, Below
<1>5. ASSUME UNCHANGED <<socketPc, introSeq, prior>>, seqOf'[Intro(r)] \in {0, seqOf[Intro(r)]}
      PROVE  Holds(r)'
  BY <1>0, <1>5 DEF Rows, Below
<1>6. ASSUME NEW t \in Turns, NEW s \in Sockets \cup {NoSocket}, BeginTurn(t, s)
      PROVE  Holds(r)'
  <2>1. PICK n \in NextSeqs : TakeNumber(t, n)
    BY <1>6 DEF BeginTurn
  <2>2. UNCHANGED <<table, handler>>
    BY <1>6 DEF BeginTurn
  <2> QED BY <1>4, <2>1, <2>2, NextSeqIsAbove
<1>7. ASSUME NEW p \in Pushes, NumberPush(p)
      PROVE  Holds(r)'
  <2>1. PICK n \in NextSeqs : TakeNumber(p, n)
    BY <1>7 DEF NumberPush
  <2>2. UNCHANGED <<table, handler>>
    BY <1>7 DEF NumberPush
  <2> QED BY <1>4, <2>1, <2>2, NextSeqIsAbove
<1>8. ASSUME NEW t \in Turns, TurnStep(t) \/ FailTurn(t) \/ DropTurn(t)
      PROVE  Holds(r)'
  BY <1>0, <1>5, <1>8, RowNames, RowNamesDiffer
  DEF TurnStep, SaveUser, EmitAck, Generate, SaveReply, FinalizeTurn, EmitMessage,
      FailTurn, DropTurn, InsertRow, table, handler
<1>9. ASSUME NEW p \in Pushes, PushStep(p)
      PROVE  Holds(r)'
  BY <1>0, <1>5, <1>9, RowNames, RowNamesDiffer
  DEF PushStep, SavePush, SendPush, InsertRow, table, handler
<1>10. ASSUME NEW s \in Sockets, SendReplayed(s) \/ Disconnect(s) \/ ReadEvent(s)
       PROVE  Holds(r)'
  BY <1>5, <1>10 DEF SendReplayed, Disconnect, ReadEvent, table, handler
<1>11. CASE UNCHANGED vars
  BY <1>5, <1>11 DEF vars, table, handler
<1>12. CASE RemovalStep
  BY <1>0, <1>5, <1>12, RemovalOfRows DEF handler
<1> QED
  BY <1>1, <1>2, <1>3, <1>6, <1>7, <1>8, <1>9, <1>10, <1>11, <1>12
  DEF Next, HttpTurn, SocketTurn, GreetStep

(* Every event on a wire, or still to be replayed, is in the log. *)
LEMMA EventsNameRowsStep ==
  ASSUME TypeOK, TurnNumbers, PushNumbers, IntroNumbers, EventsNameRows, [Next]_vars
  PROVE  EventsNameRows'
<1> DEFINE Logged(s) == \A i \in 1..Len(wire[s]) : wire[s][i] \in Log
<1>0. /\ Log \subseteq Log'
      /\ \A s \in Sockets : Logged(s) /\ backlog[s] \subseteq Log /\ wire[s] \in Seq(Event)
  BY LogStays DEF EventsNameRows, TypeOK
<1>1. ASSUME UNCHANGED wire, NEW s \in Sockets
      PROVE  Logged(s)'
  BY <1>0, <1>1
<1>2. ASSUME NEW s \in Sockets, NEW e \in Event, e \in Log',
             wire'[s] \in {wire[s], Append(wire[s], e)}
      PROVE  Logged(s)'
  <2>1. /\ Len(Append(wire[s], e)) = Len(wire[s]) + 1 /\ Len(wire[s]) \in Nat
        /\ \A i \in 1..(Len(wire[s]) + 1) :
             Append(wire[s], e)[i] = IF i = Len(wire[s]) + 1 THEN e ELSE wire[s][i]
    BY <1>0
  <2>2. CASE wire'[s] = wire[s]
    BY <1>0, <2>2
  <2>3. CASE wire'[s] = Append(wire[s], e)
    <3>1. \A i \in 1..(Len(wire[s]) + 1) : Append(wire[s], e)[i] \in Log'
      BY <1>0, <1>2, <2>1
    <3> QED BY <2>1, <2>3, <3>1
  <2> QED BY <1>2, <2>2, <2>3
<1>3. ASSUME NEW r \in Sockets, NEW e \in Event, e \in Log', SendOn(r, e), NEW s \in Sockets
      PROVE  Logged(s)'
  <2>1. wire'[s] \in {wire[s], Append(wire[s], e)}
    BY <1>3 DEF SendOn, TypeOK
  <2> QED BY <1>2, <1>3, <2>1
<1>4. ASSUME NEW t \in Turns, TurnStep(t) \/ FailTurn(t) \/ DropTurn(t)
      PROVE  EventsNameRows'
  <2>1. UNCHANGED backlog /\ turnSocket[t] \in Sockets \cup {NoSocket}
    BY <1>4 DEF TurnStep, SaveUser, EmitAck, Generate, SaveReply, FinalizeTurn, EmitMessage,
                FailTurn, DropTurn, handler, TypeOK
  <2>2. CASE EmitAck(t)
    <3>1. [msg |-> User(t), seq |-> userSeq[t]] \in Log' /\ [msg |-> User(t), seq |-> userSeq[t]] \in Event
      BY <1>0, <2>2, RowNames DEF EmitAck, TurnNumbers, TypeOK, Event
    <3> QED BY <1>0, <1>1, <1>3, <2>1, <2>2, <3>1 DEF EmitAck, EventsNameRows
  <2>3. CASE EmitMessage(t)
    <3>1. /\ [msg |-> Reply(t), seq |-> userSeq[t] + 1] \in Log'
          /\ [msg |-> Reply(t), seq |-> userSeq[t] + 1] \in Event
      <4>1. turnPc[t] = "counted" /\ userSeq[t] + 1 \in Nat /\ Reply(t) \in Message
        BY <2>3, RowNames DEF EmitMessage, TypeOK
      <4>2. [msg |-> Reply(t), seq |-> userSeq[t] + 1] \in Log
        BY <4>1 DEF TurnNumbers
      <4> QED BY <1>0, <4>1, <4>2 DEF Event
    <3> QED BY <1>0, <1>1, <1>3, <2>1, <2>3, <3>1 DEF EmitMessage, EventsNameRows
  <2>4. CASE UNCHANGED wire
    BY <1>0, <1>1, <2>1, <2>4 DEF EventsNameRows
  <2> QED
    BY <1>4, <2>2, <2>3, <2>4
    DEF TurnStep, SaveUser, Generate, SaveReply, FinalizeTurn, FailTurn, DropTurn, net
<1>5. ASSUME NEW p \in Pushes, SendPush(p)
      PROVE  EventsNameRows'
  <2> DEFINE e == [msg |-> Push(p), seq |-> pushSeq[p]]
  <2>1. e \in Log' /\ e \in Event
    BY <1>0, <1>5, RowNames DEF SendPush, PushNumbers, TypeOK, Event
  <2>2. ASSUME NEW s \in Sockets PROVE Logged(s)'
    <3>1. wire'[s] \in {wire[s], Append(wire[s], e)}
      BY <1>5 DEF SendPush, TypeOK
    <3> HIDE DEF e
    <3> QED BY <1>2, <2>1, <3>1
  <2>3. UNCHANGED backlog
    BY <1>5 DEF SendPush, handler
  <2> QED BY <1>0, <2>2, <2>3 DEF EventsNameRows
<1>6. ASSUME NEW s \in Sockets, CommitIntro(s)
      PROVE  EventsNameRows'
  <2>1. /\ Intro(s) \in Message /\ introSeq[s] \in Nat /\ introSeq[s] # 0
    BY <1>6, RowNames DEF CommitIntro, IntroNumbers, TypeOK
  <2>2. [msg |-> Intro(s), seq |-> introSeq[s]] \in Log' /\ [msg |-> Intro(s), seq |-> introSeq[s]] \in Event
    BY <1>6, <2>1, InsertLogs DEF CommitIntro, Event
  <2> QED BY <1>0, <1>3, <1>6, <2>2 DEF CommitIntro, EventsNameRows
<1>7. ASSUME NEW s \in Sockets, SendReplayed(s)
      PROVE  EventsNameRows'
  <2>1. PICK e \in backlog[s] : SendOn(s, e) /\ backlog' = [backlog EXCEPT ![s] = @ \ {e}]
    BY <1>7 DEF SendReplayed
  <2>2. e \in Log' /\ e \in Event
    BY <1>0, <2>1 DEF TypeOK
  <2> QED BY <1>0, <1>3, <2>1, <2>2 DEF EventsNameRows, TypeOK
<1>8. ASSUME NEW s \in Sockets, StartReplay(s) \/ EndReplay(s)
      PROVE  EventsNameRows'
  <2>1. UNCHANGED wire
    BY <1>8 DEF StartReplay, EndReplay, net
  <2>2. ASSUME NEW r \in Sockets PROVE backlog'[r] \subseteq Log'
    <3>1. backlog[r] \subseteq Log'
      BY <1>0
    <3>2. CASE StartReplay(s)
      <4>1. backlog'[r] \in {backlog[r], {}, Events({m \in Rows : seqOf[m] > since[s]})}
        BY <3>2 DEF StartReplay, TypeOK
      <4>2. Events({m \in Rows : seqOf[m] > since[s]}) \subseteq Log
        BY DEF Log, Events
      <4> QED BY <1>0, <3>1, <4>1, <4>2
    <3>3. CASE EndReplay(s)
      BY <3>1, <3>3 DEF EndReplay, TypeOK
    <3> QED BY <1>8, <3>2, <3>3
  <2> QED BY <1>0, <1>1, <2>1, <2>2 DEF EventsNameRows
<1>9. ASSUME NEW s \in Sockets, NEW k \in Sockets, Disconnect(k) \/ ReadEvent(k)
      PROVE  Logged(s)'
  <2>1. \A i \in 1..Len(wire[s]) : wire[s][i] \in Log'
    BY <1>0
  <2>2. CASE wire'[s] = wire[s] \/ wire'[s] = <<>>
    BY <2>1, <2>2
  <2>3. CASE wire[s] # <<>> /\ wire'[s] = Tail(wire[s])
    <3>1. \A i \in 1..Len(Tail(wire[s])) : i + 1 \in 1..Len(wire[s]) /\ Tail(wire[s])[i] = wire[s][i + 1]
      BY <1>0, <2>3
    <3> QED BY <2>1, <2>3, <3>1
  <2>4. CASE k # s
    BY <1>9, <2>2, <2>4 DEF Disconnect, ReadEvent, TypeOK
  <2>5. CASE k = s
    <3>1. CASE Disconnect(k)
      BY <2>2, <2>5, <3>1 DEF Disconnect, TypeOK
    <3>2. CASE ReadEvent(k)
      BY <2>3, <2>5, <3>2 DEF ReadEvent, TypeOK
    <3> QED BY <1>9, <3>1, <3>2
  <2> QED BY <2>4, <2>5
<1>10. ASSUME UNCHANGED <<wire, backlog>>
       PROVE  EventsNameRows'
  BY <1>0, <1>1, <1>10 DEF EventsNameRows
<1> QED
  <2>1. CASE \E s \in Sockets : Disconnect(s) \/ ReadEvent(s)
    BY <1>0, <1>9, <2>1 DEF EventsNameRows, Disconnect, ReadEvent, handler
  <2>2. CASE RemovalStep
    BY <1>10, <2>2, RemovalOfRows DEF handler, net
  <2> QED
    BY <1>4, <1>5, <1>6, <1>7, <1>8, <1>10, <2>1, <2>2
    DEF Next, HttpTurn, SocketTurn, BeginTurn, NumberPush, PushStep, SavePush, GreetStep,
        Connect, IntroGate, LockForIntro, NumberIntro, RollbackIntro, vars, net, handler

(* A client's cursor is the number of an event it read, so of the log. *)
LEMMA CursorInLog ==
  ASSUME TypeOK
  PROVE  CursorNamesARow <=> \A c \in Clients : cursor[c] # 0 => \E e \in Log : e.seq = cursor[c]
<1>1. ASSUME NEW n \in Nat
      PROVE  (\E e \in Log : e.seq = n) <=> \/ \E m \in Rows : seqOf[m] = n
                                            \/ \E e \in removed : e.seq = n
  <2>1. ASSUME NEW e \in Log, e.seq = n
        PROVE  (\E m \in Rows : seqOf[m] = n) \/ \E f \in removed : f.seq = n
    BY <2>1 DEF Log, Events, EventFor
  <2>2. ASSUME NEW m \in Rows, seqOf[m] = n
        PROVE  \E e \in Log : e.seq = n
    <3>1. [msg |-> m, seq |-> n] \in Log
      BY <2>2, RowsAreLogged
    <3> QED BY <3>1
  <2>3. removed \subseteq Log
    BY DEF Log
  <2> QED BY <2>1, <2>2, <2>3
<1> QED BY <1>1 DEF CursorNamesARow, TypeOK

LEMMA CursorStep ==
  ASSUME TypeOK, TypeOK', TurnNumbers, PushNumbers, IntroNumbers, EventsNameRows, CursorNamesARow,
         [Next]_vars
  PROVE  CursorNamesARow'
<1> DEFINE Named(c) == \E e \in Log : e.seq = cursor[c]
<1>0. /\ Log \subseteq Log'
      /\ \A c \in Clients : cursor[c] # 0 => Named(c)
  BY LogStays, CursorInLog
<1>1. SUFFICES ASSUME NEW c \in Clients, cursor'[c] # 0 PROVE Named(c)'
  <2>1. \A c \in Clients : cursor'[c] \in Nat
    BY DEF TypeOK
  <2>2. ASSUME NEW n \in Nat, \E e \in Log' : e.seq = n
        PROVE  \/ \E m \in Rows' : seqOf'[m] = n
               \/ \E e \in removed' : e.seq = n
    BY <2>2 DEF Log, Events, EventFor
  <2> QED BY <2>1, <2>2 DEF CursorNamesARow
<1>2. CASE cursor'[c] = cursor[c]
  BY <1>0, <1>1, <1>2
<1>3. ASSUME NEW s \in Sockets, ReadEvent(s), cursor'[c] # cursor[c]
      PROVE  Named(c)'
  <2>1. Head(wire[s]) = wire[s][1] /\ 1 \in 1..Len(wire[s])
    BY <1>3 DEF ReadEvent, TypeOK
  <2>2. Head(wire[s]) \in Log
    BY <2>1 DEF EventsNameRows
  <2>3. cursor'[c] = Head(wire[s]).seq
    BY <1>3 DEF ReadEvent, TypeOK
  <2> QED BY <1>0, <2>2, <2>3
<1>4. UNCHANGED cursor \/ \E s \in Sockets : ReadEvent(s)
  BY RemovalOfRows
  DEF Next, vars, HttpTurn, SocketTurn, BeginTurn, TurnStep, SaveUser, EmitAck, Generate,
      SaveReply, FinalizeTurn, EmitMessage, FailTurn, DropTurn, NumberPush, PushStep, SavePush,
      SendPush, GreetStep, Connect, IntroGate, LockForIntro, NumberIntro, CommitIntro,
      RollbackIntro, StartReplay, SendReplayed, EndReplay, Disconnect
<1> QED
  BY <1>2, <1>3, <1>4

(* The gate's row lock admits one intro transaction at a time, and none once *)
(* the mark is committed; the mark and the intro row commit together, and go *)
(* together unless a removal crosses them.                                   *)
LEMMA IntroStep ==
  ASSUME TypeOK, IntroNumbers, IntroGateInv, OneIntro, [Next]_vars
  PROVE  IntroGateInv' /\ OneIntro'
<1> SUFFICES ASSUME SendOnce PROVE IntroGateInv' /\ OneIntro'
  BY DEF IntroGateInv, OneIntro
<1> DEFINE InGate(s) == socketPc[s] \in {"gated", "numbered"}
<1> DEFINE Greeted(s) == Intro(s) \in Rows
<1>0. /\ \A r, s \in Sockets : InGate(r) => ~introMark /\ (InGate(s) => r = s)
      /\ \A r, s \in Sockets : Greeted(r) /\ Greeted(s) => r = s \/ r \in crossed \/ s \in crossed
      /\ \A s \in Sockets : Greeted(s) => introMark \/ s \in crossed
      /\ introMark => \E s \in Sockets : Greeted(s) \/ s \in crossed
      /\ \A s \in Sockets : Intro(s) \in Message
      /\ socketPc \in [Sockets -> SocketPc]
  BY RowNames DEF IntroGateInv, OneIntro, TypeOK
<1>1. ASSUME UNCHANGED <<introMark, crossed>>, \A s \in Sockets : seqOf'[Intro(s)] = seqOf[Intro(s)],
             \A s \in Sockets : InGate(s)' => InGate(s)
      PROVE  IntroGateInv' /\ OneIntro'
  <2>1. \A s \in Sockets : Greeted(s)' <=> Greeted(s)
    BY <1>0, <1>1 DEF Rows
  <2> QED BY <1>0, <1>1, <2>1 DEF IntroGateInv, OneIntro
<1>2. ASSUME NEW s \in Sockets, LockForIntro(s)
      PROVE  IntroGateInv' /\ OneIntro'
  <2>1. /\ UNCHANGED <<introMark, crossed>> /\ \A r \in Sockets : Greeted(r)' <=> Greeted(r)
        /\ \A r \in Sockets : InGate(r)' => (~introMark /\ r = s) \/ InGate(r)
        /\ \A r \in Sockets : ~InGate(r)
    BY <1>2 DEF LockForIntro, RelationshipRowFree, table, removal, Rows, TypeOK
  <2> QED BY <1>0, <2>1 DEF IntroGateInv, OneIntro
<1>3. ASSUME NEW s \in Sockets, CommitIntro(s)
      PROVE  IntroGateInv' /\ OneIntro'
  <2>1. introMark' /\ InGate(s) /\ ~InGate(s)' /\ \A r \in Sockets : r # s => InGate(r)' = InGate(r)
    BY <1>3 DEF CommitIntro, TypeOK
  <2>2. crossed' = crossed /\ \A r \in Sockets : ~InGate(r)' /\ (Greeted(r) => r \in crossed)
    BY <1>0, <1>3, <2>1 DEF CommitIntro, removal
  <2>3. \A r \in Sockets : r # s => (Greeted(r)' <=> Greeted(r))
    BY <1>3, RowNames, RowNamesDiffer DEF CommitIntro, InsertRow, Rows, TypeOK
  <2>4. Greeted(s)'
    BY <1>3, RowNames DEF CommitIntro, InsertRow, Rows, IntroNumbers, TypeOK
  <2> QED BY <2>1, <2>2, <2>3, <2>4 DEF IntroGateInv, OneIntro
<1>10. ASSUME NEW s \in Sockets, IntroGate(s)
      PROVE  IntroGateInv' /\ OneIntro'
  BY <1>1, <1>10 DEF IntroGate, table, removal, TypeOK
<1>11. CASE RemovalStep
  <2>1. UNCHANGED socketPc /\ \A s \in Sockets : Greeted(s)' => Greeted(s)
    BY <1>0, <1>11, RemovalOfRows DEF handler
  <2>2. CASE UNCHANGED <<seqOf, introMark, crossed>>
    BY <1>1, <2>1, <2>2
  <2>3. CASE RemoveRows(doomed) /\ ResetCommit
    <3>1. \A s \in Sockets : Greeted(s)' => Intro(s) \in Rows \ doomed
      BY <1>0, <2>1, <2>3 DEF RemoveRows, Rows
    <3>2. \A s \in Sockets : Intro(s) \in Rows \ doomed => s \in crossed'
      BY <2>3, RowNamesDiffer DEF ResetCommit, Cross
    <3>3. introMark' = FALSE
      BY <2>3 DEF ResetCommit
    <3> QED BY <1>0, <2>1, <3>1, <3>2, <3>3 DEF IntroGateInv, OneIntro
  <2>4. CASE RemoveRows(Rows) /\ ClearMessages
    <3>1. \A s \in Sockets : ~Greeted(s)'
      BY <1>0, <2>1, <2>4 DEF RemoveRows, Rows
    <3>2. \A s \in Sockets : Greeted(s) \/ s \in crossed => s \in crossed'
      BY <2>4, RowNamesDiffer DEF ClearMessages, Cross
    <3>3. introMark' = introMark
      BY <2>4 DEF ClearMessages
    <3> QED BY <1>0, <2>1, <3>1, <3>2, <3>3 DEF IntroGateInv, OneIntro
  <2> QED BY <1>11, <2>2, <2>3, <2>4, RemovalOfRows
<1>4. ASSUME NEW s \in Sockets, NumberIntro(s) \/ RollbackIntro(s)
      PROVE  IntroGateInv' /\ OneIntro'
  BY <1>1, <1>4 DEF NumberIntro, RollbackIntro, table, removal, TypeOK
<1>5. ASSUME NEW s \in Sockets, Connect(s) \/ StartReplay(s) \/ EndReplay(s)
      PROVE  IntroGateInv' /\ OneIntro'
  BY <1>1, <1>5 DEF Connect, StartReplay, EndReplay, table, removal, TypeOK
<1>6. ASSUME NEW t \in Turns, TurnStep(t)
      PROVE  IntroGateInv' /\ OneIntro'
  BY <1>1, <1>6, RowNames, RowNamesDiffer
  DEF TurnStep, SaveUser, EmitAck, Generate, SaveReply, FinalizeTurn, EmitMessage, InsertRow,
      table, removal, handler, TypeOK
<1>7. ASSUME NEW p \in Pushes, PushStep(p)
      PROVE  IntroGateInv' /\ OneIntro'
  BY <1>1, <1>7, RowNames, RowNamesDiffer
  DEF PushStep, SavePush, SendPush, InsertRow, table, removal, handler, TypeOK
<1>8. ASSUME UNCHANGED <<table, handler>>
      PROVE  IntroGateInv' /\ OneIntro'
  BY <1>1, <1>8 DEF table, removal, handler
<1>9. ASSUME UNCHANGED <<table, socketPc>>
      PROVE  IntroGateInv' /\ OneIntro'
  BY <1>1, <1>9 DEF table, removal
<1> QED
  BY <1>2, <1>3, <1>4, <1>5, <1>6, <1>7, <1>8, <1>9, <1>10, <1>11
  DEF Next, HttpTurn, SocketTurn, BeginTurn, FailTurn, DropTurn, NumberPush, GreetStep,
      SendReplayed, Disconnect, ReadEvent, vars, handler

-----------------------------------------------------------------------------
(* IInv is an inductive invariant. *)
LEMMA InitInv == Init => IInv
<1> SUFFICES ASSUME Init PROVE IInv
  OBVIOUS
<1>1. TypeOK
  <2>1. <<>> \in Seq(Event)
    OBVIOUS
  <2>2. wire \in [Sockets -> Seq(Event)]
    BY <2>1 DEF Init
  <2> QED BY <2>2 DEF Init, TypeOK, TurnPc, PushPc, SocketPc
<1>2. Rows = {} /\ \A t \in Turns : turnPc[t] = "idle"
  BY DEF Init, Rows
<1>3. TurnNumbers /\ PushNumbers /\ IntroNumbers
  BY <1>2, RowNames DEF Init, TurnNumbers, PushNumbers, IntroNumbers, Rows
<1>4. EventsNameRows /\ CursorNamesARow /\ IntroGateInv /\ OneIntro
  BY <1>2 DEF Init, EventsNameRows, CursorNamesARow, IntroGateInv, OneIntro
<1> QED BY <1>1, <1>3, <1>4 DEF IInv

LEMMA NextInv == IInv /\ [Next]_vars => IInv'
BY TypeStep, TurnNumbersStep, PushNumbersStep, IntroNumbersStep, EventsNameRowsStep, CursorStep,
   IntroStep
DEF IInv

THEOREM Invariance == Spec => []IInv
BY InitInv, NextInv, PTL DEF Spec

(* Every variable keeps its type. *)
THEOREM TypeCorrect == Spec => []TypeOK
BY Invariance, PTL DEF IInv

(* A writer whose number was taken after a row was saved numbers higher. *)
THEOREM LaterWriters == Spec => []LaterWritersNumberHigher
<1>1. IInv => LaterWritersNumberHigher
  <2> SUFFICES ASSUME IInv, NEW m \in Message, m \in Rows, NEW n \in prior[WriterOf(m)]
               PROVE  \E e \in Log : e.msg = n /\ e.seq < seqOf[m]
    BY DEF LaterWritersNumberHigher, Rows
  <2> USE RowNames, RowNamesDiffer DEF IInv
  <2>1. CASE \E t \in Turns : m \in {User(t), Reply(t)}
    <3>1. PICK t \in Turns : m \in {User(t), Reply(t)}
      BY <2>1
    <3>2. turnPc[t] # "idle" /\ seqOf[m] \in {userSeq[t], userSeq[t] + 1}
      BY <3>1 DEF TurnNumbers, Rows
    <3>3. userSeq[t] \in Nat /\ \E e \in Log : e.msg = n /\ e.seq < userSeq[t]
      <4>1. WriterOf(m) = t /\ userSeq[t] \in Nat
        BY <3>1 DEF TypeOK
      <4>2. Below(prior[t], userSeq[t])
        BY <3>2 DEF TurnNumbers
      <4> QED BY <4>1, <4>2 DEF Below
    <3>4. Log \subseteq Event
      BY RowsAreLogged DEF TypeOK, Log, Rows
    <3> QED BY <3>2, <3>3, <3>4 DEF Event
  <2>2. CASE \E p \in Pushes : m = Push(p)
    BY <2>2 DEF PushNumbers, Rows, Below
  <2>3. CASE \E s \in Sockets : m = Intro(s)
    BY <2>3 DEF IntroNumbers, Rows, Below
  <2> QED BY <2>1, <2>2, <2>3 DEF Message
<1> QED BY Invariance, <1>1, PTL

(* A client's cursor names a row, or one that a reset or a clear removed: an  *)
(* honest client gets invalid_seq for no other reason.                        *)
THEOREM CursorsResume == Spec => []CursorNamesARow
BY Invariance, PTL DEF IInv

(* With send_once a relationship is greeted once. *)
THEOREM GreetedOnce == Spec => []OneIntro
BY Invariance, PTL DEF IInv

(* No step renumbers a message, and no turn, delivery or connection removes   *)
(* one: rows leave with the commit of a reset, those its DELETE has seen, and *)
(* with a clear, whatever fails or is rolled back.                            *)
THEOREM RowsLeave == Spec => RowsLeaveByRemoval
<1> DEFINE Leaves == \A m \in Rows : seqOf'[m] # seqOf[m] =>
                       /\ seqOf'[m] = 0 /\ removals' = removals + 1
                       /\ resetting /\ ~resetting' => m \in doomed
<1>1. IInv /\ [Next]_vars => [Leaves]_seqOf
  <2> SUFFICES ASSUME IInv, [Next]_vars PROVE Leaves
    OBVIOUS
  <2>1. CASE ~RemovalStep
    BY <2>1, RowsKeepNumbers DEF IInv, Rows
  <2>2. CASE RemovalStep
    <3>1. CASE RemoveRows(doomed) /\ ResetCommit
      BY <3>1 DEF RemoveRows, ResetCommit, Rows
    <3>2. CASE RemoveRows(Rows) /\ ClearMessages
      BY <3>2 DEF RemoveRows, ClearMessages, Rows
    <3> QED BY <2>2, <3>1, <3>2, RemovalOfRows DEF IInv
  <2> QED BY <2>1, <2>2
<1> QED BY Invariance, <1>1, PTL DEF Spec, RowsLeaveByRemoval

-----------------------------------------------------------------------------
(* message_count counts the turns that were answered, each of them once.      *)

\* What a turn saved is there, unless a removal crossed the turn.
Kept(t, m) == m \in Rows \/ t \in crossed

\* The turns that were counted since the last reset.
Counts(D) ==
  /\ messageCount = 2 * Cardinality(D)
  /\ \A t \in D : /\ Kept(t, User(t)) /\ Kept(t, Reply(t))
                  /\ turnPc[t] \in {"counted", "done", "failed", "dropped"}
  /\ \A t \in Turns :
       turnPc[t] \in {"counted", "done"} /\ User(t) \in Rows /\ t \notin crossed => t \in D

SavedKept ==
  \A t \in Turns :
    /\ turnPc[t] \in {"saved", "acked", "generated", "answered"} => Kept(t, User(t))
    /\ turnPc[t] = "answered" => Kept(t, Reply(t))
    /\ t \in crossed => turnPc[t] # "idle"

CountInv ==
  /\ SavedKept
  /\ IsFiniteSet({t \in Turns : turnPc[t] # "idle"})
  /\ \E D \in SUBSET Turns : IsFiniteSet(D) /\ Counts(D)

\* A turn that an answer or a failure takes nowhere near the count.
LEMMA CountStays ==
  ASSUME TypeOK, CountInv, messageCount' = messageCount, crossed' = crossed,
         \A m \in Rows : m \in Rows',
         \A t \in Turns : User(t) \in Rows' => User(t) \in Rows \/ turnPc'[t] = "saved",
         SavedKept',
         \A t \in Turns : turnPc[t] = "idle" => turnPc'[t] = "idle",
         \A t \in Turns : turnPc'[t] \in {"counted", "done"} => turnPc[t] \in {"counted", "done"},
         \A t \in Turns : turnPc[t] \in {"counted", "done", "failed", "dropped"} =>
           turnPc'[t] \in {"counted", "done", "failed", "dropped"}
  PROVE  CountInv'
<1>1. PICK D \in SUBSET Turns : IsFiniteSet(D) /\ Counts(D)
  BY DEF CountInv
<1>2. Counts(D)'
  BY <1>1 DEF Counts, Kept
<1>3. {t \in Turns : turnPc'[t] # "idle"} \subseteq {t \in Turns : turnPc[t] # "idle"}
  OBVIOUS
<1>4. IsFiniteSet({t \in Turns : turnPc'[t] # "idle"})
  BY <1>3, FS_Subset DEF CountInv
<1> QED
  BY <1>1, <1>2, <1>4 DEF CountInv

(* A reset counts nothing any more, and crosses whatever it leaves of a turn; *)
(* a clear crosses every turn.                                                *)
LEMMA CountRemoval ==
  ASSUME TypeOK, TurnNumbers, CountInv, RemovalStep
  PROVE  CountInv'
<1>0. /\ turnPc' = turnPc /\ UNCHANGED <<turn, push, handler, net, cursor, prior>>
      /\ \A m \in Message : m \in Rows' => m \in Rows
      /\ \A t \in Turns : User(t) \in Message /\ Reply(t) \in Message
                          /\ WriterOf(User(t)) = t /\ WriterOf(Reply(t)) = t
  BY RemovalOfRows, RowNames, RowNamesDiffer DEF turn
<1>1. IsFiniteSet({t \in Turns : turnPc'[t] # "idle"})
  BY <1>0 DEF CountInv
<1>2. CASE UNCHANGED <<seqOf, messageCount, introMark, removed, crossed>>
  <2>1. UNCHANGED Rows
    BY <1>2 DEF Rows
  <2> QED BY <1>0, <1>1, <1>2, <2>1 DEF CountInv, SavedKept, Counts, Kept
<1>3. ASSUME NEW K \in SUBSET Rows, Cross(K)
      PROVE  SavedKept'
  <2>1. crossed' = crossed \cup {t \in Turns : TurnActive(t)} \cup {WriterOf(m) : m \in K}
    BY <1>3 DEF Cross
  <2>2. \A t \in Turns :
          turnPc[t] \in {"saved", "acked", "generated", "answered"} => t \in crossed'
    BY <2>1 DEF TurnActive
  <2>3. ASSUME NEW t \in Turns, t \in crossed'
        PROVE  turnPc[t] # "idle"
    <3>1. CASE t \in crossed
      BY <3>1 DEF CountInv, SavedKept
    <3>2. CASE TurnActive(t)
      BY <3>2 DEF TurnActive
    <3>3. ASSUME NEW m \in K, t = WriterOf(m)
          PROVE  turnPc[t] # "idle"
      <4>1. m \in {User(t), Reply(t)}
        BY <1>3, <3>3, WriterAssumption, RowNamesDiffer DEF Rows, Message
      <4> QED BY <1>3, <4>1 DEF TurnNumbers
    <3> QED BY <2>1, <2>3, <3>1, <3>2, <3>3
  <2> QED BY <1>0, <2>2, <2>3 DEF SavedKept, Kept
<1>4. CASE RemoveRows(doomed) /\ ResetCommit
  <2>1. /\ messageCount' = 0
        /\ crossed' = crossed \cup {t \in Turns : TurnActive(t)} \cup {WriterOf(m) : m \in Rows \ doomed}
    BY <1>4 DEF ResetCommit, Cross
  <2>2. \A t \in Turns : User(t) \in Rows' => User(t) \in Rows \ doomed
    BY <1>0, <1>4 DEF RemoveRows, Rows
  <2>3. \A t \in Turns : User(t) \in Rows' => t \in crossed'
    BY <1>0, <2>1, <2>2
  <2>4. Counts({})' /\ IsFiniteSet({})
    BY <2>1, <2>3, FS_EmptySet DEF Counts
  <2>5. SavedKept'
    <3>1. Cross(Rows \ doomed) /\ Rows \ doomed \in SUBSET Rows
      BY <1>4 DEF ResetCommit
    <3> QED BY <1>3, <3>1
  <2>6. {} \in SUBSET Turns
    OBVIOUS
  <2> QED BY <1>1, <2>4, <2>5, <2>6 DEF CountInv
<1>5. CASE RemoveRows(Rows) /\ ClearMessages
  <2>1. /\ messageCount' = messageCount
        /\ crossed' = crossed \cup {t \in Turns : TurnActive(t)} \cup {WriterOf(m) : m \in Rows}
    BY <1>5 DEF ClearMessages, Cross
  <2>2. \A t \in Turns : User(t) \notin Rows' /\ (User(t) \in Rows \/ t \in crossed => t \in crossed')
    <3>1. \A t \in Turns : User(t) \notin Rows'
      BY <1>0, <1>5 DEF RemoveRows, Rows
    <3> QED BY <1>0, <2>1, <3>1
  <2>3. PICK D \in SUBSET Turns : IsFiniteSet(D) /\ Counts(D)
    BY DEF CountInv
  <2>4. Counts(D)'
    BY <1>0, <2>1, <2>2, <2>3 DEF Counts, Kept
  <2>5. SavedKept'
    <3>1. Cross(Rows) /\ Rows \in SUBSET Rows
      BY <1>5 DEF ClearMessages
    <3> QED BY <1>3, <3>1
  <2> QED BY <1>1, <2>3, <2>4, <2>5 DEF CountInv
<1> QED BY <1>2, <1>4, <1>5, RemovalOfRows

LEMMA CountStep ==
  ASSUME IInv, CountInv, [Next]_vars
  PROVE  CountInv'
<1>0. TypeOK /\ turnPc' \in [Turns -> TurnPc] /\ TurnNumbers /\ SavedKept
  BY TypeStep DEF IInv, TypeOK, CountInv
<1>c. CASE RemovalStep
  BY <1>0, <1>c, CountRemoval
<1> SUFFICES ASSUME ~RemovalStep PROVE CountInv'
  BY <1>c
<1>r. (\A m \in Rows : m \in Rows') /\ crossed' = crossed
  <2>1. (\A m \in Message : seqOf[m] # 0 => seqOf'[m] = seqOf[m]) /\ UNCHANGED removal
    BY RowsKeepNumbers DEF IInv
  <2> QED
    BY <2>1 DEF Rows, removal
<1>1. ASSUME messageCount' = messageCount, turnPc' = turnPc,
             \A t \in Turns : seqOf'[User(t)] = seqOf[User(t)]
      PROVE  CountInv'
  <2>1. \A t \in Turns : User(t) \in Rows' => User(t) \in Rows
    BY <1>1, RowNames DEF Rows
  <2>2. SavedKept'
    BY <1>0, <1>1, <1>r DEF SavedKept, Kept
  <2> QED BY <1>0, <1>1, <1>r, <2>1, <2>2, CountStays
<1>2. ASSUME NEW t \in Turns, NEW s \in Sockets \cup {NoSocket}, BeginTurn(t, s)
      PROVE  CountInv'
  <2>1. /\ turnPc' = [turnPc EXCEPT ![t] = "numbered"] /\ turnPc[t] = "idle"
        /\ messageCount' = messageCount /\ seqOf' = seqOf
    BY <1>2 DEF BeginTurn, table
  <2>2. PICK D \in SUBSET Turns : IsFiniteSet(D) /\ Counts(D)
    BY DEF CountInv
  <2>3. Counts(D)'
    BY <1>0, <1>r, <2>1, <2>2 DEF Counts, TypeOK, Kept, Rows
  <2>4. IsFiniteSet({u \in Turns : turnPc[u] # "idle"} \cup {t})
    BY FS_AddElement DEF CountInv
  <2>5. {u \in Turns : turnPc'[u] # "idle"} \subseteq {u \in Turns : turnPc[u] # "idle"} \cup {t}
    BY <1>0, <2>1 DEF TypeOK
  <2>6. IsFiniteSet({u \in Turns : turnPc'[u] # "idle"})
    BY <2>4, <2>5, FS_Subset
  <2>7. SavedKept'
    BY <1>0, <1>r, <2>1 DEF TypeOK, SavedKept, Kept
  <2> QED
    BY <2>2, <2>3, <2>6, <2>7 DEF CountInv
<1>3. ASSUME NEW t \in Turns, FinalizeTurn(t)
      PROVE  CountInv'
  <2>1. /\ turnPc' = [turnPc EXCEPT ![t] = "counted"] /\ turnPc[t] = "answered"
        /\ messageCount' = messageCount + 2 /\ seqOf' = seqOf
    BY <1>3 DEF FinalizeTurn
  <2>2. PICK D \in SUBSET Turns : IsFiniteSet(D) /\ Counts(D)
    BY DEF CountInv
  <2>3. t \notin D
    BY <2>1, <2>2 DEF Counts
  <2>4. /\ IsFiniteSet(D \cup {t}) /\ Cardinality(D) \in Nat
        /\ Cardinality(D \cup {t}) = Cardinality(D) + 1
    BY <2>2, <2>3, FS_AddElement, FS_CardinalityType
  <2>5. Kept(t, User(t)) /\ Kept(t, Reply(t))
    BY <1>0, <2>1 DEF SavedKept
  <2>6. Counts(D \cup {t})'
    <3>1. messageCount' = 2 * Cardinality(D \cup {t})
      BY <2>1, <2>2, <2>4 DEF Counts
    <3>2. \A u \in D \cup {t} :
            /\ Kept(u, User(u))' /\ Kept(u, Reply(u))'
            /\ turnPc'[u] \in {"counted", "done", "failed", "dropped"}
      BY <1>0, <1>r, <2>1, <2>2, <2>5 DEF Counts, TypeOK, Kept
    <3>3. \A u \in Turns : turnPc'[u] \in {"counted", "done"} /\ User(u) \in Rows' /\ u \notin crossed'
            => u \in D \cup {t}
      BY <1>0, <1>r, <2>1, <2>2 DEF Counts, TypeOK, Rows
    <3> QED
      BY <3>1, <3>2, <3>3 DEF Counts
  <2>7. {u \in Turns : turnPc'[u] # "idle"} \subseteq {u \in Turns : turnPc[u] # "idle"}
    BY <1>0, <2>1 DEF TypeOK
  <2>8. IsFiniteSet({u \in Turns : turnPc'[u] # "idle"})
    BY <2>7, FS_Subset DEF CountInv
  <2>9. SavedKept'
    BY <1>0, <1>r, <2>1 DEF TypeOK, SavedKept, Kept
  <2> QED
    BY <2>4, <2>6, <2>8, <2>9 DEF CountInv
<1>4. ASSUME NEW t \in Turns, SaveUser(t) \/ SaveReply(t)
      PROVE  CountInv'
  <2>1. /\ messageCount' = messageCount
        /\ \/ /\ turnPc' = [turnPc EXCEPT ![t] = "saved"] /\ turnPc[t] = "numbered"
              /\ User(t) \in Rows'
              /\ \A u \in Turns : u # t => (User(u) \in Rows' => User(u) \in Rows)
           \/ /\ turnPc' = [turnPc EXCEPT ![t] = "answered"] /\ turnPc[t] = "generated"
              /\ Reply(t) \in Rows'
              /\ \A u \in Turns : User(u) \in Rows' => User(u) \in Rows
    <3>1. CASE SaveUser(t)
      <4>1. userSeq[t] \in Nat /\ userSeq[t] # 0 /\ User(t) \in Message /\ InsertRow(User(t), userSeq[t])
        BY <1>0, <3>1, RowNames DEF SaveUser, TypeOK, TurnNumbers
      <4>2. User(t) \in Rows'
        BY <1>0, <4>1, InsertLogs
      <4>3. \A u \in Turns : u # t => seqOf'[User(u)] = seqOf[User(u)]
        BY <1>0, <4>1, RowNames, RowNamesDiffer DEF InsertRow, TypeOK
      <4> QED BY <3>1, <4>2, <4>3 DEF SaveUser, Rows
    <3>2. CASE SaveReply(t)
      <4>1. /\ userSeq[t] + 1 \in Nat /\ userSeq[t] + 1 # 0 /\ Reply(t) \in Message
            /\ InsertRow(Reply(t), userSeq[t] + 1)
        BY <1>0, <3>2, RowNames DEF SaveReply, TypeOK
      <4>2. Reply(t) \in Rows'
        BY <1>0, <4>1, InsertLogs
      <4>3. \A u \in Turns : seqOf'[User(u)] = seqOf[User(u)]
        BY <1>0, <4>1, RowNames, RowNamesDiffer DEF InsertRow, TypeOK
      <4> QED BY <3>2, <4>2, <4>3 DEF SaveReply, Rows
    <3> QED BY <1>4, <3>1, <3>2
  <2>2. SavedKept'
    BY <1>0, <1>r, <2>1 DEF TypeOK, SavedKept, Kept
  <2>3. \A u \in Turns : User(u) \in Rows' => User(u) \in Rows \/ turnPc'[u] = "saved"
    BY <1>0, <2>1 DEF TypeOK
  <2>4. /\ \A u \in Turns : turnPc[u] = "idle" => turnPc'[u] = "idle"
        /\ \A u \in Turns : turnPc'[u] \in {"counted", "done"} => turnPc[u] \in {"counted", "done"}
        /\ \A u \in Turns : turnPc[u] \in {"counted", "done", "failed", "dropped"} =>
             turnPc'[u] \in {"counted", "done", "failed", "dropped"}
    BY <1>0, <2>1 DEF TypeOK
  <2> QED
    BY <1>0, <1>r, <2>1, <2>2, <2>3, <2>4, CountStays
<1>5. ASSUME NEW t \in Turns,
             \/ EmitAck(t) \/ Generate(t) \/ EmitMessage(t) \/ FailTurn(t) \/ DropTurn(t)
      PROVE  CountInv'
  <2>1. \/ turnPc[t] = "saved" /\ turnPc' = [turnPc EXCEPT ![t] = "acked"]
        \/ turnPc[t] = "acked" /\ turnPc' = [turnPc EXCEPT ![t] = "generated"]
        \/ turnPc[t] = "counted" /\ turnPc' = [turnPc EXCEPT ![t] = "done"]
        \/ turnPc[t] # "idle" /\ turnPc' = [turnPc EXCEPT ![t] = "failed"]
        \/ turnPc[t] # "idle" /\ turnPc' = [turnPc EXCEPT ![t] = "dropped"]
    BY <1>5 DEF EmitAck, Generate, EmitMessage, FailTurn, DropTurn, TurnActive
  <2>2. messageCount' = messageCount /\ seqOf' = seqOf
    BY <1>5 DEF EmitAck, Generate, EmitMessage, FailTurn, DropTurn, table
  <2>3. SavedKept'
    BY <1>0, <1>r, <2>1 DEF TypeOK, SavedKept, Kept
  <2>4. \A u \in Turns : User(u) \in Rows' => User(u) \in Rows
    BY <2>2 DEF Rows
  <2>5. /\ \A u \in Turns : turnPc[u] = "idle" => turnPc'[u] = "idle"
        /\ \A u \in Turns : turnPc'[u] \in {"counted", "done"} => turnPc[u] \in {"counted", "done"}
        /\ \A u \in Turns : turnPc[u] \in {"counted", "done", "failed", "dropped"} =>
             turnPc'[u] \in {"counted", "done", "failed", "dropped"}
    BY <1>0, <2>1 DEF TypeOK
  <2> QED
    BY <1>0, <1>r, <2>2, <2>3, <2>4, <2>5, CountStays
<1>6. ASSUME NEW p \in Pushes, NumberPush(p) \/ PushStep(p)
      PROVE  CountInv'
  BY <1>0, <1>1, <1>6, RowNames, RowNamesDiffer
  DEF NumberPush, PushStep, SavePush, SendPush, InsertRow, table, turn, TypeOK
<1>7. ASSUME NEW s \in Sockets, Connect(s) \/ GreetStep(s) \/ RollbackIntro(s) \/ Disconnect(s) \/ ReadEvent(s)
      PROVE  CountInv'
  <2>1. CASE CommitIntro(s)
    BY <1>0, <1>1, <2>1, RowNames, RowNamesDiffer DEF CommitIntro, InsertRow, turn, TypeOK
  <2> QED
    BY <1>1, <1>7, <2>1
    DEF Connect, GreetStep, IntroGate, LockForIntro, NumberIntro, RollbackIntro,
        StartReplay, SendReplayed, EndReplay, Disconnect, ReadEvent, table, turn
<1>8. CASE UNCHANGED vars
  BY <1>1, <1>8 DEF vars, table, turn
<1> QED
  BY <1>2, <1>3, <1>4, <1>5, <1>6, <1>7, <1>8 DEF Next, HttpTurn, SocketTurn, TurnStep

(* message_count never runs ahead of the answered turns in the table, and     *)
(* never behind those that ended well, but for the turns a removal crossed.   *)
THEOREM CountsAnsweredTurns == Spec => []CountTrailsRows
<1>1. Init => CountInv
  <2> SUFFICES ASSUME Init PROVE CountInv
    OBVIOUS
  <2>1. {t \in Turns : turnPc[t] # "idle"} = {}
    BY DEF Init
  <2>2. Counts({})
    BY FS_EmptySet DEF Init, Counts
  <2> QED
    BY <2>1, <2>2, FS_EmptySet DEF Init, CountInv, SavedKept
<1>2. IInv /\ CountInv /\ [Next]_vars => CountInv'
  BY CountStep
<1>3. IInv /\ CountInv => CountTrailsRows
  <2> SUFFICES ASSUME IInv, CountInv PROVE CountTrailsRows
    OBVIOUS
  <2> DEFINE Answered == {t \in Turns : {User(t), Reply(t)} \subseteq Rows \/ t \in crossed}
             Done == {t \in Turns : turnPc[t] = "done" /\ User(t) \in Rows /\ t \notin crossed}
  <2>1. PICK D \in SUBSET Turns : IsFiniteSet(D) /\ Counts(D)
    BY DEF CountInv
  <2>2. Answered \subseteq {t \in Turns : turnPc[t] # "idle"}
    BY DEF IInv, TurnNumbers, CountInv, SavedKept
  <2>3. IsFiniteSet(Answered)
    BY <2>2, FS_Subset DEF CountInv
  <2>4. D \subseteq Answered /\ Done \subseteq D
    <3>1. \A t \in D : t \in Answered
      BY <2>1 DEF Counts, Kept
    <3>2. \A t \in Done : t \in D
      BY <2>1 DEF Counts
    <3> QED BY <3>1, <3>2
  <2>5. /\ Cardinality(D) <= Cardinality(Answered) /\ Cardinality(Done) <= Cardinality(D)
        /\ Cardinality(D) \in Nat /\ Cardinality(Answered) \in Nat /\ Cardinality(Done) \in Nat
    BY <2>1, <2>3, <2>4, FS_Subset, FS_CardinalityType
  <2> HIDE DEF Answered, Done
  <2>6. messageCount <= 2 * Cardinality(Answered) /\ messageCount >= 2 * Cardinality(Done)
    BY <2>1, <2>5 DEF Counts
  <2> QED
    BY <2>6 DEF CountTrailsRows, Answered, Done
<1> QED
  BY <1>1, <1>2, <1>3, Invariance, PTL DEF Spec

=============================================================================
