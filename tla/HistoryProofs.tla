---------------------------- MODULE HistoryProofs ----------------------------
(***************************************************************************)
(* What the caches of a conversation promise for any turns, readers and    *)
(* processes, and any time to live.                                        *)
(***************************************************************************)
EXTENDS History, TLAPS

(***************************************************************************)
(* Lists of messages                                                       *)
(***************************************************************************)
LEMMA MessageTypes ==
  ASSUME NEW t \in Turns
  PROVE  /\ User(t) \in Messages /\ TurnOf(User(t)) = t
         /\ Reply(t) \in Messages /\ TurnOf(Reply(t)) = t
         /\ User(t) # Reply(t)
BY DEF User, Reply, Messages, TurnOf

LEMMA OfTurn ==
  ASSUME NEW m \in Messages
  PROVE  /\ TurnOf(m) \in Turns
         /\ m = User(TurnOf(m)) \/ m = Reply(TurnOf(m))
BY DEF User, Reply, Messages, TurnOf

LEMMA HomeType ==
  ASSUME NEW c \in Callers
  PROVE  HomeOf[c] \in Processes
BY HomeAssumption

\* The rows of a list that is appended to.
LEMMA AppendRows ==
  ASSUME NEW rows \in Seq(Messages), NEW m \in Messages
  PROVE  /\ Append(rows, m) \in Seq(Messages)
         /\ ToSet(Append(rows, m)) = ToSet(rows) \cup {m}
<1>1. /\ Append(rows, m) \in Seq(Messages)
      /\ Len(Append(rows, m)) = Len(rows) + 1
      /\ Append(rows, m)[Len(rows) + 1] = m
      /\ \A i \in 1..Len(rows) : Append(rows, m)[i] = rows[i]
  OBVIOUS
<1>2. Len(rows) \in Nat
  OBVIOUS
<1>3. ToSet(rows) = {rows[i] : i \in 1..Len(rows)}
  BY DEF ToSet
<1>4. ToSet(Append(rows, m)) = {Append(rows, m)[i] : i \in 1..(Len(rows) + 1)}
  BY <1>1 DEF ToSet
<1>5. ASSUME NEW x \in ToSet(rows)
      PROVE  x \in ToSet(Append(rows, m))
  <2>1. PICK i \in 1..Len(rows) : x = rows[i]
    BY <1>3, <1>5
  <2>2. i \in 1..(Len(rows) + 1) /\ x = Append(rows, m)[i]
    BY <2>1, <1>1, <1>2
  <2> QED
    BY <2>2, <1>4
<1>6. m \in ToSet(Append(rows, m))
  BY <1>1, <1>2, <1>4
<1>7. ASSUME NEW x \in ToSet(Append(rows, m)), x # m
      PROVE  x \in ToSet(rows)
  <2>1. PICK i \in 1..(Len(rows) + 1) : x = Append(rows, m)[i]
    BY <1>4, <1>7
  <2>2. i \in 1..Len(rows)
    BY <2>1, <1>1, <1>2, <1>7
  <2>3. x = rows[i]
    BY <2>1, <2>2, <1>1
  <2> QED
    BY <2>2, <2>3, <1>3
<1> QED
  BY <1>1, <1>5, <1>6, <1>7

LEMMA RowsAreMessages ==
  ASSUME NEW rows \in Seq(Messages)
  PROVE  ToSet(rows) \subseteq Messages
BY DEF ToSet

LEMMA NoRows == /\ ToSet(<<>>) = {}
                /\ <<>> \in Seq(Messages)
BY DEF ToSet

LEMMA EnsuredRows ==
  ASSUME NEW rows \in Seq(Messages), NEW m \in Messages
  PROVE  /\ Ensured(rows, m) \in Seq(Messages)
         /\ ToSet(Ensured(rows, m)) = ToSet(rows) \cup {m}
<1>1. CASE EndsWith(rows, m)
  <2>1. Len(rows) \in DOMAIN rows /\ rows[Len(rows)] = m
    BY <1>1 DEF EndsWith, Last
  <2>2. m \in ToSet(rows)
    BY <2>1 DEF ToSet
  <2> QED
    BY <1>1, <2>2 DEF Ensured
<1>2. CASE ~EndsWith(rows, m)
  BY <1>2, AppendRows DEF Ensured
<1> QED
  BY <1>1, <1>2

\* What an entry holds after its update.
LEMMA EntryTypes ==
  /\ NoEntry \in Entries /\ ~Live(NoEntry)
  /\ \A rows \in Seq(Messages) :
       /\ Entry(rows) \in Entries /\ Live(Entry(rows))
       /\ Entry(rows).rows = rows /\ Entry(rows).left = TTL
BY TTLAssumption, NoRows DEF NoEntry, Entries, Entry, Live

LEMMA NotedRows ==
  ASSUME NEW entry \in Entries, NEW m \in Messages
  PROVE  /\ Noted(entry, m) \in Entries
         /\ Live(Noted(entry, m)) <=> Live(entry)
         /\ Live(entry) => ToSet(Noted(entry, m).rows) = ToSet(entry.rows) \cup {m}
<1>1. entry.rows \in Seq(Messages)
  BY DEF Entries
<1>2. CASE Live(entry) /\ ~EndsWith(entry.rows, m)
  <2> DEFINE longer == Append(entry.rows, m)
  <2>1. Noted(entry, m) = Entry(longer)
    BY <1>2 DEF Noted
  <2>2. longer \in Seq(Messages) /\ ToSet(longer) = ToSet(entry.rows) \cup {m}
    BY <1>1, AppendRows
  <2> HIDE DEF longer
  <2> QED
    BY <1>2, <2>1, <2>2, EntryTypes
<1>3. CASE ~(Live(entry) /\ ~EndsWith(entry.rows, m))
  <2>1. Noted(entry, m) = entry
    BY <1>3 DEF Noted
  <2>2. Live(entry) => Ensured(entry.rows, m) = entry.rows
    BY <1>3 DEF Ensured
  <2> QED
    BY <1>1, <2>1, <2>2, EnsuredRows
<1> QED
  BY <1>2, <1>3

LEMMA TurnNotedRows ==
  ASSUME NEW entry \in Entries, NEW t \in Turns
  PROVE  /\ TurnNoted(entry, t) \in Entries
         /\ TurnNoted(entry, t).left = TTL
         /\ ToSet(TurnNoted(entry, t).rows) = ToSet(entry.rows) \cup {User(t), Reply(t)}
<1>1. entry.rows \in Seq(Messages)
  BY DEF Entries
<1>2. /\ Ensured(entry.rows, User(t)) \in Seq(Messages)
      /\ ToSet(Ensured(entry.rows, User(t))) = ToSet(entry.rows) \cup {User(t)}
  BY <1>1, EnsuredRows, MessageTypes
<1> DEFINE longer == Append(Ensured(entry.rows, User(t)), Reply(t))
<1>3. /\ longer \in Seq(Messages)
      /\ ToSet(longer) = ToSet(Ensured(entry.rows, User(t))) \cup {Reply(t)}
  BY <1>2, AppendRows, MessageTypes
<1>4. TurnNoted(entry, t) = Entry(longer)
  BY DEF TurnNoted
<1> HIDE DEF longer
<1> QED
  BY <1>2, <1>3, <1>4, EntryTypes

LEMMA AgedEntry ==
  ASSUME NEW entry \in Entries
  PROVE  /\ Aged(entry) \in Entries
         /\ Live(Aged(entry)) => /\ Live(entry)
                                 /\ Aged(entry).rows = entry.rows
         /\ entry.left > 1 => Aged(entry).left = entry.left - 1
<1>1. entry.left \in 0..TTL /\ entry.rows \in Seq(Messages)
  BY DEF Entries
<1>2. CASE entry.left > 1
  BY <1>1, <1>2, TTLAssumption DEF Aged, Entries, Live
<1>3. CASE ~(entry.left > 1)
  BY <1>3, EntryTypes DEF Aged
<1> QED
  BY <1>2, <1>3

(***************************************************************************)
(* Types                                                                   *)
(***************************************************************************)
LEMMA InitTypeOK == Init => TypeOK
<1> SUFFICES ASSUME Init
             PROVE  TypeOK
  OBVIOUS
<1>1. repo \in [Processes -> Entries] /\ history \in [Processes -> Entries]
  BY EntryTypes DEF Init
<1>2. log \in Seq(Messages) /\ fetched \in [Callers -> Seq(Messages)]
  BY NoRows DEF Init
<1>3. pc \in [Callers -> Steps] /\ fresh \in [Turns -> 0..TTL]
  BY TTLAssumption DEF Init, Steps
<1> QED
  BY <1>1, <1>2, <1>3 DEF Init, TypeOK

\* The step of a coroutine is one.
LEMMA GotoType ==
  ASSUME TypeOK, NEW c \in Callers, NEW step \in Steps, Goto(c, step)
  PROVE  pc' \in [Callers -> Steps] /\ prompt' = {}
BY DEF TypeOK, Goto

LEMMA InsertTypes ==
  ASSUME TypeOK, NEW t \in Turns, NEW m \in Messages, Inserts(t, m)
  PROVE  /\ log' \in Seq(Messages) /\ ToSet(log') = ToSet(log) \cup {m}
         /\ crossed' \subseteq Messages
         /\ overlapped' \in BOOLEAN
<1>1. log \in Seq(Messages) /\ crossed \subseteq Messages
  BY DEF TypeOK
<1>2. log' = Append(log, m)
  BY DEF Inserts
<1>3. crossed' \in {crossed, crossed \cup {m}}
  BY DEF Inserts
<1>4. overlapped' \in BOOLEAN
  BY DEF Inserts
<1> QED
  BY <1>1, <1>2, <1>3, <1>4, AppendRows

\* The history in a prompt is made of messages.
LEMMA PromptedTypes ==
  ASSUME TypeOK, NEW t \in Turns, NEW rows \in Seq(Messages), Prompted(t, rows)
  PROVE  /\ pc' \in [Callers -> Steps]
         /\ prompt' \subseteq [turn : Turns, rows : Seq(Messages)]
<1>1. Ensured(rows, User(t)) \in Seq(Messages)
  BY EnsuredRows, MessageTypes
<1>2. "generating" \in Steps /\ t \in Callers
  BY DEF Steps, Callers
<1> QED
  BY <1>1, <1>2 DEF TypeOK, Prompted

LEMMA StepNames == {"new", "saved", "noted", "selected", "generating", "replied", "answered",
                    "finished", "ended", "failed"} \subseteq Steps
BY DEF Steps

LEMMA StepTypeOK == TypeOK /\ [Next]_vars => TypeOK'
<1> SUFFICES ASSUME TypeOK, [Next]_vars
             PROVE  TypeOK'
  OBVIOUS
<1> USE StepNames
<1>t. Turns \subseteq Callers /\ Readers \subseteq Callers
  BY DEF Callers
<1>e. \A p \in Processes : /\ repo[p] \in Entries /\ repo[p].rows \in Seq(Messages)
                           /\ history[p] \in Entries /\ history[p].rows \in Seq(Messages)
  BY DEF TypeOK, Entries
<1>f. \A c \in Callers : fetched[c] \in Seq(Messages)
  BY DEF TypeOK
<1>n. <<>> \in Seq(Messages)
  BY NoRows
<1>1. ASSUME NEW t \in Turns, SaveUser(t)
      PROVE  TypeOK'
  <2>1. Inserts(t, User(t)) /\ Goto(t, "saved") /\ text' \subseteq Turns
    BY <1>1 DEF SaveUser, TypeOK
  <2>2. /\ log' \in Seq(Messages) /\ crossed' \subseteq Messages /\ overlapped' \in BOOLEAN
        /\ pc' \in [Callers -> Steps] /\ prompt' = {}
    BY <2>1, <1>t, MessageTypes, InsertTypes, GotoType
  <2> QED
    BY <1>1, <2>1, <2>2 DEF SaveUser, caches, TypeOK
<1>2. ASSUME NEW t \in Turns, SaveReply(t)
      PROVE  TypeOK'
  <2>1. Inserts(t, Reply(t)) /\ Goto(t, "replied")
    BY <1>2 DEF SaveReply
  <2>2. /\ log' \in Seq(Messages) /\ crossed' \subseteq Messages /\ overlapped' \in BOOLEAN
        /\ pc' \in [Callers -> Steps] /\ prompt' = {}
    BY <2>1, <1>t, MessageTypes, InsertTypes, GotoType
  <2> QED
    BY <1>2, <2>2 DEF SaveReply, caches, TypeOK
<1>3. ASSUME NEW t \in Turns, NoteUser(t) \/ NoteReply(t)
      PROVE  TypeOK'
  <2>1. PICK m \in Messages : repo' = [repo EXCEPT ![HomeOf[t]] = Noted(@, m)]
    BY <1>3, MessageTypes DEF NoteUser, NoteReply
  <2>2. repo' \in [Processes -> Entries]
    BY <2>1, <1>t, <1>e, HomeType, NotedRows DEF TypeOK
  <2>3. PICK step \in Steps : Goto(t, step)
    BY <1>3 DEF NoteUser, NoteReply
  <2>4. pc' \in [Callers -> Steps] /\ prompt' = {}
    BY <2>3, <1>t, GotoType
  <2> QED
    BY <1>3, <2>2, <2>4 DEF NoteUser, NoteReply, ghosts, TypeOK
<1>4. ASSUME NEW t \in Turns, Fail(t)
      PROVE  TypeOK'
  <2>1. pc' \in [Callers -> Steps] /\ prompt' = {}
    BY <1>4, <1>t, GotoType DEF Fail
  <2> QED
    BY <1>4, <2>1, <1>n DEF Fail, caches, ghosts, TypeOK
<1>5. ASSUME NEW t \in Turns, ReadHistory(t)
      PROVE  TypeOK'
  <2>1. /\ pc' \in [Callers -> Steps]
        /\ prompt' \subseteq [turn : Turns, rows : Seq(Messages)]
    BY <1>5, <1>t, <1>e, HomeType, PromptedTypes DEF ReadHistory
  <2> QED
    BY <1>5, <2>1 DEF ReadHistory, caches, ghosts, TypeOK
<1>6. ASSUME NEW t \in Turns, ReadRepo(t)
      PROVE  TypeOK'
  <2> DEFINE p == HomeOf[t]
  <2>0. p \in Processes
    BY <1>t, HomeType
  <2>1. /\ pc' \in [Callers -> Steps]
        /\ prompt' \subseteq [turn : Turns, rows : Seq(Messages)]
    BY <1>6, <2>0, <1>e, PromptedTypes DEF ReadRepo
  <2>2. Ensured(repo[p].rows, User(t)) \in Seq(Messages) /\ Entry(repo[p].rows) \in Entries
    BY <2>0, <1>e, EnsuredRows, MessageTypes, EntryTypes
  <2>3. [repo[p] EXCEPT !.rows = Ensured(repo[p].rows, User(t))] \in Entries
    BY <2>0, <2>2, <1>e DEF Entries
  <2>4. repo' \in [Processes -> Entries] /\ history' \in [Processes -> Entries]
    BY <1>6, <2>0, <2>2, <2>3 DEF ReadRepo, Handed, caches, TypeOK
  <2> QED
    BY <1>6, <2>1, <2>4 DEF ReadRepo, ghosts, TypeOK
<1>7. ASSUME NEW c \in Callers, Select(c)
      PROVE  TypeOK'
  <2>1. pc' \in [Callers -> Steps] /\ prompt' = {}
    BY <1>7, GotoType DEF Select
  <2> QED
    BY <1>7, <2>1 DEF Select, caches, ghosts, TypeOK
<1>8. ASSUME NEW t \in Turns, StoreForTurn(t)
      PROVE  TypeOK'
  <2>0. HomeOf[t] \in Processes /\ fetched[t] \in Seq(Messages)
    BY <1>t, <1>f, HomeType
  <2>1. /\ pc' \in [Callers -> Steps]
        /\ prompt' \subseteq [turn : Turns, rows : Seq(Messages)]
    BY <1>8, <2>0, PromptedTypes DEF StoreForTurn
  <2>2. Entry(fetched[t]) \in Entries /\ Entry(Ensured(fetched[t], User(t))) \in Entries
    BY <2>0, EnsuredRows, MessageTypes, EntryTypes
  <2>3. repo' \in [Processes -> Entries] /\ history' \in [Processes -> Entries]
    BY <1>8, <2>0, <2>2 DEF StoreForTurn, TypeOK
  <2> QED
    BY <1>8, <2>1, <2>3, <1>n DEF StoreForTurn, ghosts, TypeOK
<1>9. ASSUME NEW r \in Readers, StoreForReader(r)
      PROVE  TypeOK'
  <2>0. HomeOf[r] \in Processes /\ Entry(fetched[r]) \in Entries
    BY <1>t, <1>f, HomeType, EntryTypes
  <2>1. pc' \in [Callers -> Steps] /\ prompt' = {}
    BY <1>9, <1>t, GotoType DEF StoreForReader
  <2> QED
    BY <1>9, <2>0, <2>1, <1>n DEF StoreForReader, ghosts, TypeOK
<1>10. ASSUME NEW t \in Turns, PostTurn(t)
       PROVE  TypeOK'
  <2>0. HomeOf[t] \in Processes
    BY <1>t, HomeType
  <2>1. pc' \in [Callers -> Steps] /\ prompt' = {}
    BY <1>10, <1>t, GotoType DEF PostTurn
  <2>2. history' \in [Processes -> Entries]
    BY <1>10, <2>0, <1>e, TurnNotedRows DEF PostTurn, TypeOK
  <2>3. ToSet(log) \subseteq Messages
    BY RowsAreMessages DEF TypeOK
  <2>4. forgotten' \in [Processes -> SUBSET Messages]
    BY <1>10, <2>0, <2>3 DEF PostTurn, TypeOK
  <2>5. fresh' \in [Turns -> 0..TTL]
    BY <1>10, TTLAssumption DEF PostTurn, TypeOK
  <2> QED
    BY <1>10, <2>1, <2>2, <2>4, <2>5 DEF PostTurn, TypeOK
<1>11. ASSUME Tick
       PROVE  TypeOK'
  <2>1. repo' \in [Processes -> Entries] /\ history' \in [Processes -> Entries]
    BY <1>11, <1>e, AgedEntry DEF Tick
  <2>2. fresh' \in [Turns -> 0..TTL]
    BY <1>11, TTLAssumption DEF Tick, TypeOK
  <2> QED
    BY <1>11, <2>1, <2>2 DEF Tick, TypeOK
<1>12. ASSUME UNCHANGED vars
       PROVE  TypeOK'
  BY <1>12 DEF vars, caches, ghosts, TypeOK
<1> QED
  BY <1>1, <1>2, <1>3, <1>4, <1>5, <1>6, <1>7, <1>8, <1>9, <1>10, <1>11, <1>12, <1>t
     DEF Next, TurnNext

(***************************************************************************)
(* The inductive invariant                                                 *)
(***************************************************************************)

\* Messages are only added, and so are exceptions.
LEMMA Grows ==
  ASSUME TypeOK, [Next]_vars
  PROVE  /\ crossed \subseteq crossed'
         /\ ToSet(log) \subseteq ToSet(log')
<1>1. ASSUME NEW t \in Turns, NEW m \in Messages, Inserts(t, m)
      PROVE  crossed \subseteq crossed' /\ ToSet(log) \subseteq ToSet(log')
  BY <1>1, InsertTypes DEF Inserts
<1>2. ASSUME NEW t \in Turns, SaveUser(t) \/ SaveReply(t)
      PROVE  crossed \subseteq crossed' /\ ToSet(log) \subseteq ToSet(log')
  BY <1>1, <1>2, MessageTypes DEF SaveUser, SaveReply
<1>3. ASSUME log' = log /\ crossed' = crossed
      PROVE  crossed \subseteq crossed' /\ ToSet(log) \subseteq ToSet(log')
  BY <1>3
<1>4. CASE \E t \in Turns : SaveUser(t) \/ SaveReply(t)
  BY <1>2, <1>4
<1>5. CASE ~\E t \in Turns : SaveUser(t) \/ SaveReply(t)
  <2>1. log' = log /\ crossed' = crossed
    BY <1>5 DEF Next, TurnNext, NoteUser, ReadHistory, ReadRepo, Select, StoreForTurn, NoteReply,
                PostTurn, Fail, StoreForReader, Tick, vars, ghosts
  <2> QED
    BY <2>1, <1>3
<1> QED
  BY <1>4, <1>5

\* A message that is new in the log has just been inserted by its turn, which
\* has not gone on.
LEMMA NewMessage ==
  ASSUME TypeOK, [Next]_vars, NEW m \in ToSet(log') \ ToSet(log)
  PROVE  \E t \in Turns :
           /\ Inserts(t, m) /\ TurnOf(m) = t
           /\ \/ pc'[t] = "saved" /\ m = User(t)
              \/ pc'[t] = "replied" /\ m = Reply(t)
<1>1. ASSUME NEW t \in Turns, SaveUser(t)
      PROVE  Inserts(t, User(t)) /\ pc'[t] = "saved" /\ m = User(t)
  <2>1. Inserts(t, User(t)) /\ pc'[t] = "saved"
    BY <1>1 DEF SaveUser, Goto, TypeOK, Callers
  <2>2. ToSet(log') = ToSet(log) \cup {User(t)}
    BY <2>1, InsertTypes, MessageTypes
  <2> QED
    BY <2>1, <2>2
<1>2. ASSUME NEW t \in Turns, SaveReply(t)
      PROVE  Inserts(t, Reply(t)) /\ pc'[t] = "replied" /\ m = Reply(t)
  <2>1. Inserts(t, Reply(t)) /\ pc'[t] = "replied"
    BY <1>2 DEF SaveReply, Goto, TypeOK, Callers
  <2>2. ToSet(log') = ToSet(log) \cup {Reply(t)}
    BY <2>1, InsertTypes, MessageTypes
  <2> QED
    BY <2>1, <2>2
<1>3. \E t \in Turns : SaveUser(t) \/ SaveReply(t)
  <2>1. SUFFICES ASSUME ~\E t \in Turns : SaveUser(t) \/ SaveReply(t)
                 PROVE  FALSE
    OBVIOUS
  <2>2. log' = log
    BY <2>1 DEF Next, TurnNext, NoteUser, ReadHistory, ReadRepo, Select, StoreForTurn, NoteReply,
                PostTurn, Fail, StoreForReader, Tick, vars
  <2> QED
    BY <2>2
<1> QED
  BY <1>1, <1>2, <1>3, MessageTypes

LEMMA InitIInv == Init => IInv
<1> SUFFICES ASSUME Init
             PROVE  IInv
  OBVIOUS
<1>1. TypeOK
  BY InitTypeOK
<1>2. ToSet(log) = {}
  BY NoRows DEF Init
<1>3. FetchedKeepUp /\ ReposKeepUp /\ HistoryKeepsUp
  BY <1>2 DEF FetchedKeepUp, ReposKeepUp, HistoryKeepsUp
<1>4. FreshLives
  BY HomeType DEF Init, FreshLives, NoEntry, Callers
<1> QED
  BY <1>1, <1>3, <1>4 DEF IInv

LEMMA StepFetched ==
  ASSUME IInv, [Next]_vars
  PROVE  FetchedKeepUp'
<1> USE DEF IInv
<1> SUFFICES ASSUME NEW c \in Callers, pc'[c] = "selected",
                    NEW m \in ToSet(log') \ crossed', HomeOf[TurnOf(m)] = HomeOf[c]
             PROVE  m \in ToSet(fetched'[c])
  BY DEF FetchedKeepUp
<1>1. CASE Select(c)
  <2>1. fetched'[c] = log /\ log' = log
    BY <1>1 DEF Select, TypeOK
  <2> QED
    BY <2>1
<1>2. CASE ~Select(c)
  <2>1. pc[c] = "selected" /\ fetched'[c] = fetched[c]
    BY <1>2 DEF Next, TurnNext, SaveUser, NoteUser, ReadHistory, ReadRepo, Select, StoreForTurn,
                SaveReply, NoteReply, PostTurn, Fail, StoreForReader, Tick, vars, Goto, Prompted,
                TypeOK, Callers
  <2>2. CASE m \in ToSet(log)
    BY <2>1, <2>2, Grows DEF FetchedKeepUp
  <2>3. CASE m \notin ToSet(log)
    \* The message would have crossed the SELECT.
    <3>1. PICK t \in Turns : Inserts(t, m) /\ TurnOf(m) = t
      BY <2>3, NewMessage
    <3>2. m \in crossed'
      BY <3>1, <2>1 DEF Inserts
    <3> QED
      BY <3>2
  <2> QED
    BY <2>2, <2>3
<1> QED
  BY <1>1, <1>2

\* A message that a process knows of after a step which is not the end of an
\* INSERT was known before.
LEMMA KnownBefore ==
  ASSUME TypeOK, NEW p \in Processes, NEW m \in Messages, NEW c \in Callers, NEW step,
         pc[c] \notin {"saved", "replied"}, pc' = [pc EXCEPT ![c] = step], KnownAt(p, m)'
  PROVE  KnownAt(p, m)
<1>1. TurnOf(m) \in Callers
  BY OfTurn DEF Callers
<1>2. CASE TurnOf(m) = c
  BY <1>2 DEF KnownAt
<1>3. CASE TurnOf(m) # c
  <2>1. pc'[TurnOf(m)] = pc[TurnOf(m)]
    BY <1>1, <1>3 DEF TypeOK
  <2> QED
    BY <2>1 DEF KnownAt
<1> QED
  BY <1>2, <1>3

LEMMA StepRepos ==
  ASSUME IInv, [Next]_vars
  PROVE  ReposKeepUp'
<1> USE DEF IInv
<1> SUFFICES ASSUME NEW p \in Processes, Live(repo'[p]),
                    NEW m \in ToSet(log') \ crossed', KnownAt(p, m)'
             PROVE  m \in ToSet(repo'[p].rows)
  BY DEF ReposKeepUp, Live
<1>t. Turns \subseteq Callers /\ Readers \subseteq Callers
  BY DEF Callers
<1>e. /\ repo[p] \in Entries /\ repo[p].rows \in Seq(Messages)
      /\ \A c \in Callers : fetched[c] \in Seq(Messages)
  BY DEF TypeOK, Entries
<1>l. m \in ToSet(log) /\ m \notin crossed
  <2>1. SUFFICES ASSUME m \notin ToSet(log)
                 PROVE  FALSE
    BY Grows
  <2> QED
    BY <2>1, NewMessage DEF KnownAt
<1>m. m \in Messages /\ TurnOf(m) \in Turns
  BY <1>l, RowsAreMessages, OfTurn DEF TypeOK
\* A step of c, other than the end of an INSERT, that keeps repo[p].
<1>k. ASSUME NEW c \in Callers, NEW step, pc[c] \notin {"saved", "replied"},
             pc' = [pc EXCEPT ![c] = step],
             KnownAt(p, m) => Live(repo[p]) /\ ToSet(repo[p].rows) \subseteq ToSet(repo'[p].rows)
      PROVE  m \in ToSet(repo'[p].rows)
  <2>1. KnownAt(p, m)
    BY <1>k, <1>m, KnownBefore
  <2>2. m \in ToSet(repo[p].rows)
    BY <1>k, <1>l, <2>1 DEF ReposKeepUp
  <2> QED
    BY <1>k, <2>1, <2>2
<1>1. ASSUME NEW t \in Turns, SaveUser(t) \/ SaveReply(t)
      PROVE  m \in ToSet(repo'[p].rows)
  <2>1. pc[t] \in {"new", "generating"} /\ repo' = repo
    BY <1>1 DEF SaveUser, SaveReply, MayBegin, caches
  <2>2. PICK step : pc' = [pc EXCEPT ![t] = step]
    BY <1>1 DEF SaveUser, SaveReply, Goto
  <2> QED
    BY <2>1, <2>2, <1>t, <1>k
<1>2. ASSUME NEW t \in Turns, NEW m0 \in Messages,
             \/ NoteUser(t) /\ m0 = User(t)
             \/ NoteReply(t) /\ m0 = Reply(t)
      PROVE  m \in ToSet(repo'[p].rows)
  <2>1. repo' = [repo EXCEPT ![HomeOf[t]] = Noted(@, m0)]
    BY <1>2 DEF NoteUser, NoteReply
  <2>2. \A s \in Turns \ {t} : pc'[s] = pc[s]
    BY <1>2, <1>t DEF NoteUser, NoteReply, Goto, TypeOK
  <2>3. CASE HomeOf[t] # p
    <3>1. TurnOf(m) # t
      BY <2>3 DEF KnownAt
    <3>2. KnownAt(p, m)
      BY <3>1, <2>2, <1>m DEF KnownAt
    <3>3. repo'[p] = repo[p]
      BY <2>1, <2>3 DEF TypeOK
    <3> QED
      BY <3>2, <3>3, <1>l DEF ReposKeepUp
  <2>4. CASE HomeOf[t] = p
    <3>1. repo'[p] = Noted(repo[p], m0)
      BY <2>1, <2>4 DEF TypeOK
    <3>a. Live(Noted(repo[p], m0))
      BY <3>1 DEF Live
    <3>2. Live(repo[p]) /\ ToSet(repo'[p].rows) = ToSet(repo[p].rows) \cup {m0}
      BY <3>1, <3>a, <1>e, NotedRows
    <3>3. CASE m = m0
      BY <3>2, <3>3
    <3>4. CASE m # m0
      <4>1. \/ pc[t] = "saved" /\ m0 = User(t)
            \/ pc[t] = "replied" /\ m0 = Reply(t)
        BY <1>2 DEF NoteUser, NoteReply
      <4>2. KnownAt(p, m)
        BY <4>1, <3>4, <2>2, <1>m DEF KnownAt
      <4> QED
        BY <4>2, <3>2, <1>l DEF ReposKeepUp
    <3> QED
      BY <3>3, <3>4
  <2> QED
    BY <2>3, <2>4
<1>3. ASSUME NEW c \in Callers, repo' = repo,
             \/ c \in Turns /\ (ReadHistory(c) \/ PostTurn(c) \/ Fail(c))
             \/ Select(c)
      PROVE  m \in ToSet(repo'[p].rows)
  <2>1. pc[c] \notin {"saved", "replied"}
    BY <1>3, CallerAssumption DEF ReadHistory, PostTurn, Fail, Select, MayRead, MayBegin
  <2>2. PICK step : pc' = [pc EXCEPT ![c] = step]
    BY <1>3 DEF ReadHistory, PostTurn, Fail, Select, Goto, Prompted
  <2> QED
    BY <2>1, <2>2, <1>3, <1>k
<1>4. ASSUME NEW t \in Turns, ReadRepo(t)
      PROVE  m \in ToSet(repo'[p].rows)
  <2>1. pc[t] = "noted" /\ pc' = [pc EXCEPT ![t] = "generating"]
    BY <1>4, CallerAssumption DEF ReadRepo, MayRead, Prompted
  <2>2. Live(repo[p]) /\ ToSet(repo[p].rows) \subseteq ToSet(repo'[p].rows)
    <3>1. CASE t \in text /\ HomeOf[t] = p
      <4>1. repo'[p] = [repo[p] EXCEPT !.rows = Ensured(repo[p].rows, User(t))]
        BY <1>4, <3>1 DEF ReadRepo, Handed, TypeOK
      <4>2. repo'[p].left = repo[p].left /\ repo'[p].rows = Ensured(repo[p].rows, User(t))
        BY <4>1, <1>e DEF Entries
      <4> QED
        BY <4>2, <1>e, EnsuredRows, MessageTypes DEF Live
    <3>2. CASE ~(t \in text /\ HomeOf[t] = p)
      <4>1. repo'[p] = repo[p]
        BY <1>4, <3>2 DEF ReadRepo, Handed, TypeOK, caches
      <4> QED
        BY <4>1
    <3> QED
      BY <3>1, <3>2
  <2> QED
    BY <2>1, <2>2, <1>t, <1>k
<1>5. ASSUME NEW c \in Callers,
             \/ c \in Turns /\ StoreForTurn(c)
             \/ c \in Readers /\ StoreForReader(c)
      PROVE  m \in ToSet(repo'[p].rows)
  <2>0. pc[c] = "selected"
    BY <1>5 DEF StoreForTurn, StoreForReader
  <2>1. PICK step : pc' = [pc EXCEPT ![c] = step]
    BY <1>5 DEF StoreForTurn, StoreForReader, Goto, Prompted
  <2>2. CASE HomeOf[c] # p
    <3>1. repo'[p] = repo[p]
      BY <1>5, <2>2 DEF StoreForTurn, StoreForReader, TypeOK
    <3> QED
      BY <2>0, <2>1, <3>1, <1>k
  <2>3. CASE HomeOf[c] = p
    <3>1. m \in ToSet(fetched[c])
      BY <2>0, <2>3, <1>l DEF FetchedKeepUp, KnownAt
    <3>2. repo'[p] \in {Entry(fetched[c]), Entry(Ensured(fetched[c], User(c)))}
      BY <1>5, <2>3 DEF StoreForTurn, StoreForReader, TypeOK
    <3>3. CASE repo'[p] = Entry(fetched[c])
      BY <3>1, <3>3 DEF Entry
    <3>4. ASSUME c \in Turns, repo'[p] = Entry(Ensured(fetched[c], User(c)))
          PROVE  m \in ToSet(repo'[p].rows)
      <4>1. ToSet(Ensured(fetched[c], User(c))) = ToSet(fetched[c]) \cup {User(c)}
        BY <3>4, <1>e, EnsuredRows, MessageTypes
      <4>2. repo'[p].rows = Ensured(fetched[c], User(c))
        BY <3>4 DEF Entry
      <4> QED
        BY <4>1, <4>2, <3>1
    <3>5. CASE c \in Turns
      BY <3>2, <3>3, <3>4, <3>5
    <3>6. CASE c \in Readers
      <4>1. repo'[p] = Entry(fetched[c])
        BY <1>5, <2>3, <3>6, CallerAssumption DEF StoreForReader, TypeOK
      <4> QED
        BY <4>1, <3>3
    <3> QED
      BY <3>5, <3>6 DEF Callers
  <2> QED
    BY <2>2, <2>3
<1>6. ASSUME Tick
      PROVE  m \in ToSet(repo'[p].rows)
  <2>1. repo'[p] = Aged(repo[p]) /\ pc' = pc
    BY <1>6 DEF Tick
  <2>2. KnownAt(p, m)
    BY <2>1 DEF KnownAt
  <2>a. Live(Aged(repo[p]))
    BY <2>1 DEF Live
  <2>3. Live(repo[p]) /\ repo'[p].rows = repo[p].rows
    BY <2>1, <2>a, <1>e, AgedEntry
  <2> QED
    BY <2>2, <2>3, <1>l DEF ReposKeepUp
<1>7. ASSUME UNCHANGED vars
      PROVE  m \in ToSet(repo'[p].rows)
  <2>1. repo' = repo /\ pc' = pc
    BY <1>7 DEF vars, caches
  <2>2. KnownAt(p, m)
    BY <2>1 DEF KnownAt
  <2> QED
    BY <2>1, <2>2, <1>l DEF ReposKeepUp
<1>8. \A c \in Callers :
        \/ c \in Turns /\ (ReadHistory(c) \/ PostTurn(c) \/ Fail(c))
        \/ Select(c)
        => repo' = repo
  BY DEF ReadHistory, PostTurn, Fail, Select, caches
<1> QED
  BY <1>1, <1>2, <1>3, <1>4, <1>5, <1>6, <1>7, <1>8, <1>t, MessageTypes DEF Next, TurnNext

LEMMA StepFresh ==
  ASSUME IInv, [Next]_vars
  PROVE  FreshLives'
<1> USE DEF IInv
<1> SUFFICES ASSUME NEW s \in Turns
             PROVE  fresh'[s] <= history'[HomeOf[s]].left
  BY DEF FreshLives
<1> DEFINE p == HomeOf[s]
<1>h. p \in Processes
  BY HomeType DEF Callers
<1>e. /\ history[p] \in Entries /\ history[p].left \in 0..TTL
      /\ fresh[s] \in 0..TTL /\ fresh[s] <= history[p].left
  BY <1>h DEF TypeOK, Entries, FreshLives
<1>1. ASSUME fresh' = fresh, history'[p].left \in {history[p].left, TTL}
      PROVE  fresh'[s] <= history'[p].left
  BY <1>1, <1>e, TTLAssumption
<1>2. ASSUME NEW t \in Turns, PostTurn(t)
      PROVE  fresh'[s] <= history'[p].left
  <2>1. CASE HomeOf[t] = p
    <3>1. history'[p] = TurnNoted(history[p], t)
      BY <1>2, <2>1, <1>h DEF PostTurn, TypeOK
    <3>2. history'[p].left = TTL
      BY <3>1, <1>e, TurnNotedRows
    <3>3. fresh'[s] \in {fresh[s], TTL}
      BY <1>2 DEF PostTurn, TypeOK
    <3> QED
      BY <3>2, <3>3, <1>e, TTLAssumption
  <2>2. CASE HomeOf[t] # p
    <3>1. history'[p] = history[p] /\ fresh'[s] = fresh[s]
      BY <1>2, <2>2, <1>h DEF PostTurn, TypeOK
    <3> QED
      BY <3>1, <1>e
  <2> QED
    BY <2>1, <2>2
<1>3. ASSUME Tick
      PROVE  fresh'[s] <= history'[p].left
  <2>1. /\ history'[p] = Aged(history[p])
        /\ fresh'[s] = IF fresh[s] > 0 THEN fresh[s] - 1 ELSE 0
    BY <1>3, <1>h DEF Tick
  <2>2. CASE history[p].left > 1
    BY <2>1, <2>2, <1>e, AgedEntry, TTLAssumption
  <2>3. CASE ~(history[p].left > 1)
    <3>1. history'[p].left = 0
      BY <2>1, <2>3 DEF Aged, NoEntry
    <3>2. fresh'[s] = 0
      BY <2>1, <2>3, <1>e, TTLAssumption
    <3> QED
      BY <3>1, <3>2
  <2> QED
    BY <2>2, <2>3
<1>4. ASSUME NEW t \in Turns, ReadRepo(t) \/ StoreForTurn(t)
      PROVE  fresh'[s] <= history'[p].left
  <2>1. fresh' = fresh
    BY <1>4 DEF ReadRepo, StoreForTurn, ghosts
  <2>2. PICK rows : history' \in {history, [history EXCEPT ![HomeOf[t]] = Entry(rows)]}
    BY <1>4 DEF ReadRepo, Handed, StoreForTurn, caches
  <2>3. history'[p].left \in {history[p].left, TTL}
    BY <2>2, <1>h DEF Entry, TypeOK
  <2> QED
    BY <2>1, <2>3, <1>1
<1>5. ASSUME fresh' = fresh, history' = history
      PROVE  fresh'[s] <= history'[p].left
  BY <1>5, <1>e
<1>6. \A c \in Callers :
        \/ c \in Turns /\ (\/ SaveUser(c) \/ NoteUser(c) \/ ReadHistory(c) \/ SaveReply(c)
                          \/ NoteReply(c) \/ Fail(c))
        \/ Select(c) \/ StoreForReader(c)
        => fresh' = fresh /\ history' = history
  BY DEF SaveUser, NoteUser, ReadHistory, SaveReply, NoteReply, Fail, Select, StoreForReader,
         caches, ghosts
<1>7. UNCHANGED vars => fresh' = fresh /\ history' = history
  BY DEF vars, caches, ghosts
<1> QED
  BY <1>2, <1>3, <1>4, <1>5, <1>6, <1>7 DEF Next, TurnNext, Callers

LEMMA StepHistory ==
  ASSUME IInv, [Next]_vars
  PROVE  HistoryKeepsUp'
<1> USE DEF IInv
<1> SUFFICES ASSUME NEW p \in Processes, Live(history'[p]),
                    NEW m \in ToSet(log') \ crossed',
                    HomeOf[TurnOf(m)] = p, pc'[TurnOf(m)] = "finished",
                    m \in forgotten'[p] => fresh'[TurnOf(m)] > 0
             PROVE  m \in ToSet(history'[p].rows)
  BY DEF HistoryKeepsUp, Live
<1>t. Turns \subseteq Callers /\ Readers \subseteq Callers
  BY DEF Callers
<1>e. /\ history[p] \in Entries /\ history[p].rows \in Seq(Messages)
      /\ \A c \in Callers : fetched[c] \in Seq(Messages)
  BY DEF TypeOK, Entries
<1>l. m \in ToSet(log) /\ m \notin crossed
  <2>1. SUFFICES ASSUME m \notin ToSet(log)
                 PROVE  FALSE
    BY Grows
  <2> QED
    BY <2>1, NewMessage
<1>m. m \in Messages /\ TurnOf(m) \in Turns
  BY <1>l, RowsAreMessages, OfTurn DEF TypeOK
\* The turn had finished, and the entry is the same or has been written anew.
<1>k. ASSUME pc[TurnOf(m)] = "finished", forgotten' = forgotten, fresh' = fresh,
             Live(history[p]), ToSet(history[p].rows) \subseteq ToSet(history'[p].rows)
      PROVE  m \in ToSet(history'[p].rows)
  BY <1>k, <1>l DEF HistoryKeepsUp
<1>f. ASSUME NEW c \in Callers, NEW step \in Steps \ {"finished"}, Goto(c, step)
      PROVE  pc[TurnOf(m)] = "finished"
  BY <1>f, <1>m, <1>t DEF Goto, TypeOK
<1>g. ASSUME NEW c \in Callers, NEW rows, Prompted(c, rows)
      PROVE  pc[TurnOf(m)] = "finished"
  BY <1>g, <1>m, <1>t DEF Prompted, TypeOK
<1>1. ASSUME NEW c \in Callers,
             \/ c \in Turns /\ (\/ SaveUser(c) \/ NoteUser(c) \/ SaveReply(c) \/ NoteReply(c)
                               \/ Fail(c))
             \/ Select(c)
             \/ c \in Readers /\ StoreForReader(c)
      PROVE  m \in ToSet(history'[p].rows)
  <2>1. forgotten' = forgotten /\ fresh' = fresh /\ history' = history
    BY <1>1 DEF SaveUser, NoteUser, SaveReply, NoteReply, Fail, Select, StoreForReader, caches,
                ghosts
  <2>2. PICK step \in Steps \ {"finished"} : Goto(c, step)
    BY <1>1 DEF SaveUser, NoteUser, SaveReply, NoteReply, Fail, Select, StoreForReader, Steps
  <2> QED
    BY <2>1, <2>2, <1>f, <1>k DEF Live
<1>2. ASSUME NEW t \in Turns, ReadHistory(t)
      PROVE  m \in ToSet(history'[p].rows)
  <2>1. forgotten' = forgotten /\ fresh' = fresh /\ history' = history
    BY <1>2 DEF ReadHistory, caches, ghosts
  <2>2. pc[TurnOf(m)] = "finished"
    BY <1>2, <1>t, <1>g DEF ReadHistory
  <2> QED
    BY <2>1, <2>2, <1>k DEF Live
<1>3. ASSUME NEW t \in Turns, ReadRepo(t)
      PROVE  m \in ToSet(history'[p].rows)
  <2>1. forgotten' = forgotten /\ fresh' = fresh
    BY <1>3 DEF ReadRepo, ghosts
  <2>2. pc[TurnOf(m)] = "finished"
    BY <1>3, <1>t, <1>g DEF ReadRepo
  <2>3. CASE t \in text /\ HomeOf[t] = p
    \* The repository's rows are those of every INSERT that has returned.
    <3>1. history'[p] = Entry(repo[p].rows)
      BY <1>3, <2>3 DEF ReadRepo, Handed, TypeOK
    <3>2. Live(repo[p])
      BY <1>3, <2>3 DEF ReadRepo, InRepo
    <3>3. KnownAt(p, m)
      BY <2>2 DEF KnownAt
    <3>4. m \in ToSet(repo[p].rows)
      BY <3>2, <3>3, <1>l DEF ReposKeepUp
    <3> QED
      BY <3>1, <3>4 DEF Entry
  <2>4. CASE ~(t \in text /\ HomeOf[t] = p)
    <3>1. history'[p] = history[p]
      BY <1>3, <2>4 DEF ReadRepo, Handed, TypeOK, caches
    <3> QED
      BY <3>1, <2>1, <2>2, <1>k DEF Live
  <2> QED
    BY <2>3, <2>4
<1>4. ASSUME NEW t \in Turns, StoreForTurn(t)
      PROVE  m \in ToSet(history'[p].rows)
  <2>1. forgotten' = forgotten /\ fresh' = fresh /\ pc[t] = "selected"
    BY <1>4 DEF StoreForTurn, ghosts
  <2>2. pc[TurnOf(m)] = "finished"
    BY <1>4, <1>t, <1>g DEF StoreForTurn
  <2>3. CASE t \in text /\ HomeOf[t] = p
    <3>1. history'[p] = Entry(fetched[t])
      BY <1>4, <2>3 DEF StoreForTurn, TypeOK
    <3>2. m \in ToSet(fetched[t])
      BY <2>1, <2>3, <1>l, <1>t DEF FetchedKeepUp
    <3> QED
      BY <3>1, <3>2 DEF Entry
  <2>4. CASE ~(t \in text /\ HomeOf[t] = p)
    <3>1. history'[p] = history[p]
      BY <1>4, <2>4 DEF StoreForTurn, TypeOK
    <3> QED
      BY <3>1, <2>1, <2>2, <1>k DEF Live
  <2> QED
    BY <2>3, <2>4
<1>5. ASSUME NEW t \in Turns, PostTurn(t)
      PROVE  m \in ToSet(history'[p].rows)
  <2>1. CASE HomeOf[t] # p
    <3>1. history'[p] = history[p] /\ forgotten'[p] = forgotten[p]
      BY <1>5, <2>1 DEF PostTurn, TypeOK
    <3>2. TurnOf(m) # t
      BY <2>1
    <3>3. pc[TurnOf(m)] = "finished" /\ fresh'[TurnOf(m)] = fresh[TurnOf(m)]
      BY <1>5, <3>2, <1>m, <1>t DEF PostTurn, Goto, TypeOK
    <3> QED
      BY <3>1, <3>3, <1>l DEF HistoryKeepsUp, Live
  <2>2. CASE HomeOf[t] = p
    <3>1. history'[p] = TurnNoted(history[p], t)
      BY <1>5, <2>2 DEF PostTurn, TypeOK
    <3>2. ToSet(history'[p].rows) = ToSet(history[p].rows) \cup {User(t), Reply(t)}
      BY <3>1, <1>e, TurnNotedRows
    <3>3. CASE TurnOf(m) = t
      BY <3>2, <3>3, <1>m, OfTurn
    <3>4. CASE TurnOf(m) # t
      <4>1. pc[TurnOf(m)] = "finished" /\ fresh'[TurnOf(m)] = fresh[TurnOf(m)]
        BY <1>5, <3>4, <1>m, <1>t DEF PostTurn, Goto, TypeOK
      \* Without an entry no turn is fresh, and all that was said is forgotten.
      <4>2. Live(history[p])
        <5>1. SUFFICES ASSUME ~Live(history[p])
                       PROVE  FALSE
          OBVIOUS
        <5>2. m \in forgotten'[p]
          BY <1>5, <2>2, <5>1, <1>l DEF PostTurn, TypeOK
        <5>3. fresh[TurnOf(m)] > 0 /\ fresh[TurnOf(m)] \in Nat /\ history[p].left \in Nat
          BY <5>2, <4>1, <1>m, <1>e, TTLAssumption DEF TypeOK, Entries
        <5>4. fresh[TurnOf(m)] <= history[p].left
          BY <1>m DEF FreshLives
        <5> QED
          BY <5>1, <5>3, <5>4 DEF Live
      <4>3. forgotten' = forgotten
        BY <1>5, <2>2, <4>2 DEF PostTurn
      <4> QED
        BY <4>1, <4>2, <4>3, <3>2, <1>l DEF HistoryKeepsUp
    <3> QED
      BY <3>3, <3>4
  <2> QED
    BY <2>1, <2>2
<1>6. ASSUME Tick
      PROVE  m \in ToSet(history'[p].rows)
  <2>1. /\ history'[p] = Aged(history[p]) /\ pc' = pc /\ forgotten' = forgotten
        /\ fresh'[TurnOf(m)] = IF fresh[TurnOf(m)] > 0 THEN fresh[TurnOf(m)] - 1 ELSE 0
    BY <1>6, <1>m DEF Tick
  <2>2. Live(history[p]) /\ history'[p].rows = history[p].rows
    <3>1. Live(Aged(history[p]))
      BY <2>1 DEF Live
    <3> QED
      BY <3>1, <2>1, <1>e, AgedEntry
  <2>3. fresh'[TurnOf(m)] > 0 => fresh[TurnOf(m)] > 0
    BY <2>1
  <2> QED
    BY <2>1, <2>2, <2>3, <1>l DEF HistoryKeepsUp
<1>7. ASSUME UNCHANGED vars
      PROVE  m \in ToSet(history'[p].rows)
  BY <1>7, <1>k DEF vars, caches, ghosts, Live
<1> QED
  BY <1>1, <1>2, <1>3, <1>4, <1>5, <1>6, <1>7, <1>t DEF Next, TurnNext

\* The inductive invariant holds: the types, and that a SELECT, either cache and
\* the entry's end keep up with what the process has been told.
THEOREM Invariance == Spec => []IInv
<1>1. Init => IInv
  BY InitIInv
<1>2. IInv /\ [Next]_vars => IInv'
  BY StepTypeOK, StepFetched, StepRepos, StepHistory, StepFresh DEF IInv
<1> QED
  BY <1>1, <1>2, PTL DEF Spec

THEOREM TypeCorrect == Spec => []TypeOK
<1>1. IInv => TypeOK
  BY DEF IInv
<1> QED
  BY <1>1, Invariance, PTL

\* A live repo:history has every message its process has inserted, but for
\* those that crossed a SELECT.
THEOREM RepositoryKeepsUp == Spec => []ReposKeepUp
<1>1. IInv => ReposKeepUp
  BY DEF IInv
<1> QED
  BY <1>1, Invariance, PTL

(***************************************************************************)
(* Prompts                                                                 *)
(***************************************************************************)

\* What a list has of the messages that a text turn should remember.
Remembered(t, rows) ==
  \A m \in ToSet(log) \ crossed :
    /\ HomeOf[TurnOf(m)] = HomeOf[t] /\ pc[TurnOf(m)] = "finished"
    /\ m \in forgotten[HomeOf[t]] => fresh[TurnOf(m)] > 0
    => m \in ToSet(rows)

\* The step in which turn t is given rows.
Gives(t, rows) ==
  /\ Prompted(t, rows) /\ UNCHANGED <<text, log, ghosts>>
  /\ pc[t] # "finished" /\ Remembered(t, rows)

\* A turn is given the rows of a cache or of its SELECT, which have what it
\* should remember.
LEMMA PromptIsGiven ==
  ASSUME IInv, Next, prompt' # {}
  PROVE  \E t \in Turns : \E rows \in Seq(Messages) : Gives(t, rows)
<1> USE DEF IInv
<1>t. Turns \subseteq Callers
  BY DEF Callers
<1>2. ASSUME NEW t \in Turns, ReadHistory(t)
      PROVE  Gives(t, history[HomeOf[t]].rows) /\ history[HomeOf[t]].rows \in Seq(Messages)
  <2>1. HomeOf[t] \in Processes /\ history[HomeOf[t]].rows \in Seq(Messages)
    BY <1>t, HomeType DEF TypeOK, Entries
  <2>2. Live(history[HomeOf[t]])
    BY <1>2 DEF ReadHistory, InHistory
  <2>3. Remembered(t, history[HomeOf[t]].rows)
    BY <2>1, <2>2 DEF HistoryKeepsUp, Remembered
  <2> QED
    BY <1>2, <2>1, <2>3, CallerAssumption DEF ReadHistory, MayRead, Gives
<1>3. ASSUME NEW t \in Turns, ReadRepo(t)
      PROVE  Gives(t, repo[HomeOf[t]].rows) /\ repo[HomeOf[t]].rows \in Seq(Messages)
  <2>1. HomeOf[t] \in Processes /\ repo[HomeOf[t]].rows \in Seq(Messages)
    BY <1>t, HomeType DEF TypeOK, Entries
  <2>2. Live(repo[HomeOf[t]])
    BY <1>3 DEF ReadRepo, InRepo
  <2>3. Remembered(t, repo[HomeOf[t]].rows)
    BY <2>1, <2>2 DEF ReposKeepUp, KnownAt, Remembered
  <2> QED
    BY <1>3, <2>1, <2>3, CallerAssumption DEF ReadRepo, MayRead, Gives
<1>4. ASSUME NEW t \in Turns, StoreForTurn(t)
      PROVE  Gives(t, fetched[t]) /\ fetched[t] \in Seq(Messages)
  <2>1. fetched[t] \in Seq(Messages) /\ pc[t] = "selected"
    BY <1>4, <1>t DEF StoreForTurn, TypeOK
  <2>2. Remembered(t, fetched[t])
    BY <2>1, <1>t DEF FetchedKeepUp, Remembered
  <2> QED
    BY <1>4, <2>1, <2>2 DEF StoreForTurn, Gives
<1>5. \E t \in Turns : ReadHistory(t) \/ ReadRepo(t) \/ StoreForTurn(t)
  <2>1. SUFFICES ASSUME ~\E t \in Turns : ReadHistory(t) \/ ReadRepo(t) \/ StoreForTurn(t)
                 PROVE  prompt' = {}
    OBVIOUS
  <2> QED
    BY <2>1 DEF Next, TurnNext, SaveUser, NoteUser, Select, SaveReply, NoteReply, PostTurn, Fail,
                StoreForReader, Tick, Goto
<1> QED
  BY <1>2, <1>3, <1>4, <1>5

\* Whatever is missing from what a text turn is given has a cause.
LEMMA GivenWithCause ==
  ASSUME IInv, NEW t \in Turns, NEW rows \in Seq(Messages), Gives(t, rows),
         NEW given \in prompt', given.turn \in text',
         NEW m \in ToSet(log') \ ToSet(given.rows)
  PROVE  MissingHasACause(given.turn, m)'
<1> USE DEF IInv
<1>1. given = [turn |-> t, rows |-> IF t \in text THEN Ensured(rows, User(t)) ELSE rows]
  BY DEF Gives, Prompted
<1>2. given.turn = t /\ given.rows = Ensured(rows, User(t))
  BY <1>1 DEF Gives
<1>3. ToSet(given.rows) = ToSet(rows) \cup {User(t)}
  BY <1>2, EnsuredRows, MessageTypes
<1>4. m \in ToSet(log) /\ m \notin ToSet(rows) /\ m # User(t)
  BY <1>3 DEF Gives
<1>5. m \in Messages /\ TurnOf(m) \in Turns
  BY <1>4, RowsAreMessages, OfTurn DEF TypeOK
<1>6. CASE m \in crossed \/ HomeOf[TurnOf(m)] # HomeOf[t]
  BY <1>2, <1>4, <1>6 DEF MissingHasACause, Gives, ghosts
<1>7. CASE pc[TurnOf(m)] # "finished"
  <2>1. pc'[TurnOf(m)] # "finished"
    BY <1>7, <1>5 DEF Gives, Prompted, TypeOK
  <2> QED
    BY <1>2, <1>4, <2>1 DEF MissingHasACause
<1>8. CASE ~(m \in crossed \/ HomeOf[TurnOf(m)] # HomeOf[t]) /\ pc[TurnOf(m)] = "finished"
  <2>1. m \in forgotten[HomeOf[t]] /\ ~(fresh[TurnOf(m)] > 0)
    BY <1>4, <1>8 DEF Gives, Remembered
  <2>2. fresh[TurnOf(m)] = 0
    BY <2>1, <1>5, TTLAssumption DEF TypeOK
  <2> QED
    BY <1>2, <1>4, <2>1, <2>2 DEF MissingHasACause, Gives, ghosts
<1> QED
  BY <1>6, <1>7, <1>8

\* A text turn is prompted with every message but those with a cause to be
\* missing; a turn is remembered for a time to live after its end.
THEOREM TurnsAreRemembered == Spec => []RecentTurnsAreRemembered
<1>1. Init => RecentTurnsAreRemembered
  BY DEF Init, RecentTurnsAreRemembered
<1>2. IInv /\ RecentTurnsAreRemembered /\ [Next]_vars => RecentTurnsAreRemembered'
  <2> SUFFICES ASSUME IInv, RecentTurnsAreRemembered, [Next]_vars
               PROVE  RecentTurnsAreRemembered'
    OBVIOUS
  <2>1. CASE Next /\ prompt' # {}
    BY <2>1, PromptIsGiven, GivenWithCause DEF RecentTurnsAreRemembered
  <2>2. CASE prompt' = {}
    BY <2>2 DEF RecentTurnsAreRemembered
  <2>3. CASE UNCHANGED vars
    BY <2>3 DEF RecentTurnsAreRemembered, MissingHasACause, vars, ghosts
  <2> QED
    BY <2>1, <2>2, <2>3
<1> QED
  BY <1>1, <1>2, Invariance, PTL DEF Spec

(***************************************************************************)
(* The order of what is remembered                                         *)
(***************************************************************************)
\* The rows stand in the list, in its order.
Orderly(rows, list) ==
  /\ \A i \in DOMAIN rows : \E a \in DOMAIN list : list[a] = rows[i]
  /\ \A i, j \in DOMAIN rows : \A a, b \in DOMAIN list :
       i < j /\ list[a] = rows[i] /\ list[b] = rows[j] => a < b

\* Every message is inserted once.
LogInv ==
  /\ \A a, b \in DOMAIN log : log[a] = log[b] => a = b
  /\ \A t \in Turns :
       /\ User(t) \in ToSet(log) => pc[t] # "new"
       /\ Reply(t) \in ToSet(log) => pc[t] \in {"replied", "answered", "finished", "ended", "failed"}

OneWriter == \A t, u \in Turns : InFlight(t) /\ InFlight(u) => t = u

\* The turn under way has written last, and has not told the context builder.
LastWriter ==
  \A t \in Turns :
    /\ pc[t] \in {"saved", "noted", "selected", "generating"} => EndsWith(log, User(t))
    /\ pc[t] \in {"replied", "answered"} =>
         /\ EndsWith(log, Reply(t))
         /\ Len(log) > 1 /\ log[Len(log) - 1] = User(t)
         /\ \A p \in Processes : Reply(t) \notin ToSet(history[p].rows)

AllOrderly ==
  /\ \A p \in Processes : Orderly(repo[p].rows, log) /\ Orderly(history[p].rows, log)
  /\ \A c \in Callers : Orderly(fetched[c], log)
  /\ \A given \in prompt : Orderly(given.rows, log)

OrderInv == LogInv /\ (~overlapped => OneWriter /\ LastWriter /\ AllOrderly)

\* Orderly lists by their indices.
LEMMA Domains ==
  ASSUME NEW rows \in Seq(Messages)
  PROVE  /\ DOMAIN rows = 1..Len(rows) /\ Len(rows) \in Nat
         /\ \A m : m \in ToSet(rows) <=> \E i \in 1..Len(rows) : rows[i] = m
BY DEF ToSet

LEMMA Appended ==
  ASSUME NEW rows \in Seq(Messages), NEW m \in Messages
  PROVE  /\ Append(rows, m) \in Seq(Messages)
         /\ Len(Append(rows, m)) = Len(rows) + 1
         /\ Append(rows, m)[Len(rows) + 1] = m
         /\ \A i \in 1..Len(rows) : Append(rows, m)[i] = rows[i]
OBVIOUS

LEMMA Endings ==
  ASSUME NEW rows \in Seq(Messages), NEW m
  PROVE  EndsWith(rows, m) <=> Len(rows) > 0 /\ rows[Len(rows)] = m
BY DEF EndsWith, Last

\* A list stays in order as the log grows.
LEMMA OrderlyLonger ==
  ASSUME NEW rows \in Seq(Messages), NEW list \in Seq(Messages), NEW m \in Messages,
         Orderly(rows, list),
         \A a, b \in DOMAIN Append(list, m) : Append(list, m)[a] = Append(list, m)[b] => a = b
  PROVE  Orderly(rows, Append(list, m))
<1> DEFINE longer == Append(list, m)
<1>1. /\ longer \in Seq(Messages) /\ Len(longer) = Len(list) + 1 /\ Len(list) \in Nat
      /\ \A a \in 1..Len(list) : longer[a] = list[a]
  BY Appended
<1>2. DOMAIN longer = 1..(Len(list) + 1) /\ DOMAIN list = 1..Len(list)
  BY <1>1, Domains
<1>3. \A a, b \in DOMAIN longer : longer[a] = longer[b] => a = b
  OBVIOUS
<1> HIDE DEF longer
<1>4. \A i \in DOMAIN rows : \E a \in DOMAIN list : a \in DOMAIN longer /\ longer[a] = rows[i]
  BY <1>1, <1>2 DEF Orderly
<1>5. ASSUME NEW i \in DOMAIN rows, NEW a \in DOMAIN longer, longer[a] = rows[i]
      PROVE  a \in DOMAIN list /\ list[a] = rows[i]
  BY <1>1, <1>2, <1>3, <1>4, <1>5
<1>6. Orderly(rows, longer)
  BY <1>4, <1>5 DEF Orderly
<1> QED
  BY <1>6 DEF longer

\* It stays in order when a message is added that stands after all its rows.
LEMMA EnsuredOrderly ==
  ASSUME NEW rows \in Seq(Messages), NEW list \in Seq(Messages), NEW m \in Messages,
         Orderly(rows, list), NEW k \in DOMAIN list, list[k] = m,
         \A a, b \in DOMAIN list : list[a] = list[b] => a = b,
         \A a \in DOMAIN list : a > k => list[a] \notin ToSet(rows)
  PROVE  Orderly(Ensured(rows, m), list)
<1>1. CASE EndsWith(rows, m)
  BY <1>1 DEF Ensured
<1>2. CASE ~EndsWith(rows, m)
  <2>1. /\ DOMAIN rows = 1..Len(rows) /\ Len(rows) \in Nat
        /\ DOMAIN list = 1..Len(list) /\ Len(list) \in Nat
    BY Domains
  <2>2. \A i \in DOMAIN rows : rows[i] \in ToSet(rows)
    BY <2>1, Domains
  <2>3. ASSUME NEW i \in DOMAIN rows
        PROVE  rows[i] # m
    <3>1. SUFFICES ASSUME rows[i] = m
                   PROVE  FALSE
      OBVIOUS
    <3>2. i < Len(rows) /\ Len(rows) \in DOMAIN rows
      BY <1>2, <2>1, <3>1, Endings
    <3>3. PICK b \in DOMAIN list : list[b] = rows[Len(rows)]
      BY <3>2 DEF Orderly
    <3>4. k < b
      BY <3>1, <3>2, <3>3 DEF Orderly
    <3> QED
      BY <2>2, <3>2, <3>3, <3>4
  <2>4. ASSUME NEW i \in DOMAIN rows, NEW a \in DOMAIN list, list[a] = rows[i]
        PROVE  a < k
    BY <2>1, <2>2, <2>3, <2>4
  <2> DEFINE longer == Append(rows, m)
  <2>5. /\ longer \in Seq(Messages) /\ Len(longer) = Len(rows) + 1
        /\ longer[Len(rows) + 1] = m /\ \A i \in 1..Len(rows) : longer[i] = rows[i]
    BY Appended
  <2>6. DOMAIN longer = 1..(Len(rows) + 1)
    BY <2>5, Domains
  <2> HIDE DEF longer
  <2>7. ASSUME NEW i \in DOMAIN longer
        PROVE  \E a \in DOMAIN list : list[a] = longer[i]
    BY <2>1, <2>5, <2>6 DEF Orderly
  <2>8. ASSUME NEW i \in DOMAIN longer, NEW j \in DOMAIN longer, NEW a \in DOMAIN list,
               NEW b \in DOMAIN list, i < j, list[a] = longer[i], list[b] = longer[j]
        PROVE  a < b
    <3>1. i \in DOMAIN rows /\ longer[i] = rows[i]
      BY <2>1, <2>5, <2>6, <2>8
    <3>2. CASE j \in DOMAIN rows
      BY <2>1, <2>5, <2>8, <3>1, <3>2 DEF Orderly
    <3>3. CASE j \notin DOMAIN rows
      <4>1. b = k
        BY <2>1, <2>5, <2>6, <2>8, <3>3
      <4> QED
        BY <2>4, <2>8, <3>1, <4>1
    <3> QED
      BY <3>2, <3>3
  <2>9. Orderly(longer, list)
    BY <2>7, <2>8 DEF Orderly
  <2> QED
    BY <1>2, <2>9 DEF Ensured, longer
<1> QED
  BY <1>1, <1>2

\* In particular one that the list ends with.
LEMMA EnsuredLast ==
  ASSUME NEW rows \in Seq(Messages), NEW list \in Seq(Messages), NEW m \in Messages,
         Orderly(rows, list), EndsWith(list, m),
         \A a, b \in DOMAIN list : list[a] = list[b] => a = b
  PROVE  Orderly(Ensured(rows, m), list)
<1>1. Len(list) \in DOMAIN list /\ list[Len(list)] = m /\ DOMAIN list = 1..Len(list)
  BY Domains, Endings
<1> QED
  BY <1>1, EnsuredOrderly

LEMMA OrderlyRows ==
  ASSUME NEW rows \in Seq(Messages), NEW list \in Seq(Messages), Orderly(rows, list)
  PROVE  ToSet(rows) \subseteq ToSet(list)
BY Domains DEF Orderly

\* A turn's two rows, after whatever an entry has.
LEMMA TurnNotedOrderly ==
  ASSUME NEW entry \in Entries, NEW list \in Seq(Messages), NEW t \in Turns,
         Orderly(entry.rows, list), EndsWith(list, Reply(t)),
         Len(list) > 1, list[Len(list) - 1] = User(t), Reply(t) \notin ToSet(entry.rows),
         \A a, b \in DOMAIN list : list[a] = list[b] => a = b
  PROVE  Orderly(TurnNoted(entry, t).rows, list)
<1>1. entry.rows \in Seq(Messages) /\ User(t) \in Messages /\ Reply(t) \in Messages
  BY MessageTypes DEF Entries
<1>2. /\ DOMAIN list = 1..Len(list) /\ Len(list) \in Nat
      /\ Len(list) - 1 \in DOMAIN list /\ list[Len(list)] = Reply(t)
  BY Domains, Endings
<1> DEFINE rows == Ensured(entry.rows, User(t))
<1>3. Orderly(rows, list)
  <2>1. \A a \in DOMAIN list : a > Len(list) - 1 => list[a] = Reply(t)
    BY <1>2
  <2> QED
    BY <1>1, <1>2, <2>1, EnsuredOrderly
<1>4. rows \in Seq(Messages) /\ Reply(t) \notin ToSet(rows)
  <2>1. rows \in Seq(Messages) /\ ToSet(rows) = ToSet(entry.rows) \cup {User(t)}
    BY <1>1, EnsuredRows
  <2> HIDE DEF rows
  <2> QED
    BY <2>1, MessageTypes
<1>5. ~EndsWith(rows, Reply(t))
  BY <1>4, Domains, Endings
<1>6. Append(rows, Reply(t)) = Ensured(rows, Reply(t))
  BY <1>5 DEF Ensured
<1>7. Orderly(Append(rows, Reply(t)), list)
  BY <1>1, <1>3, <1>4, <1>6, EnsuredLast
<1> QED
  BY <1>7 DEF TurnNoted, Entry

\* Nobody but SaveUser and SaveReply writes to the log.
Writes == \E t \in Turns : SaveUser(t) \/ SaveReply(t)

\* A step takes one coroutine further, or none.
LEMMA PcMoves ==
  ASSUME TypeOK, [Next]_vars, NEW t \in Turns
  PROVE  /\ pc'[t] = "new" => pc[t] = "new"
         /\ pc[t] \in {"replied", "answered", "finished", "ended", "failed"} =>
              pc'[t] \in {"replied", "answered", "finished", "ended", "failed"}
         /\ ~Writes =>
              /\ InFlight(t)' => InFlight(t)
              /\ pc'[t] \in {"saved", "noted", "selected", "generating"} =>
                   pc[t] \in {"saved", "noted", "selected", "generating"}
              /\ pc'[t] \in {"replied", "answered"} => pc[t] \in {"replied", "answered"}
<1>t. t \in Callers /\ pc[t] \in Steps
  BY DEF Callers, TypeOK
<1>1. ASSUME NEW u \in Turns, SaveUser(u) \/ SaveReply(u)
      PROVE  /\ pc'[t] = "new" => pc[t] = "new"
             /\ pc[t] \in {"replied", "answered", "finished", "ended", "failed"} =>
                  pc'[t] \in {"replied", "answered", "finished", "ended", "failed"}
  BY <1>1, <1>t DEF SaveUser, SaveReply, MayBegin, Goto, TypeOK
<1>2. ASSUME NEW u \in Turns, NoteUser(u) \/ NoteReply(u) \/ Fail(u) \/ PostTurn(u)
      PROVE  \/ pc'[t] = pc[t]
             \/ pc[t] = "saved" /\ pc'[t] = "noted"
             \/ pc[t] = "replied" /\ pc'[t] \in {"answered", "ended"}
             \/ pc[t] \in {"noted", "selected", "generating", "answered"} /\ pc'[t] = "failed"
             \/ pc[t] = "answered" /\ pc'[t] = "finished"
  BY <1>2, <1>t DEF NoteUser, NoteReply, Fail, PostTurn, Goto, TypeOK
<1>3. ASSUME NEW u \in Turns, ReadHistory(u) \/ ReadRepo(u) \/ StoreForTurn(u)
      PROVE  \/ pc'[t] = pc[t]
             \/ pc[t] \in {"noted", "selected"} /\ pc'[t] = "generating"
  BY <1>3, <1>t, CallerAssumption
  DEF ReadHistory, ReadRepo, StoreForTurn, MayRead, Prompted, TypeOK
<1>4. ASSUME NEW c \in Callers, Select(c)
      PROVE  pc'[t] = pc[t] \/ (pc[t] = "noted" /\ pc'[t] = "selected")
  BY <1>4, <1>t, CallerAssumption DEF Select, MayRead, Goto, TypeOK
<1>5. ASSUME NEW r \in Readers, StoreForReader(r)
      PROVE  pc'[t] = pc[t]
  BY <1>5, <1>t, CallerAssumption DEF StoreForReader, Goto, TypeOK
<1>6. ASSUME Tick \/ UNCHANGED vars
      PROVE  pc'[t] = pc[t]
  BY <1>6 DEF Tick, vars
<1>7. \/ Writes
      \/ pc'[t] = pc[t]
      \/ pc[t] = "saved" /\ pc'[t] = "noted"
      \/ pc[t] = "replied" /\ pc'[t] \in {"answered", "ended"}
      \/ pc[t] \in {"noted", "selected", "generating", "answered"} /\ pc'[t] = "failed"
      \/ pc[t] = "answered" /\ pc'[t] = "finished"
      \/ pc[t] \in {"noted", "selected"} /\ pc'[t] = "generating"
      \/ pc[t] = "noted" /\ pc'[t] = "selected"
  BY <1>2, <1>3, <1>4, <1>5, <1>6 DEF Next, TurnNext, Writes, Callers
<1> QED
  BY <1>1, <1>7 DEF Writes, InFlight

LEMMA NotWritten ==
  ASSUME [Next]_vars, ~Writes
  PROVE  log' = log /\ overlapped' = overlapped
BY DEF Next, TurnNext, NoteUser, ReadHistory, ReadRepo, Select, StoreForTurn, NoteReply,
       PostTurn, Fail, StoreForReader, Tick, vars, ghosts, Writes

\* Every message is still inserted once.
LEMMA LogStep ==
  ASSUME TypeOK, LogInv, [Next]_vars
  PROVE  LogInv'
<1>1. ASSUME NEW t \in Turns, NEW m \in Messages, log' = Append(log, m), m \notin ToSet(log)
      PROVE  /\ \A a, b \in DOMAIN log' : log'[a] = log'[b] => a = b
             /\ ToSet(log') = ToSet(log) \cup {m}
  <2>1. /\ log \in Seq(Messages) /\ log' \in Seq(Messages)
        /\ Len(log') = Len(log) + 1 /\ log'[Len(log) + 1] = m
        /\ \A i \in 1..Len(log) : log'[i] = log[i]
    BY <1>1, Appended DEF TypeOK
  <2>2. /\ DOMAIN log = 1..Len(log) /\ Len(log) \in Nat /\ DOMAIN log' = 1..(Len(log) + 1)
        /\ \A i \in 1..Len(log) : log[i] # m
    BY <1>1, <2>1, Domains
  <2>3. \A a, b \in DOMAIN log' : log'[a] = log'[b] => a = b
    BY <2>1, <2>2 DEF LogInv
  <2>4. ToSet(log') = ToSet(log) \cup {m}
    BY <1>1, <2>1, AppendRows
  <2> QED
    BY <2>3, <2>4
<1>2. \A t \in Turns : /\ pc'[t] = "new" => pc[t] = "new"
                       /\ pc[t] \in {"replied", "answered", "finished", "ended", "failed"} =>
                            pc'[t] \in {"replied", "answered", "finished", "ended", "failed"}
  BY PcMoves
<1>3. ASSUME NEW t \in Turns, SaveUser(t)
      PROVE  LogInv'
  <2>1. User(t) \notin ToSet(log) /\ log' = Append(log, User(t)) /\ pc'[t] = "saved"
    BY <1>3 DEF SaveUser, MayBegin, Inserts, Goto, LogInv, TypeOK, Callers
  <2>2. /\ \A a, b \in DOMAIN log' : log'[a] = log'[b] => a = b
        /\ ToSet(log') = ToSet(log) \cup {User(t)}
    BY <1>1, <2>1, MessageTypes
  <2>3. \A u \in Turns : User(u) = User(t) => u = t
    BY MessageTypes
  <2>4. \A u \in Turns : Reply(u) # User(t)
    BY DEF Reply, User
  <2> QED
    BY <1>2, <2>1, <2>2, <2>3, <2>4 DEF LogInv
<1>4. ASSUME NEW t \in Turns, SaveReply(t)
      PROVE  LogInv'
  <2>1. Reply(t) \notin ToSet(log) /\ log' = Append(log, Reply(t)) /\ pc'[t] = "replied"
    BY <1>4 DEF SaveReply, Inserts, Goto, LogInv, TypeOK, Callers
  <2>2. /\ \A a, b \in DOMAIN log' : log'[a] = log'[b] => a = b
        /\ ToSet(log') = ToSet(log) \cup {Reply(t)}
    BY <1>1, <2>1, MessageTypes
  <2>3. \A u \in Turns : Reply(u) = Reply(t) => u = t
    BY MessageTypes
  <2>4. \A u \in Turns : User(u) # Reply(t)
    BY DEF Reply, User
  <2> QED
    BY <1>2, <2>1, <2>2, <2>3, <2>4 DEF LogInv
<1>5. CASE ~Writes
  BY <1>2, <1>5, NotWritten DEF LogInv
<1> QED
  BY <1>3, <1>4, <1>5 DEF Writes

\* The writer is alone and comes last.
LEMMA WriteOrder ==
  ASSUME TypeOK, OrderInv, LogInv', Writes, ~overlapped'
  PROVE  OneWriter' /\ LastWriter' /\ AllOrderly'
<1>1. PICK t \in Turns : SaveUser(t) \/ SaveReply(t)
  BY DEF Writes
<1>2. PICK m \in {User(t), Reply(t)} : Inserts(t, m) /\ (m = User(t) <=> SaveUser(t))
  BY <1>1, MessageTypes DEF SaveUser, SaveReply, MayBegin
<1>3. /\ ~overlapped /\ \A u \in Turns \ {t} : ~InFlight(u)
      /\ log' = Append(log, m) /\ m \in Messages
  BY <1>2, MessageTypes DEF Inserts
<1>4. OneWriter /\ LastWriter /\ AllOrderly /\ LogInv
  BY <1>3 DEF OrderInv
<1>5. /\ t \in Callers /\ \A u \in Turns \ {t} : pc'[u] = pc[u]
      /\ repo' = repo /\ history' = history /\ fetched' = fetched /\ prompt' = {}
      /\ pc[t] \in {"new", "generating"} /\ pc'[t] \in {"saved", "replied"}
      /\ SaveUser(t) <=> pc'[t] = "saved"
      /\ SaveReply(t) => pc[t] = "generating" /\ pc'[t] = "replied"
  BY <1>1 DEF SaveUser, SaveReply, MayBegin, Goto, caches, Callers, TypeOK
<1>6. OneWriter'
  BY <1>3, <1>5 DEF OneWriter, InFlight
<1>7. /\ log \in Seq(Messages) /\ log' \in Seq(Messages) /\ Len(log) \in Nat
      /\ Len(log') = Len(log) + 1 /\ log'[Len(log) + 1] = m
      /\ \A i \in 1..Len(log) : log'[i] = log[i]
  BY <1>3, Appended DEF TypeOK
<1>8. EndsWith(log', m)
  BY <1>7, Endings
<1>9. LastWriter'
  <2>1. SUFFICES ASSUME NEW u \in Turns, pc'[u] \in {"saved", "noted", "selected", "generating",
                                                     "replied", "answered"}
                 PROVE  /\ pc'[u] \in {"saved", "noted", "selected", "generating"} =>
                             EndsWith(log', User(u))
                        /\ pc'[u] \in {"replied", "answered"} =>
                             /\ EndsWith(log', Reply(u))
                             /\ Len(log') > 1 /\ log'[Len(log') - 1] = User(u)
                             /\ \A p \in Processes : Reply(u) \notin ToSet(history'[p].rows)
    BY DEF LastWriter, EndsWith
  <2>2. u = t
    BY <2>1, <1>3, <1>5 DEF InFlight
  <2>3. CASE SaveUser(t)
    BY <2>2, <2>3, <1>2, <1>5, <1>8
  <2>4. CASE ~SaveUser(t)
    <3>1. SaveReply(t) /\ m = Reply(t) /\ pc[t] = "generating" /\ pc'[t] = "replied"
      BY <2>4, <1>1, <1>2, <1>5
    <3>2. Len(log) > 0 /\ log[Len(log)] = User(t)
      BY <3>1, <1>4, <1>7, Endings DEF LastWriter
    <3>3. Len(log') > 1 /\ log'[Len(log') - 1] = User(t)
      BY <3>2, <1>7
    <3>4. Reply(t) \notin ToSet(log)
      BY <3>1, <1>4 DEF LogInv
    <3>5. ASSUME NEW p \in Processes
          PROVE  Reply(t) \notin ToSet(history'[p].rows)
      <4>1. Orderly(history[p].rows, log) /\ history[p].rows \in Seq(Messages)
        BY <1>4 DEF AllOrderly, TypeOK, Entries
      <4> QED
        BY <4>1, <3>4, <1>5, <1>7, OrderlyRows
    <3> QED
      BY <2>2, <3>1, <3>3, <3>5, <1>8
  <2> QED
    BY <2>3, <2>4
<1>10. AllOrderly'
  <2>1. ASSUME NEW rows \in Seq(Messages), Orderly(rows, log)
        PROVE  Orderly(rows, log')
    BY <2>1, <1>3, <1>7, OrderlyLonger DEF LogInv
  <2>2. ASSUME NEW p \in Processes
        PROVE  Orderly(repo'[p].rows, log') /\ Orderly(history'[p].rows, log')
    <3>1. repo[p].rows \in Seq(Messages) /\ history[p].rows \in Seq(Messages)
      BY DEF TypeOK, Entries
    <3> QED
      BY <3>1, <2>1, <1>4, <1>5 DEF AllOrderly
  <2>3. ASSUME NEW c \in Callers
        PROVE  Orderly(fetched'[c], log')
    BY <2>1, <1>4, <1>5 DEF AllOrderly, TypeOK
  <2> QED
    BY <2>2, <2>3, <1>5 DEF AllOrderly, Orderly
<1> QED
  BY <1>6, <1>9, <1>10

\* The entries for text turns change in the hands of the turn under way only.
LEMMA HistoryMoves ==
  ASSUME TypeOK, [Next]_vars, NEW p \in Processes
  PROVE  \/ ToSet(history'[p].rows) \subseteq ToSet(history[p].rows)
         \/ \E u \in Turns : /\ InFlight(u)
                             /\ pc'[u] \in {"generating", "finished"}
<1>1. ASSUME NEW u \in Turns, ReadRepo(u) \/ StoreForTurn(u) \/ PostTurn(u)
      PROVE  InFlight(u) /\ pc'[u] \in {"generating", "finished"}
  BY <1>1, CallerAssumption
  DEF ReadRepo, StoreForTurn, PostTurn, MayRead, Prompted, Goto, InFlight, Callers, TypeOK
<1>2. ASSUME Tick
      PROVE  ToSet(history'[p].rows) \subseteq ToSet(history[p].rows)
  <2>1. history'[p] = Aged(history[p])
    BY <1>2 DEF Tick
  <2>2. history'[p].rows = history[p].rows \/ history'[p].rows = <<>>
    BY <2>1 DEF Aged, NoEntry, TypeOK, Entries
  <2> QED
    BY <2>2, NoRows
<1>3. \/ \E u \in Turns : ReadRepo(u) \/ StoreForTurn(u) \/ PostTurn(u)
      \/ Tick
      \/ history' = history
  BY DEF Next, TurnNext, SaveUser, NoteUser, ReadHistory, Select, SaveReply, NoteReply, Fail,
         StoreForReader, vars, caches
<1> QED
  BY <1>1, <1>2, <1>3

LEMMA NoWriteLast ==
  ASSUME TypeOK, OneWriter, LastWriter, [Next]_vars, ~Writes
  PROVE  OneWriter' /\ LastWriter'
<1>1. log' = log
  BY NotWritten
<1>2. OneWriter'
  BY PcMoves DEF OneWriter
<1>3. ASSUME NEW t \in Turns, pc'[t] \in {"saved", "noted", "selected", "generating"}
      PROVE  EndsWith(log', User(t))
  BY <1>1, <1>3, PcMoves DEF LastWriter
<1>4. ASSUME NEW t \in Turns, pc'[t] \in {"replied", "answered"}
      PROVE  /\ EndsWith(log', Reply(t))
             /\ Len(log') > 1 /\ log'[Len(log') - 1] = User(t)
             /\ \A p \in Processes : Reply(t) \notin ToSet(history'[p].rows)
  <2>1. pc[t] \in {"replied", "answered"}
    BY <1>4, PcMoves
  <2>2. ASSUME NEW p \in Processes
        PROVE  Reply(t) \notin ToSet(history'[p].rows)
    <3>1. \A u \in Turns : InFlight(u) => u = t
      BY <2>1 DEF OneWriter, InFlight
    <3>2. ToSet(history'[p].rows) \subseteq ToSet(history[p].rows)
      BY <3>1, <1>4, HistoryMoves
    <3> QED
      BY <3>2, <2>1 DEF LastWriter
  <2> QED
    BY <2>1, <2>2, <1>1 DEF LastWriter
<1> QED
  BY <1>2, <1>3, <1>4 DEF LastWriter, EndsWith

LEMMA NoWriteOrder ==
  ASSUME TypeOK, LogInv, OneWriter, LastWriter, AllOrderly, [Next]_vars, ~Writes
  PROVE  AllOrderly'
<1> DEFINE Fine(rows) == Orderly(rows, log)
<1>1. log' = log
  BY NotWritten
<1>2. /\ \A p \in Processes : /\ repo[p] \in Entries /\ repo[p].rows \in Seq(Messages)
                              /\ Fine(repo[p].rows)
                              /\ history[p] \in Entries /\ history[p].rows \in Seq(Messages)
                              /\ Fine(history[p].rows)
      /\ \A c \in Callers : fetched[c] \in Seq(Messages) /\ Fine(fetched[c])
      /\ \A given \in prompt : Fine(given.rows)
  BY DEF AllOrderly, TypeOK, Entries
<1>3. Fine(<<>>) /\ Fine(log)
  BY DEF Orderly, LogInv
<1>4. ASSUME NEW rows \in Seq(Messages), NEW m \in Messages, Fine(rows), EndsWith(log, m)
      PROVE  Fine(Ensured(rows, m))
  BY <1>4, EnsuredLast DEF TypeOK, LogInv
<1>t. Turns \subseteq Callers /\ Readers \subseteq Callers
  BY DEF Callers
\* What there is to show of a step.
<1>k. ASSUME \A p \in Processes : repo'[p].rows = repo[p].rows \/ Fine(repo'[p].rows),
             \A p \in Processes : history'[p].rows = history[p].rows \/ Fine(history'[p].rows),
             \A c \in Callers : fetched'[c] = fetched[c] \/ Fine(fetched'[c]),
             prompt' = prompt \/ \A given \in prompt' : Fine(given.rows)
      PROVE  AllOrderly'
  <2>1. \A p \in Processes : Orderly(repo'[p].rows, log') /\ Orderly(history'[p].rows, log')
    BY <1>k, <1>1, <1>2
  <2>2. \A c \in Callers : Orderly(fetched'[c], log')
    BY <1>k, <1>1, <1>2
  <2>3. \A given \in prompt' : Orderly(given.rows, log')
    BY <1>k, <1>1, <1>2
  <2> QED
    BY <2>1, <2>2, <2>3 DEF AllOrderly, Orderly
<1> HIDE DEF Fine
\* A turn reads rows that are in order; its message is the last of the log.
<1>p. ASSUME NEW t \in Turns, NEW rows \in Seq(Messages), Fine(rows), Prompted(t, rows),
             EndsWith(log, User(t))
      PROVE  \A given \in prompt' : Fine(given.rows)
  <2>1. Fine(Ensured(rows, User(t)))
    BY <1>p, <1>4, MessageTypes
  <2> QED
    BY <2>1, <1>p DEF Prompted
<1>5. ASSUME NEW t \in Turns, NEW m \in Messages,
             \/ NoteUser(t) /\ m = User(t)
             \/ NoteReply(t) /\ m = Reply(t)
      PROVE  AllOrderly'
  <2>1. /\ repo' = [repo EXCEPT ![HomeOf[t]] = Noted(@, m)] /\ EndsWith(log, m)
        /\ history' = history /\ fetched' = fetched /\ prompt' = {}
    BY <1>5 DEF NoteUser, NoteReply, Goto, LastWriter
  <2>2. ASSUME NEW p \in Processes
        PROVE  repo'[p].rows = repo[p].rows \/ Fine(repo'[p].rows)
    <3>1. repo'[p] = repo[p] \/ repo'[p] = Noted(repo[p], m)
      BY <2>1 DEF TypeOK
    <3>2. Noted(repo[p], m) = repo[p] \/ Noted(repo[p], m) = Entry(Ensured(repo[p].rows, m))
      BY DEF Noted, Ensured
    <3>3. Fine(Ensured(repo[p].rows, m)) /\ Ensured(repo[p].rows, m) \in Seq(Messages)
      BY <2>1, <1>2, <1>4, EnsuredRows
    <3> QED
      BY <3>1, <3>2, <3>3, EntryTypes
  <2> QED
    BY <2>1, <2>2, <1>k
<1>6. ASSUME NEW t \in Turns, Fail(t)
      PROVE  AllOrderly'
  <2>1. /\ repo' = repo /\ history' = history /\ prompt' = {}
        /\ fetched' = [fetched EXCEPT ![t] = <<>>]
    BY <1>6 DEF Fail, Goto, caches
  <2>2. \A c \in Callers : fetched'[c] = fetched[c] \/ Fine(fetched'[c])
    BY <2>1, <1>3 DEF TypeOK
  <2> QED
    BY <2>1, <2>2, <1>k
<1>7. ASSUME NEW t \in Turns, ReadHistory(t)
      PROVE  AllOrderly'
  <2>1. /\ repo' = repo /\ history' = history /\ fetched' = fetched
        /\ Prompted(t, history[HomeOf[t]].rows) /\ EndsWith(log, User(t))
    BY <1>7, CallerAssumption DEF ReadHistory, MayRead, caches, LastWriter
  <2>2. \A given \in prompt' : Fine(given.rows)
    BY <2>1, <1>2, <1>p, <1>t, HomeType
  <2> QED
    BY <2>1, <2>2, <1>k
<1>8. ASSUME NEW t \in Turns, ReadRepo(t)
      PROVE  AllOrderly'
  <2> DEFINE rows == repo[HomeOf[t]].rows
  <2>1. /\ fetched' = fetched /\ Prompted(t, rows) /\ EndsWith(log, User(t))
        /\ Handed(t, rows)
    BY <1>8, CallerAssumption DEF ReadRepo, MayRead, LastWriter
  <2>2. HomeOf[t] \in Processes /\ rows \in Seq(Messages) /\ Fine(rows)
    BY <1>2, <1>t, HomeType
  <2>3. Fine(Ensured(rows, User(t)))
    BY <2>1, <2>2, <1>4, MessageTypes
  <2>4. \A given \in prompt' : Fine(given.rows)
    BY <2>1, <2>2, <1>p
  <2>5. CASE t \in text
    <3>1. /\ repo' = [repo EXCEPT ![HomeOf[t]].rows = Ensured(rows, User(t))]
          /\ history' = [history EXCEPT ![HomeOf[t]] = Entry(rows)]
      BY <2>1, <2>5 DEF Handed
    <3> HIDE DEF rows
    <3>2. ASSUME NEW p \in Processes
          PROVE  repo'[p].rows = repo[p].rows \/ Fine(repo'[p].rows)
      BY <3>1, <2>3, <1>2 DEF TypeOK, Entries
    <3>3. ASSUME NEW p \in Processes
          PROVE  history'[p].rows = history[p].rows \/ Fine(history'[p].rows)
      BY <3>1, <2>2, EntryTypes DEF TypeOK
    <3> QED
      BY <3>2, <3>3, <2>1, <2>4, <1>k
  <2>6. CASE t \notin text
    BY <2>1, <2>4, <2>6, <1>k DEF Handed, caches
  <2> QED
    BY <2>5, <2>6
<1>9. ASSUME NEW c \in Callers, Select(c)
      PROVE  AllOrderly'
  <2>1. /\ repo' = repo /\ history' = history /\ prompt' = {}
        /\ fetched' = [fetched EXCEPT ![c] = log]
    BY <1>9 DEF Select, Goto, caches
  <2>2. \A d \in Callers : fetched'[d] = fetched[d] \/ Fine(fetched'[d])
    BY <2>1, <1>3 DEF TypeOK
  <2> QED
    BY <2>1, <2>2, <1>k
<1>10. ASSUME NEW t \in Turns, StoreForTurn(t)
       PROVE  AllOrderly'
  <2> DEFINE rows == fetched[t]
  <2>1. /\ fetched' = [fetched EXCEPT ![t] = <<>>]
        /\ Prompted(t, rows) /\ EndsWith(log, User(t))
    BY <1>10 DEF StoreForTurn, LastWriter
  <2>2. rows \in Seq(Messages) /\ Fine(rows)
    BY <1>2, <1>t
  <2>3. Fine(Ensured(rows, User(t))) /\ Ensured(rows, User(t)) \in Seq(Messages)
    BY <2>1, <2>2, <1>4, MessageTypes, EnsuredRows
  <2>4. \A given \in prompt' : Fine(given.rows)
    BY <2>1, <2>2, <1>p
  <2>5. \A c \in Callers : fetched'[c] = fetched[c] \/ Fine(fetched'[c])
    BY <2>1, <1>3 DEF TypeOK
  <2>6. /\ \/ repo' = [repo EXCEPT ![HomeOf[t]] = Entry(Ensured(rows, User(t)))]
           \/ repo' = [repo EXCEPT ![HomeOf[t]] = Entry(rows)]
        /\ history' = history \/ history' = [history EXCEPT ![HomeOf[t]] = Entry(rows)]
    BY <1>10 DEF StoreForTurn
  <2> HIDE DEF rows
  <2>7. ASSUME NEW p \in Processes
        PROVE  repo'[p].rows = repo[p].rows \/ Fine(repo'[p].rows)
    BY <2>6, <2>2, <2>3, EntryTypes DEF TypeOK
  <2>8. ASSUME NEW p \in Processes
        PROVE  history'[p].rows = history[p].rows \/ Fine(history'[p].rows)
    BY <2>6, <2>2, EntryTypes DEF TypeOK
  <2> QED
    BY <2>4, <2>5, <2>7, <2>8, <1>k
<1>11. ASSUME NEW r \in Readers, StoreForReader(r)
       PROVE  AllOrderly'
  <2>1. /\ repo' = [repo EXCEPT ![HomeOf[r]] = Entry(fetched[r])] /\ history' = history
        /\ fetched' = [fetched EXCEPT ![r] = <<>>] /\ prompt' = {}
    BY <1>11 DEF StoreForReader, Goto
  <2>2. \A c \in Callers : fetched'[c] = fetched[c] \/ Fine(fetched'[c])
    BY <2>1, <1>3 DEF TypeOK
  <2>3. ASSUME NEW p \in Processes
        PROVE  repo'[p].rows = repo[p].rows \/ Fine(repo'[p].rows)
    BY <2>1, <1>t, <1>2, EntryTypes DEF TypeOK
  <2> QED
    BY <2>1, <2>2, <2>3, <1>k
<1>12. ASSUME NEW t \in Turns, PostTurn(t)
       PROVE  AllOrderly'
  <2>1. /\ repo' = repo /\ fetched' = fetched /\ prompt' = {}
        /\ history' = [history EXCEPT ![HomeOf[t]] = TurnNoted(@, t)]
    BY <1>12 DEF PostTurn, Goto
  <2>2. /\ EndsWith(log, Reply(t)) /\ Len(log) > 1 /\ log[Len(log) - 1] = User(t)
        /\ \A p \in Processes : Reply(t) \notin ToSet(history[p].rows)
    BY <1>12 DEF PostTurn, LastWriter
  <2>3. ASSUME NEW p \in Processes
        PROVE  Fine(TurnNoted(history[p], t).rows)
    BY <2>2, <1>2, TurnNotedOrderly DEF TypeOK, LogInv, Fine
  <2>4. ASSUME NEW p \in Processes
        PROVE  history'[p].rows = history[p].rows \/ Fine(history'[p].rows)
    BY <2>1, <2>3 DEF TypeOK
  <2> QED
    BY <2>1, <2>4, <1>k
<1>13. ASSUME Tick
       PROVE  AllOrderly'
  <2>1. /\ fetched' = fetched /\ prompt' = {}
        /\ \A p \in Processes : repo'[p] = Aged(repo[p]) /\ history'[p] = Aged(history[p])
    BY <1>13 DEF Tick
  <2>2. ASSUME NEW entry \in Entries
        PROVE  Aged(entry).rows \in {entry.rows, <<>>}
    BY DEF Aged, NoEntry, Entries
  <2>3. ASSUME NEW p \in Processes
        PROVE  /\ repo'[p].rows = repo[p].rows \/ Fine(repo'[p].rows)
               /\ history'[p].rows = history[p].rows \/ Fine(history'[p].rows)
    BY <2>1, <2>2, <1>2, <1>3
  <2> QED
    BY <2>1, <2>3, <1>k
<1>14. ASSUME UNCHANGED vars
       PROVE  AllOrderly'
  BY <1>14, <1>k DEF vars, caches
<1> QED
  BY <1>5, <1>6, <1>7, <1>8, <1>9, <1>10, <1>11, <1>12, <1>13, <1>14, <1>t, MessageTypes
  DEF Next, TurnNext, Writes

LEMMA InitOrder == Init => OrderInv
<1> SUFFICES ASSUME Init
             PROVE  OrderInv
  OBVIOUS
<1>1. log = <<>> /\ ToSet(log) = {}
  BY NoRows DEF Init
<1>2. LogInv
  BY <1>1 DEF LogInv
<1>3. OneWriter /\ LastWriter
  BY DEF Init, OneWriter, LastWriter, InFlight, Callers
<1>4. AllOrderly
  BY DEF Init, AllOrderly, Orderly, NoEntry
<1> QED
  BY <1>2, <1>3, <1>4 DEF OrderInv

LEMMA StepOrder ==
  ASSUME TypeOK, OrderInv, [Next]_vars
  PROVE  OrderInv'
<1>1. LogInv'
  BY LogStep DEF OrderInv
<1>2. CASE Writes
  BY <1>1, <1>2, WriteOrder DEF OrderInv
<1>3. CASE ~Writes
  BY <1>1, <1>3, NotWritten, NoWriteLast, NoWriteOrder DEF OrderInv
<1> QED
  BY <1>2, <1>3

\* As long as never two writers were under way at once, no prompt repeats a
\* message or has two in another order than the conversation: the caches may be
\* appended to by checks of their last row only, and lists of SELECTs may come
\* late.
THEOREM PromptsKeepTheOrder == Spec => []DisorderNeedsOverlap
<1>1. OrderInv /\ TypeOK => DisorderNeedsOverlap
  <2>1. SUFFICES ASSUME OrderInv, TypeOK, ~overlapped, NEW given \in prompt,
                        NEW i \in DOMAIN given.rows, NEW j \in DOMAIN given.rows, i < j
                 PROVE  Position(given.rows[i]) < Position(given.rows[j])
    BY DEF DisorderNeedsOverlap
  <2>2. Orderly(given.rows, log)
    BY <2>1 DEF OrderInv, AllOrderly
  <2>3. ASSUME NEW k \in DOMAIN given.rows
        PROVE  /\ Position(given.rows[k]) \in DOMAIN log
               /\ log[Position(given.rows[k])] = given.rows[k]
    BY <2>2 DEF Orderly, Position
  <2> QED
    BY <2>1, <2>2, <2>3 DEF Orderly
<1>2. TypeOK /\ OrderInv /\ [Next]_vars => OrderInv'
  BY StepOrder
<1> QED
  BY <1>1, <1>2, InitOrder, TypeCorrect, PTL DEF Spec

=============================================================================
