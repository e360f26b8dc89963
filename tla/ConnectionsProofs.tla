-------------------------- MODULE ConnectionsProofs --------------------------
(***************************************************************************)
(* What the pool of connections promises for any requests and sockets, any *)
(* layers and any size.                                                    *)
(***************************************************************************)
EXTENDS Connections, FiniteSetTheorems, TLAPS

(***************************************************************************)
(* The inductive invariant                                                 *)
(***************************************************************************)
\* What a call can be doing, by its kind.
Suits(a, step) ==
  /\ a \in Plain => step \in {"idle", "open", "replying", "done"}
  /\ a \in Turns => step \in {"idle", "open", "context", "replying", "done"}
  /\ a \in Streams => step \in {"idle", "open", "context", "replying", "left", "done"}
  /\ a \in Chats =>
       step \in {"idle", "open", "loading", "planning", "context", "replying", "saving",
                 "left", "done"}
  /\ a \in Sockets =>
       step \in {"idle", "auth", "intro", "pending", "replay", "loop", "reload", "planning",
                 "context", "replying", "closing", "done"}

Progress == \A a \in Actors : Suits(a, pc[a])

\* A connection is taken, or waited for, by a call that is about to give it
\* back: in every state of a call only some uses are possible.
Fits(u) ==
  \/ u[2] = "base" /\ pc[u[1]] \notin {"idle", "left", "done"}
  \/ /\ u[2] = "own"
     /\ \/ pc[u[1]] \in {"loading", "planning", "context", "saving",
                         "auth", "intro", "pending", "replay", "reload"}
        \/ u[1] \in Sockets /\ pc[u[1]] = "replying"
  \/ u[2] = "beat" /\ beat[u[1]] = "delivering"
  \/ u[2] \in Layers /\ pc[u[1]] \in {"context", "left"}

UsesFit == \A u \in waiting \cup held : Fits(u)

\* What a call keeps while it goes on.
Keeps ==
  /\ \A r \in Requests : pc[r] \notin {"idle", "open", "left", "done"} => Base(r) \in held
  /\ \A a \in Chats \cup Sockets : pc[a] = "context" => Own(a) \in held
  /\ \A s \in Sockets : pc[s] = "replying" => Own(s) \in held

\* The heartbeat of a socket lives from its admission to its close, which
\* forgets the socket unless the heartbeat is broken.
BeatsFit ==
  /\ \A s \in Sockets : pc[s] \in {"idle", "auth"} => beat[s] = "off" /\ s \notin registry
  /\ \A s \in Sockets :
       pc[s] = "done" => beat[s] \in {"off", "over", "broken"}
                         /\ (s \in registry => beat[s] = "broken")
  /\ \A s \in Sockets : beat[s] = "broken" => s \in gone

IInv == TypeOK /\ Progress /\ UsesFit /\ Keeps /\ BeatsFit

(***************************************************************************)
(* Types                                                                   *)
(***************************************************************************)
LEMMA Kinds ==
  /\ \A r \in Requests : r \in Actors /\ Base(r) \in Uses
  /\ \A a \in Chats \cup Sockets : a \in Actors /\ a \in Planners /\ Own(a) \in Uses
  /\ \A a \in Planners : a \in Actors /\ LayerUses(a) \subseteq Uses
  /\ \A s \in Sockets : s \in Actors /\ s \notin Requests /\ Beat(s) \in Uses
  /\ \A a \in Actors : a \in Plain \/ a \in Turns \/ a \in Streams \/ a \in Chats \/ a \in Sockets
BY ActorsAssumption DEF Requests, Actors, Planners, Uses, LayerUses

LEMMA UseKinds ==
  ASSUME NEW u \in Uses
  PROVE  \/ \E r \in Requests : u = Base(r)
         \/ \E a \in Chats \cup Sockets : u = Own(a)
         \/ \E a \in Planners : u \in LayerUses(a)
         \/ \E s \in Sockets : u = Beat(s)
BY DEF Uses, LayerUses

\* A use is of one kind.
LEMMA UseNames ==
  /\ \A a : /\ Base(a)[1] = a /\ Base(a)[2] = "base"
            /\ Own(a)[1] = a /\ Own(a)[2] = "own"
            /\ Beat(a)[1] = a /\ Beat(a)[2] = "beat"
  /\ \A a : \A u \in LayerUses(a) : u[1] = a /\ u[2] \in Layers
  /\ "base" \notin Layers /\ "own" \notin Layers /\ "beat" \notin Layers
BY LayersAssumption DEF Base, Own, Beat, LayerUses

LEMMA LayersOf ==
  ASSUME NEW u \in Uses, u[2] \in Layers
  PROVE  u \in LayerUses(u[1])
BY UseKinds, UseNames DEF LayerUses

LEMMA OwnersOf ==
  ASSUME NEW u \in Uses, u[2] = "own"
  PROVE  u[1] \in Chats \cup Sockets
BY UseKinds, UseNames

LEMMA InitIInv == Init => IInv
<1> SUFFICES ASSUME Init
             PROVE  IInv
  OBVIOUS
<1>1. TypeOK
  BY DEF Init, TypeOK, Pc, BeatState
<1>2. Progress
  BY DEF Init, Progress, Suits
<1>3. UsesFit /\ Keeps /\ BeatsFit
  BY Kinds DEF Init, UsesFit, Keeps, BeatsFit
<1> QED
  BY <1>1, <1>2, <1>3 DEF IInv

\* The steps of a call, one by one.
Step(a) ==
  \/ a \in Requests /\ (RequestStep(a) \/ Leave(a) \/ Raise(a))
  \/ a \in Planners /\ PlanStep(a)
  \/ a \in Sockets /\ (SocketStep(a) \/ BeatStep(a) \/ HangUp(a) \/ HeartbeatCloses(a))

LEMMA StepCases ==
  ASSUME [Next]_vars
  PROVE  \/ \E u \in waiting : Grant(u)
         \/ \E a \in Actors : Step(a)
         \/ UNCHANGED vars
BY Kinds DEF Next, Step

\* Somewhere that a call of its kind can go.
Goes(a) == \E step \in Pc : Suits(a, step) /\ Goto(a, step)

LEMMA StepGoes ==
  ASSUME IInv, NEW a \in Actors, Step(a)
  PROVE  Goes(a) \/ pc' = pc
<1> USE DEF IInv
<1>1. pc[a] \in Pc /\ Suits(a, pc[a])
  BY DEF Progress, TypeOK
<1>2. ASSUME NEW step \in Pc, Suits(a, step), Goto(a, step)
      PROVE  Goes(a)
  BY <1>2 DEF Goes
<1>k. /\ a \in Plain => a \notin Turns \cup Streams \cup Chats \cup Sockets
      /\ a \in Turns => a \notin Streams \cup Chats \cup Sockets
      /\ a \in Streams => a \notin Chats \cup Sockets
      /\ a \in Chats => a \notin Sockets
  BY ActorsAssumption DEF Planners
<1>3. CASE a \in Requests /\ (RequestStep(a) \/ Leave(a) \/ Raise(a))
  <2>1. /\ \A step \in {"open", "replying", "done"} :
             Goto(a, step) /\ a \in Plain \cup Turns \cup Streams \cup Chats => Goes(a)
        /\ \A step \in {"loading", "planning", "saving", "left"} :
             Goto(a, step) /\ a \in Chats => Goes(a)
        /\ a \in Streams /\ Goto(a, "left") => Goes(a)
    BY <1>2, <1>k DEF Suits, Pc
  <2>2. a \in Plain \cup Turns \cup Streams \cup Chats
    BY <1>3 DEF Requests
  <2>3. pc[a] = "loading" \/ pc[a] = "saving" => a \in Chats
    BY <1>1, <2>2 DEF Suits
  <2> QED
    BY <1>3, <2>1, <2>2, <2>3
    DEF RequestStep, Leave, Raise, Arrive, Handle, Answer, Load, StartStream, Save, FinishChat, Abandon
<1>4. CASE a \in Planners /\ PlanStep(a)
  <2>1. \A step \in {"context", "replying"} : Goto(a, step) => Goes(a)
    BY <1>4, <1>2, <1>k DEF Suits, Pc, Planners
  <2> QED
    BY <1>4, <2>1 DEF PlanStep, Gather, Reply, EndLayer
<1>5. CASE a \in Sockets /\ SocketStep(a)
  <2>1. \A step \in {"auth", "intro", "pending", "replay", "loop", "reload", "planning",
                     "closing", "done"} : Goto(a, step) => Goes(a)
    BY <1>5, <1>2, <1>k DEF Suits, Pc
  <2> QED
    BY <1>5, <2>1
    DEF SocketStep, Connect, Refuse, Admit, Greet, Receive, StartTurn, EndTurn, Disconnected, Close
<1>6. CASE a \in Sockets /\ (BeatStep(a) \/ HangUp(a) \/ HeartbeatCloses(a))
  BY <1>6 DEF BeatStep, Wake, Delivered, HangUp, HeartbeatCloses
<1> QED
  BY <1>3, <1>4, <1>5, <1>6 DEF Step

LEMMA StepProgress ==
  ASSUME IInv, [Next]_vars
  PROVE  Progress' /\ pc' \in [Actors -> Pc]
<1>1. ASSUME NEW a \in Actors, Goes(a)
      PROVE  Progress' /\ pc' \in [Actors -> Pc]
  <2>1. PICK step \in Pc : Suits(a, step) /\ pc' = [pc EXCEPT ![a] = step]
    BY <1>1 DEF Goes, Goto
  <2>2. \A b \in Actors : pc'[b] = pc[b] \/ (b = a /\ pc'[b] = step)
    BY <2>1 DEF IInv, TypeOK
  <2> QED
    BY <2>1, <2>2 DEF IInv, TypeOK, Progress, Suits
<1>2. ASSUME pc' = pc
      PROVE  Progress' /\ pc' \in [Actors -> Pc]
  BY <1>2 DEF IInv, TypeOK, Progress, Suits
<1>3. (\E u \in waiting : Grant(u)) \/ UNCHANGED vars => pc' = pc
  BY DEF Grant, vars
<1> QED
  BY <1>1, <1>2, <1>3, StepCases, StepGoes

(***************************************************************************)
(* Connections and their users                                             *)
(***************************************************************************)
\* A set of uses that a call asks for is not held, one that it renews is.
Asks(S) == S \subseteq Uses /\ S \cap held = {} /\ Ask(S)
Renews(u) == u \in held /\ Renew(u)

Pools == waiting \subseteq Uses /\ held \subseteq Uses /\ waiting \cap held = {}

LEMMA PoolSteps ==
  ASSUME Pools
  PROVE  /\ \A S : Asks(S) \/ Release(S) \/ Drop(S) => Pools'
         /\ \A u : Renews(u) => Pools'
         /\ UNCHANGED pool => Pools'
BY DEF Pools, Asks, Renews, Ask, Release, Drop, Renew, pool

\* What a call leaves for others to see: its own uses fit its state.
StaysFit(a) ==
  /\ Pools'
  /\ \A u \in waiting' \cup held' : u[1] # a => u \in waiting \cup held
  /\ \A u \in waiting' \cup held' : u[1] = a => Fits(u)'
  /\ \A u \in held : u[1] # a => u \in held'

\* To see that, look at the uses that stay and those that are asked for.
LEMMA AskFits ==
  ASSUME Pools, NEW a, NEW S, Asks(S), \A u \in S : u[1] = a /\ Fits(u)',
         \A u \in waiting \cup held : u[1] = a => Fits(u)'
  PROVE  StaysFit(a)
<1>1. Pools'
  BY PoolSteps
<1>2. waiting' = waiting \cup S /\ held' = held
  BY DEF Asks, Ask
<1> QED
  BY <1>1, <1>2 DEF StaysFit

LEMMA RenewFits ==
  ASSUME Pools, NEW a, NEW w, Renews(w), w[1] = a,
         \A u \in waiting \cup held : u[1] = a => Fits(u)'
  PROVE  StaysFit(a)
<1>1. Pools'
  BY PoolSteps
<1>2. waiting' = waiting \cup {w} /\ held' = held \ {w} /\ w \in held
  BY DEF Renews, Renew
<1> QED
  BY <1>1, <1>2 DEF StaysFit

LEMMA ReleaseFits ==
  ASSUME Pools, NEW a, NEW S, Drop(S) \/ (Release(S) /\ S \subseteq held),
         \A u \in S : u[1] = a,
         \A u \in waiting \cup held : u[1] = a /\ u \notin S => Fits(u)'
  PROVE  StaysFit(a)
<1>1. Pools'
  BY PoolSteps
<1>2. waiting' = waiting \ S /\ held' = held \ S
  BY DEF Drop, Release, Pools
<1> QED
  BY <1>1, <1>2 DEF StaysFit

LEMMA KeepFits ==
  ASSUME Pools, NEW a, UNCHANGED pool,
         \A u \in waiting \cup held : u[1] = a => Fits(u)'
  PROVE  StaysFit(a)
<1>1. Pools'
  BY PoolSteps
<1>2. waiting' = waiting /\ held' = held
  BY DEF pool
<1> QED
  BY <1>1, <1>2 DEF StaysFit

LEMMA RequestUses ==
  ASSUME IInv, NEW r \in Requests, RequestStep(r) \/ Leave(r) \/ Raise(r)
  PROVE  StaysFit(r)
<1> USE DEF IInv
<1>k. /\ r \in Actors /\ r \notin Sockets
      /\ r \in Plain \cup Turns \cup Streams \cup Chats
      /\ Base(r) \in Uses /\ (r \in Chats => Own(r) \in Uses)
  BY Kinds DEF Requests
<1>p. /\ Pools
      /\ pc[r] \in Pc /\ Suits(r, pc[r])
      /\ \A u \in waiting \cup held : u[1] = r => Fits(u)
      /\ pc[r] \notin {"idle", "open", "left", "done"} => Base(r) \in held
  BY <1>k DEF TypeOK, Pools, Progress, UsesFit, Keeps
<1>q. \A u \in waiting \cup held : u[1] = r => u \in Uses
  BY <1>p DEF Pools
<1>u. /\ Base(r)[1] = r /\ Base(r)[2] = "base" /\ Own(r)[1] = r /\ Own(r)[2] = "own"
      /\ \A u \in Uses : u[1] = r => u = Base(r) \/ u = Own(r) \/ u[2] \in Layers
      /\ "base" \notin Layers /\ "own" \notin Layers /\ "beat" \notin Layers
  BY <1>k, UseNames, UseKinds, Kinds
<1>g. \A step : Goto(r, step) => pc'[r] = step
  BY <1>k DEF Goto, TypeOK
<1>1. CASE Arrive(r)
  <2>1. Asks({Base(r)}) /\ pc'[r] = "open" /\ pc[r] = "idle"
    BY <1>1, <1>k, <1>p, <1>u, <1>g DEF Arrive, Asks, Fits
  <2>2. /\ \A u \in {Base(r)} : u[1] = r /\ Fits(u)'
        /\ \A u \in waiting \cup held : u[1] = r => Fits(u)'
    BY <2>1, <1>k, <1>p, <1>q, <1>u DEF Fits
  <2> QED
    BY <2>1, <2>2, <1>p, AskFits
<1>2. CASE Handle(r)
  <2>1. Asks({}) /\ pc'[r] = "replying" /\ pc[r] = "open"
    BY <1>2, <1>g DEF Handle, GetDb, Asks
  <2>2. \A u \in waiting \cup held : u[1] = r => Fits(u)'
    BY <2>1, <1>k, <1>p, <1>q, <1>u DEF Fits
  <2> QED
    BY <2>1, <2>2, <1>p, AskFits
<1>3. CASE Answer(r)
  <2>1. Release({Base(r)}) /\ pc'[r] = "done" /\ pc[r] = "replying" /\ Base(r) \in held
    BY <1>3, <1>p, <1>g DEF Answer, GetDb
  <2>2. \A u \in waiting \cup held : u[1] = r /\ u \notin {Base(r)} => Fits(u)'
    BY <2>1, <1>k, <1>p, <1>q, <1>u DEF Fits
  <2> QED
    BY <2>1, <2>2, <1>p, <1>u, ReleaseFits
<1>4. CASE Load(r)
  <2>1. Asks({Own(r)}) /\ pc'[r] = "loading" /\ pc[r] = "open"
    BY <1>4, <1>k, <1>p, <1>u, <1>g DEF Load, Asks, Fits
  <2>2. /\ \A u \in {Own(r)} : u[1] = r /\ Fits(u)'
        /\ \A u \in waiting \cup held : u[1] = r => Fits(u)'
    BY <2>1, <1>k, <1>p, <1>q, <1>u DEF Fits
  <2> QED
    BY <2>1, <2>2, <1>p, AskFits
<1>5. CASE StartStream(r)
  <2>1. Renews(Own(r)) /\ pc'[r] = "planning" /\ pc[r] = "loading"
    BY <1>5, <1>g DEF StartStream, Renews, Has
  <2>2. \A u \in waiting \cup held : u[1] = r => Fits(u)'
    BY <2>1, <1>k, <1>p, <1>q, <1>u DEF Fits
  <2> QED
    BY <2>1, <2>2, <1>p, <1>u, RenewFits
<1>6. CASE Save(r)
  <2>1. Asks({Own(r)}) /\ pc'[r] = "saving" /\ pc[r] = "replying"
    BY <1>6, <1>k, <1>p, <1>u, <1>g DEF Save, Asks, Fits
  <2>2. /\ \A u \in {Own(r)} : u[1] = r /\ Fits(u)'
        /\ \A u \in waiting \cup held : u[1] = r => Fits(u)'
    BY <2>1, <1>k, <1>p, <1>q, <1>u DEF Fits
  <2> QED
    BY <2>1, <2>2, <1>p, AskFits
<1>7. CASE FinishChat(r)
  <2>1. /\ Release({Own(r), Base(r)}) /\ {Own(r), Base(r)} \subseteq held
        /\ pc'[r] = "done" /\ pc[r] = "saving"
    BY <1>7, <1>p, <1>g DEF FinishChat, Has
  <2>2. \A u \in waiting \cup held : u[1] = r /\ u \notin {Own(r), Base(r)} => Fits(u)'
    BY <2>1, <1>k, <1>p, <1>q, <1>u DEF Fits
  <2>3. \A u \in {Own(r), Base(r)} : u[1] = r
    BY <1>u
  <2> QED
    BY <2>1, <2>2, <2>3, <1>p, ReleaseFits
<1>8. CASE Leave(r)
  <2>1. Drop({Base(r), Own(r)}) /\ pc'[r] = "left"
    BY <1>8, <1>g DEF Leave
  <2>2. \A u \in waiting \cup held : u[1] = r /\ u \notin {Base(r), Own(r)} =>
           u[2] \in Layers /\ pc[r] \in {"context", "left"}
    BY <1>p, <1>q, <1>u DEF Fits
  <2>3. \A u \in waiting \cup held : u[1] = r /\ u \notin {Base(r), Own(r)} => Fits(u)'
    BY <2>1, <2>2 DEF Fits
  <2> QED
    BY <2>1, <2>3, <1>p, <1>u, ReleaseFits
<1>9. CASE Abandon(r)
  <2>1. UNCHANGED pool /\ pc'[r] = "done" /\ pc[r] = "left" /\ NoLayers(r)
    BY <1>9, <1>g DEF Abandon
  <2>2. \A u \in waiting \cup held : u[1] = r => u[2] \in Layers
    BY <2>1, <1>p, <1>q, <1>u DEF Fits
  <2>3. \A u \in waiting \cup held : u[1] # r
    BY <2>1, <2>2, <1>q, LayersOf DEF NoLayers
  <2> QED
    BY <2>1, <2>3, <1>p, KeepFits
<1>10. CASE Raise(r)
  <2>1. Release({Base(r), Own(r)}) /\ pc'[r] = "done"
    BY <1>10, <1>g DEF Raise
  <2>2. \A u \in {Base(r), Own(r)} \cap waiting : FALSE
    BY <1>10, <1>p, <1>q, <1>u, <1>k DEF Raise, Has, Fits, Pools
  <2>3. \A u \in waiting \cup held : u[1] = r => u \in {Base(r), Own(r)}
    BY <1>10, <1>p, <1>q, <1>u, <1>k DEF Raise, Fits
  <2>4. Drop({Base(r), Own(r)})
    BY <2>1, <2>2 DEF Release, Drop
  <2> QED
    BY <2>3, <2>4, <1>p, <1>u, ReleaseFits
<1> QED
  BY <1>1, <1>2, <1>3, <1>4, <1>5, <1>6, <1>7, <1>8, <1>9, <1>10 DEF RequestStep

LEMMA PlanUses ==
  ASSUME IInv, NEW a \in Planners, PlanStep(a)
  PROVE  StaysFit(a)
<1> USE DEF IInv
<1>k. /\ a \in Actors /\ LayerUses(a) \subseteq Uses
      /\ a \in Turns \cup Streams \cup Chats \cup Sockets
      /\ a \in Turns \cup Streams \cup Chats => a \notin Sockets
  BY Kinds, ActorsAssumption DEF Planners
<1>p. /\ Pools
      /\ \A u \in waiting \cup held : u[1] = a => u \in Uses /\ Fits(u)
  BY DEF TypeOK, Pools, UsesFit
<1>u. /\ \A u \in LayerUses(a) : u[1] = a /\ u[2] \in Layers
      /\ "base" \notin Layers /\ "own" \notin Layers /\ "beat" \notin Layers
      /\ Own(a)[1] = a /\ Own(a)[2] = "own"
      /\ \A u \in Uses : u[1] = a /\ u[2] = "own" => u = Own(a)
  BY UseNames, UseKinds
<1>g. \A step : Goto(a, step) => pc'[a] = step
  BY <1>k DEF Goto, TypeOK
<1>1. CASE Gather(a)
  <2>1. /\ Ask(LayerUses(a)) /\ pc'[a] = "context" /\ pc[a] \in {"open", "planning"}
        /\ beat' = beat
    BY <1>1, <1>g DEF Gather, socket
  <2>2. Asks(LayerUses(a))
    BY <2>1, <1>k, <1>p, <1>u DEF Asks, Fits
  <2>3. \A u \in LayerUses(a) : u[1] = a /\ Fits(u)'
    BY <2>1, <1>u DEF Fits
  <2>4. \A u \in waiting \cup held : u[1] = a => Fits(u)'
    BY <2>1, <1>p, <1>u DEF Fits
  <2> QED
    BY <2>2, <2>3, <2>4, <1>p, AskFits
<1>2. ASSUME NEW l \in Layers, EndLayer(a, l)
      PROVE  StaysFit(a)
  <2>1. /\ Release({<<a, l>>}) /\ {<<a, l>>} \subseteq held /\ pc' = pc /\ beat' = beat
    BY <1>2 DEF EndLayer, Has, socket
  <2>2. \A u \in waiting \cup held : u[1] = a => Fits(u)'
    BY <2>1, <1>p DEF Fits
  <2> QED
    BY <2>1, <2>2, <1>p, ReleaseFits
<1>3. CASE Reply(a)
  <2>1. /\ NoLayers(a) /\ pc'[a] = "replying" /\ pc[a] = "context" /\ beat' = beat
        /\ a \in Chats => Release({Own(a)}) /\ Own(a) \in held
        /\ a \notin Chats => UNCHANGED pool
    BY <1>3, <1>g DEF Reply, socket, Keeps
  <2>2. \A u \in waiting \cup held : u[1] = a => u[2] \notin Layers
    BY <2>1, <1>p, LayersOf DEF NoLayers
  <2>3. \A u \in waiting \cup held : u[1] = a /\ (a \in Sockets \/ u # Own(a)) => Fits(u)'
    BY <2>1, <2>2, <1>k, <1>p, <1>u DEF Fits
  <2>4. CASE a \in Chats
    BY <2>1, <2>3, <2>4, <1>p, <1>u, ReleaseFits
  <2>5. CASE a \notin Chats
    <3>1. \A u \in waiting \cup held : u[1] = a /\ u = Own(a) => a \in Sockets
      BY <2>5, <1>k, <1>p, <1>u, OwnersOf
    <3> QED
      BY <2>1, <2>3, <2>5, <3>1, <1>p, KeepFits
  <2> QED
    BY <2>4, <2>5
<1> QED
  BY <1>1, <1>2, <1>3 DEF PlanStep

LEMMA SocketUses ==
  ASSUME IInv, NEW s \in Sockets, SocketStep(s)
  PROVE  StaysFit(s)
<1> USE DEF IInv
<1>k. s \in Actors /\ Own(s) \in Uses /\ Beat(s) \in Uses
  BY Kinds
<1>p. /\ Pools
      /\ \A u \in waiting \cup held : u[1] = s => Fits(u)
      /\ pc[s] = "replying" => Own(s) \in held
      /\ pc[s] = "auth" => beat[s] = "off"
  BY DEF TypeOK, Pools, UsesFit, Keeps, BeatsFit
<1>q. \A u \in waiting \cup held : u[1] = s => u \in Uses
  BY <1>p DEF Pools
<1>u. /\ Own(s)[1] = s /\ Own(s)[2] = "own" /\ Beat(s)[1] = s /\ Beat(s)[2] = "beat"
      /\ \A u \in Uses : u[1] = s => u = Own(s) \/ u = Beat(s) \/ u[2] \in Layers
      /\ "base" \notin Layers /\ "own" \notin Layers /\ "beat" \notin Layers
  BY UseNames, UseKinds, Kinds
<1>g. \A step : Goto(s, step) => pc'[s] = step
  BY <1>k DEF Goto, TypeOK
<1>1. CASE Connect(s)
  <2>1. Asks({Own(s)}) /\ pc'[s] = "auth" /\ pc[s] = "idle" /\ beat' = beat
    BY <1>1, <1>k, <1>p, <1>u, <1>g DEF Connect, Asks, Fits, socket
  <2>2. /\ \A u \in {Own(s)} : u[1] = s /\ Fits(u)'
        /\ \A u \in waiting \cup held : u[1] = s => Fits(u)'
    BY <2>1, <1>p, <1>q, <1>u DEF Fits
  <2> QED
    BY <2>1, <2>2, <1>p, AskFits
<1>2. CASE Refuse(s)
  <2>1. /\ Release({Own(s)}) /\ Own(s) \in held /\ beat' = beat
        /\ pc'[s] = "done" /\ pc[s] = "auth"
    BY <1>2, <1>g DEF Refuse, Has, socket
  <2>2. \A u \in waiting \cup held : u[1] = s /\ u \notin {Own(s)} => Fits(u)'
    BY <2>1, <1>p, <1>q, <1>u DEF Fits
  <2> QED
    BY <2>1, <2>2, <1>p, <1>u, ReleaseFits
<1>3. CASE Admit(s)
  <2>1. /\ Renews(Own(s)) /\ pc'[s] = "intro" /\ pc[s] = "auth" /\ beat[s] = "off"
    BY <1>3, <1>p, <1>g DEF Admit, Renews, Has
  <2>2. \A u \in waiting \cup held : u[1] = s => Fits(u)'
    BY <2>1, <1>p, <1>q, <1>u DEF Fits
  <2> QED
    BY <2>1, <2>2, <1>p, <1>u, RenewFits
<1>4. CASE Greet(s)
  <2>0. Own(s) \in held /\ beat' = beat
    BY <1>4 DEF Greet, Has, socket
  <2>1. CASE Renew(Own(s)) /\ pc'[s] \in {"pending", "replay"}
    <3>1. \A u \in waiting \cup held : u[1] = s => Fits(u)'
      BY <1>4, <2>0, <2>1, <1>p, <1>q, <1>u DEF Fits, Greet
    <3> QED
      BY <2>0, <2>1, <3>1, <1>p, <1>u, RenewFits DEF Renews
  <2>2. CASE Release({Own(s)}) /\ pc'[s] = "loop"
    <3>1. \A u \in waiting \cup held : u[1] = s /\ u \notin {Own(s)} => Fits(u)'
      BY <1>4, <2>0, <2>2, <1>p, <1>q, <1>u DEF Fits, Greet
    <3> QED
      BY <2>0, <2>2, <3>1, <1>p, <1>u, ReleaseFits
  <2> QED
    BY <1>4, <2>1, <2>2, <1>g DEF Greet
<1>5. CASE Receive(s)
  <2>1. Asks({Own(s)}) /\ pc'[s] = "reload" /\ pc[s] = "loop" /\ beat' = beat
    BY <1>5, <1>k, <1>p, <1>u, <1>g DEF Receive, Asks, Fits, socket
  <2>2. /\ \A u \in {Own(s)} : u[1] = s /\ Fits(u)'
        /\ \A u \in waiting \cup held : u[1] = s => Fits(u)'
    BY <2>1, <1>p, <1>q, <1>u DEF Fits
  <2> QED
    BY <2>1, <2>2, <1>p, AskFits
<1>6. CASE StartTurn(s)
  <2>1. Renews(Own(s)) /\ pc'[s] = "planning" /\ pc[s] = "reload" /\ beat' = beat
    BY <1>6, <1>g DEF StartTurn, Renews, Has, socket
  <2>2. \A u \in waiting \cup held : u[1] = s => Fits(u)'
    BY <2>1, <1>p, <1>q, <1>u DEF Fits
  <2> QED
    BY <2>1, <2>2, <1>p, <1>u, RenewFits
<1>7. CASE EndTurn(s)
  <2>1. /\ Release({Own(s)}) /\ Own(s) \in held /\ beat' = beat
        /\ pc'[s] \in {"closing", "loop"} /\ pc[s] \in {"planning", "replying"}
    BY <1>7, <1>p, <1>g DEF EndTurn, Has, socket
  <2>2. \A u \in waiting \cup held : u[1] = s /\ u \notin {Own(s)} => Fits(u)'
    BY <2>1, <1>p, <1>q, <1>u DEF Fits
  <2> QED
    BY <2>1, <2>2, <1>p, <1>u, ReleaseFits
<1>8. CASE Disconnected(s)
  <2>1. UNCHANGED pool /\ beat' = beat /\ pc'[s] = "closing" /\ pc[s] = "loop"
    BY <1>8, <1>g DEF Disconnected, socket
  <2>2. \A u \in waiting \cup held : u[1] = s => Fits(u)'
    BY <2>1, <1>p, <1>q, <1>u DEF Fits
  <2> QED
    BY <2>1, <2>2, <1>p, KeepFits
<1>9. CASE Close(s)
  <2>1. Drop({Beat(s)}) /\ pc'[s] = "done" /\ pc[s] = "closing"
    BY <1>9, <1>g DEF Close
  <2>2. \A u \in waiting \cup held : u[1] = s /\ u \notin {Beat(s)} => Fits(u)'
    BY <2>1, <1>p, <1>q, <1>u DEF Fits
  <2> QED
    BY <2>1, <2>2, <1>p, <1>u, ReleaseFits
<1> QED
  BY <1>1, <1>2, <1>3, <1>4, <1>5, <1>6, <1>7, <1>8, <1>9 DEF SocketStep

LEMMA BeatUses ==
  ASSUME IInv, NEW s \in Sockets, BeatStep(s) \/ HangUp(s) \/ HeartbeatCloses(s)
  PROVE  StaysFit(s)
<1> USE DEF IInv
<1>k. s \in Actors /\ Beat(s) \in Uses
  BY Kinds
<1>p. /\ Pools
      /\ \A u \in waiting \cup held : u[1] = s => u \in Uses /\ Fits(u)
      /\ beat \in [Sockets -> BeatState]
  BY DEF TypeOK, Pools, UsesFit
<1>u. /\ Beat(s)[1] = s /\ Beat(s)[2] = "beat"
      /\ \A u \in Uses : u[1] = s /\ u[2] = "beat" => u = Beat(s)
      /\ "beat" \notin Layers
  BY UseNames, UseKinds
<1>1. CASE Wake(s)
  <2>1. Ask({Beat(s)}) /\ beat'[s] = "delivering" /\ beat[s] = "sleeping" /\ pc' = pc
    BY <1>1, <1>p DEF Wake
  <2>2. Asks({Beat(s)})
    BY <2>1, <1>k, <1>p, <1>u DEF Asks, Fits
  <2>3. /\ \A u \in {Beat(s)} : u[1] = s /\ Fits(u)'
        /\ \A u \in waiting \cup held : u[1] = s => Fits(u)'
    BY <2>1, <1>p, <1>u DEF Fits
  <2> QED
    BY <2>2, <2>3, <1>p, AskFits
<1>2. CASE Delivered(s)
  <2>1. Release({Beat(s)}) /\ {Beat(s)} \subseteq held /\ pc' = pc
    BY <1>2 DEF Delivered, Has
  <2>2. \A u \in waiting \cup held : u[1] = s /\ u \notin {Beat(s)} => Fits(u)'
    BY <2>1, <1>p, <1>u DEF Fits
  <2> QED
    BY <2>1, <2>2, <1>p, <1>u, ReleaseFits
<1>3. CASE HangUp(s)
  <2>1. UNCHANGED pool /\ beat' = beat /\ pc' = pc
    BY <1>3 DEF HangUp
  <2>2. \A u \in waiting \cup held : u[1] = s => Fits(u)'
    BY <2>1, <1>p DEF Fits
  <2> QED
    BY <2>1, <2>2, <1>p, KeepFits
<1>4. CASE HeartbeatCloses(s)
  <2>1. UNCHANGED pool /\ pc' = pc /\ beat[s] = "sleeping"
    BY <1>4 DEF HeartbeatCloses
  <2>2. \A u \in waiting \cup held : u[1] = s => Fits(u)'
    BY <2>1, <1>p DEF Fits
  <2> QED
    BY <2>1, <2>2, <1>p, KeepFits
<1> QED
  BY <1>1, <1>2, <1>3, <1>4 DEF BeatStep

\* A step is a step of one call.
LEMMA OthersStay ==
  ASSUME IInv, NEW a \in Actors, Step(a)
  PROVE  /\ StaysFit(a)
         /\ \A b \in Actors \ {a} : pc'[b] = pc[b]
         /\ \A b \in Sockets \ {a} : /\ beat'[b] = beat[b]
                                     /\ b \in gone' <=> b \in gone
                                     /\ b \in registry' <=> b \in registry
<1> USE DEF IInv
<1>1. ASSUME a \in Requests, RequestStep(a) \/ Leave(a) \/ Raise(a)
      PROVE  /\ \A b \in Actors \ {a} : pc'[b] = pc[b]
             /\ beat' = beat /\ gone' = gone /\ registry' = registry
  BY <1>1
  DEF RequestStep, Leave, Raise, Arrive, Handle, Answer, Load, StartStream, Save, FinishChat, Abandon,
      Goto, socket, TypeOK
<1>2. ASSUME a \in Planners, PlanStep(a)
      PROVE  /\ \A b \in Actors \ {a} : pc'[b] = pc[b]
             /\ beat' = beat /\ gone' = gone /\ registry' = registry
  BY <1>2 DEF PlanStep, Gather, Reply, EndLayer, Goto, socket, TypeOK
<1>3. ASSUME a \in Sockets, SocketStep(a)
      PROVE  /\ \A b \in Actors \ {a} : pc'[b] = pc[b]
             /\ \A b \in Sockets \ {a} : /\ beat'[b] = beat[b]
                                         /\ b \in registry' <=> b \in registry
             /\ gone' = gone
  BY <1>3
  DEF SocketStep, Connect, Refuse, Admit, Greet, Receive, StartTurn, EndTurn, Disconnected,
      Close, Goto, socket, TypeOK
<1>4. ASSUME a \in Sockets, BeatStep(a) \/ HangUp(a) \/ HeartbeatCloses(a)
      PROVE  /\ pc' = pc /\ registry' = registry
             /\ \A b \in Sockets \ {a} : /\ beat'[b] = beat[b]
                                         /\ b \in gone' <=> b \in gone
  BY <1>4 DEF BeatStep, Wake, Delivered, HangUp, HeartbeatCloses, TypeOK
<1> QED
  BY <1>1, <1>2, <1>3, <1>4, RequestUses, PlanUses, SocketUses, BeatUses DEF Step

LEMMA GrantUses ==
  ASSUME IInv, NEW w \in waiting, Grant(w)
  PROVE  Pools' /\ UsesFit' /\ Keeps' /\ BeatsFit'
<1> USE DEF IInv
<1>1. /\ waiting' = waiting \ {w} /\ held' = held \cup {w}
      /\ pc' = pc /\ beat' = beat /\ gone' = gone /\ registry' = registry
  BY DEF Grant, socket
<1>2. Pools'
  BY <1>1 DEF Pools, TypeOK
<1>3. UsesFit'
  BY <1>1 DEF UsesFit, Fits
<1>4. Keeps' /\ BeatsFit'
  BY <1>1 DEF Keeps, BeatsFit
<1> QED
  BY <1>2, <1>3, <1>4

LEMMA StepUsesFit ==
  ASSUME IInv, NEW a \in Actors, Step(a)
  PROVE  Pools' /\ UsesFit'
<1>1. StaysFit(a)
  BY OthersStay
<1>2. ASSUME NEW u \in waiting' \cup held'
      PROVE  Fits(u)'
  <2>1. CASE u[1] = a
    BY <1>1, <1>2, <2>1 DEF StaysFit
  <2>2. CASE u[1] # a
    <3>1. u \in waiting \cup held /\ u \in Uses
      BY <1>1, <1>2, <2>2 DEF StaysFit, IInv, TypeOK
    <3>2. u[1] \in Actors /\ (u[2] = "beat" => u[1] \in Sockets)
      BY <3>1, UseKinds, UseNames, Kinds
    <3>3. Fits(u)
      BY <3>1 DEF IInv, UsesFit
    <3>4. pc'[u[1]] = pc[u[1]] /\ (u[2] = "beat" => beat'[u[1]] = beat[u[1]])
      BY <2>2, <3>2, OthersStay
    <3> QED
      BY <3>3, <3>4 DEF Fits
  <2> QED
    BY <2>1, <2>2
<1> QED
  BY <1>1, <1>2 DEF StaysFit, UsesFit

\* What a call keeps, it gives back at its end only.
LEMMA OwnKeeps ==
  ASSUME IInv, NEW a \in Actors, Step(a)
  PROVE  /\ a \in Requests /\ pc'[a] \notin {"idle", "open", "left", "done"} => Base(a) \in held'
         /\ a \in Chats \cup Sockets /\ pc'[a] = "context" => Own(a) \in held'
         /\ a \in Sockets /\ pc'[a] = "replying" => Own(a) \in held'
<1> USE DEF IInv
<1>g. \A step : Goto(a, step) => pc'[a] = step
  BY DEF Goto, TypeOK
<1>k. /\ a \in Requests /\ pc[a] \notin {"idle", "open", "left", "done"} => Base(a) \in held
      /\ a \in Chats \cup Sockets /\ pc[a] = "context" => Own(a) \in held
      /\ a \in Sockets /\ pc[a] = "replying" => Own(a) \in held
      /\ Base(a) # Own(a) /\ Base(a) # Beat(a) /\ Own(a) # Beat(a)
      /\ a \in Requests => a \notin Sockets
      /\ \A l \in Layers : <<a, l>> # Base(a) /\ <<a, l>> # Own(a)
  BY Kinds, UseNames, LayersAssumption DEF Keeps, Base, Own, Beat
<1>1. CASE a \in Requests /\ (RequestStep(a) \/ Leave(a) \/ Raise(a))
  <2>1. pc'[a] # "context"
    BY <1>1, <1>g
    DEF RequestStep, Leave, Raise, Arrive, Handle, Answer, Load, StartStream, Save, FinishChat, Abandon
  <2>2. pc'[a] \in {"open", "done", "left"} \/ (Base(a) \in held /\ held \ {Own(a)} \subseteq held')
    BY <1>1, <1>g, <1>k
    DEF RequestStep, Leave, Raise, Arrive, Handle, Answer, Load, StartStream, Save, FinishChat, Abandon,
        GetDb, Ask, Renew, Has
  <2> QED
    BY <1>1, <1>k, <2>1, <2>2
<1>2. CASE a \in Planners /\ PlanStep(a)
  <2>1. CASE Gather(a)
    <3>1. held' = held /\ pc'[a] = "context"
      BY <2>1, <1>g DEF Gather, Ask
    <3>2. /\ a \in Requests => Base(a) \in held
          /\ a \in Chats \cup Sockets => Own(a) \in held
      BY <2>1, <1>k, ActorsAssumption DEF Gather, Has, Requests
    <3> QED
      BY <3>1, <3>2
  <2>2. ASSUME NEW l \in Layers, EndLayer(a, l)
        PROVE  pc' = pc /\ held' = held \ {<<a, l>>}
    BY <2>2 DEF EndLayer, Release
  <2>3. CASE Reply(a)
    <3>1. /\ pc'[a] = "replying" /\ pc[a] = "context" /\ held \ {Own(a)} \subseteq held'
          /\ a \notin Chats => held' = held
      BY <2>3, <1>g DEF Reply, Release, pool
    <3>2. a \in Sockets => a \notin Chats
      BY ActorsAssumption
    <3> QED
      BY <3>1, <3>2, <1>k
  <2> QED
    BY <1>2, <1>k, <2>1, <2>2, <2>3 DEF PlanStep
<1>3. CASE a \in Sockets /\ SocketStep(a)
  <2>1. pc'[a] \notin {"context", "replying"}
    BY <1>3, <1>g
    DEF SocketStep, Connect, Refuse, Admit, Greet, Receive, StartTurn, EndTurn, Disconnected, Close
  <2> QED
    BY <1>3, <1>k, <2>1
<1>4. CASE a \in Sockets /\ (BeatStep(a) \/ HangUp(a) \/ HeartbeatCloses(a))
  <2>1. pc' = pc /\ held \ {Beat(a)} \subseteq held'
    BY <1>4 DEF BeatStep, Wake, Delivered, HangUp, HeartbeatCloses, Ask, Release, pool
  <2> QED
    BY <1>4, <1>k, <2>1
<1> QED
  BY <1>1, <1>2, <1>3, <1>4 DEF Step

LEMMA StepKeeps ==
  ASSUME IInv, NEW a \in Actors, Step(a)
  PROVE  Keeps'
<1>1. /\ \A b \in Actors \ {a} : pc'[b] = pc[b]
      /\ \A u \in held : u[1] # a => u \in held'
  BY OthersStay DEF StaysFit
<1>2. \A b : Base(b)[1] = b /\ Own(b)[1] = b
  BY UseNames
<1>3. Keeps
  BY DEF IInv
<1> QED
  BY <1>1, <1>2, <1>3, OwnKeeps, Kinds DEF Keeps

LEMMA StepBeats ==
  ASSUME IInv, NEW a \in Actors, Step(a)
  PROVE  /\ BeatsFit' /\ beat' \in [Sockets -> BeatState]
         /\ gone' \subseteq Sockets /\ registry' \subseteq Sockets
<1> USE DEF IInv
<1>1. /\ \A b \in Actors \ {a} : pc'[b] = pc[b]
      /\ \A b \in Sockets \ {a} : /\ beat'[b] = beat[b]
                                  /\ b \in gone' <=> b \in gone
                                  /\ b \in registry' <=> b \in registry
  BY OthersStay
<1>g. \A step : Goto(a, step) => pc'[a] = step
  BY DEF Goto, TypeOK
<1>k. \A s \in Sockets : s \in Actors /\ s \notin Requests
  BY Kinds
<1>2. CASE a \in Requests /\ (RequestStep(a) \/ Leave(a) \/ Raise(a))
  <2>1. beat' = beat /\ gone' = gone /\ registry' = registry
    BY <1>2
    DEF RequestStep, Leave, Raise, Arrive, Handle, Answer, Load, StartStream, Save, FinishChat, Abandon,
        socket
  <2> QED
    BY <1>1, <1>2, <1>k, <2>1 DEF BeatsFit, TypeOK
<1>3. CASE a \in Planners /\ PlanStep(a)
  <2>1. /\ beat' = beat /\ gone' = gone /\ registry' = registry
        /\ pc'[a] = pc[a] \/ pc'[a] \in {"context", "replying"}
    BY <1>3, <1>g DEF PlanStep, Gather, Reply, EndLayer, socket
  <2> QED
    BY <1>1, <1>k, <2>1 DEF BeatsFit, TypeOK
<1>4. CASE a \in Sockets /\ SocketStep(a)
  <2>1. CASE Admit(a)
    <3>1. /\ pc'[a] = "intro" /\ pc[a] = "auth" /\ gone' = gone /\ registry' = registry \cup {a}
          /\ beat' = [beat EXCEPT ![a] = "sleeping"]
      BY <2>1, <1>g DEF Admit
    <3> QED
      BY <1>1, <1>4, <1>k, <3>1 DEF BeatsFit, TypeOK, BeatState
  <2>2. CASE Close(a)
    <3>1. /\ pc'[a] = "done" /\ gone' = gone
          /\ beat' = [beat EXCEPT ![a] = IF @ = "broken" THEN @ ELSE "over"]
          /\ registry' = IF beat[a] = "broken" THEN registry ELSE registry \ {a}
      BY <2>2, <1>g DEF Close
    <3>2. beat'[a] \in {"over", "broken"} /\ (beat'[a] = "broken" <=> beat[a] = "broken")
      BY <1>4, <3>1 DEF TypeOK
    <3>3. a \in registry' => beat[a] = "broken"
      BY <3>1
    <3>4. beat' \in [Sockets -> BeatState]
      BY <1>4, <3>1 DEF TypeOK, BeatState
    <3> QED
      BY <1>1, <1>4, <1>k, <3>1, <3>2, <3>3, <3>4 DEF BeatsFit, TypeOK
  <2>3. CASE ~Admit(a) /\ ~Close(a)
    <3>1. /\ beat' = beat /\ gone' = gone /\ registry' = registry
          /\ \/ pc'[a] \notin {"idle", "auth", "done"}
             \/ pc[a] = "idle" /\ pc'[a] = "auth"
             \/ pc[a] = "auth" /\ pc'[a] = "done"
      BY <1>4, <2>3, <1>g
      DEF SocketStep, Connect, Refuse, Greet, Receive, StartTurn, EndTurn, Disconnected, socket
    <3> QED
      BY <1>1, <1>4, <1>k, <3>1 DEF BeatsFit, TypeOK
  <2> QED
    BY <2>1, <2>2, <2>3
<1>5. CASE a \in Sockets /\ (BeatStep(a) \/ HangUp(a) \/ HeartbeatCloses(a))
  <2>1. /\ pc' = pc /\ registry' = registry /\ gone' \in {gone, gone \cup {a}}
        /\ \/ beat' = beat
           \/ /\ beat[a] \in {"sleeping", "delivering"}
              /\ beat' \in [Sockets -> BeatState]
              /\ beat'[a] = "broken" => a \in gone
    BY <1>5 DEF BeatStep, Wake, Delivered, HangUp, HeartbeatCloses, TypeOK, BeatState
  <2> QED
    BY <1>1, <1>5, <1>k, <2>1 DEF BeatsFit, TypeOK
<1> QED
  BY <1>2, <1>3, <1>4, <1>5 DEF Step

LEMMA StepIInv == IInv /\ [Next]_vars => IInv'
<1> SUFFICES ASSUME IInv, [Next]_vars
             PROVE  IInv'
  OBVIOUS
<1>1. Progress' /\ pc' \in [Actors -> Pc]
  BY StepProgress
<1>2. ASSUME NEW a \in Actors, Step(a)
      PROVE  IInv'
  <2>1. Pools' /\ UsesFit' /\ Keeps' /\ BeatsFit'
    BY <1>2, StepUsesFit, StepKeeps, StepBeats
  <2>2. /\ beat' \in [Sockets -> BeatState]
        /\ gone' \subseteq Sockets /\ registry' \subseteq Sockets
    BY <1>2, StepBeats
  <2>3. TypeOK'
    BY <1>1, <2>1, <2>2 DEF TypeOK, Pools
  <2> QED
    BY <1>1, <2>1, <2>3 DEF IInv
<1>3. ASSUME NEW u \in waiting, Grant(u)
      PROVE  IInv'
  <2>1. Pools' /\ UsesFit' /\ Keeps' /\ BeatsFit'
    BY <1>3, GrantUses
  <2>2. beat' = beat /\ gone' = gone /\ registry' = registry
    BY <1>3 DEF Grant, socket
  <2>3. TypeOK'
    BY <1>1, <2>1, <2>2 DEF TypeOK, Pools, IInv
  <2> QED
    BY <1>1, <2>1, <2>3 DEF IInv
<1>4. CASE UNCHANGED vars
  BY <1>4
  DEF vars, IInv, TypeOK, Progress, Suits, UsesFit, Fits, Keeps, BeatsFit
<1> QED
  BY <1>2, <1>3, <1>4, StepCases

THEOREM Invariance == Spec => []IInv
BY InitIInv, StepIInv, PTL DEF Spec

(***************************************************************************)
(* Theorems                                                                *)
(***************************************************************************)
\* The pool, the heartbeats and the registry stay of their types: nobody waits
\* for a connection that it has.
THEOREM TypeCorrect == Spec => []TypeOK
<1>1. IInv => TypeOK
  BY DEF IInv
<1> QED
  BY <1>1, Invariance, PTL

\* However a call ends (an answer, a client that leaves a stream, a socket that
\* either side closes in the middle of a heartbeat), it leaves nothing in the
\* pool and nobody in its queue.
THEOREM CallsLeaveNothing == Spec => []NothingLeftBehind
<1>1. IInv => NothingLeftBehind
  <2>1. SUFFICES ASSUME IInv, NEW a \in Actors, pc[a] = "done", NEW u \in waiting \cup held,
                        u[1] = a
                 PROVE  FALSE
    BY DEF NothingLeftBehind
  <2>2. Fits(u) /\ u \in Uses
    BY <2>1 DEF IInv, UsesFit, TypeOK
  <2>3. u[2] = "beat" => a \in Sockets
    BY <2>1, <2>2, UseKinds, UseNames
  <2> QED
    BY <2>1, <2>2, <2>3 DEF Fits, IInv, BeatsFit
<1> QED
  BY <1>1, Invariance, PTL

\* A socket that is over is in the registry only after a close by its heartbeat
\* that failed because the client had gone.
THEOREM GhostsAreExplained == Spec => []GhostsComeOfFailedCloses
<1>1. IInv => GhostsComeOfFailedCloses
  BY DEF IInv, TypeOK, BeatsFit, GhostsComeOfFailedCloses
<1> QED
  BY <1>1, Invariance, PTL

\* A pool of any size that has one connection more than the calls in progress
\* may keep while they wait is never at a standstill: a holder that waits for
\* another connection holds one of these.
THEOREM LargePoolsGoOn == Spec => []NoStandstillInALargePool
<1>1. IInv => NoStandstillInALargePool
  <2>1. SUFFICES ASSUME IInv, Cardinality(Anchors) < PoolSize, Standstill
                 PROVE  FALSE
    BY DEF NoStandstillInALargePool
  <2>2. ASSUME NEW u \in held
        PROVE  u \in Anchors
    <3>1. u \in Uses /\ Blocked(u)
      BY <2>1, <2>2 DEF IInv, TypeOK, Standstill
    <3>2. PICK w \in waiting : w[1] = u[1] /\ w[2] # "beat"
      BY <3>1 DEF Blocked
    <3>3. w \in Uses /\ w # u
      BY <2>1, <2>2, <3>2 DEF IInv, TypeOK
    <3>4. ASSUME NEW r \in Requests, u = Base(r)
          PROVE  r \in Turns \cup Streams \cup Chats
      <4>1. w[1] = r /\ w # Base(r)
        BY <3>2, <3>3, <3>4, UseNames
      <4>2. r \notin Sockets
        BY Kinds
      <4>3. r \in Chats \/ r \in Planners
        BY <3>2, <3>3, <4>1, <4>2, UseKinds, UseNames
      <4> QED
        BY <4>2, <4>3 DEF Planners
    <3>5. u[2] \notin Layers /\ u[2] # "beat"
      BY <3>1, UseNames DEF Blocked
    <3> QED
      BY <3>1, <3>4, <3>5, UseKinds, UseNames DEF Anchors
  <2>3. IsFiniteSet(Anchors)
    <3>1. IsFiniteSet(Actors)
      BY FiniteAssumption
    <3>2. IsFiniteSet({"base"} \cup {"own"})
      BY FS_Singleton, FS_Union
    <3>3. IsFiniteSet(Actors \X ({"base"} \cup {"own"}))
      BY <3>1, <3>2, FS_Product
    <3>4. Anchors \subseteq Actors \X ({"base"} \cup {"own"})
      BY Kinds DEF Anchors, Requests, Base, Own
    <3> QED
      BY <3>3, <3>4, FS_Subset
  <2>4. Cardinality(held) <= Cardinality(Anchors)
    BY <2>2, <2>3, FS_Subset
  <2>5. Cardinality(Anchors) \in Nat /\ Cardinality(held) \in Nat
    BY <2>2, <2>3, FS_Subset, FS_CardinalityType
  <2> QED
    BY <2>1, <2>4, <2>5, PoolAssumption DEF Standstill
<1> QED
  BY <1>1, Invariance, PTL
=============================================================================
